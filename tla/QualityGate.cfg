SPECIFICATION Spec
CONSTANTS
    Modes = {"fast", "fmt", "check", "benchmark", "verify", "tools-bootstrap",
             "unknown"}
    Host <- MCHost
    Upper <- MCUpper
    Sensitive = {"API_TOKEN"}
    MaxEdits = 2
    None = None
CHECK_DEADLOCK FALSE
INVARIANTS
    SuccessIsEarned
    ChangeIsReported
    TemporariesAreRemoved
    OfflineUnlessBootstrap
