SPECIFICATION Spec
CONSTANTS
    Names <- MCNames
    Trim <- MCTrim
    Upper <- MCUpper
    Invalid = {"A=B"}
    DefaultNames = {"PATH"}
    MaximumPayloadBytes = 20
    Envelope = 1
    DefaultBytes = 5
    MaximumTimeout = 3
    DefaultTimeout = 2
    Sizes <- MCSizes
    Timeouts <- MCTimeouts
    MaxSlices = 4
    MaxWrites = 1
    None = None
CHECK_DEADLOCK FALSE
INVARIANTS
    AllowlistIsUsable
    EveryOutputIsDelivered
PROPERTIES
    ConfigurationIsPrivate
