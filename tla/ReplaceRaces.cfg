SPECIFICATION Spec
CONSTANTS
    Calls = {c1, c2}
    Contents = {v1, v2}
    Absent = Absent
    Other = Other
    Torn = Torn
    Nobody = Nobody
    MaximumRenameAttempts = 2
    ExternalWriters = TRUE
    Crashes = TRUE
SYMMETRY Symmetry
INVARIANTS
    AnswersAreTrue
    LeaseIsExclusive
    TemporaryIsCleaned
PROPERTIES
    CreateNeverOverwrites
    ReplayIsIdempotent
    DurableCommitSurvives
