SPECIFICATION FairSpec
CONSTANTS
    Calls = {c1, c2}
    Contents = {v1, v2}
    Absent = Absent
    Other = Other
    Torn = Torn
    Nobody = Nobody
    MaximumRenameAttempts = 2
    ExternalWriters = FALSE
    Crashes = TRUE
PROPERTIES
    AtomicFileSpec
    EveryCallIsAnswered
