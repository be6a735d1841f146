SPECIFICATION FairSpec
CONSTANTS
    Maximum = 3
    MaxInt = 4
    MaxChunk = 3
    MaxWritten = 6
CHECK_DEADLOCK FALSE
INVARIANTS
    KeptIsBoundedPrefix
    MetadataIsDeterministic
PROPERTIES
    NothingBlocks
