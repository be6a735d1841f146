SPECIFICATION FairSpec
CONSTANTS
    Calls = {c1, c2}
    Cleaners = {k1, k2}
    MaximumOwnedShells = 2
    NoRecord = NoRecord
PROPERTIES
    ClosingDrains
    CanceledCleanupReturns
    CleanupReturns
