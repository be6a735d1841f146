SPECIFICATION Spec
CONSTANTS
    Calls = {c1, c2, c3, c4}
    Cleaners = {k1, k2}
    MaximumOwnedShells = 2
    NoRecord = NoRecord
SYMMETRY Symmetry
INVARIANTS
    TypeOK
    UnjoinedProcessBound
    NoOrphan
    JoinIsExclusive
    CleanMeansNothingOwned
PROPERTIES
    CustodySpec
