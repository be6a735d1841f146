SPECIFICATION Spec
CONSTANTS
    Names = {"a", "b", "a "}
    Padded = {"a "}
    MaxParts = 4
    MaxSwaps = 2
CHECK_DEADLOCK FALSE
INVARIANTS
    AcceptedStaysInside
    SwapIsNoticed
