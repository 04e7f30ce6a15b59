SPECIFICATION Spec
CONSTANTS
    b1 = b1
    s1 = s1
    s2 = s2
    Entries = {b1}
    Exits = {s1, s2}
    Qty <- TwoLotEntries
    Ends = {}
    MaxCrashes = 0
SYMMETRY ExitSymmetry
INVARIANTS
    NeverReversed
    PositionIsWhatOrdersApplied
PROPERTIES
    BooksOnce
CHECK_DEADLOCK FALSE
