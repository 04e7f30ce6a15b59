SPECIFICATION AuditSpec
CONSTANTS
    b1 = b1
    s1 = s1
    Entries = {b1}
    Exits = {}
    Qty <- TwoLots
    Ends = {}
    MaxCrashes = 0
INVARIANTS
    NeverOverApplied
CHECK_DEADLOCK FALSE
