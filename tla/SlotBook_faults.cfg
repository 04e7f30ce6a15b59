SPECIFICATION SlotSpec
CONSTANTS
    g1 = g1
    g2 = g2
    g3 = g3
    Signals = {g1, g2, g3}
    Lots <- Mixed
    Limit = 2
    Faults = {"unknown", "ended", "audit", "crash"}
    MaxFaults = 1
SYMMETRY SignalSymmetry
INVARIANTS
    SlotTypeOK
    SlotHoldsItsEntry
    
    PendingIsWorking
CHECK_DEADLOCK FALSE
