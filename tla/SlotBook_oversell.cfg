SPECIFICATION SlotSpec
CONSTANTS
    g1 = g1
    g2 = g2
    g3 = g3
    Signals = {g1, g2}
    Lots <- OneLot
    Limit = 2
    Faults = {"unknown"}
    MaxFaults = 1
INVARIANTS
    ExitSellsOneLot
CHECK_DEADLOCK FALSE
