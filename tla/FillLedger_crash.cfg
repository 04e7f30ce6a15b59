SPECIFICATION FairSpec
CONSTANTS
    b1 = b1
    s1 = s1
    s2 = s2
    Entries = {b1}
    Exits = {s1}
    Qty <- TwoLotEntries
    Ends = {"CANCELED", "EXPIRED"}
    MaxCrashes = 1
INVARIANTS
    TypeOK
    NeverOverApplied
    AppliedStandsInLedger
    LedgerIsApplied
PROPERTIES
    OrdersNeverRegress
    RecordedIsApplied
CHECK_DEADLOCK FALSE
