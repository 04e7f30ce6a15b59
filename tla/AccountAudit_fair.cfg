SPECIFICATION FairAuditSpec
CONSTANTS
    b1 = b1
    s1 = s1
    Entries = {b1}
    Exits = {s1}
    Qty <- OneLot
    Ends = {"CANCELED"}
    MaxCrashes = 2
INVARIANTS
    AuditTypeOK
    DoubtBlocksEntries
    AppliedAtMostTwice
PROPERTIES
    SyncKills
    
CHECK_DEADLOCK FALSE
