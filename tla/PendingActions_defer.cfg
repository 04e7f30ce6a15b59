SPECIFICATION PendingSpec
CONSTANTS
    MaxBar = 5
    Queries = 2
    MaxCrashes = 1
    MaxBreaks = 1
INVARIANTS
    PendingTypeOK
    
    ResolutionIsTrue
PROPERTIES
    SentOnceInItsBar
    DecisionsSettle
CHECK_DEADLOCK FALSE
