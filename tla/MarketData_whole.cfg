SPECIFICATION MarketSpec
CONSTANTS
    Newest = 5
    Minute <- OneBar
    BarMinutes = 2
    MaxGap = 2
    MaxAttempts = 2
    MaxRestarts = 0
INVARIANTS
    EvaluatedWhole
CHECK_DEADLOCK FALSE
