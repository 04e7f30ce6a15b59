SPECIFICATION MarketSpec
CONSTANTS
    Newest = 6
    Minute <- TwoBars
    BarMinutes = 2
    MaxGap = 3
    MaxAttempts = 2
    MaxRestarts = 2
INVARIANTS
    MarketTypeOK
    NothingSilentlyLost
    FlagsFollowGaps
    MissingWasReported
    HistoryContiguous
CHECK_DEADLOCK FALSE
