SPECIFICATION StartSpec
CONSTANTS Simulated = {"PAPER"} StreamTtl = 1 ReconcileTtl = 1 AttestTtl = 1 LastTick = 3 StartMax = 2
INVARIANT StreamsReported
CHECK_DEADLOCK FALSE
