SPECIFICATION StreamSpec
CONSTANTS
  MaxKeys = 2
  MaxFaults = 3
  MaxRuns = 1
  Fresh = 1
  Interval = 2
INVARIANTS DeadStreamBlocks
CHECK_DEADLOCK FALSE
