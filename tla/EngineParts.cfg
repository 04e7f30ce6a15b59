SPECIFICATION PartsSpec
CONSTANTS
  MaxKeys = 3
  MaxFaults = 2
  MaxRuns = 2
  Fresh = 1
  Interval = 2
  MaxEquity = 3
  Limit = 2
  MaxDay = 2
  MaxDeaths = 1
  MaxFailures = 1
  Prices = {32, 64}
  Impact = 16
  FeeShare = 16
  PaperLeverage = 2
  Deposit = 80
  MinNotional = 40
  MaxLots = 2
  MaxOrders = 4
  MaxFalls = 2
  MaxUnsaved = 1
  Conditions = {"KILL_SWITCH_ACTIVE"}
  Emergencies = {"KILL_SWITCH_ENGAGED", "EMERGENCY_HALT"}
  Window = 3
  FillOrders = {"o1"}
  MaxChanges = 3
  MaxLog = 2
  MaxCommands = 1
  MaxLives = 2
  MaxTrade = 5
  MaxBreaksOff = 2
  MaxRaises = 1
  GapFrom = 2
  GapTo = 5
  PageSize = 2
  PageMax = 2
  CallMax = 2
  TryMax = 3
  MaxStoreErrors = 1
  LastBar = 4
  Models <- ManifestModels
  LastKline = 6
  Required = 2
  HistoryMax = 4
  FreshBars = 1
  RowMax = 2
  AskMax = 2
  Files <- CandleFiles
  MaxContent = 2
  MaxEdits = 3
  OpeningBalance = 64
  CurveLeverage = 2
  CurveFeeShare = 8
  QtyStep = 2
  QtyMin = 3
  CurvePrices = {2, 3, 4}
  MaxSettled = 4
  TickSize = 1
  VolumeShare = 2
  RebuiltCandles <- NearCandles
  DatasetCandles <- CanonicalCandles
  MaxRebuilt = 3
  MaxDataset = 2
  Simulated = {"PAPER"}
  StreamTtl = 1
  ReconcileTtl = 1
  AttestTtl = 1
  LastTick = 3
  StartMax = 2
INVARIANTS
  PartsTypeOK
  SocketOnCurrentKey
  PaperBooksHold
  AlertsAreTrue
  
  RecoveryIsExact
  HistoryIsWhole
  AcceptedReportDescribesInputs
  EvidenceIsHonest
PROPERTIES
  BreakerHolds
  
  
CHECK_DEADLOCK FALSE
