SPECIFICATION PlatformSpec
CONSTANTS
  Cvar <- MCCvar
  Grain = 20
  LotSize = 30
  Budgets = {1}
  Holdings <- MCHoldings
  Scale = 10
  Recovery = 3
  Caution = 5
  Derisk = 7
  Halt = 9
  Dwell = 2
  WeightEntropy = 5
  WeightRatio = 3
  WeightAmbiguity = 2
  Readings = {0, 10}
  MaxBars = 8
  Capital = 20
  Unit = 10
  MaxLeverage = 1
  MddNum = 1
  MddDen = 1
  Fee = 1
  Impact <- MCImpact
  Hurdle = 2
  MinReplayBars = 3
  Lengths = {2, 3, 4}
  Returns <- MCReturns
  Span = 8
  Levels = 3
  GeneStep = 5
  LogitBound = 54
  MaxDecodes = 2
  Kicks <- MCKicks
  FlatResidual = "flat"
  MinDsr = 2
  Noise = 1
  ArchiveSize = 2
  N = 2
  Traits <- MCTraits
  Distances <- MCDistances
  Elites = {0, 1}
  AlphaNum = 1
  AlphaDen = 4
  Tournament = 3
  StagnationLimit = 2
  Whole = 1250
  Steps <- MCSteps
  MaxGenerations = 2
  Symbols <- MCSymbols
  Credentials <- MCCredentials
  Days = {1, 2, 3}
  IngestWindows <- MCWindows
  Responses <- MCResponses
  Hours <- MCHours
  YahooRetries = 1
  MaxPages = 2
  MaxRuns = 2
  MaxEras = 1
  Samples = 5
  Groups = 3
  Lifespans = {0, 1, 3}
  Embargoes = {0, 1}
  SplitCaps = {2, 9}
  MinTrain = 1
  Candles <- MCCandles
  SeriesLength = 4
  EventCount = 2
  Horizon = 2
  Delay = 1
  Profit = 2
  Stop = 3
  RoundTripFriction = 1
  Ticks = {1, 7}
  LeverageCap = 4
  Stakes = {6, 60}
  Requests <- MCRequests
  MinGap = 2
  MassTolerance = 2
  Orders0 <- MCParents
  FillSizes = {0, 1, 2, 4}
  FillPrices = {9, 12}
  FillFees = {0, 1}
  FillTimes = {0, 1, 3}
  MaxChildFills = 3
  Terminals = {8, 10, 13}
  Slack = 1
  Clients = {p1, p2}
  Lots = 2
  MaxSlices = 2
  MaxServiceFaults = 2
  GatewayIds = {PAPER, ALPACA}
  Gateways = {PAPER, ALPACA}
  PAPER = PAPER
  ALPACA = ALPACA
  w1 = w1
  Watchdogs = {w1, w2}
  NoWatchdog = NoWatchdog
  NoId = NoId
  MaxRegistrations = 3
  MaxAdmin = 4
  None = None
  Interval = 2
  Timeout = 5
  MaxMisses = 2
  MaxSeq = 3
  MaxRetries = 2
  Ids = {i1, i2, i3, i4}
  Capacity = 2
  MaxClosed = 6
INVARIANTS
  ReplayHonest GenomesFaithful SplitsClean LabelsExplained SchedulesSound
  ParentBookExact LinksUnderControl WatchdogSound WindowSound
PROPERTIES
  SelectionSound IngestFaithful ServiceKeepsBooks ImplementsContract
SYMMETRY ClientSymmetry
CHECK_DEADLOCK FALSE
