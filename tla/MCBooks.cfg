SPECIFICATION BooksSpec
CONSTANTS
  buy = buy  retry = retry  big = big  sell = sell  mktbuy = mktbuy  mktsell = mktsell
  None = None
  Attempts = {buy, retry, mktbuy, mktsell}
  OrderOf <- MCOrderOf
  Symbols = {"X"}
  PaperPrices = {2, 3}
  InitialBalance = 350
  Unit = 10
  FeeBps = 1
  SlippageBps = 1
  Capacity = 5
  AlpacaOrders = {a1}
  OrderLots = 2
  MaxSubmits = 2
  MaxAlpacaFaults = 2
  Lit = {2, 3}
  Dark = {1}
  TakerFee <- MCTakerFee
  Latency <- MCLatency
  FillProbability <- MCFillProbability
  MinOrderSize <- MCMinOrderSize
  SliceSizes = {2, 3}
  Depths = {0, 2}
  ToxicLimit = 2
  Quarantine = 1
  MaxTime = 2
  MaxMarkouts = 3
  MaxRouterFaults = 1
  o1 = o1  o2 = o2  o3 = o3  o4 = o4
  Orders = {o1, o2, o3, o4}
  SideOf <- AllBuy
  OrderQuantity <- Quantities
  InitialCash = 8
  MaxOrderQty = 3
  MaxGross = 100
  MaxNet = 100
  MaxConcentration = 50
  MaxDrawdown = 30
  MinFreeMargin = 0
  Watched = {o1, o2}
  Escapes = TRUE
  MaxFills = 3
  MaxAccruals = 2
  Dates = {1}
  FillRequests <- MCFills
  Prices = {2}
  Cash0 = 1
  MarginRate = 1
  BorrowRate = 1
  MaxCalls = 4
  MaxOpenCalls = 2
  MaxLedgerFaults = 1
  Cvar <- MCCvar
  Grain = 60
  LotSize = 30
  Budgets = {0, 2, 3}
  Holdings <- MCHoldings
INVARIANTS
  NoDoubleExecution ReportsAreTrue LedgerCoversVenue DriftExplained
  TargetsFeasible
PROPERTIES
  PaperAccountSound RoutingSound LedgerReconciles
CHECK_DEADLOCK FALSE
