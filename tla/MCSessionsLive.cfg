SPECIFICATION LiveSessionsSpec
CONSTANTS
  MaxSessionStarts = 2
  Stoppers = {q1}
  MaxSessionOrders = 1
  NumSymbols = 2
  MaxKeys = 1
  MaxGatewayFaults = 1
  Main = m
  MaxStarts = 2
  TraderStops = {z1}
  MaxLoops = 2
  MaxParents = 2
  MaxErrors = 2
  MaxTraderFaults = 1
  Equity = 20
  UniverseSize = 6
  MinLots = 1
  Scale = 10
  Recovery = 3
  Caution = 5
  Derisk = 7
  Halt = 9
  Dwell = 2
  WeightEntropy = 5
  WeightRatio = 3
  WeightAmbiguity = 2
  Readings = {0, 3, 6, 8, 10}
  MaxBars = 8
  Orders = {o1}
  Quantity = 3
  MaxDups = 2
PROPERTIES
  StopsEnd CalmRestoresTrading Converges
CHECK_DEADLOCK FALSE
