SPECIFICATION SessionsSpec
CONSTANTS
  MaxSessionStarts = 2
  Stoppers = {q1}
  MaxSessionOrders = 2
  NumSymbols = 2
  MaxKeys = 2
  MaxGatewayFaults = 1
  Main = m
  MaxStarts = 2
  TraderStops = {z1}
  MaxLoops = 2
  MaxParents = 2
  MaxErrors = 2
  MaxTraderFaults = 2
  Equity = 20
  UniverseSize = 6
  MinLots = 1
  Scale = 10
  Recovery = 3
  Caution = 5
  Derisk = 7
  Halt = 9
  Dwell = 2
  WeightEntropy = 5
  WeightRatio = 3
  WeightAmbiguity = 2
  Readings = {0, 3, 6, 8, 10}
  MaxBars = 8
  Orders = {o1, o2}
  Quantity = 3
  MaxDups = 1
SYMMETRY OrderSymmetry
INVARIANTS
  SessionControlled ClientFollowsBroker
PROPERTIES
  SwarmControlled RecoveryIsGradual MonotoneUntilTerminal
CHECK_DEADLOCK FALSE
