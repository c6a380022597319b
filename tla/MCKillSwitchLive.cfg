SPECIFICATION FairSpec
CONSTANTS
  o1 = o1  o2 = o2  t1 = t1  t2 = t2  g1 = g1  g2 = g2
  None = None
  Triggers = {t1, t2}
  Orders = {o1, o2}
  Gateways = {g1, g2}
  GatewayOf <- TwoGateways
  SideOf <- Sides
  ModeOf <- MixedModes
  InitialState = "ARMED_STANDBY"
  MaxFaults = 0
  MaxPanics = 2
INVARIANTS
  EventOfThisPanic
PROPERTIES
  TriggerEnds
CHECK_DEADLOCK FALSE
