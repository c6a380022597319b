SPECIFICATION Spec
CONSTANTS
  o1 = o1  o2 = o2  t1 = t1  t2 = t2  g1 = g1  g2 = g2
  None = None
  Triggers = {t1, t2}
  Orders = {o1, o2}
  Gateways = {g1, g2}
  GatewayOf <- TwoGateways
  SideOf <- Sides
  ModeOf <- MixedModes
  InitialState = "ARMED_STANDBY"
  MaxFaults = 2
  MaxPanics = 1
INVARIANTS
  PanicSweeps
CHECK_DEADLOCK FALSE
