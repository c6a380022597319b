SPECIFICATION RiskSpec
CONSTANTS
  o1 = o1  o2 = o2  o3 = o3  o4 = o4
  Orders = {o1, o2, o3, o4}
  SideOf <- AllBuy
  OrderQuantity <- Quantities
  InitialCash = 8
  MaxOrderQty = 3
  MaxGross = 100
  MaxNet = 100
  MaxConcentration = 50
  MaxDrawdown = 30
  MinFreeMargin = 0
  Watched = {o1, o2, o3, o4}
  Escapes = FALSE
CHECK_DEADLOCK FALSE
INVARIANTS
  ExposureWithinLimit
