SPECIFICATION Spec
CONSTANTS
  Orders = {o1}
  Quantity = 3
  MaxDups = 1
INVARIANT FeesWithinIncurred
CHECK_DEADLOCK FALSE
