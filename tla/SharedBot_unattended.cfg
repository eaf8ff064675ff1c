SPECIFICATION Spec
CONSTANTS
  Controllers = {c1, c2}
  NoController = NoController
  MaxOrders = 2
  MaxFaults = 2
INVARIANT NeverUnattended
CHECK_DEADLOCK FALSE
