SPECIFICATION Spec
CONSTANTS
  BUFSZ = 3
  Setups <- Damaged
  Sizes = {1, 2, 4}
PROPERTY CallsAlwaysReturn
CHECK_DEADLOCK FALSE
