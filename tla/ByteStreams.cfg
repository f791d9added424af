SPECIFICATION Spec
CONSTANTS
  BUFSZ = 3
  Setups <- AllSetups
  Sizes = {1, 2, 4}
INVARIANTS
  Conserved
  EofMeansAll
  LinesRight
PROPERTY CallsReturn
CHECK_DEADLOCK FALSE
