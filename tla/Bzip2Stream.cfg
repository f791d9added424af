SPECIFICATION Spec
CONSTANTS
  BUFSZ = 3
  Setups <- Bzip2Blocks
  Sizes = {1, 2, 4}
INVARIANT EofMeansAll
CHECK_DEADLOCK FALSE
