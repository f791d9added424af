SPECIFICATION Spec
CONSTANTS
  MaxParts = 3
  Align = 2
  Sectors = 11
  Sizes = {1, 4}
  MaxLive = 1
  Touched = {1, 2}
INVARIANTS Packed MaxIsPromised
PROPERTY OthersKept
CHECK_DEADLOCK FALSE
