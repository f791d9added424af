SPECIFICATION Spec
CONSTANTS
  MaxParts = 1
  Align = 2
  Sectors = 8
  Sizes = {1, 4}
  MaxLive = 3
  Touched = {0, 1, 2}
INVARIANT DataKept
CHECK_DEADLOCK FALSE
