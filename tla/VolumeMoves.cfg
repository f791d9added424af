SPECIFICATION Spec
CONSTANTS
  BlockSize = 3
  MaxBlocks = 6
  Uses <- MovingSmall
INVARIANT ReadBack
