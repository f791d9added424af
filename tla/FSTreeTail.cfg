SPECIFICATION Spec
CONSTANTS
  Files = {f1, f2}
  BlockSize = 2
  MaxBlocks = 4
  MaxGaps = 1
  Uses <- TailUses
SYMMETRY Symmetry
INVARIANT ReadsBack
CHECK_DEADLOCK FALSE
