SPECIFICATION Spec
CONSTANTS
  BlockSize = 3
  MaxBlocks = 6
  Uses <- AllUses
INVARIANTS TypeOK ReadBack ImageKept
