SPECIFICATION Spec
CONSTANTS
  Files = {f1, f2}
  BlockSize = 2
  MaxBlocks = 4
  MaxGaps = 1
  Uses <- AllUses
SYMMETRY Symmetry
INVARIANTS ContentsKept SparseListsOK NoStaleBytes
PROPERTIES AppendExtends ImplementsLayout
CHECK_DEADLOCK FALSE
