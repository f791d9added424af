SPECIFICATION Spec
CONSTANTS
  Files = {f1, f2, f3}
  MaxOffset = 6
SYMMETRY Symmetry
INVARIANTS TypeOK NoOverlap NoLeak
