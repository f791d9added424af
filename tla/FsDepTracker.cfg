SPECIFICATION Spec
CONSTANT MaxBlocks = 6
INVARIANTS InnermostFirst AllCommitted
PROPERTY Terminates
CHECK_DEADLOCK FALSE
