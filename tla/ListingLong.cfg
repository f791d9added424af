SPECIFICATION Spec
CONSTANTS
  PoolSize = 51
  LengthValues = 4
  Lines <- LongLines
  MaxLines = 7
  MaxObjs = 3
INVARIANT AllRecordsComeBack
CHECK_DEADLOCK FALSE
