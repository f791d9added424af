SPECIFICATION Spec
CONSTANTS
  PoolSize = 51
  LengthValues = 4
  Lines <- AllLines
  MaxLines = 7
  MaxObjs = 3
INVARIANTS
  SyntaxJudged
  AttachedToBlock
  RefsBalanced
  RecordsComeBack
PROPERTY Terminates
CHECK_DEADLOCK FALSE
