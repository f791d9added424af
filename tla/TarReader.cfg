SPECIFICATION Spec
CONSTANTS
  BS = 2
  BUFSZ = 4
  MAXLEN = 3
  WRAP = 16
  Archives <- AllArchives
INVARIANTS
  RecordsRight
  ContentRight
PROPERTY CallsReturn
CHECK_DEADLOCK FALSE
