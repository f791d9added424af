SPECIFICATION Spec
CONSTANTS
  BS = 2
  BUFSZ = 4
  MAXLEN = 3
  WRAP = 16
  Archives <- ShortMap
INVARIANT AllContentRight
CHECK_DEADLOCK FALSE
