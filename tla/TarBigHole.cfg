SPECIFICATION Spec
CONSTANTS
  BS = 2
  BUFSZ = 4
  MAXLEN = 3
  WRAP = 16
  Archives <- BigHole
PROPERTY CallsReturn
CHECK_DEADLOCK FALSE
