SPECIFICATION Spec
CONSTANTS
  NameOrder <- Names
  BaseLen = 4
  ExtLen = 1
  GenBase = 2
  MaxGen = 3
  LongChars = 3
  ToUpper <- Letters
  Illegal = {" ", ".", "+"}
  NonAscii = {"u8"}
  SecUnits = 2
  Pref = 4
  MinSectors = 12
  EntPerSec = 4
  Window = 8
  Reserved = 2
  Volumes <- OddVolumes
  Records <- AllRecords
  MaxNodes = 4
INVARIANT ImageReads
CHECK_DEADLOCK FALSE
