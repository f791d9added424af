SPECIFICATION Spec
CONSTANTS
  NameOrder <- Names
  Filesystems = {1, 2}
  Kinds = {"tar", "cpio"}
  BindScripts <- Scripts
  Records <- AllRecords
  MaxRecs = 4
  LongPath = 2
INVARIANTS
  TypeOK
  TreeMatchesRecords
  LinksRight
  UnpackRight
PROPERTY BuildEnds
CHECK_DEADLOCK FALSE
