SPECIFICATION Spec
CONSTANTS
  Leaves <- MCLeaves
  RecordsOf <- MCRecordsOf
  RuleSet <- MCRuleSet
  MaxSources = 1
  MaxRules = 3
INVARIANTS TypeOK AllRecords
PROPERTY PullEnds
CHECK_DEADLOCK FALSE
