SPECIFICATION Spec
CONSTANTS
  Leaves <- MCLeaves
  RecordsOf <- MCRecordsOf
  RuleSet <- MCRuleSet
  MaxSources = 2
  MaxRules = 1
INVARIANT AllRecords
