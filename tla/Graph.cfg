SPECIFICATION Spec
CONSTANTS
  NTarget = 3
  NFactvar = 1
  NDresvar = 0
  Rulesets <- MCRulesets
INVARIANTS TypeOK OrderIsSound RejectedForCycle
PROPERTY FinalizationEnds
CHECK_DEADLOCK FALSE
