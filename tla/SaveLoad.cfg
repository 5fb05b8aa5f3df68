SPECIFICATION Spec
CONSTANTS
  Rulesets <- MCRulesets
  Builtins <- MCBuiltins
  InitialSize = 28
  MaxSize = 56
INVARIANTS
  TypeOK
  LoadedIsSaved
  WholeFileLoads
  ShortFileIsRefused
  FactsCreatedOnce
PROPERTY DaemonStarts
