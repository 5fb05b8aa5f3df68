SPECIFICATION Spec
CONSTANTS
  Targets <- PairTargets
  Facts <- NestFacts
  Values = {0}
  Prereqs <- PairPrereqs
  Order <- PairOrder
  Goals = {"all"}
  Writes <- PairNone
  Resolves <- PairNone
  Fails = {}
  BadLocals = TRUE
  MaxStamp = 4
  MaxDepth = 1
  MaxScope = 1
INVARIANT SuccessMeansCommitted
