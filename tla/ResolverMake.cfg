SPECIFICATION Spec
CONSTANTS
  Targets <- MakeTargets
  Facts <- MakeFacts
  Values = {0, 1}
  Prereqs <- MakePrereqs
  Order <- MakeOrder
  Goals = {"all", "request"}
  Writes <- MakeWrites
  Resolves <- MakeResolves
  Fails = {}
  BadLocals = FALSE
  MaxStamp = 5
  MaxDepth = 2
  MaxScope = 1
INVARIANT TypeOK
PROPERTIES NoUnnecessaryUpdate GoalIsUpToDate
