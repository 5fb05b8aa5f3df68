SPECIFICATION FairSpec
CONSTANTS
  Targets <- LoopTargets
  Facts <- LoopFacts
  Values = {0}
  Prereqs <- LoopPrereqs
  Order <- LoopOrder
  Goals = {"request", "audio"}
  Writes <- LoopWrites
  Resolves <- LoopResolves
  Fails = {"request"}
  BadLocals = TRUE
  MaxStamp = 5
  MaxDepth = 1
  MaxScope = 1
  All = "all"
  Sources = {1, 2}
INVARIANTS OneUpdate OwedIsScheduled
PROPERTIES ChangesReachTargets
