SPECIFICATION Spec
CONSTANTS
  Targets <- NestTargets
  Facts <- NestFacts
  Values = {0, 1}
  Prereqs <- NestPrereqs
  Order <- NestOrder
  Goals = {"request", "all"}
  Writes <- NestWrites
  Resolves <- NestResolves
  Fails = {"request", "all", "hook"}
  BadLocals = TRUE
  MaxStamp = 5
  MaxDepth = 3
  MaxScope = 2
INVARIANTS TransactionOwner StampsBehindClock ScopesBalanced NoMissedUpdate
PROPERTIES NoCommitAfterFailure ImplementsAtomicGoals
