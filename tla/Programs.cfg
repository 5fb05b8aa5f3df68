SPECIFICATION FairSpec
CONSTANTS
  Targets = {"goal", "sub"}
  Goal = "goal"
  FirstTarget = "sub"
  Locals = {0, 1}
  Wide = 65534
  StackSize = 32
  Methods <- MCMethods
  Results <- MCResults
  Store <- MCStore
  Sources <- MCSources
  Nesting = 4
INVARIANTS MachineTypeOK RunsAsDocumented LeavesNothing CompiledIsWellFormed
PROPERTIES NestedCallIsNeutral Ends
CHECK_DEADLOCK FALSE
