SPECIFICATION ConsoleSpec
CONSTANTS
  None = None
  Ids = {1, 2}
  Requests <- MCRequests
  Names <- MCNames
  Exported = {"cb", "cc"}
  Rules <- MCRules
  RuleId <- MCRuleId
  Declared = {"a", "b"}
  Values <- MCValues
  Commands <- MCCommands
  Builtin <- MCBuiltin
  Extensions <- MCExtensions
  Plugins <- MCPlugins
  MaxExtensions = 2
CONSTRAINT OneAtATime
INVARIANTS
  TypeOK
  RuleIsTheOne
  SuccessMeansDone
  CallbackIsTheOneNamed
  DelayedAllOrNothing
  GrantedCommandRuns
  RedoKeepsGoal
