SPECIFICATION Spec
CONSTANTS
  Fields = {"id", "peer", "state"}
  Scalars <- MCScalars
  Absent <- MCAbsent
  Stores <- MCStores
  Assignments <- MCAssignments
INVARIANT TypeOK
PROPERTIES AssignsAsDocumented IdenticalNotTouched ReplaceIsComplete
CHECK_DEADLOCK FALSE
