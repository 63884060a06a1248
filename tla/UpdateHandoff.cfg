CONSTANTS
  Ids = {a1}
  NoId = NoId
  Old = 1
  New = 2
  MaxFaults = 1
SPECIFICATION FairSpec
INVARIANT HandoffTypeOK
INVARIANT AcknowledgedHeard
INVARIANT LegacyDoneKept
INVARIANT RollbackLeavesMark
PROPERTY ClearedWhenHeard
PROPERTY AttemptCloses
CHECK_DEADLOCK FALSE
