CONSTANTS
  Ids = {a1}
  NoId = NoId
  Old = 1
  New = 2
  MaxFaults = 0
SPECIFICATION Spec
INVARIANT DoneKept
CHECK_DEADLOCK FALSE
