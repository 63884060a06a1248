CONSTANTS
  i1 = i1
  i2 = i2
  x = x
  y = y
  s1 = s1
  s2 = s2
  Ids = {i1, i2}
  Aliases = {x, y}
  NoId = NoId
  NoAlias = NoAlias
  PageHosts <- MCPageHosts
  HubHosts <- MCHubHosts
  MaxTasks = 2
  MaxMishaps = 1
  Sessions = {s1, s2}
  Slots = 1
  MaxRevision = 2
  MaxCalls = 2
  MaxTroubles = 2
  LogSessions = {s1, s2}
  Codes = {c1}
  Device = Device
  NoCode = NoCode
  Batch = 2
  MaxLines = 4
  MaxLosses = 1
  Processes = {s1, s2}
  Nobody = Nobody
  MaxLogin = 2
  MaxToken = 3
  MaxMisses = 1
SPECIFICATION MCSpec
INVARIANT TypesOK
PROPERTY StoresConfigured
PROPERTY ShownIsConfigured
INVARIANT ReadyIsRecorded
PROPERTY UncommittedKept
INVARIANT SetupKeepsHost
PROPERTY RefreshEnds
PROPERTY DetachedGoes
INVARIANT RoundsComplete
INVARIANT LostIsSaid
PROPERTY CatchesUp
INVARIANT LoggedIsKept
PROPERTY LogEmpties
INVARIANT NewestStays
INVARIANT OnlyLossesReplay
CHECK_DEADLOCK FALSE
