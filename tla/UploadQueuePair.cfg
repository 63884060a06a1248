CONSTANTS
  Sessions = {s1, s2}
  NoSession = none
  MaxVersion = 1
  MaxFaults = 2
  Faults = {"policy", "retry", "budget"}
  Hubs = {A, B}
  NoHub = NoHub
  MaxCredential = 2
  MaxClients = 3
  MaxMishaps = 1
SYMMETRY Symmetry
SPECIFICATION MCSpec
PROPERTY WritesMatchQueue
PROPERTY RebindsAlone
PROPERTY ReplacementStays
CHECK_DEADLOCK FALSE
