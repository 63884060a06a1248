CONSTANTS
  Sessions = {s1}
  NoSession = none
  MaxVersion = 2
  MaxFaults = 1
  Faults = {"refuse"}
SPECIFICATION Spec
PROPERTY SourceChangeReleasesParked
