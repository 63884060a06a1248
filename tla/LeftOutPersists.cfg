CONSTANTS
  Sessions = {s1}
  NoSession = none
  MaxVersion = 2
  MaxFaults = 1
  Faults = {"policy"}
SPECIFICATION Spec
PROPERTY LeftOutPersists
