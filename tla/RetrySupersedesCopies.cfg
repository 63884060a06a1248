CONSTANTS
  Sessions = {s1}
  NoSession = none
  MaxVersion = 2
  MaxFaults = 2
  Faults = {"retry", "budget"}
SPECIFICATION Spec
PROPERTY RetrySupersedesCopies
