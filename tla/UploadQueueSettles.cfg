CONSTANTS
  Sessions = {s1}
  NoSession = none
  MaxVersion = 2
  MaxFaults = 2
  Faults = {"restart", "spool", "prepare", "retry", "lost", "source"}
SPECIFICATION FairSpec
PROPERTY EventuallySettled
