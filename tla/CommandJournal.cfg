CONSTANTS
  Commands = {c1, c2}
  Retries = {c1}
  JournalLimit = 1
  ReportLimit = 1
  MaxFaults = 2
  Faults = {"restart", "lost", "save", "age", "rebind", "entry"}
  MaxPolicy = 2
  MaxTroubles = 1
SPECIFICATION MCSpec
INVARIANT TypesOK
INVARIANT AtMostOnce
INVARIANT OpenCommandsJournaled
INVARIANT DoneIsTrue
PROPERTY ReportIsFinal
PROPERTY EveryCommandReported
PROPERTY PolicyIsNoticed
PROPERTY CommandsAreReported
