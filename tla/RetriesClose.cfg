CONSTANTS
  Commands = {c1}
  Retries = {c1}
  JournalLimit = 1
  ReportLimit = 1
  MaxFaults = 1
  Faults = {"rebind"}
SPECIFICATION Spec
PROPERTY RetriesClose
