CONSTANTS
  Sessions = {s1}
  NoSession = none
  MaxVersion = 2
  MaxFaults = 2
  Faults = {"restart", "error", "budget", "spool", "source", "prepare", "refuse", "lost", "expire", "forget", "policy", "retry", "rebind"}
SPECIFICATION Spec
INVARIANT TypeOK
INVARIANT ClaimIsAccepted
INVARIANT NewerChangesStayPending
INVARIANT UploadMatchesBundle
PROPERTY WritesNeedConsent
PROPERTY ParkedNeedsCause
PROPERTY KeepsPromise
