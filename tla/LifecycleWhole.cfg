SPECIFICATION FairSpec
CONSTANTS
  Rounds = {r1, r2}
  Blobs = {b1, b2}
  MaxVersions = 2
  Window = 1
  Horizon = 4
  MaxCrashes = 0
  Torn = Torn
  None = None
\* The clock and the version ids are bounded, and rounds may all be over.
CHECK_DEADLOCK FALSE
INVARIANTS
  ServedAsPublished
  PublishedRoundIsCompleted
  AuditComplete
PROPERTIES
  BytesKeepPromise
  AggregatedCompletes
