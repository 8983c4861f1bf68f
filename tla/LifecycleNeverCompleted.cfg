SPECIFICATION FairSpec
CONSTANTS
  Rounds = {r1}
  Blobs = {b1}
  MaxVersions = 1
  Window = 1
  Horizon = 4
  MaxCrashes = 1
  Torn = Torn
  None = None
\* The clock and the version ids are bounded, and rounds may all be over.
CHECK_DEADLOCK FALSE
PROPERTIES
  AggregatedCompletes
