SPECIFICATION Spec
CONSTANTS
  Rounds = {r1, r2}
  Blobs = {b1, b2}
  MaxVersions = 4
  Window = 1
  Horizon = 4
  MaxCrashes = 2
  Torn = Torn
  None = None
SYMMETRY Symmetry
\* The clock and the version ids are bounded, and rounds may all be over.
CHECK_DEADLOCK FALSE
INVARIANTS
  TypeOK
  OneActive
  PublishedAfterBothWindows
  CompletedIsPublished
PROPERTIES
  CompletedIsFinal
  TableKeepsPromise
