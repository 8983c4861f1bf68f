SPECIFICATION Spec
CONSTANTS
  Orgs = {o1, o2}
  MaxCalls = 4
  MaxInits = 2
  MaxRevocations = 2
  MaxMishaps = 1
  None = None
SYMMETRY Symmetry
\* The audit trail of the instance may be full.
CHECK_DEADLOCK FALSE
INVARIANTS
  HostTypeOK
  AckedRecorded
  ChainBreaksAtStrays
  PackageFits
  CommittedIsAnswered
  RevokedOnList
