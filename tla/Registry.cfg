SPECIFICATION Spec
CONSTANTS
  Orgs = {o1, o2}
  Keys = {k1, k2}
  Serials = {s1, s2}
  Tokens = {t1, t2}
  TokenTTL = 1
  Horizon = 1
  MaxFaults = 1
  None = None
SYMMETRY Symmetry
\* A redemption may find all serial numbers of the instance used.
CHECK_DEADLOCK FALSE
INVARIANTS
  TypeOK
  TokenEnrolsOnce
  RemovalRestsOnRequest
  RevokedListed
  AgreedRemovalConfirmed
PROPERTIES
  EnrolmentStands
  KeepsStanding
