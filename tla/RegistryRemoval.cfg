SPECIFICATION Spec
CONSTANTS
  Orgs = {o1}
  Keys = {k1}
  Serials = {s1}
  Tokens = {t1}
  TokenTTL = 1
  Horizon = 1
  MaxFaults = 1
  None = None
SYMMETRY Symmetry
\* A redemption may find all serial numbers of the instance used.
CHECK_DEADLOCK FALSE
INVARIANTS
  LeaverCanFinalize
