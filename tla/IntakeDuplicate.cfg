SPECIFICATION Spec
CONSTANTS
  Orgs = {o1}
  Rounds = {r1}
  Challenges = {c1, c2}
  Requests = {q1, q2}
  ChallengeTTL = 2
  MaxDrift = 1
  Skew = 0
  Window = 1
  Horizon = 3
  MaxKey = 1
  Overlap = TRUE
  Null = Null
SYMMETRY Symmetry
\* Suspension of everyone and the bounds on clock, challenges and requests stop the run.
CHECK_DEADLOCK FALSE
INVARIANTS
  OneAcceptedPerOrgRound
