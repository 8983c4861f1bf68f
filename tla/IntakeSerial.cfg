SPECIFICATION Spec
CONSTANTS
  Orgs = {o1, o2}
  Rounds = {r1}
  Challenges = {c1, c2}
  Requests = {q1, q2, q3}
  ChallengeTTL = 2
  MaxDrift = 1
  Skew = 0
  Window = 1
  Horizon = 2
  MaxKey = 1
  Overlap = FALSE
  Null = Null
SYMMETRY Symmetry
\* Suspension of everyone and the bounds on clock, challenges and requests stop the run.
CHECK_DEADLOCK FALSE
INVARIANTS
  OneAcceptedPerOrgRound
  RowsBackedByChallenge
PROPERTIES
  DrainedRoundIsFinal
