--------------------------- MODULE MCRoundIntake ---------------------------
(* RoundIntake on small instances.  The identities are interchangeable, so *)
(* the runs use symmetry; no liveness property is checked here.            *)
EXTENDS RoundIntake, TLC

Symmetry == Permutations(Orgs) \cup Permutations(Rounds)
              \cup Permutations(Challenges) \cup Permutations(Requests)
=============================================================================
