------------------------- MODULE MCCoordinatorHost -------------------------
(* CoordinatorHost for TLC.  Organisations are interchangeable.            *)
EXTENDS CoordinatorHost, TLC

Symmetry == Permutations(Orgs)
=============================================================================
