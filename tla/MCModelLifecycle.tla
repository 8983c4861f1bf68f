-------------------------- MODULE MCModelLifecycle --------------------------
(* ModelLifecycle on small instances.  The runs without liveness use the   *)
(* symmetry of rounds and contents; version ids are ordered and keep none. *)
EXTENDS ModelLifecycle, TLC

Symmetry == Permutations(Rounds) \cup Permutations(Blobs)
=============================================================================
