---------------------------- MODULE OrgStanding ----------------------------
(***************************************************************************)
(* What the rest of the coordinator relies on about organisations: each    *)
(* has one registered key; whether that counts is up to the operator, but  *)
(* it is another one only after an organisation that is not active has     *)
(* enrolled.  Nothing about an organisation changes together with anything *)
(* about another.  OrgRegistry brings this about, RoundIntake builds on it. *)
(***************************************************************************)
CONSTANTS
  Orgs,  \* organisations
  Keys,  \* keys they may register
  NoKey  \* an organisation that was never enrolled has none

VARIABLE standing

Enrolled == [active : {TRUE}, key : Keys]
NoOrg    == [active |-> FALSE, key |-> NoKey]

Init == standing \in [Orgs -> Enrolled \cup {NoOrg}]

Suspend(o) ==
  /\ standing[o].active
  /\ standing' = [standing EXCEPT ![o].active = FALSE]

Reinstate(o) ==
  /\ ~standing[o].active
  /\ standing[o].key # NoKey
  /\ standing' = [standing EXCEPT ![o].active = TRUE]

(* With a new key, or with one of its earlier ones.                        *)
Enrol(o) ==
  /\ ~standing[o].active
  /\ \E k \in Keys : standing' = [standing EXCEPT ![o] = [active |-> TRUE, key |-> k]]

Next == \E o \in Orgs : Suspend(o) \/ Reinstate(o) \/ Enrol(o)

Spec == Init /\ [][Next]_standing
=============================================================================
