--------------------------- MODULE PublishedModel ---------------------------
(***************************************************************************)
(* What the coordinator promises about the global model: the one that      *)
(* organisations are served changes only when a model is released after it *)
(* was observed for the soak window, or when the operator goes back to one *)
(* that was released before.  How rounds, version rows and files bring     *)
(* this about is the business of ModelLifecycle.                           *)
(***************************************************************************)
EXTENDS Integers

CONSTANTS
  Models,   \* the contents a global model can have
  Soak      \* length of the observation

VARIABLES
  now,      \* the time
  trial,    \* models under observation, each with the end of its observation
  released, \* every model ever released
  served    \* the model organisations are given: none at first, then one

pvars == <<now, trial, released, served>>

Init ==
  /\ now = 0
  /\ trial = {}
  /\ released = {}
  /\ served = {}

(* A merged model enters observation.                                      *)
Observe ==
  /\ \E e \in trial' : e.until >= now + Soak /\ trial' = trial \cup {e}
  /\ UNCHANGED <<now, released, served>>

(* An observed model is released.  It may be on trial more than once.      *)
Release(m) ==
  /\ \E e \in trial : /\ e.model = m
                      /\ e.until <= now
                      /\ trial' \in {trial, trial \ {e}}
  /\ released' = released \cup {m}
  /\ served' = {m}
  /\ UNCHANGED now

(* The operator goes back to a released model.                             *)
Restore(m) ==
  /\ m \in released
  /\ served' = {m}
  /\ UNCHANGED <<now, trial, released>>

Elapse ==
  /\ now' > now
  /\ UNCHANGED <<trial, released, served>>

Next ==
  \/ Observe
  \/ \E m \in Models : Release(m) \/ Restore(m)
  \/ Elapse

Spec == Init /\ [][Next]_pvars
=============================================================================
