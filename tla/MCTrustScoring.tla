-------------------------- MODULE MCTrustScoring --------------------------
(* Instances of TrustScoring for TLC. *)
EXTENDS TrustScoring, TLC

CONSTANTS r1, r2

Symmetry == Permutations(Orgs)

MC(form, acc, schema, trees, examples) ==
  [form |-> form, acc |-> acc, schema |-> schema, trees |-> trees, examples |-> examples]

(* The first round gives an organisation a baseline, or cannot be          *)
(* aggregated at all.                                                      *)
First == { MC("json", 95, 4, 4, 2), MC("binary", 90, 4, 2, 1) }

(* Good, suspiciously worse and over another feature space, bad, without   *)
(* trees, and models XGBoost cannot load or not apply.                     *)
Second ==
  { MC("json", 85, 4, 3, 9), MC("json", 72, 5, 2, 1), MC("json", 40, 4, 2, 1),
    MC("json", 90, 4, 0, 1), MC("broken", 0, 0, 0, 1), MC("unfit", 0, 5, 1, 0) }

MCModels == First \cup Second
MCOffers == (r1 :> First) @@ (r2 :> Second)
===========================================================================
