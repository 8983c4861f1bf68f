--------------------------- MODULE TrustScoring ---------------------------
(***************************************************************************)
(* What becomes of the accepted contributions of a round when the operator *)
(* has it aggregated: each is scored in the order it was received, which   *)
(* changes the trust of its organisation for good, and those that pass are *)
(* merged if they share a feature space.                                   *)
(*                                                                         *)
(* The handler does not suspend, but scoring is a chain of commits, and    *)
(* the process can stop between any two.  It can also end without a model: *)
(* in 422 when no contribution passes, in 500 when an exception escapes.   *)
(* Then the round is still running and may be aggregated again, over       *)
(* scores that the last attempt has already changed.                       *)
(*                                                                         *)
(* Trust and accuracy are in hundredths.  Trust is a chain of floating     *)
(* point sums: one that amounts to exactly MinTrust may be stored as       *)
(* slightly less, which `short` tells.  Writing and staging the model is   *)
(* the business of ModelLifecycle and one step here.                       *)
(***************************************************************************)
EXTENDS FedBagging, FiniteSets

CONSTANTS
  Orgs,          \* organisations
  Rounds,        \* rounds, all of them started
  Models,        \* what organisations contribute, see Model
  Offers,        \* bound on the models contributed to each round
  Standings,     \* trust of organisations with a history
  MinTrust,      \* min_trust, 30 in the code
  MinAccuracy,   \* min_accuracy, 50
  MaxDrop,       \* max_accuracy_drop, 15
  MaxExamples,   \* max_num_examples, 1000000
  MaxRows,       \* bound on the contributions of all rounds
  MaxAttempts,   \* bound on the requests to aggregate
  MaxRestarts,   \* bound on the restarts
  None           \* no model, no contribution

(* A contributed model as XGBoost and json see it.  A binary one loads in  *)
(* XGBoost but is not JSON; a broken one does not load; an unfit one loads *)
(* but cannot predict the validation set.                                  *)
Form  == {"json", "binary", "broken", "unfit"}
Model == [form : Form, acc : 0..100, schema : Nat, trees : Nat, examples : Nat]

ASSUME TrustAssumption ==
  /\ MinTrust \in 0..99 /\ MinAccuracy \in 0..100 /\ MaxDrop \in 0..100
  /\ MaxExamples \in Nat \ {0}
  /\ Standings \subseteq 0..100
  /\ Models \subseteq Model /\ Offers \in [Rounds -> SUBSET Models]
ASSUME NoTieAssumption ==  \* rounding decides a drop of exactly MaxDrop
  \A m, n \in Models : m.acc - n.acc # MaxDrop
ASSUME TrustBounds == MaxRows \in Nat /\ MaxAttempts \in Nat /\ MaxRestarts \in Nat
ASSUME NoneIsOther ==
  None \notin [order : Seq(Nat), included : Seq(Nat), credited : SUBSET Nat]

VARIABLES
  rows,      \* accepted contributions of each round, as they were received
  trust,     \* orgs.trust_score
  short,     \* is that score stored as slightly less?
  base,      \* orgs.last_accuracy, NoAccuracy where it is NULL
  merged,    \* the model of each aggregated round: who is in, who is credited
  failed,    \* rounds whose aggregation has ended in 500
  noted,     \* whom the audit trail last says were excluded for their schema
  validating,\* has the process a validation set?
  op,        \* the aggregation under way
  scored,    \* history: how each organisation was scored since it last passed
  attempts,  \* requests to aggregate so far
  restarts   \* restarts so far

vars == <<rows, trust, short, base, merged, failed, noted, validating, op, scored,
          attempts, restarts>>

-----------------------------------------------------------------------------
(* Types.                                                                  *)

NoAccuracy == -1
Row   == [org : Orgs, model : Models]
Bag   == [order : Seq(Nat), included : Seq(Nat), credited : SUBSET Nat]
Score == [model : Models, passed : BOOLEAN]
Op    == [at : {"idle", "scoring", "rewarding"}, round : Rounds \cup {None},
          weights : Seq(Nat)]
Idle  == [at |-> "idle", round |-> None, weights |-> <<>>]

(* Scores stay in 0..100; everything else has the columns of its table.    *)
TrustTypeOK ==
  /\ rows \in [Rounds -> Seq(Row)]
  /\ trust \in [Orgs -> 0..100]
  /\ short \in [Orgs -> BOOLEAN]
  /\ base \in [Orgs -> {NoAccuracy} \cup 0..100]
  /\ merged \in [Rounds -> Bag \cup {None}]
  /\ failed \subseteq Rounds
  /\ noted \in [Rounds -> SUBSET Orgs]
  /\ validating \in BOOLEAN
  /\ op \in Op
  /\ scored \in [Orgs -> SUBSET Score]
  /\ attempts \in Nat
  /\ restarts \in Nat

-----------------------------------------------------------------------------
(* TrustManager.evaluate.                                                  *)

BelowFloor(o) == trust[o] < MinTrust \/ (trust[o] = MinTrust /\ short[o])

(* The gates in their order; the first that does not let pass decides.     *)
VerdictUnblocked(o, m) ==
  IF m.form = "broken" THEN "broken"
  ELSE IF ~validating THEN "accepted"
  ELSE IF m.form = "unfit" THEN "unfit"
  ELSE IF m.acc < MinAccuracy THEN "poor"
  ELSE IF base[o] # NoAccuracy /\ base[o] - m.acc > MaxDrop THEN "dropped"
  ELSE "accepted"
Verdict(o, m) ==
  IF BelowFloor(o) THEN "blocked"
  ELSE IF m.form = "broken" THEN "broken"
  ELSE IF ~validating THEN "accepted"
  ELSE IF m.form = "unfit" THEN "unfit"
  ELSE IF m.acc < MinAccuracy THEN "poor"
  ELSE IF base[o] # NoAccuracy /\ base[o] - m.acc > MaxDrop THEN "dropped"
  ELSE "accepted"

Penalty(verdict) ==
  CASE verdict = "blocked" -> 0
    [] verdict = "broken"  -> 20
    [] verdict = "unfit"   -> 10
    [] verdict = "poor"    -> 15
    [] verdict = "dropped" -> 20

(* _bump.                                                                  *)
BumpUnclamped(o, delta) ==
  /\ trust' = [trust EXCEPT ![o] = Larger(0, trust[o] + delta)]
  /\ UNCHANGED short
Bump(o, delta) ==
  LET new == Larger(0, Smaller(100, trust[o] + delta))
  IN /\ trust' = [trust EXCEPT ![o] = new]
     /\ \E s \in IF new = MinTrust THEN BOOLEAN ELSE {FALSE} :
          short' = [short EXCEPT ![o] = s]

Weight(score, examples) == score * Smaller(Larger(examples, 1), MaxExamples)

-----------------------------------------------------------------------------
(* POST /rounds/{id}/aggregate, contribution by contribution.  A weight is *)
(* recorded for each, 0 for those that do not survive.                     *)

Current == rows[op.round][Len(op.weights) + 1]

BeginAggregate(r) ==
  /\ op.at = "idle"
  /\ attempts < MaxAttempts
  /\ merged[r] = None
  /\ rows[r] # <<>>
  /\ op' = [Idle EXCEPT !.at = "scoring", !.round = r]
  /\ attempts' = attempts + 1
  /\ UNCHANGED <<rows, trust, short, base, merged, failed, noted, validating, scored, restarts>>

Scoring == op.at = "scoring" /\ Len(op.weights) < Len(rows[op.round])

(* The file of the contribution cannot be read.                            *)
MissingModel ==
  /\ Scoring
  /\ op' = [op EXCEPT !.weights = Append(@, 0)]
  /\ UNCHANGED <<rows, trust, short, base, merged, failed, noted, validating, scored,
                 attempts, restarts>>

ExcludeRemembered ==
  /\ Scoring
  /\ LET o == Current.org
         verdict == Verdict(o, Current.model)
     IN /\ verdict # "accepted"
        /\ IF verdict = "blocked" THEN UNCHANGED <<trust, short>>
                                  ELSE Bump(o, -Penalty(verdict))
        /\ base' = [base EXCEPT ![o] = Current.model.acc]
        /\ scored' = [scored EXCEPT ![o] = @ \cup {[model |-> Current.model, passed |-> FALSE]}]
  /\ op' = [op EXCEPT !.weights = Append(@, 0)]
  /\ UNCHANGED <<rows, merged, failed, noted, validating, attempts, restarts>>
Exclude ==
  /\ Scoring
  /\ LET o == Current.org
         verdict == Verdict(o, Current.model)
     IN /\ verdict # "accepted"
        /\ IF verdict = "blocked" THEN UNCHANGED <<trust, short>>
                                  ELSE Bump(o, -Penalty(verdict))
        /\ scored' = [scored EXCEPT ![o] = @ \cup {[model |-> Current.model, passed |-> FALSE]}]
  /\ op' = [op EXCEPT !.weights = Append(@, 0)]
  /\ UNCHANGED <<rows, base, merged, failed, noted, validating, attempts, restarts>>

(* An accepted contribution is the next baseline of its organisation ...   *)
Accept ==
  /\ Scoring
  /\ Verdict(Current.org, Current.model) = "accepted"
  /\ base' = IF validating THEN [base EXCEPT ![Current.org] = Current.model.acc] ELSE base
  /\ scored' = [scored EXCEPT ![Current.org] = {[model |-> Current.model, passed |-> TRUE]}]
  /\ op' = [op EXCEPT !.at = "rewarding"]
  /\ UNCHANGED <<rows, trust, short, merged, failed, noted, validating, attempts, restarts>>

(* ... and, by a commit of its own, raises its trust, which is its weight. *)
Reward ==
  /\ op.at = "rewarding"
  /\ Bump(Current.org, 2)
  /\ op' = [op EXCEPT !.at = "scoring",
              !.weights = Append(@, Weight(trust'[Current.org], Current.model.examples))]
  /\ UNCHANGED <<rows, base, merged, failed, noted, validating, scored, attempts, restarts>>

-----------------------------------------------------------------------------
(* All contributions are scored.                                           *)

Scored == op.at = "scoring" /\ Len(op.weights) = Len(rows[op.round])

Survivors == {i \in 1..Len(op.weights) : op.weights[i] > 0}
ModelOf(i) == rows[op.round][i].model

(* Heaviest first.  Which of two equal weights comes first depends on the  *)
(* order they were received in, or on how they were rounded.               *)
Heaviest == {i \in Survivors : \A j \in Survivors : op.weights[j] <= op.weights[i]}
Orders(S) ==
  {s \in [1..Cardinality(S) -> S] :
     \A i, j \in 1..Cardinality(S) :
        i < j => s[i] # s[j] /\ op.weights[s[i]] >= op.weights[s[j]]}

(* The schema gate and the filter of merge_xgboost_models, given whose     *)
(* feature space counts.                                                   *)
MatchingAny(h) == Survivors
Matching(h) == {i \in Survivors : ModelOf(i).schema = ModelOf(h).schema}
UsableTwoTrees(h) == {i \in Matching(h) : ModelOf(i).trees > 1}
Usable(h) == {i \in Matching(h) : ModelOf(i).trees > 0}
Mismatched(h) == {rows[op.round][i].org : i \in Survivors \ Matching(h)}

(* An organisation named for its schema is not credited for anything.      *)
CreditedAll(h) == Survivors
Credited(h) == {i \in Survivors : rows[op.round][i].org \notin Mismatched(h)}

Note(h) == noted' = IF Mismatched(h) = {} THEN noted
                    ELSE [noted EXCEPT ![op.round] = Mismatched(h)]

(* 422.                                                                    *)
AllRejected ==
  /\ Scored
  /\ Survivors = {}
  /\ op' = Idle
  /\ UNCHANGED <<rows, trust, short, base, merged, failed, noted, validating, scored,
                 attempts, restarts>>

(* model_feature_schema raises on what is not JSON.                        *)
Readable == \A i \in Survivors : ModelOf(i).form # "binary"

Unreadable ==
  /\ Scored
  /\ ~Readable
  /\ failed' = failed \cup {op.round}
  /\ op' = Idle
  /\ UNCHANGED <<rows, trust, short, base, merged, noted, validating, scored, attempts,
                 restarts>>

(* merge_xgboost_models raises when nobody is left.                        *)
NothingUsable ==
  /\ Scored
  /\ Survivors # {} /\ Readable
  /\ \E h \in Heaviest : Usable(h) = {} /\ Note(h)
  /\ failed' = failed \cup {op.round}
  /\ op' = Idle
  /\ UNCHANGED <<rows, trust, short, base, merged, validating, scored, attempts, restarts>>

Merge ==
  /\ Scored
  /\ Survivors # {} /\ Readable
  /\ \E h \in Heaviest :
       /\ Usable(h) # {}
       /\ Note(h)
       /\ \E order \in Orders(Usable(h)) :
            /\ h \in Usable(h) => order[1] = h
            /\ LET contributors == [i \in 1..Len(order) |->
                      [weight |-> op.weights[order[i]], trees |-> ModelOf(order[i]).trees]]
               IN \E included \in Inclusions(contributors) :
                    merged' = [merged EXCEPT ![op.round] =
                      [order |-> order, included |-> included, credited |-> Credited(h)]]
  /\ op' = Idle
  /\ UNCHANGED <<rows, trust, short, base, failed, validating, scored, attempts, restarts>>

-----------------------------------------------------------------------------
(* Around the aggregation.                                                 *)

(* A contribution is accepted; the checks are those of RoundIntake, and an *)
(* organisation may get more than one past them.                           *)
Contribute(r, o, m) ==
  /\ op.at = "idle"
  /\ merged[r] = None
  /\ SumFunction([x \in Rounds |-> Len(rows[x])]) < MaxRows
  /\ rows' = [rows EXCEPT ![r] = Append(@, [org |-> o, model |-> m])]
  /\ UNCHANGED <<trust, short, base, merged, failed, noted, validating, op, scored,
                 attempts, restarts>>

(* A revoked organisation enrols again: its row is replaced, and with it   *)
(* what it had earned.                                                     *)
Enrol(o) ==
  /\ op.at = "idle"
  /\ trust' = [trust EXCEPT ![o] = 100]
  /\ short' = [short EXCEPT ![o] = FALSE]
  /\ base' = [base EXCEPT ![o] = NoAccuracy]
  /\ scored' = [scored EXCEPT ![o] = {}]
  /\ UNCHANGED <<rows, merged, failed, noted, validating, op, attempts, restarts>>

(* The process stops, perhaps in the middle of an aggregation, and starts  *)
(* with or without a validation set: one that does not load is done        *)
(* without.                                                                *)
Restart ==
  /\ restarts < MaxRestarts
  /\ restarts' = restarts + 1
  /\ op' = Idle
  /\ validating' \in BOOLEAN
  /\ scored' = IF validating' = validating THEN scored ELSE [o \in Orgs |-> {}]
  /\ UNCHANGED <<rows, trust, short, base, merged, failed, noted, attempts>>

-----------------------------------------------------------------------------

Init ==
  /\ rows = [r \in Rounds |-> <<>>]
  /\ trust \in [Orgs -> Standings]
  /\ short = [o \in Orgs |-> FALSE]
  /\ base = [o \in Orgs |-> NoAccuracy]
  /\ merged = [r \in Rounds |-> None]
  /\ failed = {}
  /\ noted = [r \in Rounds |-> {}]
  /\ validating \in BOOLEAN
  /\ op = Idle
  /\ scored = [o \in Orgs |-> {}]
  /\ attempts = 0
  /\ restarts = 0

Next ==
  \/ \E r \in Rounds : BeginAggregate(r)
  \/ \E r \in Rounds, o \in Orgs : \E m \in Offers[r] : Contribute(r, o, m)
  \/ \E o \in Orgs : Enrol(o)
  \/ MissingModel \/ Exclude \/ Accept \/ Reward
  \/ AllRejected \/ Unreadable \/ NothingUsable \/ Merge
  \/ Restart

Spec == Init /\ [][Next]_vars

-----------------------------------------------------------------------------
(* Scoring and retrying.                                                   *)

(* Until another contribution of the organisation passes, verdicts stand:  *)
(* what was refused, in whichever round, is still refused when a retry     *)
(* scores it again, and what passed last still passes, unless penalties    *)
(* since have cost the organisation its standing; whatever was rewarded or *)
(* interrupted in between.  (The next one that passes moves the baseline:  *)
(* with two rounds open a verdict may then turn over, either way.)         *)
VerdictsStand ==
  \A o \in Orgs : \A x \in scored[o] :
    LET verdict == Verdict(o, x.model)
    IN IF x.passed
       THEN \/ verdict = "accepted"
            \/ verdict = "blocked" /\ \E y \in scored[o] : ~y.passed
       ELSE verdict # "accepted"

(* Below the floor there is no way back but a new enrolment, however the   *)
(* score came to be rounded: what is blocked is never scored again.        *)
FloorIsFinal ==
  [][\A o \in Orgs :
       BelowFloor(o) => \/ trust'[o] = trust[o] /\ short'[o] = short[o]
                        \/ trust'[o] = 100 /\ base'[o] = NoAccuracy]_vars

-----------------------------------------------------------------------------
(* Merging.                                                                *)

(* What the cap leaves of each contributor.                                *)
Kept(r) == Cut(merged[r].included)

Contributors(r) == {merged[r].order[i] : i \in 1..Len(merged[r].order)}
SameOrgTwice(r) ==
  \E i, j \in 1..Len(rows[r]) : i # j /\ rows[r][i].org = rows[r][j].org

(* No organisation below the trust floor has a tree in a global model when *)
(* it is made, unless it has two contributions in the round: the first may *)
(* have passed before the second cost it its standing.                     *)
MergedAboveFloor ==
  [][\A r \in Rounds :
       merged[r] = None /\ merged'[r] # None /\ ~SameOrgTwice(r) =>
         \A i \in 1..Len(merged'[r].order) :
           ~BelowFloor(rows[r][merged'[r].order[i]].org)]_vars

(* All trees of a global model are over one feature space, and come from   *)
(* contributions that a JSON parser reads.                                 *)
OneFeatureSpace ==
  \A r \in Rounds : merged[r] # None =>
    \A i, j \in Contributors(r) :
      /\ rows[r][i].model.form # "binary"
      /\ rows[r][i].model.schema = rows[r][j].model.schema

(* Whoever the round's record credits has trees in the model and whoever   *)
(* has trees is credited, as long as organisations contributed once, with  *)
(* trees, and the cap cut nobody off.  And nobody is credited whom the     *)
(* audit trail says was excluded, unless by an attempt that failed.        *)
CreditMatchesMerge ==
  \A r \in Rounds : merged[r] # None =>
    LET m == merged[r]
        inModel == {m.order[i] : i \in {j \in 1..Len(m.order) : Kept(r)[j] > 0}}
    IN /\ \/ m.credited = inModel
          \/ SameOrgTwice(r)
          \/ \E i \in m.credited : rows[r][i].model.trees = 0
          \/ SumFunction(Kept(r)) = MaxGlobalTrees
       /\ \/ \A i \in m.credited : rows[r][i].org \notin noted[r]
          \/ r \in failed

(* An aggregation that raises has met a contribution it cannot use, binary *)
(* or without trees: scoring itself never leads to an exception.           *)
FailsOnUnusable ==
  \A r \in failed : \E i \in 1..Len(rows[r]) :
    rows[r][i].model.form = "binary" \/ rows[r][i].model.trees = 0

(* The heaviest contributor comes first and whole as far as the cap allows. *)
(* No other has more than half of its trees in the model, or a single one, *)
(* and every contributor has one unless the cap was reached before it.     *)
WeightedShares ==
  \A r \in Rounds : merged[r] # None =>
    LET kept == Kept(r)
        size(i) == rows[r][merged[r].order[i]].model.trees
    IN \A i \in DOMAIN kept :
         /\ i = 1 => kept[i] = Smaller(size(i), MaxGlobalTrees)
         /\ i > 1 => kept[i] <= 1 \/ 2 * kept[i] <= size(i)
         /\ kept[i] = 0 => Before(kept, i) = MaxGlobalTrees
=============================================================================
