------------------------ MODULE TrustScoringProofs ------------------------
(***************************************************************************)
(* Proofs about TrustScoring, for every set of organisations, rounds and   *)
(* models, every cap and every choice of the thresholds.                   *)
(***************************************************************************)
EXTENDS TrustScoring, FedBaggingProofs, TLAPS

(* The aggregation under way is of a round that is not aggregated yet, and *)
(* has not come further than the contributions go.                         *)
OpOK ==
  /\ op.at # "idle" => /\ op.round \in Rounds
                       /\ merged[op.round] = None
                       /\ Len(op.weights) <= Len(rows[op.round])
  /\ op.at = "rewarding" => Len(op.weights) < Len(rows[op.round])

TInv == TrustTypeOK /\ OpOK

-----------------------------------------------------------------------------
(* Helpers.                                                                *)

(* What _bump stores is a score, whatever the change.                      *)
LEMMA BumpTypes ==
  ASSUME TInv, NEW o \in Orgs, NEW delta \in Int, Bump(o, delta)
  PROVE  /\ trust' \in [Orgs -> 0..100]
         /\ short' \in [Orgs -> BOOLEAN]
         /\ \A p \in Orgs \ {o} : trust'[p] = trust[p] /\ short'[p] = short[p]
         /\ trust'[o] = Larger(0, Smaller(100, trust[o] + delta))
         /\ short'[o] => trust'[o] = MinTrust
<1> DEFINE new == Larger(0, Smaller(100, trust[o] + delta))
<1>0. trust[o] \in 0..100
  BY DEF TInv, TrustTypeOK
<1>1. new \in 0..100
  BY <1>0 DEF Larger, Smaller
<1>2. trust' = [trust EXCEPT ![o] = new]
  BY DEF Bump
<1>3. PICK s \in IF new = MinTrust THEN BOOLEAN ELSE {FALSE} : short' = [short EXCEPT ![o] = s]
  BY DEF Bump
<1> HIDE DEF new
<1>4. s \in BOOLEAN /\ (s => new = MinTrust)
  BY <1>3
<1>5. trust' \in [Orgs -> 0..100] /\ short' \in [Orgs -> BOOLEAN]
  BY <1>1, <1>2, <1>3, <1>4 DEF TInv, TrustTypeOK
<1>6. \A p \in Orgs \ {o} : trust'[p] = trust[p] /\ short'[p] = short[p]
  BY <1>2, <1>3 DEF TInv, TrustTypeOK
<1>7. trust'[o] = new /\ (short'[o] => trust'[o] = MinTrust)
  BY <1>2, <1>3, <1>4 DEF TInv, TrustTypeOK
<1>8. QED BY <1>5, <1>6, <1>7 DEF new

(* The contribution whose turn it is.                                      *)
LEMMA CurrentIsRow ==
  ASSUME TInv, Scoring \/ op.at = "rewarding"
  PROVE  /\ op.round \in Rounds
         /\ Len(op.weights) + 1 \in 1..Len(rows[op.round])
         /\ Current \in Row /\ Current.org \in Orgs /\ Current.model \in Models
<1>1. op.round \in Rounds /\ op.weights \in Seq(Nat) /\ rows[op.round] \in Seq(Row)
  BY DEF TInv, TrustTypeOK, OpOK, Op, Scoring
<1>2. Len(op.weights) + 1 \in 1..Len(rows[op.round])
  BY <1>1 DEF TInv, OpOK, Scoring
<1>3. Current \in Row
  BY <1>1, <1>2 DEF Current
<1>4. QED BY <1>1, <1>2, <1>3 DEF Row

LEMMA PenaltyInt ==
  ASSUME NEW o, NEW m, Verdict(o, m) \notin {"blocked", "accepted"}
  PROVE  Penalty(Verdict(o, m)) \in 10..20
  BY DEF Verdict, Penalty

LEMMA WeightNat ==
  ASSUME NEW s \in 0..100, NEW e \in Nat
  PROVE  Weight(s, e) \in Nat
<1>1. Smaller(Larger(e, 1), MaxExamples) \in Nat
  BY TrustAssumption DEF Smaller, Larger
<1>2. QED BY <1>1 DEF Weight

-----------------------------------------------------------------------------
(* The types along every step.                                             *)

LEMMA SurvivorsNat ==
  ASSUME TInv
  PROVE  /\ Survivors \subseteq 1..Len(op.weights)
         /\ Survivors \subseteq Nat
         /\ \A h : Usable(h) \subseteq Survivors /\ IsFiniteSet(Usable(h))
<1>1. Len(op.weights) \in Nat
  BY DEF TInv, TrustTypeOK, Op
<1>2. Survivors \subseteq 1..Len(op.weights)
  BY DEF Survivors
<1>3. IsFiniteSet(Survivors)
  <2>1. IsFiniteSet(1..Len(op.weights))
    BY <1>1, FS_Interval
  <2>2. QED BY <1>2, <2>1, FS_Subset
<1>4. \A h : Usable(h) \subseteq Survivors
  BY DEF Usable, Matching
<1>5. \A h : IsFiniteSet(Usable(h))
  BY <1>3, <1>4, FS_Subset
<1>6. QED BY <1>1, <1>2, <1>4, <1>5

LEMMA OrdersAreSeqs ==
  ASSUME NEW S, IsFiniteSet(S), S \subseteq Nat, NEW s \in Orders(S)
  PROVE  s \in Seq(Nat) /\ Len(s) = Cardinality(S) /\ \A i \in 1..Len(s) : s[i] \in S
<1>1. Cardinality(S) \in Nat
  BY FS_CardinalityType
<1>2. s \in [1..Cardinality(S) -> S]
  BY DEF Orders
<1>3. DOMAIN s = 1..Cardinality(S) /\ \A i \in 1..Cardinality(S) : s[i] \in Nat
  BY <1>2
<1>4. s \in [1..Cardinality(S) -> Nat]
  BY <1>2, <1>3
<1>5. s \in Seq(Nat) /\ Len(s) = Cardinality(S)
  BY <1>1, <1>4
<1>6. QED BY <1>2, <1>5

LEMMA SurvivorRows ==
  ASSUME TInv, op.round \in Rounds, op.at # "idle"
  PROVE  \A i \in Survivors :
           /\ i \in 1..Len(rows[op.round])
           /\ rows[op.round][i].org \in Orgs
           /\ ModelOf(i) \in Models
           /\ ModelOf(i).trees \in Nat
<1>1. op.weights \in Seq(Nat) /\ rows[op.round] \in Seq(Row)
  BY DEF TInv, TrustTypeOK, Op
<1>2. \A i \in Survivors : i \in 1..Len(rows[op.round])
  BY <1>1, SurvivorsNat DEF TInv, OpOK
<1>3. \A i \in Survivors : rows[op.round][i] \in Row
  BY <1>1, <1>2
<1>4. \A i \in Survivors : rows[op.round][i].org \in Orgs /\ ModelOf(i) \in Models
  BY <1>3 DEF Row, ModelOf
<1>5. \A i \in Survivors : ModelOf(i).trees \in Nat
  BY <1>4, TrustAssumption DEF Model
<1>6. QED BY <1>2, <1>4, <1>5

LEMMA NoteTypes ==
  ASSUME TInv, op.round \in Rounds, op.at # "idle", NEW h \in Heaviest, Note(h)
  PROVE  noted' \in [Rounds -> SUBSET Orgs]
<1>1. Mismatched(h) \subseteq Orgs
  BY SurvivorRows DEF Mismatched
<1>2. QED BY <1>1 DEF Note, TInv, TrustTypeOK

(* An order of S names every member of S.                                  *)
LEMMA OrderNamesAll ==
  ASSUME NEW S, IsFiniteSet(S), S \subseteq Nat, NEW s \in Orders(S)
  PROVE  S = {s[i] : i \in 1..Len(s)}
<1> DEFINE n == Cardinality(S)
<1>1. n \in Nat
  BY FS_CardinalityType
<1>2. s \in [1..n -> S] /\ Len(s) = n
  BY OrdersAreSeqs DEF Orders
<1>3. IsFiniteSet(1..n) /\ Cardinality(1..n) = n
  <2>1. 1 \in Int /\ n \in Int
    BY <1>1
  <2>2. Cardinality(1..n) = IF 1 > n THEN 0 ELSE n - 1 + 1
    BY <2>1, FS_Interval
  <2>3. QED BY <1>1, <2>1, <2>2, FS_Interval
<1>4. \A i, j \in 1..n : i # j => s[i] # s[j]
  <2>1. \A i, j \in 1..n : i < j => s[i] # s[j]
    BY DEF Orders
  <2>2. \A i, j \in 1..n : i # j => i < j \/ j < i
    BY <1>1
  <2>3. QED BY <2>1, <2>2
<1>5. s \in Injection(1..n, S)
  BY <1>2, <1>4 DEF Injection, IsInjective
<1>6. s \in Surjection(1..n, S)
  BY <1>3, <1>5, FS_Injection
<1>7. \A x \in S : \E i \in 1..n : s[i] = x
  BY <1>6 DEF Surjection
<1>8. QED BY <1>2, <1>7

(* What Merge decides: whose feature space counts, in which order the      *)
(* usable contributions are joined and how much of each is included.       *)
LEMMA MergeTakesShares ==
  ASSUME TInv, op.round \in Rounds, op.at # "idle", Merge
  PROVE  \E h \in Heaviest, bag \in Bag :
           /\ Note(h)
           /\ merged' = [merged EXCEPT ![op.round] = bag]
           /\ bag.credited = Credited(h)
           /\ {bag.order[i] : i \in 1..Len(bag.order)} = Usable(h)
           /\ Len(bag.included) = Len(bag.order)
           /\ \A i \in 1..Len(bag.order) :
                /\ bag.included[i] \in Nat \ {0}
                /\ i = 1 => bag.included[i] = ModelOf(bag.order[i]).trees
                /\ i > 1 => \/ bag.included[i] = 1
                            \/ 2 * bag.included[i] <= ModelOf(bag.order[i]).trees
<1> DEFINE Result(h, order, included) ==
             [order |-> order, included |-> included, credited |-> Credited(h)]
           Bags(order) == [i \in 1..Len(order) |->
             [weight |-> op.weights[order[i]], trees |-> ModelOf(order[i]).trees]]
<1>0. PICK h \in Heaviest :
        /\ Note(h)
        /\ \E order \in Orders(Usable(h)) : \E included \in Inclusions(Bags(order)) :
             merged' = [merged EXCEPT ![op.round] = Result(h, order, included)]
  BY DEF Merge
<1>1. PICK order \in Orders(Usable(h)) : \E included \in Inclusions(Bags(order)) :
        merged' = [merged EXCEPT ![op.round] = Result(h, order, included)]
  BY <1>0
<1> DEFINE ms == Bags(order)
           n  == Len(order)
<1>2. PICK included \in Inclusions(ms) :
        merged' = [merged EXCEPT ![op.round] = Result(h, order, included)]
  BY <1>1
<1>3. /\ order \in Seq(Nat)
      /\ n = Cardinality(Usable(h))
      /\ \A i \in 1..n : order[i] \in Usable(h)
      /\ Usable(h) = {order[i] : i \in 1..n}
  BY SurvivorsNat, OrdersAreSeqs, OrderNamesAll
<1>4. n \in Nat /\ Len(ms) = n
  <2>1. order \in Seq(Nat)
    BY <1>3, Zenon
  <2>2. Len(order) \in Nat
    BY <2>1
  <2>3. Len(ms) = Len(order)
    BY <2>2
  <2>4. QED BY <2>2, <2>3
<1>5. ASSUME NEW i \in 1..n
      PROVE  /\ ModelOf(order[i]).trees \in Nat \ {0}
             /\ op.weights[order[i]] \in Nat \ {0}
  <2>1. order[i] \in Survivors /\ ModelOf(order[i]).trees > 0
    BY <1>3, SurvivorsNat DEF Usable
  <2>2. ModelOf(order[i]).trees \in Nat
    BY <2>1, SurvivorRows
  <2>3. op.weights \in Seq(Nat)
    BY DEF TInv, TrustTypeOK, Op
  <2>4. op.weights[order[i]] \in Nat /\ op.weights[order[i]] > 0
    BY <2>1, <2>3, SurvivorsNat DEF Survivors
  <2>5. QED BY <2>1, <2>2, <2>4
<1>6. \A i \in 1..n : op.weights[order[i]] <= op.weights[order[1]]
  <2>1. \A i, j \in 1..n : i < j => op.weights[order[i]] >= op.weights[order[j]]
    BY <1>3 DEF Orders
  <2>2. ASSUME NEW i \in 1..n PROVE op.weights[order[i]] <= op.weights[order[1]]
    <3>1. 1 \in 1..n /\ (i = 1 \/ 1 < i)
      BY <1>4
    <3>2. op.weights[order[i]] \in Nat /\ op.weights[order[1]] \in Nat
      BY <1>5, <3>1
    <3>3. QED BY <2>1, <3>1, <3>2
  <2>3. QED BY <2>2
<1>7. \A i \in 1..n : ms[i].weight = op.weights[order[i]] /\ ms[i].trees = ModelOf(order[i]).trees
  OBVIOUS
<1> HIDE DEF ms, n
<1>8. /\ \A i \in 1..n : ms[i].trees \in Nat \ {0} /\ ms[i].weight \in Nat \ {0}
      /\ \A i \in 1..n : ms[i].weight <= ms[1].weight
  <2>1. ASSUME NEW i \in 1..n PROVE 1 \in 1..n
    BY <1>4
  <2>2. QED BY <1>5, <1>6, <1>7, <2>1
<1>9. /\ included \in [1..n -> Nat \ {0}]
      /\ \A i \in 1..n : /\ i = 1 => included[i] = ms[1].trees
                         /\ i > 1 => included[i] = 1 \/ 2 * included[i] <= ms[i].trees
  BY <1>2, <1>4, <1>8, IncludedShares
<1>10. included \in Seq(Nat) /\ Len(included) = n
  BY <1>4, <1>9
<1>11. Credited(h) \in SUBSET Nat
  BY SurvivorsNat DEF Credited
<1> DEFINE bag == Result(h, order, included)
<1>12. /\ bag \in Bag
       /\ bag.order = order /\ bag.included = included /\ bag.credited = Credited(h)
  BY <1>3, <1>10, <1>11 DEF Bag
<1>13. merged' = [merged EXCEPT ![op.round] = bag]
  BY <1>2
<1> HIDE DEF bag
<1>14. \A i \in 1..n :
         /\ included[i] \in Nat \ {0}
         /\ i = 1 => included[i] = ModelOf(order[i]).trees
         /\ i > 1 => included[i] = 1 \/ 2 * included[i] <= ModelOf(order[i]).trees
  BY <1>7, <1>9
<1>15. /\ {bag.order[i] : i \in 1..Len(bag.order)} = Usable(h)
       /\ Len(bag.included) = Len(bag.order)
  BY <1>3, <1>10, <1>12 DEF n
<1>16. \A i \in 1..Len(bag.order) :
         /\ bag.included[i] \in Nat \ {0}
         /\ i = 1 => bag.included[i] = ModelOf(bag.order[i]).trees
         /\ i > 1 => bag.included[i] = 1 \/ 2 * bag.included[i] <= ModelOf(bag.order[i]).trees
  BY <1>12, <1>14 DEF n
<1>17. QED BY <1>0, <1>12, <1>13, <1>15, <1>16

(* A merge is of surviving contributions that share the feature space of   *)
(* the heaviest, all of them readable.                                     *)
LEMMA MergeMakesBag ==
  ASSUME TInv, op.round \in Rounds, op.at # "idle", Merge
  PROVE  \E h \in Heaviest, bag \in Bag :
           /\ Note(h)
           /\ merged' = [merged EXCEPT ![op.round] = bag]
           /\ \A i \in 1..Len(bag.order) : bag.order[i] \in Usable(h)
<1>1. PICK h \in Heaviest, bag \in Bag :
        /\ Note(h)
        /\ merged' = [merged EXCEPT ![op.round] = bag]
        /\ {bag.order[i] : i \in 1..Len(bag.order)} = Usable(h)
  BY MergeTakesShares
<1>2. \A i \in 1..Len(bag.order) : bag.order[i] \in Usable(h)
  BY <1>1
<1>3. QED BY <1>1, <1>2

LEMMA IdleOp == Idle \in Op /\ Idle.at = "idle"
  BY DEF Idle, Op

LEMMA TInvInit == Init => TInv
<1> SUFFICES ASSUME Init PROVE TInv
  OBVIOUS
<1>1. op \in Op /\ op.at = "idle"
  BY IdleOp DEF Init
<1>2. trust \in [Orgs -> 0..100]
  BY TrustAssumption DEF Init
<1>3. QED BY <1>1, <1>2 DEF Init, TInv, TrustTypeOK, OpOK

LEMMA TInvStep == TInv /\ [Next]_vars => TInv'
<1> SUFFICES ASSUME TInv, [Next]_vars PROVE TInv'
  OBVIOUS
<1>1. ASSUME NEW r \in Rounds, BeginAggregate(r) PROVE TInv'
  <2>1. op' = [at |-> "scoring", round |-> r, weights |-> <<>>]
    BY <1>1 DEF BeginAggregate, Idle
  <2>2. op' \in Op /\ Len(op'.weights) = 0
    BY <2>1 DEF Op
  <2>3. Len(rows[r]) \in Nat
    BY DEF TInv, TrustTypeOK
  <2>4. op'.at = "scoring" /\ op'.round = r
    BY <2>1
  <2>5. OpOK'
    BY <1>1, <2>2, <2>3, <2>4 DEF BeginAggregate, OpOK
  <2>6. attempts' \in Nat
    BY <1>1 DEF BeginAggregate, TInv, TrustTypeOK
  <2>7. QED BY <1>1, <2>2, <2>5, <2>6 DEF BeginAggregate, TInv, TrustTypeOK
<1>2. ASSUME NEW r \in Rounds, NEW o \in Orgs, NEW m \in Offers[r], Contribute(r, o, m)
      PROVE TInv'
  <2>1. [org |-> o, model |-> m] \in Row
    BY <1>2, TrustAssumption DEF Row
  <2>2. rows' \in [Rounds -> Seq(Row)]
    BY <1>2, <2>1 DEF Contribute, TInv, TrustTypeOK
  <2>3. QED BY <1>2, <2>2 DEF Contribute, TInv, TrustTypeOK, OpOK
<1>3. ASSUME NEW o \in Orgs, Enrol(o) PROVE TInv'
  BY <1>3 DEF Enrol, TInv, TrustTypeOK, OpOK
<1>4. ASSUME MissingModel PROVE TInv'
  <2> DEFINE w == Append(op.weights, 0)
  <2>1. op' = [op EXCEPT !.weights = w] /\ op \in Op
    BY <1>4 DEF MissingModel, TInv, TrustTypeOK
  <2>2. op.weights \in Seq(Nat) /\ w \in Seq(Nat) /\ Len(w) = Len(op.weights) + 1
    BY <2>1 DEF Op
  <2> HIDE DEF w
  <2>3. op' \in Op /\ op'.at = "scoring" /\ op'.round = op.round /\ op'.weights = w
    BY <1>4, <2>1, <2>2 DEF Op, MissingModel, Scoring
  <2>4. Len(rows[op.round]) \in Nat
    BY <1>4, CurrentIsRow DEF MissingModel, TInv, TrustTypeOK
  <2>5. OpOK'
    BY <1>4, <2>2, <2>3, <2>4 DEF MissingModel, Scoring, OpOK, TInv
  <2>6. QED BY <1>4, <2>3, <2>5 DEF MissingModel, TInv, TrustTypeOK
<1>5. ASSUME Exclude PROVE TInv'
  <2> DEFINE w == Append(op.weights, 0)
             score == [model |-> Current.model, passed |-> FALSE]
  <2>0. Scoring /\ Current.org \in Orgs /\ Current.model \in Models /\ op.round \in Rounds
    BY <1>5, CurrentIsRow DEF Exclude
  <2>1. op' = [op EXCEPT !.weights = w] /\ op \in Op
    BY <1>5 DEF Exclude, TInv, TrustTypeOK
  <2>2. op.weights \in Seq(Nat) /\ w \in Seq(Nat) /\ Len(w) = Len(op.weights) + 1
    BY <2>1 DEF Op
  <2> HIDE DEF w
  <2>3. op' \in Op /\ op'.at = "scoring" /\ op'.round = op.round /\ op'.weights = w
    BY <2>0, <2>1, <2>2 DEF Op, Scoring
  <2>4. Len(rows[op.round]) \in Nat
    BY <2>0 DEF TInv, TrustTypeOK
  <2>5. OpOK'
    BY <1>5, <2>0, <2>2, <2>3, <2>4 DEF Exclude, Scoring, OpOK, TInv
  <2>6. score \in Score
    BY <2>0 DEF Score
  <2>7. scored' = [scored EXCEPT ![Current.org] = scored[Current.org] \cup {score}]
    BY <1>5 DEF Exclude
  <2>8. scored' \in [Orgs -> SUBSET Score]
    BY <2>0, <2>6, <2>7 DEF TInv, TrustTypeOK
  <2>9. trust' \in [Orgs -> 0..100] /\ short' \in [Orgs -> BOOLEAN]
    <3>1. CASE Verdict(Current.org, Current.model) = "blocked"
      BY <1>5, <3>1 DEF Exclude, TInv, TrustTypeOK
    <3>2. CASE Verdict(Current.org, Current.model) # "blocked"
      <4>1. Penalty(Verdict(Current.org, Current.model)) \in 10..20
        BY <1>5, <3>2, PenaltyInt DEF Exclude
      <4>2. Bump(Current.org, -Penalty(Verdict(Current.org, Current.model)))
        BY <1>5, <3>2 DEF Exclude
      <4>3. -Penalty(Verdict(Current.org, Current.model)) \in Int
        BY <4>1
      <4>4. QED BY <2>0, <4>2, <4>3, BumpTypes
    <3>3. QED BY <3>1, <3>2
  <2>10. UNCHANGED <<rows, base, merged, failed, noted, validating, attempts, restarts>>
    BY <1>5 DEF Exclude
  <2>11. QED BY <2>3, <2>5, <2>8, <2>9, <2>10 DEF TInv, TrustTypeOK
<1>6. ASSUME Accept PROVE TInv'
  <2> DEFINE score == [model |-> Current.model, passed |-> TRUE]
  <2>0. Scoring /\ Current.org \in Orgs /\ Current.model \in Models
    BY <1>6, CurrentIsRow DEF Accept
  <2>1. op' = [op EXCEPT !.at = "rewarding"] /\ op \in Op
    BY <1>6 DEF Accept, TInv, TrustTypeOK
  <2>2. op' \in Op /\ op'.at = "rewarding" /\ op'.round = op.round /\ op'.weights = op.weights
    BY <2>1 DEF Op
  <2>3. OpOK'
    BY <1>6, <2>0, <2>2 DEF Accept, Scoring, OpOK, TInv
  <2>4. score \in Score /\ Current.model.acc \in 0..100
    BY <2>0, TrustAssumption DEF Score, Model
  <2>5. scored' = [scored EXCEPT ![Current.org] = {score}]
    BY <1>6 DEF Accept
  <2> HIDE DEF score
  <2>6. scored' \in [Orgs -> SUBSET Score]
    BY <2>0, <2>4, <2>5 DEF TInv, TrustTypeOK
  <2>7. base' \in [Orgs -> {NoAccuracy} \cup 0..100]
    BY <1>6, <2>0, <2>4 DEF Accept, TInv, TrustTypeOK
  <2>8. QED BY <1>6, <2>2, <2>3, <2>6, <2>7 DEF Accept, TInv, TrustTypeOK
<1>7. ASSUME Reward PROVE TInv'
  <2>0. op.at = "rewarding" /\ Current.org \in Orgs /\ Current.model \in Models
           /\ op.round \in Rounds
    BY <1>7, CurrentIsRow DEF Reward
  <2>1. trust' \in [Orgs -> 0..100] /\ short' \in [Orgs -> BOOLEAN]
    BY <1>7, <2>0, BumpTypes DEF Reward
  <2>2. PICK x : x = Weight(trust'[Current.org], Current.model.examples)
    OBVIOUS
  <2>3. Current.model.examples \in Nat
    BY <2>0, TrustAssumption DEF Model
  <2>4. x \in Nat
    BY <2>0, <2>1, <2>2, <2>3, WeightNat
  <2>5. op' = [op EXCEPT !.at = "scoring", !.weights = Append(op.weights, x)]
    BY <1>7, <2>2 DEF Reward, TInv, TrustTypeOK, Op
  <2>6. op.weights \in Seq(Nat) /\ op \in Op
    BY DEF TInv, TrustTypeOK, Op
  <2>7. Append(op.weights, x) \in Seq(Nat) /\ Len(Append(op.weights, x)) = Len(op.weights) + 1
    BY <2>4, <2>6
  <2>8. op' \in Op /\ op'.at = "scoring" /\ op'.round = op.round
           /\ op'.weights = Append(op.weights, x)
    BY <2>5, <2>6, <2>7 DEF Op
  <2>9. Len(rows[op.round]) \in Nat
    BY <2>0 DEF TInv, TrustTypeOK
  <2>10. OpOK'
    BY <1>7, <2>0, <2>6, <2>7, <2>8, <2>9 DEF Reward, OpOK, TInv
  <2>11. QED BY <1>7, <2>1, <2>8, <2>10 DEF Reward, TInv, TrustTypeOK
<1>8. ASSUME AllRejected \/ Unreadable PROVE TInv'
  <2>1. Scored /\ op.round \in Rounds
    BY <1>8 DEF AllRejected, Unreadable, Scored, TInv, OpOK
  <2>2. QED BY <1>8, <2>1, IdleOp DEF AllRejected, Unreadable, TInv, TrustTypeOK, OpOK
<1>9. ASSUME NothingUsable PROVE TInv'
  <2>1. Scored /\ op.round \in Rounds
    BY <1>9 DEF NothingUsable, Scored, TInv, OpOK
  <2>2. PICK h \in Heaviest : Note(h)
    BY <1>9 DEF NothingUsable
  <2>3. noted' \in [Rounds -> SUBSET Orgs]
    BY <2>1, <2>2, NoteTypes DEF Scored
  <2>4. QED BY <1>9, <2>1, <2>3, IdleOp DEF NothingUsable, TInv, TrustTypeOK, OpOK
<1>10. ASSUME Merge PROVE TInv'
  <2>1. Scored /\ op.round \in Rounds
    BY <1>10 DEF Merge, Scored, TInv, OpOK
  <2>2. PICK h \in Heaviest, bag \in Bag :
          Note(h) /\ merged' = [merged EXCEPT ![op.round] = bag]
    BY <1>10, <2>1, MergeMakesBag DEF Scored
  <2>3. noted' \in [Rounds -> SUBSET Orgs]
    BY <2>1, <2>2, NoteTypes DEF Scored
  <2>4. merged' \in [Rounds -> Bag \cup {None}]
    BY <2>1, <2>2 DEF TInv, TrustTypeOK
  <2>5. QED BY <1>10, <2>1, <2>3, <2>4, IdleOp DEF Merge, TInv, TrustTypeOK, OpOK
<1>11. ASSUME Restart PROVE TInv'
  BY <1>11, IdleOp DEF Restart, TInv, TrustTypeOK, OpOK
<1>12. CASE UNCHANGED vars
  BY <1>12 DEF vars, TInv, TrustTypeOK, OpOK, Op
<1>13. QED
  BY <1>1, <1>2, <1>3, <1>4, <1>5, <1>6, <1>7, <1>8, <1>9, <1>10, <1>11, <1>12 DEF Next

(* Types: scores stay in 0..100 whatever is penalised and rewarded.        *)
THEOREM TrustTypes == Spec => []TrustTypeOK
<1>1. TInv => TrustTypeOK
  BY DEF TInv
<1>2. QED BY TInvInit, TInvStep, <1>1, PTL DEF Spec

-----------------------------------------------------------------------------
(* Verdicts.  While an organisation is to be rewarded, it has just passed  *)
(* with the contribution at hand.                                          *)

RewardOK ==
  op.at = "rewarding" => scored[Current.org] = {[model |-> Current.model, passed |-> TRUE]}

(* How a verdict stands, with and without a refusal since.                 *)
Stands(verdict, passed, refused) ==
  IF passed THEN verdict = "accepted" \/ (verdict = "blocked" /\ refused)
            ELSE verdict # "accepted"

Refused(o) == \E y \in scored[o] : ~y.passed

RInv == TInv /\ RewardOK /\ VerdictsStand

LEMMA VerdictsStandEach ==
  VerdictsStand <=>
    \A o \in Orgs : \A x \in scored[o] : Stands(Verdict(o, x.model), x.passed, Refused(o))
BY DEF VerdictsStand, Stands, Refused

(* A score that is not below the floor is not below it after a reward.     *)
LEMMA RewardedNotBelow ==
  ASSUME TInv, NEW o \in Orgs, ~BelowFloor(o), Bump(o, 2)
  PROVE  ~BelowFloor(o)'
<1>0. trust[o] \in 0..100 /\ MinTrust \in 0..99
  BY TrustAssumption DEF TInv, TrustTypeOK
<1>1. trust[o] >= MinTrust
  BY <1>0 DEF BelowFloor
<1>2. /\ trust'[o] = Larger(0, Smaller(100, trust[o] + 2))
      /\ 2 \in Int
  BY BumpTypes
<1>3. trust'[o] > MinTrust
  BY <1>0, <1>1, <1>2 DEF Larger, Smaller
<1>4. QED BY <1>0, <1>3, <1>2 DEF BelowFloor, Larger, Smaller

LEMMA VerdictFrame ==
  ASSUME NEW o \in Orgs, NEW m,
         trust'[o] = trust[o], short'[o] = short[o], base'[o] = base[o],
         validating' = validating
  PROVE  Verdict(o, m)' = Verdict(o, m)
  BY DEF Verdict, BelowFloor

(* What has been recorded of the others stands if their verdicts do.       *)
LEMMA OthersStand ==
  ASSUME VerdictsStand, NEW p \in Orgs, scored'[p] = scored[p],
         \A n : Verdict(p, n)' = Verdict(p, n)
  PROVE  \A x \in scored'[p] : Stands(Verdict(p, x.model)', x.passed, Refused(p)')
<1>1. \A x \in scored[p] : Stands(Verdict(p, x.model), x.passed, Refused(p))
  BY VerdictsStandEach
<1>2. Refused(p)' <=> Refused(p)
  BY DEF Refused
<1>3. QED BY <1>1, <1>2 DEF Stands

(* The verdicts after a step, organisation by organisation.                *)
LEMMA StandAfter ==
  ASSUME \A p \in Orgs : \A x \in scored'[p] :
           Stands(Verdict(p, x.model)', x.passed, Refused(p)')
  PROVE  VerdictsStand'
BY DEF VerdictsStand, Stands, Refused, Verdict, BelowFloor

LEMMA ScoredTypes ==
  ASSUME TInv, NEW p \in Orgs, NEW x \in scored[p]
  PROVE  x \in Score /\ x.passed \in BOOLEAN /\ x.model \in Models
BY DEF TInv, TrustTypeOK, Score

(* Who is to be rewarded has just passed.                                  *)
LEMMA RewardIsDue ==
  ASSUME RInv, op.at = "rewarding"
  PROVE  Verdict(Current.org, Current.model) = "accepted"
<1>0. PICK o, m : o = Current.org /\ m = Current.model
  OBVIOUS
<1>1. o \in Orgs /\ m \in Models
  BY <1>0, CurrentIsRow DEF RInv
<1> DEFINE x == [model |-> m, passed |-> TRUE]
<1>2. scored[o] = {x}
  BY <1>0 DEF RInv, RewardOK
<1>3. x.model = m /\ x.passed = TRUE
  OBVIOUS
<1> HIDE DEF x
<1>4. ~Refused(o)
  BY <1>2, <1>3 DEF Refused
<1>5. Stands(Verdict(o, x.model), x.passed, Refused(o))
  BY <1>1, <1>2, VerdictsStandEach DEF RInv
<1>6. QED BY <1>0, <1>3, <1>4, <1>5 DEF Stands

LEMMA RInvInit == Init => RInv
<1> SUFFICES ASSUME Init PROVE RInv
  OBVIOUS
<1>1. op.at = "idle"
  BY IdleOp DEF Init
<1>2. QED BY <1>1, TInvInit DEF Init, RInv, RewardOK, VerdictsStand

LEMMA RInvStep == RInv /\ [Next]_vars => RInv'
<1> SUFFICES ASSUME RInv, [Next]_vars PROVE RInv'
  OBVIOUS
<1>0. TInv /\ TInv'
  BY TInvStep DEF RInv
<1>1. ASSUME NEW r \in Rounds, BeginAggregate(r) PROVE RInv'
  <2>1. op'.at = "scoring"
    BY <1>1 DEF BeginAggregate, Idle
  <2>2. \A o \in Orgs : \A m : Verdict(o, m)' = Verdict(o, m)
    BY <1>1, VerdictFrame DEF BeginAggregate
  <2>3. QED BY <1>0, <1>1, <2>1, <2>2 DEF BeginAggregate, RInv, RewardOK, VerdictsStand
<1>2. ASSUME NEW r \in Rounds, NEW o \in Orgs, NEW m \in Offers[r], Contribute(r, o, m)
      PROVE RInv'
  <2>1. op'.at = "idle"
    BY <1>2 DEF Contribute
  <2>2. \A p \in Orgs : \A n : Verdict(p, n)' = Verdict(p, n)
    BY <1>2, VerdictFrame DEF Contribute
  <2>3. QED BY <1>0, <1>2, <2>1, <2>2 DEF Contribute, RInv, RewardOK, VerdictsStand
<1>3. ASSUME NEW o \in Orgs, Enrol(o) PROVE RInv'
  <2>1. op'.at = "idle" /\ scored'[o] = {}
    BY <1>3, <1>0 DEF Enrol, TInv, TrustTypeOK
  <2>2. \A p \in Orgs \ {o} : scored'[p] = scored[p] /\ \A n : Verdict(p, n)' = Verdict(p, n)
    BY <1>3, <1>0, VerdictFrame DEF Enrol, TInv, TrustTypeOK
  <2>3. \A p \in Orgs : \A x \in scored'[p] :
          Stands(Verdict(p, x.model)', x.passed, Refused(p)')
    BY <2>1, <2>2, OthersStand DEF RInv
  <2>4. VerdictsStand'
    BY <2>3, StandAfter
  <2>5. QED BY <1>0, <2>1, <2>4 DEF RInv, RewardOK
<1>4. ASSUME MissingModel PROVE RInv'
  <2>1. op'.at = "scoring"
    BY <1>0, <1>4 DEF MissingModel, Scoring, TInv, TrustTypeOK, Op
  <2>2. \A p \in Orgs : \A n : Verdict(p, n)' = Verdict(p, n)
    BY <1>4, VerdictFrame DEF MissingModel
  <2>3. QED BY <1>0, <1>4, <2>1, <2>2 DEF MissingModel, RInv, RewardOK, VerdictsStand
<1>5. ASSUME Exclude PROVE RInv'
  <2>0. PICK o, m : o = Current.org /\ m = Current.model
    OBVIOUS
  <2>1. Scoring /\ o \in Orgs /\ m \in Models /\ Verdict(o, m) # "accepted"
    BY <1>0, <1>5, <2>0, CurrentIsRow DEF Exclude
  <2>2. op'.at = "scoring"
    BY <1>0, <1>5, <2>1 DEF Exclude, Scoring, TInv, TrustTypeOK, Op
  <2> DEFINE new == [model |-> m, passed |-> FALSE]
  <2>3. scored' = [scored EXCEPT ![o] = scored[o] \cup {new}]
    BY <1>5, <2>0 DEF Exclude
  <2>a. new.model = m /\ new.passed = FALSE
    OBVIOUS
  <2> HIDE DEF new
  <2>4. base' = base /\ validating' = validating
    BY <1>5 DEF Exclude
  <2>5. /\ \A p \in Orgs \ {o} : trust'[p] = trust[p] /\ short'[p] = short[p]
        /\ Verdict(o, m) = "blocked" => trust'[o] = trust[o] /\ short'[o] = short[o]
    <3>1. CASE Verdict(o, m) = "blocked"
      BY <1>5, <2>0, <3>1 DEF Exclude
    <3>2. CASE Verdict(o, m) # "blocked"
      <4>1. Penalty(Verdict(o, m)) \in 10..20
        BY <2>1, <3>2, PenaltyInt
      <4>2. Bump(o, -Penalty(Verdict(o, m))) /\ -Penalty(Verdict(o, m)) \in Int
        BY <1>5, <2>0, <3>2, <4>1 DEF Exclude
      <4>3. \A p \in Orgs \ {o} : trust'[p] = trust[p] /\ short'[p] = short[p]
        BY <1>0, <2>1, <4>2, BumpTypes
      <4>4. QED BY <3>2, <4>3
    <3>3. QED BY <3>1, <3>2
  <2>6. Verdict(o, m)' # "accepted"
    <3>1. CASE Verdict(o, m) = "blocked"
      <4>1. BelowFloor(o)
        BY <3>1 DEF Verdict
      <4>2. BelowFloor(o)'
        BY <2>5, <3>1, <4>1 DEF BelowFloor
      <4>3. QED BY <4>2 DEF Verdict
    <3>2. CASE Verdict(o, m) # "blocked"
      BY <2>1, <2>4, <3>2 DEF Verdict
    <3>3. QED BY <3>1, <3>2
  <2>7. \A p \in Orgs \ {o} : \A n : Verdict(p, n)' = Verdict(p, n)
    BY <2>4, <2>5, VerdictFrame
  <2>8. \A n : Verdict(o, n)' \in {Verdict(o, n), "blocked"}
    <3>1. BelowFloor(o) => BelowFloor(o)'
      BY <2>5 DEF Verdict, BelowFloor
    <3>2. QED BY <2>4, <3>1 DEF Verdict
  <2>9. scored'[o] = scored[o] \cup {new} /\ \A p \in Orgs \ {o} : scored'[p] = scored[p]
    BY <1>0, <2>1, <2>3 DEF TInv, TrustTypeOK
  <2>10. ASSUME NEW x \in scored'[o]
         PROVE  Stands(Verdict(o, x.model)', x.passed, Refused(o)')
    <3>1. Refused(o)'
      BY <2>a, <2>9 DEF Refused
    <3>2. CASE x = new
      BY <2>a, <2>6, <3>2 DEF Stands
    <3>3. CASE x \in scored[o]
      <4>1. Stands(Verdict(o, x.model), x.passed, Refused(o))
        BY <2>1, <3>3, VerdictsStandEach DEF RInv
      <4>2. QED BY <2>8, <3>1, <4>1 DEF Stands
    <3>4. QED BY <2>9, <3>2, <3>3
  <2>11. \A p \in Orgs : \A x \in scored'[p] :
           Stands(Verdict(p, x.model)', x.passed, Refused(p)')
    BY <2>7, <2>9, <2>10, OthersStand DEF RInv
  <2>12. VerdictsStand'
    BY <2>11, StandAfter
  <2>13. QED BY <1>0, <2>2, <2>12 DEF RInv, RewardOK
<1>6. ASSUME Accept PROVE RInv'
  <2>0. PICK o, m : o = Current.org /\ m = Current.model
    OBVIOUS
  <2>1. Scoring /\ o \in Orgs /\ m \in Models /\ Verdict(o, m) = "accepted"
    BY <1>0, <1>6, <2>0, CurrentIsRow DEF Accept
  <2>2. op'.at = "rewarding" /\ op'.round = op.round /\ op'.weights = op.weights
    BY <1>0, <1>6 DEF Accept, TInv, TrustTypeOK, Op
  <2> DEFINE new == [model |-> m, passed |-> TRUE]
  <2>3. scored' = [scored EXCEPT ![o] = {new}]
    BY <1>6, <2>0 DEF Accept
  <2>a. new.model = m /\ new.passed = TRUE
    OBVIOUS
  <2>4. base' = IF validating THEN [base EXCEPT ![o] = m.acc] ELSE base
    BY <1>6, <2>0 DEF Accept
  <2>5. trust' = trust /\ short' = short /\ rows' = rows /\ validating' = validating
    BY <1>6 DEF Accept
  <2>6. Current'.org = o /\ Current'.model = m
    BY <2>0, <2>2, <2>5 DEF Current
  <2>7. m.acc \in 0..100
    BY <2>1, TrustAssumption DEF Model
  <2>8. Verdict(o, m)' = "accepted"
    <3>1. validating => base'[o] = m.acc
      BY <1>0, <2>1, <2>4 DEF TInv, TrustTypeOK
    <3>2. MaxDrop \in 0..100
      BY TrustAssumption
    <3>3. ~(validating /\ base'[o] - m.acc > MaxDrop)
      BY <2>7, <3>1, <3>2
    <3>4. ~BelowFloor(o) /\ m.form # "broken"
             /\ (validating => m.form # "unfit" /\ ~(m.acc < MinAccuracy))
      BY <2>1 DEF Verdict
    <3>5. ~BelowFloor(o)'
      BY <2>5, <3>4 DEF BelowFloor
    <3>6. QED BY <2>5, <3>3, <3>4, <3>5 DEF Verdict
  <2>9. \A p \in Orgs \ {o} : \A n : Verdict(p, n)' = Verdict(p, n)
    BY <1>0, <2>4, <2>5, VerdictFrame DEF TInv, TrustTypeOK
  <2>10. scored'[o] = {new} /\ \A p \in Orgs \ {o} : scored'[p] = scored[p]
    BY <1>0, <2>1, <2>3 DEF TInv, TrustTypeOK
  <2>11. RewardOK'
    BY <2>6, <2>10 DEF RewardOK
  <2> HIDE DEF new
  <2>12. ASSUME NEW x \in scored'[o]
         PROVE  Stands(Verdict(o, x.model)', x.passed, Refused(o)')
    BY <2>a, <2>8, <2>10 DEF Stands
  <2>13. \A p \in Orgs : \A x \in scored'[p] :
           Stands(Verdict(p, x.model)', x.passed, Refused(p)')
    BY <2>9, <2>10, <2>12, OthersStand DEF RInv
  <2>14. VerdictsStand'
    BY <2>13, StandAfter
  <2>15. QED BY <1>0, <2>11, <2>14 DEF RInv
<1>7. ASSUME Reward PROVE RInv'
  <2>0. PICK o, m : o = Current.org /\ m = Current.model
    OBVIOUS
  <2>1. op.at = "rewarding" /\ o \in Orgs /\ m \in Models /\ Bump(o, 2)
    BY <1>0, <1>7, <2>0, CurrentIsRow DEF Reward
  <2>2. op'.at = "scoring"
    BY <1>0, <1>7 DEF Reward, TInv, TrustTypeOK, Op
  <2>3. base' = base /\ scored' = scored /\ validating' = validating
    BY <1>7 DEF Reward
  <2>4. Verdict(o, m) = "accepted"
    BY <2>0, <2>1, RewardIsDue
  <2>5. ~BelowFloor(o)
    BY <2>4 DEF Verdict
  <2>6. ~BelowFloor(o)'
    BY <1>0, <2>1, <2>5, RewardedNotBelow
  <2>7. \A n : Verdict(o, n)' = Verdict(o, n)
    BY <2>3, <2>5, <2>6 DEF Verdict
  <2>8. \A p \in Orgs \ {o} : \A n : Verdict(p, n)' = Verdict(p, n)
    BY <1>0, <2>1, <2>3, BumpTypes, VerdictFrame
  <2>9. \A p \in Orgs : \A x \in scored'[p] :
          Stands(Verdict(p, x.model)', x.passed, Refused(p)')
    BY <2>3, <2>7, <2>8, OthersStand DEF RInv
  <2>10. VerdictsStand'
    BY <2>9, StandAfter
  <2>11. QED BY <1>0, <2>2, <2>10 DEF RInv, RewardOK
<1>8. ASSUME AllRejected \/ Unreadable \/ NothingUsable \/ Merge PROVE RInv'
  <2>1. op'.at = "idle" /\ UNCHANGED <<trust, short, base, validating, scored>>
    BY <1>8, IdleOp DEF AllRejected, Unreadable, NothingUsable, Merge
  <2>2. \A p \in Orgs : \A n : Verdict(p, n)' = Verdict(p, n)
    BY <2>1, VerdictFrame
  <2>3. QED BY <1>0, <2>1, <2>2 DEF RInv, RewardOK, VerdictsStand
<1>9. ASSUME Restart PROVE RInv'
  <2>1. op'.at = "idle" /\ UNCHANGED <<trust, short, base>>
    BY <1>9, IdleOp DEF Restart
  <2>2. CASE validating' = validating
    <3>1. \A p \in Orgs : \A n : Verdict(p, n)' = Verdict(p, n)
      BY <2>1, <2>2, VerdictFrame
    <3>2. QED BY <1>0, <1>9, <2>1, <2>2, <3>1 DEF Restart, RInv, RewardOK, VerdictsStand
  <2>3. CASE validating' # validating
    BY <1>0, <1>9, <2>1, <2>3 DEF Restart, RInv, RewardOK, VerdictsStand
  <2>4. QED BY <2>2, <2>3
<1>10. CASE UNCHANGED vars
  <2>1. UNCHANGED <<rows, trust, short, base, validating, scored, op>>
    BY <1>10 DEF vars
  <2>2. \A p \in Orgs : \A n : Verdict(p, n)' = Verdict(p, n)
    BY <2>1, VerdictFrame
  <2>3. QED BY <1>0, <2>1, <2>2 DEF RInv, RewardOK, VerdictsStand, Current
<1>11. QED
  BY <1>1, <1>2, <1>3, <1>4, <1>5, <1>6, <1>7, <1>8, <1>9, <1>10 DEF Next

(* Until an organisation passes again, what was refused stays refused and  *)
(* what passed last passes or is blocked for what was refused since.       *)
THEOREM RefusalsStand == Spec => []VerdictsStand
<1>1. RInv => VerdictsStand
  BY DEF RInv
<1>2. QED BY RInvInit, RInvStep, <1>1, PTL DEF Spec

-----------------------------------------------------------------------------
(* The floor.                                                              *)

(* What a step does to the standing of one organisation: nothing, unless   *)
(* it is the one being scored, or it enrols.                               *)
LEMMA FloorStep ==
  ASSUME RInv, [Next]_vars, NEW o \in Orgs, BelowFloor(o)
  PROVE  \/ trust'[o] = trust[o] /\ short'[o] = short[o]
         \/ trust'[o] = 100 /\ base'[o] = NoAccuracy
<1>0. TInv
  BY DEF RInv
<1>1. ASSUME NEW p \in Orgs, Enrol(p)
      PROVE  \/ trust'[o] = trust[o] /\ short'[o] = short[o]
             \/ trust'[o] = 100 /\ base'[o] = NoAccuracy
  BY <1>0, <1>1 DEF Enrol, TInv, TrustTypeOK
<1>2. ASSUME Exclude PROVE trust'[o] = trust[o] /\ short'[o] = short[o]
  <2>0. PICK p, m : p = Current.org /\ m = Current.model
    OBVIOUS
  <2>1. p \in Orgs /\ Verdict(p, m) # "accepted"
    BY <1>0, <1>2, <2>0, CurrentIsRow DEF Exclude
  <2>2. CASE Verdict(p, m) = "blocked"
    BY <1>2, <2>0, <2>2 DEF Exclude
  <2>3. CASE Verdict(p, m) # "blocked"
    <3>1. Penalty(Verdict(p, m)) \in 10..20
      BY <2>1, <2>3, PenaltyInt
    <3>2. Bump(p, -Penalty(Verdict(p, m))) /\ -Penalty(Verdict(p, m)) \in Int
      BY <1>2, <2>0, <2>3, <3>1 DEF Exclude
    <3>3. p # o
      BY <2>3 DEF Verdict
    <3>4. QED BY <1>0, <2>1, <3>2, <3>3, BumpTypes
  <2>4. QED BY <2>2, <2>3
<1>3. ASSUME Reward PROVE trust'[o] = trust[o] /\ short'[o] = short[o]
  <2>0. PICK p, m : p = Current.org /\ m = Current.model
    OBVIOUS
  <2>1. op.at = "rewarding" /\ p \in Orgs /\ Bump(p, 2)
    BY <1>0, <1>3, <2>0, CurrentIsRow DEF Reward
  <2>2. Verdict(p, m) = "accepted"
    BY <2>0, <2>1, RewardIsDue
  <2>3. p # o
    BY <2>2 DEF Verdict
  <2>4. QED BY <1>0, <2>1, <2>3, BumpTypes
<1>4. CASE ~Exclude /\ ~Reward /\ ~(\E p \in Orgs : Enrol(p))
  BY <1>4 DEF Next, vars, BeginAggregate, Contribute, MissingModel, Accept, AllRejected,
              Unreadable, NothingUsable, Merge, Restart
<1>5. QED BY <1>1, <1>2, <1>3, <1>4

(* Nothing but a new enrolment takes an organisation back over the floor.  *)
THEOREM FloorFinal == Spec => FloorIsFinal
<1>1. RInv /\ [Next]_vars =>
        [\A o \in Orgs :
           BelowFloor(o) => \/ trust'[o] = trust[o] /\ short'[o] = short[o]
                            \/ trust'[o] = 100 /\ base'[o] = NoAccuracy]_vars
  BY FloorStep
<1>2. QED BY RInvInit, RInvStep, <1>1, PTL DEF Spec, FloorIsFinal

(* Who has survived so far is not below the floor, if it has only this one *)
(* contribution in the round: scoring the others changes nothing about it. *)
SurvivorsStand ==
  op.at # "idle" /\ ~SameOrgTwice(op.round) =>
    \A i \in Survivors : ~BelowFloor(rows[op.round][i].org)

MInv == RInv /\ SurvivorsStand

LEMMA MInvStep == MInv /\ [Next]_vars => MInv'
<1> SUFFICES ASSUME MInv, [Next]_vars PROVE SurvivorsStand'
  BY RInvStep DEF MInv
<1>0. RInv /\ TInv /\ op.weights \in Seq(Nat) /\ op \in Op /\ op'.weights \in Seq(Nat)
  BY TInvStep DEF MInv, RInv, TInv, TrustTypeOK, Op
<1> SUFFICES ASSUME op'.at # "idle", ~SameOrgTwice(op.round)',
                    NEW i \in Survivors', NEW o, o = rows'[op'.round][i].org
             PROVE  ~BelowFloor(o)'
  BY DEF SurvivorsStand, BelowFloor
<1>1. i \in 1..Len(op'.weights) /\ op'.weights[i] > 0
  BY DEF Survivors
<1>2. ASSUME rows' = rows, op'.round = op.round, op.at # "idle"
      PROVE  ~SameOrgTwice(op.round) /\ o = rows[op.round][i].org
  BY <1>2 DEF SameOrgTwice
<1>3. ASSUME NEW r \in Rounds, BeginAggregate(r) PROVE FALSE
  BY <1>1, <1>3 DEF BeginAggregate, Idle
<1>4. ASSUME rows' = rows, trust' = trust, short' = short, op.at # "idle", op'.round = op.round,
             op'.weights = Append(op.weights, 0) \/ op'.weights = op.weights
      PROVE  ~BelowFloor(o)'
  <2>1. i \in 1..Len(op.weights) /\ op.weights[i] > 0
    <3>1. CASE op'.weights = op.weights
      BY <1>1, <3>1
    <3>2. CASE op'.weights = Append(op.weights, 0)
      <4>1. Len(op'.weights) = Len(op.weights) + 1
        BY <1>0, <3>2
      <4>2. i \in 1..(Len(op.weights) + 1) /\ Len(op.weights) \in Nat
        BY <1>0, <1>1, <4>1
      <4>3. op'.weights[Len(op.weights) + 1] = 0
        BY <1>0, <3>2
      <4>4. i # Len(op.weights) + 1
        BY <1>1, <4>3
      <4>5. i \in 1..Len(op.weights)
        BY <4>2, <4>4
      <4>6. QED BY <1>0, <1>1, <3>2, <4>5
    <3>3. QED BY <1>4, <3>1, <3>2
  <2>2. i \in Survivors
    BY <2>1 DEF Survivors
  <2>3. ~BelowFloor(o)
    BY <1>2, <1>4, <2>2 DEF MInv, SurvivorsStand
  <2>4. QED BY <1>4, <2>3 DEF BelowFloor
<1>5. ASSUME Exclude \/ Reward PROVE ~BelowFloor(o)'
  <2>0. PICK p, m, n : /\ p = Current.org /\ m = Current.model
                       /\ n = Len(op.weights) + 1
    OBVIOUS
  <2>1. /\ op.round \in Rounds /\ n \in 1..Len(rows[op.round]) /\ p \in Orgs
        /\ rows[op.round][n].org = p
    BY <1>0, <1>5, <2>0, CurrentIsRow DEF Exclude, Reward, Current
  <2>2. rows' = rows /\ op'.round = op.round /\ op.at # "idle"
    BY <1>0, <1>5 DEF Exclude, Reward, Scoring, Op
  <2>3. PICK w : op'.weights = Append(op.weights, w) /\ (Exclude => w = 0)
    <3>1. CASE Exclude
      BY <1>0, <3>1 DEF Exclude, Op
    <3>2. CASE Reward /\ ~Exclude
      BY <1>0, <3>2 DEF Reward, Op
    <3>3. QED BY <1>5, <3>1, <3>2
  <2>4. ~SameOrgTwice(op.round) /\ o = rows[op.round][i].org
    BY <1>2, <2>2
  <2>5. i \in 1..n /\ (i # n => i \in 1..Len(op.weights) /\ op.weights[i] > 0)
           /\ (i = n => w > 0)
    <3>1. Len(op'.weights) = Len(op.weights) + 1
      BY <1>0, <2>3
    <3>2. QED BY <1>0, <1>1, <2>0, <2>3, <3>1
  <2>6. CASE i # n
    <3>1. i \in 1..Len(rows[op.round])
      BY <1>0, <2>1, <2>5 DEF TInv, TrustTypeOK
    <3>2. o # p
      BY <2>1, <2>4, <2>6, <3>1 DEF SameOrgTwice
    <3>3. o \in Orgs
      <4>1. rows[op.round] \in Seq(Row)
        BY <1>0, <2>1 DEF TInv, TrustTypeOK
      <4>2. rows[op.round][i] \in Row
        BY <3>1, <4>1
      <4>3. QED BY <2>4, <4>2 DEF Row
    <3>4. i \in Survivors
      BY <2>5, <2>6 DEF Survivors
    <3>5. ~BelowFloor(o)
      BY <2>2, <2>4, <3>4 DEF MInv, SurvivorsStand
    <3>6. trust'[o] = trust[o] /\ short'[o] = short[o]
      <4>1. CASE Reward
        BY <1>0, <2>0, <2>1, <3>2, <3>3, <4>1, BumpTypes DEF Reward
      <4>2. CASE Exclude /\ Verdict(p, m) = "blocked"
        BY <2>0, <4>2 DEF Exclude
      <4>3. CASE Exclude /\ Verdict(p, m) # "blocked"
        <5>1. Verdict(p, m) # "accepted" /\ Bump(p, -Penalty(Verdict(p, m)))
          BY <2>0, <4>3 DEF Exclude
        <5>2. Penalty(Verdict(p, m)) \in 10..20
          BY <4>3, <5>1, PenaltyInt
        <5>3. -Penalty(Verdict(p, m)) \in Int
          BY <5>2
        <5>4. QED BY <1>0, <2>1, <3>2, <3>3, <5>1, <5>3, BumpTypes
      <4>4. QED BY <1>5, <4>1, <4>2, <4>3
    <3>7. QED BY <3>5, <3>6 DEF BelowFloor
  <2>7. CASE i = n
    <3>1. Reward
      BY <1>5, <2>3, <2>5, <2>7
    <3>2. Verdict(p, m) = "accepted"
      BY <1>0, <2>0, <3>1, RewardIsDue DEF Reward
    <3>3. ~BelowFloor(p)
      BY <3>2 DEF Verdict
    <3>4. Bump(p, 2)
      BY <2>0, <3>1 DEF Reward
    <3>5. ~BelowFloor(p)'
      BY <1>0, <2>1, <3>3, <3>4, RewardedNotBelow
    <3>6. o = p
      BY <2>1, <2>4, <2>7
    <3>7. QED BY <3>5, <3>6
  <2>8. QED BY <2>6, <2>7
<1>6. CASE MissingModel \/ Accept
  BY <1>0, <1>4, <1>6 DEF MissingModel, Accept, Scoring, Op
<1>7. CASE \/ \E r \in Rounds, p \in Orgs : \E m \in Offers[r] : Contribute(r, p, m)
           \/ \E p \in Orgs : Enrol(p)
           \/ AllRejected \/ Unreadable \/ NothingUsable \/ Merge \/ Restart
  BY <1>7, IdleOp DEF Contribute, Enrol, AllRejected, Unreadable, NothingUsable, Merge, Restart
<1>8. CASE UNCHANGED vars
  BY <1>0, <1>4, <1>8 DEF vars
<1>9. QED BY <1>3, <1>5, <1>6, <1>7, <1>8 DEF Next

(* Nobody below the floor gets into a model, in any number of rounds and   *)
(* however attempts, restarts and enrolments follow on each other.         *)
THEOREM MergesAboveFloor == Spec => MergedAboveFloor
<1>1. Init => MInv
  BY RInvInit, IdleOp DEF MInv, SurvivorsStand, Init
<1>2. ASSUME MInv, [Next]_vars, NEW r \in Rounds,
             merged[r] = None, merged'[r] # None, ~SameOrgTwice(r)
      PROVE  \A i \in 1..Len(merged'[r].order) :
               ~BelowFloor(rows[r][merged'[r].order[i]].org)
  <2>1. Merge
    BY <1>2 DEF Next, vars, BeginAggregate, Contribute, Enrol, MissingModel, Exclude, Accept,
                Reward, AllRejected, Unreadable, NothingUsable, Restart
  <2>2. TInv /\ op.at # "idle" /\ op.round \in Rounds
    BY <1>2, <2>1 DEF MInv, RInv, Merge, Scored, TInv, OpOK
  <2>3. PICK h \in Heaviest, bag \in Bag :
          /\ merged' = [merged EXCEPT ![op.round] = bag]
          /\ \A i \in 1..Len(bag.order) : bag.order[i] \in Usable(h)
    BY <2>1, <2>2, MergeMakesBag
  <2>4. r = op.round /\ merged'[r] = bag
    BY <1>2, <2>2, <2>3 DEF TInv, TrustTypeOK
  <2>5. \A i \in 1..Len(bag.order) : bag.order[i] \in Survivors
    BY <2>2, <2>3, SurvivorsNat
  <2>6. QED BY <1>2, <2>2, <2>4, <2>5 DEF MInv, SurvivorsStand
<1>3. MInv /\ [Next]_vars =>
        [\A r \in Rounds :
           merged[r] = None /\ merged'[r] # None /\ ~SameOrgTwice(r) =>
             \A i \in 1..Len(merged'[r].order) :
               ~BelowFloor(rows[r][merged'[r].order[i]].org)]_vars
  BY <1>2
<1>4. QED BY <1>1, MInvStep, <1>3, PTL DEF Spec, MergedAboveFloor

-----------------------------------------------------------------------------
(* What a model is made of, and what an attempt can fail on.               *)

(* The contributions of an aggregated round are what they were when it was *)
(* merged, since none is accepted any more.                                *)
MergedRows ==
  \A r \in Rounds : merged[r] # None =>
    \A i \in 1..Len(merged[r].order) : merged[r].order[i] \in 1..Len(rows[r])

FInv == TInv /\ MergedRows /\ OneFeatureSpace /\ FailsOnUnusable

LEMMA HeaviestSurvives ==
  ASSUME NEW h \in Heaviest
  PROVE  h \in Survivors /\ h \in Matching(h)
  BY DEF Heaviest, Matching

LEMMA FInvStep == FInv /\ [Next]_vars => FInv'
<1> SUFFICES ASSUME FInv, [Next]_vars PROVE (MergedRows /\ OneFeatureSpace /\ FailsOnUnusable)'
  BY TInvStep DEF FInv
<1>0. TInv
  BY DEF FInv
<1>1. ASSUME NEW r \in Rounds, NEW o \in Orgs, NEW m \in Offers[r], Contribute(r, o, m)
      PROVE  (MergedRows /\ OneFeatureSpace /\ FailsOnUnusable)'
  <2>1. merged' = merged /\ failed' = failed /\ merged[r] = None
    BY <1>1 DEF Contribute
  <2>2. \A s \in Rounds \ {r} : rows'[s] = rows[s]
    BY <1>0, <1>1 DEF Contribute, TInv, TrustTypeOK
  <2>3. rows'[r] = Append(rows[r], [org |-> o, model |-> m])
    BY <1>0, <1>1 DEF Contribute, TInv, TrustTypeOK
  <2>4. rows[r] \in Seq(Row)
    BY <1>0 DEF TInv, TrustTypeOK
  <2>5. Len(rows'[r]) = Len(rows[r]) + 1 /\ \A i \in 1..Len(rows[r]) : rows'[r][i] = rows[r][i]
    BY <2>3, <2>4
  <2>6. MergedRows' /\ OneFeatureSpace'
    <3>1. ASSUME NEW s \in Rounds, merged[s] # None PROVE rows'[s] = rows[s]
      BY <2>1, <2>2, <3>1
    <3>2. MergedRows'
      BY <2>1, <3>1 DEF FInv, MergedRows
    <3>3. OneFeatureSpace'
      BY <2>1, <3>1 DEF FInv, OneFeatureSpace, Contributors
    <3>4. QED BY <3>2, <3>3
  <2>7. ASSUME NEW s \in failed
        PROVE \E i \in 1..Len(rows'[s]) :
                rows'[s][i].model.form = "binary" \/ rows'[s][i].model.trees = 0
    <3>1. s \in Rounds
      BY <1>0 DEF TInv, TrustTypeOK
    <3>2. PICK i \in 1..Len(rows[s]) :
            rows[s][i].model.form = "binary" \/ rows[s][i].model.trees = 0
      BY DEF FInv, FailsOnUnusable
    <3>3. CASE s # r
      BY <2>2, <3>1, <3>2, <3>3
    <3>4. CASE s = r
      <4>1. i \in 1..Len(rows'[s]) /\ rows'[s][i] = rows[s][i]
        BY <2>4, <2>5, <3>2, <3>4
      <4>2. QED BY <3>2, <4>1
    <3>5. QED BY <3>3, <3>4
  <2>8. QED BY <2>1, <2>6, <2>7 DEF FailsOnUnusable
<1>2. ASSUME Unreadable \/ NothingUsable
      PROVE  (MergedRows /\ OneFeatureSpace /\ FailsOnUnusable)'
  <2>1. rows' = rows /\ merged' = merged /\ failed' = failed \cup {op.round} /\ Scored
    BY <1>2 DEF Unreadable, NothingUsable
  <2>2. op.at # "idle" /\ op.round \in Rounds
    BY <1>0, <2>1 DEF Scored, TInv, OpOK
  <2>3. PICK i \in Survivors : ModelOf(i).form = "binary" \/ ModelOf(i).trees = 0
    <3>1. CASE Unreadable
      BY <3>1 DEF Unreadable, Readable
    <3>2. CASE NothingUsable
      <4>1. PICK h \in Heaviest : Usable(h) = {}
        BY <3>2 DEF NothingUsable
      <4>2. h \in Survivors /\ h \in Matching(h) /\ h \notin Usable(h)
        BY <4>1, HeaviestSurvives
      <4>3. ModelOf(h).trees \in Nat
        BY <1>0, <2>2, <4>2, SurvivorRows
      <4>4. ModelOf(h).trees = 0
        BY <4>2, <4>3 DEF Usable
      <4>5. QED BY <4>2, <4>4
    <3>3. QED BY <1>2, <3>1, <3>2
  <2>4. i \in 1..Len(rows[op.round])
    BY <1>0, <2>2, SurvivorRows
  <2>5. QED BY <2>1, <2>3, <2>4 DEF FInv, MergedRows, OneFeatureSpace, Contributors,
                                    FailsOnUnusable, ModelOf
<1>3. ASSUME Merge PROVE (MergedRows /\ OneFeatureSpace /\ FailsOnUnusable)'
  <2>1. rows' = rows /\ failed' = failed /\ Scored /\ Readable
    BY <1>3 DEF Merge
  <2>2. op.at # "idle" /\ op.round \in Rounds
    BY <1>0, <2>1 DEF Scored, TInv, OpOK
  <2>3. PICK h \in Heaviest, bag \in Bag :
          /\ merged' = [merged EXCEPT ![op.round] = bag]
          /\ \A i \in 1..Len(bag.order) : bag.order[i] \in Usable(h)
    BY <1>0, <1>3, <2>2, MergeMakesBag
  <2>4. merged'[op.round] = bag /\ \A s \in Rounds \ {op.round} : merged'[s] = merged[s]
    BY <1>0, <2>2, <2>3 DEF TInv, TrustTypeOK
  <2>5. \A i \in 1..Len(bag.order) :
          /\ bag.order[i] \in Survivors
          /\ ModelOf(bag.order[i]).schema = ModelOf(h).schema
    BY <2>3 DEF Usable, Matching
  <2>6. \A i \in 1..Len(bag.order) :
          /\ bag.order[i] \in 1..Len(rows[op.round])
          /\ rows[op.round][bag.order[i]].model.form # "binary"
          /\ rows[op.round][bag.order[i]].model.schema = ModelOf(h).schema
    BY <1>0, <2>1, <2>2, <2>5, SurvivorRows DEF Readable, ModelOf
  <2>7. MergedRows'
    BY <2>1, <2>4, <2>6 DEF FInv, MergedRows
  <2>8. ASSUME NEW s \in Rounds, merged'[s] # None,
               NEW i \in Contributors(s)', NEW j \in Contributors(s)'
        PROVE  /\ rows[s][i].model.form # "binary"
               /\ rows[s][i].model.schema = rows[s][j].model.schema
    <3>1. CASE s = op.round
      <4>1. /\ \E k \in 1..Len(bag.order) : i = bag.order[k]
            /\ \E k \in 1..Len(bag.order) : j = bag.order[k]
        BY <2>4, <2>8, <3>1 DEF Contributors
      <4>2. QED BY <2>6, <3>1, <4>1
    <3>2. CASE s # op.round
      <4>1. merged'[s] = merged[s] /\ i \in Contributors(s) /\ j \in Contributors(s)
        BY <2>4, <2>8, <3>2 DEF Contributors
      <4>2. QED BY <2>8, <4>1 DEF FInv, OneFeatureSpace
    <3>3. QED BY <3>1, <3>2
  <2>9. OneFeatureSpace'
    BY <2>1, <2>8 DEF OneFeatureSpace
  <2>10. QED BY <2>1, <2>7, <2>9 DEF FInv, FailsOnUnusable
<1>4. CASE UNCHANGED <<rows, merged, failed>>
  BY <1>4 DEF FInv, MergedRows, OneFeatureSpace, Contributors, FailsOnUnusable
<1>5. CASE \/ \E r \in Rounds : BeginAggregate(r)
           \/ \E o \in Orgs : Enrol(o)
           \/ MissingModel \/ Exclude \/ Accept \/ Reward \/ AllRejected \/ Restart
           \/ UNCHANGED vars
  BY <1>4, <1>5 DEF BeginAggregate, Enrol, MissingModel, Exclude, Accept, Reward, AllRejected,
                    Restart, vars
<1>6. QED BY <1>1, <1>2, <1>3, <1>5 DEF Next

LEMMA FInvAlways == Spec => []FInv
<1>1. Init => FInv
  BY TInvInit DEF Init, FInv, MergedRows, OneFeatureSpace, FailsOnUnusable
<1>2. QED BY <1>1, FInvStep, PTL DEF Spec

(* A global model is over one feature space, for any number of contributions. *)
THEOREM FeatureSpace == Spec => []OneFeatureSpace
<1>1. FInv => OneFeatureSpace
  BY DEF FInv
<1>2. QED BY FInvAlways, <1>1, PTL

(* Only a contribution that cannot be used makes an aggregation raise.     *)
THEOREM Failures == Spec => []FailsOnUnusable
<1>1. FInv => FailsOnUnusable
  BY DEF FInv
<1>2. QED BY FInvAlways, <1>1, PTL

-----------------------------------------------------------------------------
(* What a global model takes of each contributor, and who is credited.     *)

(* What the merge included of each contributor, before the cap: the whole  *)
(* of the heaviest, and of every other at least one tree and no more than  *)
(* half of its trees, or one.                                              *)
IncludedShare ==
  \A r \in Rounds : merged[r] # None =>
    LET bag == merged[r]
        size(i) == rows[r][bag.order[i]].model.trees
    IN /\ Len(bag.included) = Len(bag.order)
       /\ \A i \in 1..Len(bag.included) :
            /\ bag.included[i] > 0
            /\ i = 1 => bag.included[i] = size(i)
            /\ i > 1 => bag.included[i] = 1 \/ 2 * bag.included[i] <= size(i)

(* The credited are the contributors, but for organisations that are in    *)
(* the round twice and contributions without trees.                        *)
CreditedContribute ==
  \A r \in Rounds : merged[r] # None =>
    /\ merged[r].credited \subseteq 1..Len(rows[r])
    /\ \/ merged[r].credited = Contributors(r)
       \/ SameOrgTwice(r)
       \/ \E i \in merged[r].credited : rows[r][i].model.trees = 0

(* Only an attempt that fails leaves an organisation noted in a round that *)
(* is not aggregated, and nobody noted is credited.                        *)
CreditNotNoted ==
  \A r \in Rounds \ failed :
    IF merged[r] = None THEN noted[r] = {}
    ELSE \A i \in merged[r].credited : rows[r][i].org \notin noted[r]

CInv == FInv /\ IncludedShare /\ CreditedContribute /\ CreditNotNoted

(* In a round of distinct organisations, naming the mismatched ones takes  *)
(* the credit from exactly the mismatched contributions.                   *)
LEMMA CreditedMatch ==
  ASSUME TInv, op.round \in Rounds, op.at # "idle", ~SameOrgTwice(op.round), NEW h
  PROVE  Credited(h) = Matching(h)
<1>1. \A i, j \in Survivors : i # j => rows[op.round][i].org # rows[op.round][j].org
  BY SurvivorRows DEF SameOrgTwice
<1>2. Matching(h) \subseteq Survivors
  BY DEF Matching
<1>3. ASSUME NEW i \in Survivors
      PROVE  rows[op.round][i].org \in Mismatched(h) <=> i \notin Matching(h)
  BY <1>1, <1>2 DEF Mismatched
<1>4. QED BY <1>2, <1>3 DEF Credited

LEMMA MergeKeepsCredit ==
  ASSUME CInv, Merge
  PROVE  (IncludedShare /\ CreditedContribute /\ CreditNotNoted)'
<1>0. TInv /\ FInv
  BY DEF CInv, FInv
<1>1. rows' = rows /\ failed' = failed /\ Scored
  BY DEF Merge
<1>2. op.at # "idle" /\ op.round \in Rounds /\ merged[op.round] = None
  BY <1>0, <1>1 DEF Scored, TInv, OpOK
<1> DEFINE r == op.round
<1>3. PICK h \in Heaviest, bag \in Bag :
        /\ Note(h)
        /\ merged' = [merged EXCEPT ![r] = bag]
        /\ bag.credited = Credited(h)
        /\ {bag.order[i] : i \in 1..Len(bag.order)} = Usable(h)
        /\ Len(bag.included) = Len(bag.order)
        /\ \A i \in 1..Len(bag.order) :
             /\ bag.included[i] \in Nat \ {0}
             /\ i = 1 => bag.included[i] = ModelOf(bag.order[i]).trees
             /\ i > 1 => \/ bag.included[i] = 1
                         \/ 2 * bag.included[i] <= ModelOf(bag.order[i]).trees
  BY <1>0, <1>2, MergeTakesShares
<1>4. merged'[r] = bag /\ \A s \in Rounds \ {r} : merged'[s] = merged[s]
  BY <1>0, <1>2, <1>3 DEF TInv, TrustTypeOK
<1>5. \A s \in Rounds \ {r} : noted'[s] = noted[s]
  BY <1>0, <1>3 DEF Note, TInv, TrustTypeOK
<1>6. noted'[r] = IF Mismatched(h) = {} THEN noted[r] ELSE Mismatched(h)
  BY <1>0, <1>2, <1>3 DEF Note, TInv, TrustTypeOK
<1>7. Credited(h) \subseteq 1..Len(rows[r])
  BY <1>0, <1>2, SurvivorRows DEF Credited
<1>8. IncludedShare'
  <2>1. ASSUME NEW s \in Rounds, merged'[s] # None
        PROVE  /\ Len(merged'[s].included) = Len(merged'[s].order)
               /\ \A i \in 1..Len(merged'[s].included) :
                    /\ merged'[s].included[i] > 0
                    /\ i = 1 => merged'[s].included[i] = rows[s][merged'[s].order[i]].model.trees
                    /\ i > 1 => \/ merged'[s].included[i] = 1
                                \/ 2 * merged'[s].included[i]
                                     <= rows[s][merged'[s].order[i]].model.trees
    <3>1. CASE s = r
      BY <1>3, <1>4, <3>1 DEF ModelOf
    <3>2. CASE s # r
      <4>1. merged'[s] = merged[s]
        BY <1>4, <3>2
      <4>2. QED BY <2>1, <4>1 DEF CInv, IncludedShare
    <3>3. QED BY <3>1, <3>2
  <2>2. QED BY <1>1, <2>1 DEF IncludedShare
<1>9. CreditedContribute'
  <2>1. ASSUME NEW s \in Rounds, merged'[s] # None
        PROVE  /\ merged'[s].credited \subseteq 1..Len(rows[s])
               /\ \/ merged'[s].credited
                       = {merged'[s].order[i] : i \in 1..Len(merged'[s].order)}
                  \/ SameOrgTwice(s)
                  \/ \E i \in merged'[s].credited : rows[s][i].model.trees = 0
    <3>1. CASE s # r
      <4>1. merged'[s] = merged[s]
        BY <1>4, <3>1
      <4>2. QED BY <2>1, <4>1 DEF CInv, CreditedContribute, Contributors
    <3>2. ASSUME ~SameOrgTwice(r), \A i \in Credited(h) : rows[r][i].model.trees # 0
          PROVE  Credited(h) = Usable(h)
      <4>1. Credited(h) = Matching(h)
        BY <1>0, <1>2, <3>2, CreditedMatch
      <4>2. ASSUME NEW i \in Matching(h) PROVE ModelOf(i).trees > 0
        <5>1. i \in Survivors /\ ModelOf(i).trees # 0
          BY <3>2, <4>1 DEF Matching, ModelOf
        <5>2. ModelOf(i).trees \in Nat
          BY <1>0, <1>2, <5>1, SurvivorRows
        <5>3. QED BY <5>1, <5>2
      <4>3. QED BY <4>1, <4>2 DEF Usable
    <3>3. CASE s = r
      BY <1>3, <1>4, <1>7, <3>2, <3>3
    <3>4. QED BY <3>1, <3>3
  <2>2. QED BY <1>1, <2>1 DEF CreditedContribute, Contributors, SameOrgTwice
<1>10. CreditNotNoted'
  <2>1. ASSUME NEW s \in Rounds \ failed
        PROVE  IF merged'[s] = None THEN noted'[s] = {}
               ELSE \A i \in merged'[s].credited : rows[s][i].org \notin noted'[s]
    <3>1. CASE s # r
      <4>1. merged'[s] = merged[s] /\ noted'[s] = noted[s]
        BY <1>4, <1>5, <3>1
      <4>2. QED BY <4>1 DEF CInv, CreditNotNoted
    <3>2. CASE s = r
      <4>1. noted[r] = {}
        BY <1>2, <3>2 DEF CInv, CreditNotNoted
      <4>2. \A i \in Credited(h) : rows[r][i].org \notin Mismatched(h)
        BY DEF Credited
      <4>3. bag # None
        BY NoneIsOther DEF Bag
      <4>4. QED BY <1>3, <1>4, <1>6, <3>2, <4>1, <4>2, <4>3
    <3>3. QED BY <3>1, <3>2
  <2>2. QED BY <1>1, <2>1 DEF CreditNotNoted
<1>11. QED BY <1>8, <1>9, <1>10

LEMMA CInvStep == CInv /\ [Next]_vars => CInv'
<1> SUFFICES ASSUME CInv, [Next]_vars
             PROVE  (IncludedShare /\ CreditedContribute /\ CreditNotNoted)'
  BY FInvStep DEF CInv
<1>0. TInv
  BY DEF CInv, FInv
<1>1. ASSUME NEW r \in Rounds, NEW o \in Orgs, NEW m \in Offers[r], Contribute(r, o, m)
      PROVE  (IncludedShare /\ CreditedContribute /\ CreditNotNoted)'
  <2>1. merged' = merged /\ failed' = failed /\ noted' = noted /\ merged[r] = None
    BY <1>1 DEF Contribute
  <2>2. \A s \in Rounds : merged[s] # None => rows'[s] = rows[s]
    BY <1>0, <1>1, <2>1 DEF Contribute, TInv, TrustTypeOK
  <2>3. IncludedShare'
    BY <2>1, <2>2 DEF CInv, IncludedShare
  <2>4. CreditedContribute'
    BY <2>1, <2>2 DEF CInv, CreditedContribute, Contributors, SameOrgTwice
  <2>5. CreditNotNoted'
    BY <2>1, <2>2 DEF CInv, CreditNotNoted
  <2>6. QED BY <2>3, <2>4, <2>5
<1>2. ASSUME Unreadable \/ NothingUsable
      PROVE  (IncludedShare /\ CreditedContribute /\ CreditNotNoted)'
  <2>1. rows' = rows /\ merged' = merged /\ failed' = failed \cup {op.round}
    BY <1>2 DEF Unreadable, NothingUsable
  <2>2. IncludedShare' /\ CreditedContribute'
    BY <2>1 DEF CInv, IncludedShare, CreditedContribute, Contributors, SameOrgTwice
  <2>3. \A s \in Rounds \ {op.round} : noted'[s] = noted[s]
    BY <1>0, <1>2 DEF Unreadable, NothingUsable, Note, TInv, TrustTypeOK
  <2>4. CreditNotNoted'
    BY <2>1, <2>3 DEF CInv, CreditNotNoted
  <2>5. QED BY <2>2, <2>4
<1>3. CASE Merge
  BY <1>3, MergeKeepsCredit
<1>4. CASE UNCHANGED <<rows, merged, failed, noted>>
  BY <1>4 DEF CInv, IncludedShare, CreditedContribute, CreditNotNoted, Contributors, SameOrgTwice
<1>5. CASE \/ \E r \in Rounds : BeginAggregate(r)
           \/ \E o \in Orgs : Enrol(o)
           \/ MissingModel \/ Exclude \/ Accept \/ Reward \/ AllRejected \/ Restart
           \/ UNCHANGED vars
  BY <1>4, <1>5 DEF BeginAggregate, Enrol, MissingModel, Exclude, Accept, Reward, AllRejected,
                    Restart, vars
<1>6. QED BY <1>1, <1>2, <1>3, <1>5 DEF Next

LEMMA CInvAlways == Spec => []CInv
<1>1. Init => CInv
  BY TInvInit DEF Init, CInv, FInv, MergedRows, OneFeatureSpace, FailsOnUnusable,
                  IncludedShare, CreditedContribute, CreditNotNoted
<1>2. QED BY <1>1, CInvStep, PTL DEF Spec

(* The number of trees a merged round includes of each of its contributors. *)
LEMMA IncludedTypes ==
  ASSUME CInv, NEW r \in Rounds, merged[r] # None
  PROVE  /\ Len(merged[r].included) \in Nat
         /\ merged[r].included \in [1..Len(merged[r].included) -> Nat]
         /\ DOMAIN Kept(r) = 1..Len(merged[r].included)
<1>1. merged[r] \in Bag
  BY DEF CInv, FInv, TInv, TrustTypeOK
<1>2. merged[r].included \in Seq(Nat)
  BY <1>1 DEF Bag
<1>3. Len(merged[r].included) \in Nat /\ DOMAIN merged[r].included = 1..Len(merged[r].included)
  BY <1>2
<1>4. merged[r].included \in [1..Len(merged[r].included) -> Nat]
  BY <1>2
<1>5. QED BY <1>3, <1>4 DEF Kept, Cut

(* The heaviest contributor's trees are in the model as far as the cap     *)
(* goes, of no other more than half unless it is a single one, and nobody  *)
(* is left out before the cap is reached.                                  *)
THEOREM SharesAreWeighted == Spec => []WeightedShares
<1>1. ASSUME CInv, NEW r \in Rounds, merged[r] # None, NEW i \in DOMAIN Kept(r)
      PROVE  LET size == rows[r][merged[r].order[i]].model.trees
             IN  /\ i = 1 => Kept(r)[i] = Smaller(size, MaxGlobalTrees)
                 /\ i > 1 => Kept(r)[i] <= 1 \/ 2 * Kept(r)[i] <= size
                 /\ Kept(r)[i] = 0 => Before(Kept(r), i) = MaxGlobalTrees
  <2> DEFINE n == Len(merged[r].included)
             t == merged[r].included
             size == rows[r][merged[r].order[i]].model.trees
  <2>1. n \in Nat /\ t \in [1..n -> Nat] /\ i \in 1..n
    BY <1>1, IncludedTypes
  <2>2. /\ t[i] > 0
        /\ i = 1 => t[i] = size
        /\ i > 1 => t[i] = 1 \/ 2 * t[i] <= size
    BY <1>1, <2>1 DEF CInv, IncludedShare
  <2>3. size \in Nat
    <3>1. rows[r] \in Seq(Row) /\ merged[r] \in Bag
      BY <1>1 DEF CInv, FInv, TInv, TrustTypeOK
    <3>2. i \in 1..Len(merged[r].order)
      BY <1>1, <2>1 DEF CInv, IncludedShare
    <3>3. merged[r].order[i] \in 1..Len(rows[r])
      BY <1>1, <3>2 DEF CInv, FInv, MergedRows
    <3>4. rows[r][merged[r].order[i]] \in Row
      BY <3>1, <3>3
    <3>5. size \in Nat
      BY <3>4, TrustAssumption DEF Row, Model
    <3>6. QED BY <3>5
  <2> HIDE DEF n, t, size
  <2>4. /\ Cut(t) \in [1..n -> Nat]
        /\ Cut(t)[i] <= t[i]
        /\ t[i] > 0 /\ Cut(t)[i] = 0 => Before(Cut(t), i) = MaxGlobalTrees
    BY <2>1, CutIsPrefix, CapHolds
  <2>5. Cut(t)[i] \in Nat /\ t[i] \in Nat
    BY <2>1, <2>4
  <2>6. ASSUME i = 1 PROVE Cut(t)[i] = Smaller(size, MaxGlobalTrees)
    <3>1. Cut(t)[i] = Smaller(t[i], Larger(0, MaxGlobalTrees - Before(t, i)))
      BY <2>1 DEF Cut
    <3>2. Before(t, i) = 0
      BY <2>6, BeforeFirst
    <3>3. QED BY <2>2, <2>3, <2>6, <3>1, <3>2, CapAssumption DEF Smaller, Larger
  <2>7. Kept(r) = Cut(t)
    BY DEF Kept, t
  <2>8. /\ i = 1 => Kept(r)[i] = Smaller(size, MaxGlobalTrees)
        /\ i > 1 => Kept(r)[i] <= 1 \/ 2 * Kept(r)[i] <= size
        /\ Kept(r)[i] = 0 => Before(Kept(r), i) = MaxGlobalTrees
    BY <2>2, <2>3, <2>4, <2>5, <2>6, <2>7
  <2>9. QED BY <2>8 DEF size
<1>2. CInv => WeightedShares
  BY <1>1 DEF WeightedShares
<1>3. QED BY CInvAlways, <1>2, PTL

(* Credit and trees agree, and credit and the audit trail, for any number  *)
(* of contributions, rounds and attempts.                                  *)
THEOREM CreditIsDue == Spec => []CreditMatchesMerge
<1>1. ASSUME CInv, NEW r \in Rounds, merged[r] # None
      PROVE  /\ \/ merged[r].credited = {merged[r].order[i] :
                                           i \in {j \in 1..Len(merged[r].order) : Kept(r)[j] > 0}}
                \/ SameOrgTwice(r)
                \/ \E i \in merged[r].credited : rows[r][i].model.trees = 0
                \/ SumFunction(Kept(r)) = MaxGlobalTrees
             /\ \/ \A i \in merged[r].credited : rows[r][i].org \notin noted[r]
                \/ r \in failed
  <2> DEFINE n == Len(merged[r].included)
             t == merged[r].included
  <2>1. n \in Nat /\ t \in [1..n -> Nat]
    BY <1>1, IncludedTypes
  <2>2. n = Len(merged[r].order) /\ \A i \in 1..n : t[i] > 0
    BY <1>1 DEF CInv, IncludedShare
  <2> HIDE DEF n
  <2>3. ASSUME SumFunction(Kept(r)) # MaxGlobalTrees PROVE \A i \in 1..n : Kept(r)[i] > 0
    <3> HIDE DEF t
    <3>1. Kept(r) = Cut(t)
      BY DEF Kept, t
    <3>2. Cut(t) \in [1..n -> Nat]
      BY <2>1, CutIsPrefix
    <3>3. \A i \in 1..n : Cut(t)[i] # 0
      BY <2>1, <2>2, <2>3, <3>1, CapHolds
    <3>4. \A i \in 1..n : Cut(t)[i] \in Nat
      BY <3>2
    <3>5. QED BY <3>1, <3>3, <3>4
  <2>4. ASSUME SumFunction(Kept(r)) # MaxGlobalTrees
        PROVE  {j \in 1..Len(merged[r].order) : Kept(r)[j] > 0} = 1..Len(merged[r].order)
    BY <2>2, <2>3, <2>4
  <2>5. \/ merged[r].credited = {merged[r].order[i] : i \in 1..Len(merged[r].order)}
        \/ SameOrgTwice(r)
        \/ \E i \in merged[r].credited : rows[r][i].model.trees = 0
    BY <1>1 DEF CInv, CreditedContribute, Contributors
  <2>6. r \in failed \/ \A i \in merged[r].credited : rows[r][i].org \notin noted[r]
    BY <1>1 DEF CInv, CreditNotNoted
  <2>7. QED BY <2>4, <2>5, <2>6
<1>2. CInv => CreditMatchesMerge
  BY <1>1 DEF CreditMatchesMerge
<1>3. QED BY CInvAlways, <1>2, PTL
=============================================================================
