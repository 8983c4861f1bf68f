---------------------------- MODULE FedBagging ----------------------------
(***************************************************************************)
(* Federated bagging: how the ensembles of several contributors become one *)
(* list of trees.  The contributors come heaviest first, each a record of  *)
(* its weight and of how many trees it has.  Of a contributor's trees the  *)
(* merge always takes the first ones, so that a number says which.         *)
(***************************************************************************)
EXTENDS Integers, Sequences, Functions

CONSTANT MaxGlobalTrees  \* _MAX_GLOBAL_TREES, 500 in the code

ASSUME CapAssumption == MaxGlobalTrees \in Nat \ {0}

Larger(a, b)  == IF a > b THEN a ELSE b
Smaller(a, b) == IF a < b THEN a ELSE b

-----------------------------------------------------------------------------

TotalWeight(ms) == SumFunction([i \in 1..Len(ms) |-> ms[i].weight])

(* n_include of a contributor with n trees and weight w, out of a total    *)
(* weight of t: the whole part of n * w / t, at least one.  int() cuts off *)
(* a floating point product, which may come out just below a quotient that *)
(* is a whole number; so k is possible as long as n * w <= (k + 1) * t.    *)
SharesUnweighted(n, w, t) == {n}
Shares(n, w, t) ==
  {k \in 1..n : /\ k * t <= n * w \/ k = 1
                /\ n * w <= (k + 1) * t}

(* What can be taken of contributor i: the heaviest is the base and comes  *)
(* in whole, every other with its share.                                   *)
Taken(ms, i) ==
  IF i = 1 THEN {ms[1].trees}
  ELSE Shares(ms[i].trees, ms[i].weight, TotalWeight(ms))

Inclusions(ms) ==
  {f \in [1..Len(ms) -> UNION {Taken(ms, i) : i \in 1..Len(ms)}] :
     \A i \in 1..Len(ms) : f[i] \in Taken(ms, i)}

(* Trees in front of those of contributor i.                               *)
Before(taken, i) == SumFunctionOnSet(taken, 1..(i - 1))

(* base_trees[:_MAX_GLOBAL_TREES] cuts the lightest contributors first.    *)
CutPerContributor(taken) == [i \in DOMAIN taken |-> Smaller(taken[i], MaxGlobalTrees)]
Cut(taken) ==
  [i \in DOMAIN taken |->
     Smaller(taken[i], Larger(0, MaxGlobalTrees - Before(taken, i)))]
=============================================================================
