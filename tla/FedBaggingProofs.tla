-------------------------- MODULE FedBaggingProofs --------------------------
(***************************************************************************)
(* Proofs about FedBagging: what the sums over contributors are, how many  *)
(* trees are included and how many the cap leaves, for every cap and every *)
(* number of contributors.                                                 *)
(*                                                                         *)
(* The sums are folds over sets.  What holds of them is shown by taking a  *)
(* smallest set, or a smallest number, of which it does not hold.          *)
(***************************************************************************)
EXTENDS FedBagging, FiniteSetTheorems, WellFoundedInduction, TLAPS

-----------------------------------------------------------------------------
(* Smallest elements.                                                      *)

LEMMA LeastNumber ==
  ASSUME NEW T \in SUBSET Nat, T # {}
  PROVE  \E n \in T : \A m \in T : n <= m
<1>1. IsWellFoundedOn(OpToRel(<, Nat), Nat)
  BY NatLessThanWellFounded
<1>2. PICK n \in T : \A m \in T : <<m, n>> \notin OpToRel(<, Nat)
  BY <1>1, WFMin
<1>3. \A m \in T : ~(m < n)
  BY <1>2 DEF OpToRel
<1>4. QED BY <1>3

LEMMA LeastSubset ==
  ASSUME NEW S, IsFiniteSet(S), NEW T \in SUBSET (SUBSET S), T # {}
  PROVE  \E s \in T : \A r \in T : r \subseteq s => r = s
<1>1. IsWellFoundedOn(StrictSubsetOrdering(S), FiniteSubsetsOf(S))
  BY FS_StrictSubsetOrderingWellFounded
<1>2. T \subseteq FiniteSubsetsOf(S)
  BY FS_Subset DEF FiniteSubsetsOf
<1>3. PICK s \in T : \A r \in T : <<r, s>> \notin StrictSubsetOrdering(S)
  BY <1>1, <1>2, WFMin
<1>4. QED BY <1>3 DEF StrictSubsetOrdering

-----------------------------------------------------------------------------
(* The fold behind a sum: a function g of the subsets of S that takes one  *)
(* element at a time.                                                      *)

Chosen(s) == CHOOSE x \in s : TRUE
OneMore(f, g, s) == IF s = {} THEN 0 ELSE f[Chosen(s)] + g[s \ {Chosen(s)}]
Adds(f, g, S) == g = [s \in SUBSET S |-> OneMore(f, g, s)]

LEMMA SumIsFold ==
  ASSUME NEW f, NEW S
  PROVE  SumFunctionOnSet(f, S) = (CHOOSE g : Adds(f, g, S))[S]
BY DEF SumFunctionOnSet, FoldFunctionOnSet, MapThenFoldSet, OneMore, Adds, Chosen

LEMMA ChosenIn == ASSUME NEW s, s # {} PROVE Chosen(s) \in s
BY DEF Chosen

(* There is at most one such function ...                                  *)
LEMMA FoldUnique ==
  ASSUME NEW f, NEW S, IsFiniteSet(S), NEW R \in SUBSET S,
         NEW g, Adds(f, g, R), NEW h, Adds(f, h, S)
  PROVE  \A s \in SUBSET R : g[s] = h[s]
<1> DEFINE Bad == {s \in SUBSET R : g[s] # h[s]}
<1>1. SUFFICES ASSUME Bad # {} PROVE FALSE
  OBVIOUS
<1>2. IsFiniteSet(R)
  BY FS_Subset
<1>3. Bad \in SUBSET (SUBSET R)
  OBVIOUS
<1> HIDE DEF Bad
<1>4. PICK s \in Bad : \A r \in Bad : r \subseteq s => r = s
  BY <1>1, <1>2, <1>3, LeastSubset
<1> USE DEF Bad
<1>11. s \in SUBSET R /\ s \in SUBSET S /\ g[s] # h[s]
  BY <1>4
<1>5. g[s] = OneMore(f, g, s) /\ h[s] = OneMore(f, h, s)
  BY <1>11 DEF Adds
<1>6. s # {}
  BY <1>11, <1>5 DEF OneMore
<1>7. Chosen(s) \in s
  BY <1>6, ChosenIn
<1>8. s \ {Chosen(s)} \notin Bad
  BY <1>4, <1>7
<1>9. g[s \ {Chosen(s)}] = h[s \ {Chosen(s)}]
  BY <1>11, <1>8
<1>10. QED BY <1>11, <1>5, <1>6, <1>9 DEF OneMore

(* ... and there is one, so that a sum is what it says.                    *)
LEMMA FoldExists ==
  ASSUME NEW f, NEW S, IsFiniteSet(S)
  PROVE  \E g : Adds(f, g, S)
<1> DEFINE Bad == {R \in SUBSET S : ~\E g : Adds(f, g, R)}
<1>1. SUFFICES ASSUME Bad # {} PROVE FALSE
  OBVIOUS
<1>0. Bad \in SUBSET (SUBSET S)
  OBVIOUS
<1> HIDE DEF Bad
<1>2. PICK R \in Bad : \A Q \in Bad : Q \subseteq R => Q = R
  BY <1>0, <1>1, LeastSubset
<1> USE DEF Bad
<1>3. R \in SUBSET S /\ \A g : ~Adds(f, g, R)
  BY <1>2
<1> DEFINE Sum(Q) == SumFunctionOnSet(f, Q)
           g == [s \in SUBSET R |-> OneMore(f, [r \in SUBSET R |-> Sum(r)], s)]
<1>4. ASSUME NEW Q \in SUBSET R, Q # R
      PROVE  Sum(Q) = IF Q = {} THEN 0 ELSE f[Chosen(Q)] + Sum(Q \ {Chosen(Q)})
  <2>1. \A P \in SUBSET Q : \E k : Adds(f, k, P)
    BY <1>2, <1>3, <1>4
  <2> DEFINE k(P) == CHOOSE h : Adds(f, h, P)
  <2>2. \A P \in SUBSET Q : Adds(f, k(P), P) /\ Sum(P) = k(P)[P]
    BY <2>1, SumIsFold
  <2> HIDE DEF k
  <2>3. Sum(Q) = OneMore(f, k(Q), Q)
    BY <2>2 DEF Adds
  <2>4. CASE Q = {}
    BY <2>3, <2>4 DEF OneMore
  <2>5. CASE Q # {}
    <3>1. Q \ {Chosen(Q)} \in SUBSET Q
      OBVIOUS
    <3>2. IsFiniteSet(Q)
      BY <1>3, FS_Subset
    <3>3. ASSUME NEW P \in SUBSET Q PROVE k(P)[P] = k(Q)[P]
      <4>1. Adds(f, k(P), P) /\ Adds(f, k(Q), Q)
        BY <2>2
      <4>2. \A s \in SUBSET P : k(P)[s] = k(Q)[s]
        BY <3>2, <4>1, FoldUnique
      <4>3. QED BY <4>2
    <3>4. Sum(Q \ {Chosen(Q)}) = k(Q)[Q \ {Chosen(Q)}]
      BY <2>2, <3>1, <3>3
    <3>5. QED BY <2>3, <2>5, <3>4 DEF OneMore
  <2>6. QED BY <2>4, <2>5
<1>5. ASSUME NEW s \in SUBSET R PROVE g[s] = OneMore(f, g, s)
  <2>1. CASE s = {}
    BY <2>1 DEF OneMore
  <2>2. CASE s # {}
    <3> DEFINE Q == s \ {Chosen(s)}
    <3>1. Q \in SUBSET R /\ Q # R
      BY <2>2, ChosenIn
    <3>2. g[s] = f[Chosen(s)] + Sum(Q)
      BY <2>2, <3>1 DEF OneMore
    <3>3. Sum(Q) = g[Q]
      <4>1. CASE Q = {}
        BY <1>4, <3>1, <4>1 DEF OneMore
      <4>2. CASE Q # {}
        <5>1. Q \ {Chosen(Q)} \in SUBSET R
          BY <3>1
        <5>2. g[Q] = f[Chosen(Q)] + Sum(Q \ {Chosen(Q)})
          BY <3>1, <4>2, <5>1 DEF OneMore
        <5>3. QED BY <1>4, <3>1, <4>2, <5>2
      <4>3. QED BY <4>1, <4>2
    <3>4. QED BY <2>2, <3>2, <3>3 DEF OneMore
  <2>3. QED BY <2>1, <2>2
<1>6. Adds(f, g, R)
  BY <1>5 DEF Adds
<1>7. QED BY <1>3, <1>6

LEMMA SumUnfolds ==
  ASSUME NEW f, NEW S, IsFiniteSet(S)
  PROVE  SumFunctionOnSet(f, S) =
           IF S = {} THEN 0 ELSE f[Chosen(S)] + SumFunctionOnSet(f, S \ {Chosen(S)})
<1> DEFINE Sum(Q) == SumFunctionOnSet(f, Q)
           k(P) == CHOOSE h : Adds(f, h, P)
<1>1. \A P \in SUBSET S : IsFiniteSet(P)
  BY FS_Subset
<1>2. \A P \in SUBSET S : Adds(f, k(P), P) /\ Sum(P) = k(P)[P]
  BY <1>1, FoldExists, SumIsFold
<1> HIDE DEF k
<1>3. Sum(S) = OneMore(f, k(S), S)
  BY <1>2 DEF Adds
<1>4. ASSUME NEW P \in SUBSET S PROVE k(P)[P] = k(S)[P]
  <2>1. Adds(f, k(P), P) /\ Adds(f, k(S), S)
    BY <1>2
  <2>2. \A s \in SUBSET P : k(P)[s] = k(S)[s]
    BY <2>1, FoldUnique
  <2>3. QED BY <2>2
<1>5. Sum(S \ {Chosen(S)}) = k(S)[S \ {Chosen(S)}]
  BY <1>2, <1>4
<1>6. QED BY <1>3, <1>5 DEF OneMore

(* The sum over no element is zero, and any element can be taken out of a  *)
(* sum first: the order in which the fold chooses them does not matter.    *)
LEMMA SumTakesOut ==
  ASSUME NEW f, NEW S, IsFiniteSet(S), \A x \in S : f[x] \in Int
  PROVE  /\ SumFunctionOnSet(f, {}) = 0
         /\ SumFunctionOnSet(f, S) \in Int
         /\ \A x \in S : SumFunctionOnSet(f, S) = f[x] + SumFunctionOnSet(f, S \ {x})
<1> DEFINE Sum(Q) == SumFunctionOnSet(f, Q)
           Good(Q) == Sum(Q) \in Int /\ \A x \in Q : Sum(Q) = f[x] + Sum(Q \ {x})
           Bad == {Q \in SUBSET S : ~Good(Q)}
<1>0. Sum({}) = 0
  BY SumUnfolds, FS_EmptySet
<1>1. SUFFICES ASSUME Bad # {} PROVE FALSE
  BY <1>0
<1>12. Bad \in SUBSET (SUBSET S)
  OBVIOUS
<1> HIDE DEF Bad
<1>2. PICK Q \in Bad : \A R \in Bad : R \subseteq Q => R = Q
  BY <1>1, <1>12, LeastSubset
<1> USE DEF Bad
<1>3. Q \in SUBSET S /\ ~Good(Q) /\ IsFiniteSet(Q)
  BY <1>2, FS_Subset
<1>4. ASSUME Q = {} PROVE FALSE
  <2>1. Sum(Q) = 0
    BY <1>0, <1>4
  <2> HIDE DEF Sum
  <2>2. Good(Q)
    BY <1>4, <2>1
  <2>3. QED BY <1>3, <2>2
<1>5. PICK c \in Q : Sum(Q) = f[c] + Sum(Q \ {c})
  BY <1>3, <1>4, SumUnfolds, ChosenIn
<1>6. \A x \in Q : Q \ {x} \in SUBSET S /\ Q \ {x} \notin Bad
  BY <1>2, <1>3
<1>7. \A x \in Q : Good(Q \ {x})
  BY <1>6
<1>8. Sum(Q) \in Int
  BY <1>3, <1>5, <1>7
<1>9. ASSUME NEW x \in Q, x # c PROVE Sum(Q) = f[x] + Sum(Q \ {x})
  <2>1. x \in Q \ {c} /\ c \in Q \ {x} /\ (Q \ {c}) \ {x} = (Q \ {x}) \ {c}
    BY <1>9
  <2>2. Sum(Q \ {c}) = f[x] + Sum((Q \ {c}) \ {x})
    BY <1>7, <2>1
  <2>3. Sum(Q \ {x}) = f[c] + Sum((Q \ {x}) \ {c})
    BY <1>7, <2>1
  <2>4. f[x] \in Int /\ f[c] \in Int /\ Sum(Q \ {c}) \in Int /\ Sum(Q \ {x}) \in Int
    BY <1>3, <1>7
  <2>5. (Q \ {c}) \ {x} \in SUBSET S
    BY <1>3
  <2>6. f[c] + Sum(Q \ {c}) = f[x] + Sum(Q \ {x})
    <3> DEFINE a == f[x]
               b == f[c]
               p == Sum(Q \ {c})
               q == Sum(Q \ {x})
               z == Sum((Q \ {c}) \ {x})
    <3>1. p = a + z /\ q = b + z /\ a \in Int /\ b \in Int /\ p \in Int /\ q \in Int
      BY <2>1, <2>2, <2>3, <2>4
    <3>2. z \in Int
      <4>1. CASE (Q \ {c}) \ {x} \in Bad
        BY <1>2, <2>1, <4>1
      <4>2. CASE (Q \ {c}) \ {x} \notin Bad
        BY <2>5, <4>2
      <4>3. QED BY <4>1, <4>2
    <3> HIDE DEF a, b, p, q, z
    <3>3. b + p = a + q
      BY <3>1, <3>2
    <3>4. QED BY <3>3 DEF a, b, p, q
  <2>7. QED BY <1>5, <2>6
<1>10. Good(Q)
  BY <1>5, <1>8, <1>9
<1>11. QED BY <1>3, <1>10

(* A sum of numbers of trees, or of weights, is one.                       *)
LEMMA SumIsNat ==
  ASSUME NEW f, NEW S, IsFiniteSet(S), \A x \in S : f[x] \in Nat
  PROVE  SumFunctionOnSet(f, S) \in Nat
<1> DEFINE Sum(Q) == SumFunctionOnSet(f, Q)
           Bad == {Q \in SUBSET S : Sum(Q) \notin Nat}
<1>0. Bad \in SUBSET (SUBSET S)
  OBVIOUS
<1>1. SUFFICES ASSUME Bad # {} PROVE FALSE
  OBVIOUS
<1> HIDE DEF Bad
<1>2. PICK Q \in Bad : \A R \in Bad : R \subseteq Q => R = Q
  BY <1>0, <1>1, LeastSubset
<1> USE DEF Bad
<1>3. Q \in SUBSET S /\ Sum(Q) \notin Nat /\ IsFiniteSet(Q)
  BY <1>2, FS_Subset
<1>4. Sum({}) = 0 /\ \A x \in Q : Sum(Q) = f[x] + Sum(Q \ {x})
  BY <1>3, SumTakesOut
<1>5. PICK x \in Q : TRUE
  BY <1>3, <1>4
<1>6. Sum(Q \ {x}) \in Nat
  BY <1>2, <1>3, <1>5
<1>7. QED BY <1>3, <1>4, <1>5, <1>6

(* No two of the weights exceed the total.                                 *)
LEMMA SumCoversTwo ==
  ASSUME NEW f, NEW S, IsFiniteSet(S), \A x \in S : f[x] \in Nat,
         NEW x \in S, NEW y \in S, x # y
  PROVE  f[x] + f[y] <= SumFunctionOnSet(f, S)
<1> DEFINE Sum(Q) == SumFunctionOnSet(f, Q)
<1>1. IsFiniteSet(S \ {x}) /\ IsFiniteSet((S \ {x}) \ {y})
  BY FS_Subset
<1>2. Sum(S) = f[x] + Sum(S \ {x})
  BY SumTakesOut
<1>3. Sum(S \ {x}) = f[y] + Sum((S \ {x}) \ {y})
  BY <1>1, SumTakesOut
<1>4. Sum((S \ {x}) \ {y}) \in Nat
  BY <1>1, SumIsNat
<1> HIDE DEF Sum
<1>5. f[x] + f[y] <= Sum(S)
  BY <1>2, <1>3, <1>4
<1>6. QED BY <1>5 DEF Sum

-----------------------------------------------------------------------------
(* The trees in front of a contributor.                                    *)

LEMMA BeforeNext ==
  ASSUME NEW n \in Nat, NEW k \in [1..n -> Nat], NEW i \in 1..n
  PROVE  Before(k, i + 1) = Before(k, i) + k[i]
<1> DEFINE Sum(Q) == SumFunctionOnSet(k, Q)
<1>1. IsFiniteSet(1..i) /\ IsFiniteSet(1..(i - 1))
  <2>1. 1 \in Int /\ i \in Int /\ i - 1 \in Int
    OBVIOUS
  <2>2. QED BY <2>1, FS_Interval
<1>2. (1..i) \ {i} = 1..(i - 1) /\ i \in 1..i
  OBVIOUS
<1>3. \A x \in 1..i : k[x] \in Int
  OBVIOUS
<1>4. \A x \in 1..i : Sum(1..i) = k[x] + Sum((1..i) \ {x})
  BY <1>1, <1>3, SumTakesOut
<1>5. Sum(1..i) = k[i] + Sum(1..(i - 1))
  BY <1>2, <1>4
<1>6. Sum(1..(i - 1)) \in Nat
  <2>1. \A x \in 1..(i - 1) : k[x] \in Nat
    OBVIOUS
  <2>2. QED BY <1>1, <2>1, SumIsNat
<1>7. (i + 1) - 1 = i
  OBVIOUS
<1>8. Before(k, i + 1) = Sum(1..i) /\ Before(k, i) = Sum(1..(i - 1))
  BY <1>7 DEF Before
<1> HIDE DEF Sum
<1>9. QED BY <1>5, <1>6, <1>8

LEMMA BeforeFirst == ASSUME NEW k PROVE Before(k, 1) = 0
<1>1. 1..(1 - 1) = {}
  OBVIOUS
<1>2. SumFunctionOnSet(k, {}) = 0
  BY SumUnfolds, FS_EmptySet
<1>3. QED BY <1>1, <1>2 DEF Before

LEMMA BeforeNat ==
  ASSUME NEW n \in Nat, NEW k \in [1..n -> Nat], NEW i \in 1..(n + 1)
  PROVE  Before(k, i) \in Nat
<1>1. IsFiniteSet(1..(i - 1))
  <2>1. 1 \in Int /\ i - 1 \in Int
    OBVIOUS
  <2>2. QED BY <2>1, FS_Interval
<1>2. \A x \in 1..(i - 1) : k[x] \in Nat
  OBVIOUS
<1>3. QED BY <1>1, <1>2, SumIsNat DEF Before

LEMMA BeforeEnd ==
  ASSUME NEW n \in Nat, NEW k \in [1..n -> Nat]
  PROVE  SumFunction(k) = Before(k, n + 1)
<1>1. DOMAIN k = 1..n /\ (n + 1) - 1 = n
  OBVIOUS
<1>2. QED BY <1>1 DEF SumFunction, Before

(* Later contributors come later.                                          *)
LEMMA BeforeGrows ==
  ASSUME NEW n \in Nat, NEW k \in [1..n -> Nat], NEW i \in 1..n, NEW j \in 1..(n + 1), i < j
  PROVE  Before(k, i) + k[i] <= Before(k, j)
<1> DEFINE Bad == {l \in (i + 1)..(n + 1) : ~(Before(k, i) + k[i] <= Before(k, l))}
<1>1. SUFFICES ASSUME Bad # {} PROVE FALSE
  OBVIOUS
<1>2. Bad \in SUBSET Nat
  OBVIOUS
<1> HIDE DEF Bad
<1>3. PICK l \in Bad : \A m \in Bad : l <= m
  BY <1>1, <1>2, LeastNumber
<1> USE DEF Bad
<1>4. l \in (i + 1)..(n + 1) /\ ~(Before(k, i) + k[i] <= Before(k, l))
  BY <1>3
<1>5. Before(k, i + 1) = Before(k, i) + k[i] /\ Before(k, i + 1) \in Nat
  <2>1. i + 1 \in 1..(n + 1)
    OBVIOUS
  <2>2. QED BY <2>1, BeforeNext, BeforeNat
<1>6. l # i + 1
  BY <1>4, <1>5
<1>7. l - 1 \in 1..n /\ l - 1 \in (i + 1)..(n + 1) /\ (l - 1) + 1 = l
  BY <1>4, <1>6
<1>8. Before(k, l) = Before(k, l - 1) + k[l - 1]
  <2>1. Before(k, (l - 1) + 1) = Before(k, l - 1) + k[l - 1]
    BY <1>7, BeforeNext
  <2>2. QED BY <1>7, <2>1
<1>9. l - 1 \notin Bad
  BY <1>3, <1>7
<1>10. Before(k, i) + k[i] <= Before(k, l - 1)
  BY <1>7, <1>9
<1>11. Before(k, l - 1) \in Nat /\ k[l - 1] \in Nat
  BY <1>7, BeforeNat
<1>12. QED BY <1>4, <1>5, <1>8, <1>10, <1>11

-----------------------------------------------------------------------------
(* The cap.                                                                *)

LEMMA FillUp ==
  ASSUME NEW cap \in Nat, NEW before \in Nat, NEW more \in Nat
  PROVE  Smaller(cap, before) + Smaller(more, Larger(0, cap - before))
           = Smaller(cap, before + more)
<1>1. CASE cap <= before
  BY <1>1 DEF Smaller, Larger
<1>2. CASE before < cap /\ cap <= before + more
  BY <1>2 DEF Smaller, Larger
<1>3. CASE before + more < cap
  BY <1>3 DEF Smaller, Larger
<1>4. QED BY <1>1, <1>2, <1>3

(* The cap takes the first trees of the whole list, and so all of the      *)
(* heavier contributors before any of a lighter one: in front of each      *)
(* contributor there is what was included, or as much as the cap allows.   *)
THEOREM CutIsPrefix ==
  ASSUME NEW n \in Nat, NEW t \in [1..n -> Nat]
  PROVE  /\ Cut(t) \in [1..n -> Nat]
         /\ \A i \in 1..(n + 1) : Before(Cut(t), i) = Smaller(MaxGlobalTrees, Before(t, i))
<1> DEFINE kept == Cut(t)
           Bad == {i \in 1..(n + 1) : Before(kept, i) # Smaller(MaxGlobalTrees, Before(t, i))}
<1>0. MaxGlobalTrees \in Nat
  BY CapAssumption
<1>1. \A i \in 1..(n + 1) : Before(t, i) \in Nat
  BY BeforeNat
<1>2. \A i \in 1..n : t[i] \in Nat /\ Before(t, i) \in Nat
  BY <1>1
<1>3. kept = [i \in 1..n |-> Smaller(t[i], Larger(0, MaxGlobalTrees - Before(t, i)))]
  BY DEF Cut
<1>4. \A i \in 1..n : Smaller(t[i], Larger(0, MaxGlobalTrees - Before(t, i))) \in Nat
  BY <1>0, <1>2 DEF Smaller, Larger
<1>5. kept \in [1..n -> Nat]
  BY <1>3, <1>4
<1>6. \A i \in 1..n : kept[i] = Smaller(t[i], Larger(0, MaxGlobalTrees - Before(t, i)))
  BY <1>3
<1> HIDE DEF kept
<1>7. ASSUME Bad # {} PROVE FALSE
  <2>1. Bad \in SUBSET Nat
    OBVIOUS
  <2> HIDE DEF Bad
  <2>2. PICK i \in Bad : \A j \in Bad : i <= j
    BY <1>7, <2>1, LeastNumber
  <2> USE DEF Bad
  <2>3. i \in 1..(n + 1) /\ Before(kept, i) # Smaller(MaxGlobalTrees, Before(t, i))
    BY <2>2
  <2>4. i # 1
    BY <1>0, <2>3, BeforeFirst DEF Smaller
  <2>5. PICK j \in 1..n : i = j + 1
    <3>1. i - 1 \in 1..n /\ i = (i - 1) + 1
      BY <2>3, <2>4
    <3>2. QED BY <3>1
  <2>6. Before(kept, j) = Smaller(MaxGlobalTrees, Before(t, j))
    <3>1. j \in 1..(n + 1) /\ ~(i <= j)
      BY <2>5
    <3>2. QED BY <2>2, <3>1
  <2>7. /\ Before(kept, j + 1) = Before(kept, j) + kept[j]
        /\ Before(t, j + 1) = Before(t, j) + t[j]
    BY <1>5, BeforeNext
  <2>8. kept[j] = Smaller(t[j], Larger(0, MaxGlobalTrees - Before(t, j)))
    BY <1>6
  <2>9. t[j] \in Nat /\ Before(t, j) \in Nat
    BY <1>2
  <2>10. Smaller(MaxGlobalTrees, Before(t, j)) + kept[j]
           = Smaller(MaxGlobalTrees, Before(t, j) + t[j])
    BY <1>0, <2>8, <2>9, FillUp
  <2>11. QED BY <2>3, <2>5, <2>6, <2>7, <2>10
<1>8. \A i \in 1..(n + 1) : Before(kept, i) = Smaller(MaxGlobalTrees, Before(t, i))
  BY <1>7
<1>9. QED BY <1>5, <1>8 DEF kept

(* The merged model has no more trees than the cap, and a contributor that *)
(* was to be included is left without a tree only when those in front of   *)
(* it have filled the model.                                               *)
THEOREM CapHolds ==
  ASSUME NEW n \in Nat, NEW t \in [1..n -> Nat]
  PROVE  /\ SumFunction(Cut(t)) <= MaxGlobalTrees
         /\ \A i \in 1..n : Cut(t)[i] <= t[i]
         /\ \A i \in 1..n : t[i] > 0 /\ Cut(t)[i] = 0 =>
              /\ Before(Cut(t), i) = MaxGlobalTrees
              /\ SumFunction(Cut(t)) = MaxGlobalTrees
<1> DEFINE kept == Cut(t)
<1>0. MaxGlobalTrees \in Nat
  BY CapAssumption
<1>1. \A i \in 1..(n + 1) : Before(t, i) \in Nat
  BY BeforeNat
<1>2. /\ kept \in [1..n -> Nat]
      /\ \A i \in 1..(n + 1) : Before(kept, i) = Smaller(MaxGlobalTrees, Before(t, i))
  BY CutIsPrefix
<1>3. \A i \in 1..n : kept[i] = Smaller(t[i], Larger(0, MaxGlobalTrees - Before(t, i)))
  BY DEF Cut
<1> HIDE DEF kept
<1>4. SumFunction(kept) = Smaller(MaxGlobalTrees, Before(t, n + 1)) /\ Before(t, n + 1) \in Nat
  <2>1. n + 1 \in 1..(n + 1)
    OBVIOUS
  <2>2. QED BY <1>1, <1>2, <2>1, BeforeEnd
<1>5. SumFunction(kept) <= MaxGlobalTrees
  BY <1>0, <1>4 DEF Smaller
<1>6. ASSUME NEW i \in 1..n
      PROVE  /\ kept[i] <= t[i]
             /\ t[i] > 0 /\ kept[i] = 0 => /\ Before(kept, i) = MaxGlobalTrees
                                           /\ SumFunction(kept) = MaxGlobalTrees
  <2>1. t[i] \in Nat /\ Before(t, i) \in Nat
    BY <1>1
  <2>2. kept[i] <= t[i]
    BY <1>0, <1>3, <2>1 DEF Smaller, Larger
  <2>3. ASSUME t[i] > 0, kept[i] = 0 PROVE MaxGlobalTrees <= Before(t, i)
    BY <1>0, <1>3, <2>1, <2>3 DEF Smaller, Larger
  <2>4. Before(t, i) + t[i] <= Before(t, n + 1)
    <3>1. n + 1 \in 1..(n + 1) /\ i < n + 1
      OBVIOUS
    <3>2. QED BY <3>1, BeforeGrows
  <2>5. Before(kept, i) = Smaller(MaxGlobalTrees, Before(t, i))
    BY <1>2
  <2>6. QED BY <1>0, <1>4, <2>1, <2>2, <2>3, <2>4, <2>5 DEF Smaller
<1>7. QED BY <1>5, <1>6 DEF kept

-----------------------------------------------------------------------------
(* What is included of each contributor.                                   *)

(* A contributor that is not the base keeps one tree or no more than half  *)
(* of its trees, if all together weigh at least twice as much.             *)
THEOREM HalfShare ==
  ASSUME NEW n \in Nat, NEW w \in Nat \ {0}, NEW t \in Nat, 2 * w <= t,
         NEW k \in Shares(n, w, t)
  PROVE  k = 1 \/ 2 * k <= n
<1> SUFFICES ASSUME k # 1 PROVE 2 * k <= n
  OBVIOUS
<1>1. k \in 1..n /\ k * t <= n * w
  BY DEF Shares
<1>2. k * (2 * w) <= k * t
  BY <1>1
<1>3. k * (2 * w) = (2 * k) * w
  BY <1>1
<1>4. (2 * k) * w <= n * w
  BY <1>1, <1>2, <1>3
<1>5. CASE n < 2 * k
  <2>1. n + 1 <= 2 * k
    BY <1>1, <1>5
  <2>2. (n + 1) * w <= (2 * k) * w
    BY <2>1, <1>1
  <2>3. (n + 1) * w = n * w + w
    BY <1>1
  <2>4. QED BY <1>4, <2>2, <2>3, <1>1
<1>6. QED BY <1>5, <1>1

(* Contributors that come heaviest first: the first is included whole, and *)
(* of every other at least one tree and no more than half of its trees, or *)
(* one.                                                                    *)
THEOREM IncludedShares ==
  ASSUME NEW ms, NEW n \in Nat, n = Len(ms),
         \A i \in 1..n : ms[i].trees \in Nat \ {0} /\ ms[i].weight \in Nat \ {0},
         \A i \in 1..n : ms[i].weight <= ms[1].weight,
         NEW t \in Inclusions(ms)
  PROVE  /\ t \in [1..n -> Nat \ {0}]
         /\ \A i \in 1..n : /\ i = 1 => t[i] = ms[1].trees
                            /\ i > 1 => t[i] = 1 \/ 2 * t[i] <= ms[i].trees
<1> DEFINE w == [i \in 1..n |-> ms[i].weight]
<1>1. /\ t \in [1..n -> UNION {Taken(ms, i) : i \in 1..n}]
      /\ \A i \in 1..n : t[i] \in Taken(ms, i)
  BY DEF Inclusions
<1>2. \A i \in 1..n : w[i] \in Nat
  OBVIOUS
<1>3. IsFiniteSet(1..n)
  BY FS_Interval
<1>4. TotalWeight(ms) = SumFunctionOnSet(w, 1..n)
  BY DEF TotalWeight, SumFunction
<1>5. TotalWeight(ms) \in Nat
  BY <1>2, <1>3, <1>4, SumIsNat
<1>6. ASSUME NEW i \in 1..n, i # 1
      PROVE  t[i] \in Nat \ {0} /\ (t[i] = 1 \/ 2 * t[i] <= ms[i].trees)
  <2>1. t[i] \in Shares(ms[i].trees, ms[i].weight, TotalWeight(ms))
    BY <1>1, <1>6 DEF Taken
  <2>2. w[1] + w[i] <= TotalWeight(ms)
    <3>1. 1 \in 1..n
      BY <1>6
    <3>2. w[1] + w[i] <= SumFunctionOnSet(w, 1..n)
      BY <1>2, <1>3, <1>6, <3>1, SumCoversTwo
    <3>3. QED BY <1>4, <3>2
  <2>3. w[1] = ms[1].weight /\ w[i] = ms[i].weight /\ w[1] \in Nat /\ w[i] \in Nat
    BY <1>6
  <2> HIDE DEF w
  <2>4. 2 * ms[i].weight <= TotalWeight(ms)
    BY <1>5, <2>2, <2>3
  <2>5. t[i] = 1 \/ 2 * t[i] <= ms[i].trees
    BY <1>5, <2>1, <2>4, HalfShare
  <2>6. t[i] \in Nat \ {0}
    BY <2>1 DEF Shares
  <2>7. QED BY <2>5, <2>6
<1>7. ASSUME 1 \in 1..n PROVE t[1] = ms[1].trees /\ t[1] \in Nat \ {0}
  BY <1>1, <1>7 DEF Taken
<1>8. t \in [1..n -> Nat \ {0}]
  <2>1. \A i \in 1..n : t[i] \in Nat \ {0}
    BY <1>6, <1>7
  <2>2. QED BY <1>1, <2>1
<1>9. QED BY <1>6, <1>7, <1>8
=============================================================================
