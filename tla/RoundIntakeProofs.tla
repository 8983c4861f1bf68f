------------------------- MODULE RoundIntakeProofs -------------------------
(***************************************************************************)
(* Proofs about RoundIntake, for every set of organisations, rounds,       *)
(* challenges and requests and every choice of the time bounds.            *)
(***************************************************************************)
EXTENDS RoundIntake, TLAPS

(* A request past its arrival quotes a signed attestation over a challenge *)
(* that exists.  Without it the types are not inductive: the handler reads *)
(* the challenge and the attestation without testing that they are there.  *)
RefOK ==
  /\ \A c \in Challenges : att[c] # Null => chal[c] # Null
  /\ \A q \in Requests : req[q].stage # "unsent" =>
       req[q].chal \in Challenges /\ att[req[q].chal] # Null

TInv == TypeOK /\ RefOK

-----------------------------------------------------------------------------
(* The types, and what a request refers to, along every step.              *)

(* Rows of the open transaction are rows: one is added by the step that    *)
(* records it, and none is lost but by a crash, which leaves none unsaved. *)
LEMMA UnsavedAreRows ==
  ASSUME TInv, [Next]_vars
  PROVE  unsaved' \subseteq Rows'
<1> USE DEF TInv, TypeOK, Rows
<1>1. CASE unsaved' = {}
  BY <1>1
<1>2. CASE UNCHANGED <<req, unsaved>>
  BY <1>2
<1>3. ASSUME unsaved' \subseteq unsaved, NEW q \in Requests, req[q].stage \notin Recorded,
             \A p \in Requests : p # q => req'[p] = req[p]
      PROVE  unsaved' \subseteq Rows'
  BY <1>3
<1>4. ASSUME NEW q \in Requests, NEW c \in Challenges, Post(q, c)
      PROVE  unsaved' \subseteq Rows'
  <2>1. unsaved' = unsaved /\ req[q].stage \notin Recorded
    BY <1>4 DEF Post, Recorded
  <2>2. \A p \in Requests : p # q => req'[p] = req[p]
    BY <1>4 DEF Post
  <2>3. QED BY <1>3, <2>1, <2>2
<1>5. ASSUME NEW q \in Requests, BeginContribution(q) \/ RefuseContribution(q)
      PROVE  unsaved' \subseteq Rows'
  <2>1. unsaved' \subseteq unsaved /\ req[q].stage \notin Recorded
    BY <1>5 DEF BeginContribution, RefuseContribution, Recorded
  <2>2. \A p \in Requests : p # q => req'[p] = req[p]
    BY <1>5 DEF BeginContribution, RefuseContribution
  <2>3. QED BY <1>3, <2>1, <2>2
<1>6. ASSUME NEW q \in Requests, FinishContribution(q)
      PROVE  unsaved' \subseteq Rows'
  <2>1. unsaved' = {} \/ (unsaved' = {q} /\ req'[q].stage \in Recorded)
    BY <1>6 DEF FinishContribution, ReqRow
  <2>2. QED BY <2>1
<1>7. QED
  BY <1>1, <1>2, <1>4, <1>5, <1>6 DEF Next, vars, Suspend, Reinstate, ReEnroll, StartRound,
     Aggregate, IssueChallenge, SignContribution, BurnChallenge, CommitElsewhere, Crash, Tick

(* A crash refuses requests in flight and rows not saved, nothing else.    *)
LEMMA CrashLoses ==
  ASSUME TypeOK, Crash
  PROVE  /\ req' \in [Requests -> ReqRow]
         /\ \A p \in Requests :
              \/ req'[p] = req[p] /\ p \notin InFlight
              \/ /\ p \in InFlight \cup unsaved
                 /\ req'[p] = [req[p] EXCEPT !.stage = "refused"]
<1>1. PICK Q \in {InFlight, InFlight \cup unsaved} : Lost(Q)
  BY DEF Crash
<1>2. req' = [q \in Requests |->
                IF q \in Q THEN [req[q] EXCEPT !.stage = "refused"] ELSE req[q]]
  BY <1>1 DEF Lost
<1>3. ASSUME NEW p \in Requests
      PROVE  [req[p] EXCEPT !.stage = "refused"] \in ReqRow /\ req[p] \in ReqRow
  BY DEF TypeOK, ReqRow
<1>4. req' \in [Requests -> ReqRow]
  BY <1>2, <1>3
<1>5. QED BY <1>1, <1>2, <1>4

LEMMA TInvStep == TInv /\ [Next]_vars => TInv'
<1> SUFFICES ASSUME TInv, [Next]_vars PROVE TInv'
  OBVIOUS
<1> USE DEF TInv, TypeOK, RefOK
<1>0. unsaved' \subseteq Rows'
  BY UnsavedAreRows
<1>1. ASSUME NEW o \in Orgs, Suspend(o) PROVE TInv'
  BY <1>0, <1>1 DEF Suspend, OrgRow
<1>2. ASSUME NEW o \in Orgs, Reinstate(o) PROVE TInv'
  BY <1>0, <1>2 DEF Reinstate, OrgRow
<1>3. ASSUME NEW o \in Orgs, ReEnroll(o) PROVE TInv'
  <2>1. org' \in [Orgs -> OrgRow]
    BY <1>3 DEF ReEnroll, OrgRow
  <2>2. QED BY <1>0, <1>3, <2>1 DEF ReEnroll
<1>4. ASSUME NEW r \in Rounds, StartRound(r) PROVE TInv'
  <2>1. round' \in [Rounds -> RoundRow]
    BY <1>4 DEF StartRound, RoundRow
  <2>2. QED BY <1>0, <1>4, <2>1 DEF StartRound
<1>5. ASSUME NEW r \in Rounds, Aggregate(r) PROVE TInv'
  <2>1. AcceptedFor(r) \in SUBSET Requests
    BY DEF AcceptedFor, Accepted
  <2>2. round[r] \in RoundRow
    OBVIOUS
  <2>3. [round[r] EXCEPT !.status = "aggregated", !.responded = AcceptedFor(r)] \in RoundRow
    BY <2>1, <2>2 DEF RoundRow
  <2>4. round' \in [Rounds -> RoundRow]
    BY <1>5, <2>3 DEF Aggregate
  <2>5. QED BY <1>0, <1>5, <2>4 DEF Aggregate
<1>6. ASSUME NEW o \in Orgs, NEW r \in Rounds, NEW c \in Challenges, IssueChallenge(o, r, c)
      PROVE TInv'
  <2> DEFINE row == [org |-> o, round |-> r, expires |-> now + ChallengeTTL, consumed |-> FALSE]
  <2>1. row \in ChalRow
    BY TimingAssumption DEF ChalRow
  <2>2. row # Null
    BY <2>1, NullAssumption DEF ChalRow
  <2>3. chal' = [chal EXCEPT ![c] = row]
    BY <1>6 DEF IssueChallenge
  <2> HIDE DEF row
  <2>4. QED BY <1>0, <1>6, <2>1, <2>2, <2>3 DEF IssueChallenge
<1>7. ASSUME NEW o \in Orgs, NEW c \in Challenges, NEW r \in Rounds,
             NEW at \in (now - Skew)..(now + Skew), SignContribution(o, c, r, at)
      PROVE TInv'
  <2> DEFINE signed == [org |-> o, round |-> r, key |-> org[o].key, at |-> at]
  <2>1. org[o].key \in Nat
    BY DEF OrgRow
  <2>2. at \in Int
    BY TimingAssumption
  <2>3. signed \in Attest
    BY <2>1, <2>2 DEF Attest
  <2>4. signed # Null
    BY <2>3, NullAssumption DEF Attest
  <2>5. att' = [att EXCEPT ![c] = signed]
    BY <1>7 DEF SignContribution
  <2> HIDE DEF signed
  <2>6. QED BY <1>0, <1>7, <2>3, <2>4, <2>5 DEF SignContribution
<1>8. ASSUME NEW q \in Requests, NEW c \in Challenges, Post(q, c) PROVE TInv'
  <2>1. req' \in [Requests -> ReqRow]
    BY <1>8 DEF Post, ReqRow, Pending
  <2>2. RefOK'
    BY <1>8 DEF Post
  <2>3. QED BY <1>0, <1>8, <2>1, <2>2 DEF Post
<1>9. ASSUME NEW q \in Requests, BeginContribution(q) \/ RefuseContribution(q) PROVE TInv'
  <2>1. req' \in [Requests -> ReqRow]
    BY <1>9 DEF BeginContribution, RefuseContribution, ReqRow, Pending
  <2>2. RefOK'
    BY <1>9 DEF BeginContribution, RefuseContribution, ReqRow
  <2>3. QED BY <1>0, <1>9, <2>1, <2>2 DEF BeginContribution, RefuseContribution
<1>10. ASSUME NEW q \in Requests, FinishContribution(q) \/ BurnChallenge(q) PROVE TInv'
  <2>1. req[q].stage = "reading" /\ req[q].chal \in Challenges /\ chal[req[q].chal] \in ChalRow
    BY <1>10 DEF FinishContribution, BurnChallenge
  <2>2. chal' = [chal EXCEPT ![req[q].chal].consumed = TRUE]
    BY <1>10 DEF FinishContribution, BurnChallenge
  <2>3. [chal[req[q].chal] EXCEPT !.consumed = TRUE] \in ChalRow
    BY <2>1 DEF ChalRow
  <2>4. [chal[req[q].chal] EXCEPT !.consumed = TRUE] # Null
    BY <2>3, NullAssumption DEF ChalRow
  <2>5. chal' \in [Challenges -> ChalRow \cup {Null}]
    BY <2>1, <2>2, <2>3
  <2>6. req' \in [Requests -> ReqRow]
    BY <1>10 DEF FinishContribution, BurnChallenge, ReqRow, Recorded
  <2>7. \A c \in Challenges : chal'[c] = Null => chal[c] = Null
    BY <2>1, <2>2, <2>4
  <2>8. \A p \in Requests :
       /\ req'[p].chal = req[p].chal
       /\ req[p].stage = "unsent" => req'[p].stage = "unsent"
    BY <1>10, <2>1 DEF FinishContribution, BurnChallenge, ReqRow
  <2>9. UNCHANGED <<now, org, round, att>>
    BY <1>10 DEF FinishContribution, BurnChallenge
  <2>10. TypeOK'
    BY <1>0, <2>5, <2>6, <2>9
  <2>11. RefOK'
    <3>1. \A c \in Challenges : att'[c] # Null => chal'[c] # Null
      BY <2>7, <2>9
    <3>2. ASSUME NEW p \in Requests, req'[p].stage # "unsent"
          PROVE req'[p].chal \in Challenges /\ att'[req'[p].chal] # Null
      <4>1. req[p].stage # "unsent" /\ req'[p].chal = req[p].chal
        BY <3>2, <2>8
      <4>2. req[p].chal \in Challenges /\ att[req[p].chal] # Null
        BY <4>1
      <4>3. att' = att
        BY <2>9
      <4>4. QED BY <4>1, <4>2, <4>3
    <3>3. QED BY <3>1, <3>2
  <2>12. QED BY <2>10, <2>11
<1>11. CASE Crash
  <2>1. \A p \in Requests :
       /\ req'[p].chal = req[p].chal
       /\ req[p].stage = "unsent" => req'[p].stage = "unsent"
    BY <1>11, CrashLoses DEF ReqRow, InFlight, Pending, Rows, Recorded
  <2>2. req' \in [Requests -> ReqRow]
    BY <1>11, CrashLoses
  <2>3. chal' \in [Challenges -> ChalRow \cup {Null}] /\ \A c \in Challenges : chal'[c] = Null => chal[c] = Null
    <3>1. CASE UNCHANGED chal
      BY <3>1
    <3>2. CASE \E q \in InFlight :
                 req[q].stage = "reading" /\ chal' = [chal EXCEPT ![req[q].chal].consumed = TRUE]
      <4>1. PICK q \in Requests : req[q].stage = "reading" /\ chal' = [chal EXCEPT ![req[q].chal].consumed = TRUE]
        BY <3>2 DEF InFlight
      <4>2. req[q].chal \in Challenges /\ chal[req[q].chal] \in ChalRow
        BY <4>1
      <4>3. [chal[req[q].chal] EXCEPT !.consumed = TRUE] \in ChalRow
        BY <4>2 DEF ChalRow
      <4>4. [chal[req[q].chal] EXCEPT !.consumed = TRUE] # Null
        BY <4>3, NullAssumption DEF ChalRow
      <4>5. QED BY <4>1, <4>2, <4>3, <4>4
    <3>3. QED BY <1>11, <3>1, <3>2 DEF Crash
  <2>4. UNCHANGED <<now, org, round, att>>
    BY <1>11 DEF Crash
  <2>5. TypeOK'
    BY <1>0, <2>2, <2>3, <2>4
  <2>6. RefOK'
    <3>1. \A c \in Challenges : att'[c] # Null => chal'[c] # Null
      BY <2>3, <2>4
    <3>2. ASSUME NEW p \in Requests, req'[p].stage # "unsent"
          PROVE req'[p].chal \in Challenges /\ att'[req'[p].chal] # Null
      <4>1. req[p].stage # "unsent" /\ req'[p].chal = req[p].chal
        BY <3>2, <2>1
      <4>2. req[p].chal \in Challenges /\ att[req[p].chal] # Null
        BY <4>1
      <4>3. att' = att
        BY <2>4
      <4>4. QED BY <4>1, <4>2, <4>3
    <3>3. QED BY <3>1, <3>2
  <2>7. QED BY <2>5, <2>6
<1>12. CASE Tick \/ CommitElsewhere
  BY <1>0, <1>12 DEF Tick, CommitElsewhere
<1>13. CASE UNCHANGED vars
  BY <1>0, <1>13 DEF vars
<1>14. QED
  BY <1>1, <1>2, <1>3, <1>4, <1>5, <1>6, <1>7, <1>8, <1>9, <1>10, <1>11, <1>12, <1>13 DEF Next

LEMMA TInvariant == Spec => []TInv
<1>1. Init => TInv
  BY TimingAssumption DEF Init, TInv, TypeOK, Rows, RefOK, OrgRow, RoundRow, ReqRow
<1>2. QED BY <1>1, TInvStep, PTL DEF Spec

(* Type correctness of intake, for every value of the constants.           *)
THEOREM TypeCorrect == Spec => []TypeOK
<1>1. TInv => TypeOK
  BY DEF TInv
<1>2. QED BY <1>1, TInvariant, PTL

-----------------------------------------------------------------------------
(* What a step leaves alone, and where a new row comes from.               *)

(* The step of one request changes no other request.                       *)
RequestStep(q) ==
  BeginContribution(q) \/ RefuseContribution(q) \/ FinishContribution(q) \/ BurnChallenge(q)

(* The steps that touch neither challenges, attestations nor requests.     *)
ElsewhereStep == UNCHANGED <<chal, att, req>>

(* Next, sorted by what the rows of the contributions table depend on.     *)
LEMMA StepKinds ==
  ASSUME [Next]_vars
  PROVE  \/ ElsewhereStep
         \/ \E o \in Orgs, r \in Rounds, c \in Challenges : IssueChallenge(o, r, c)
         \/ \E o \in Orgs, c \in Challenges, r \in Rounds, at \in (now - Skew)..(now + Skew) :
              SignContribution(o, c, r, at)
         \/ \E q \in Requests, c \in Challenges : Post(q, c)
         \/ \E q \in Requests : RequestStep(q)
         \/ Crash
BY DEF Next, vars, ElsewhereStep, RequestStep, Suspend, Reinstate, ReEnroll, StartRound,
       Aggregate, CommitElsewhere, Tick

(* A challenge keeps what it is bound to and never becomes unspent again;  *)
(* a signed attestation is never changed.                                  *)
BoundAlike(c) ==
  /\ chal'[c].org = chal[c].org
  /\ chal'[c].round = chal[c].round
  /\ chal'[c].expires = chal[c].expires
  /\ chal[c].consumed => chal'[c].consumed

LEMMA ChallengesKept ==
  ASSUME TInv, [Next]_vars
  PROVE  /\ \A c \in Challenges : chal[c] # Null => BoundAlike(c)
         /\ \A c \in Challenges : att[c] # Null => att'[c] = att[c]
<1> USE DEF TInv, TypeOK, BoundAlike
<1>1. CASE ElsewhereStep
  BY <1>1 DEF ElsewhereStep
<1>2. ASSUME NEW o \in Orgs, NEW r \in Rounds, NEW d \in Challenges, IssueChallenge(o, r, d)
      PROVE  /\ \A c \in Challenges : chal[c] # Null => BoundAlike(c)
             /\ \A c \in Challenges : att[c] # Null => att'[c] = att[c]
  BY <1>2 DEF IssueChallenge
<1>3. ASSUME NEW o \in Orgs, NEW d \in Challenges, NEW r \in Rounds,
             NEW at \in (now - Skew)..(now + Skew), SignContribution(o, d, r, at)
      PROVE  /\ \A c \in Challenges : chal[c] # Null => BoundAlike(c)
             /\ \A c \in Challenges : att[c] # Null => att'[c] = att[c]
  BY <1>3 DEF SignContribution
<1>4. ASSUME NEW q \in Requests, NEW d \in Challenges, Post(q, d)
      PROVE  /\ \A c \in Challenges : chal[c] # Null => BoundAlike(c)
             /\ \A c \in Challenges : att[c] # Null => att'[c] = att[c]
  BY <1>4 DEF Post
<1>5. ASSUME att' = att,
             chal' = chal \/ \E d \in Challenges : chal' = [chal EXCEPT ![d].consumed = TRUE]
      PROVE  /\ \A c \in Challenges : chal[c] # Null => BoundAlike(c)
             /\ \A c \in Challenges : att[c] # Null => att'[c] = att[c]
  BY <1>5 DEF ChalRow
<1>6. ASSUME NEW q \in Requests, RequestStep(q)
      PROVE  att' = att /\ (chal' = chal \/ \E d \in Challenges : chal' = [chal EXCEPT ![d].consumed = TRUE])
  BY <1>6 DEF RequestStep, BeginContribution, RefuseContribution, FinishContribution,
              BurnChallenge, RefOK
<1>7. ASSUME Crash
      PROVE  att' = att /\ (chal' = chal \/ \E d \in Challenges : chal' = [chal EXCEPT ![d].consumed = TRUE])
  BY <1>7 DEF Crash, InFlight, RefOK
<1>8. QED BY StepKinds, <1>1, <1>2, <1>3, <1>4, <1>5, <1>6, <1>7

(* A request keeps its challenge.  A row of the table is never changed; it *)
(* is lost only if it is not saved.                                        *)
LEMMA RowsKept ==
  ASSUME TInv, [Next]_vars, NEW q \in Requests
  PROVE  /\ req[q].stage # "unsent" => req'[q].chal = req[q].chal
         /\ req[q].stage \in Recorded /\ req'[q].stage \in Recorded => req'[q] = req[q]
         /\ req[q].stage \in Recorded /\ q \notin unsaved => req'[q] = req[q]
<1> USE DEF TInv, TypeOK, ReqRow, Pending, Recorded
<1>1. CASE ElsewhereStep
  BY <1>1 DEF ElsewhereStep
<1>2. CASE \E o \in Orgs, r \in Rounds, c \in Challenges : IssueChallenge(o, r, c)
  BY <1>2 DEF IssueChallenge
<1>3. CASE \E o \in Orgs, c \in Challenges, r \in Rounds, at \in (now - Skew)..(now + Skew) :
             SignContribution(o, c, r, at)
  BY <1>3 DEF SignContribution
<1>4. CASE \E p \in Requests, c \in Challenges : Post(p, c)
  BY <1>4 DEF Post
<1>5. CASE \E p \in Requests : RequestStep(p)
  BY <1>5 DEF RequestStep, BeginContribution, RefuseContribution, FinishContribution,
              BurnChallenge
<1>6. CASE Crash
  <2>1. CASE req'[q] = req[q]
    BY <2>1
  <2>2. CASE /\ q \in InFlight \cup unsaved
             /\ req'[q] = [req[q] EXCEPT !.stage = "refused"]
    <3>1. req'[q].stage = "refused" /\ req'[q].chal = req[q].chal
      BY <2>2
    <3>2. req[q].stage \in Recorded => q \in unsaved
      BY <2>2 DEF InFlight
    <3>3. QED BY <3>1, <3>2
  <2>3. QED BY <1>6, <2>1, <2>2, CrashLoses
<1>7. QED BY StepKinds, <1>1, <1>2, <1>3, <1>4, <1>5, <1>6

(* Only FinishContribution records a row, and only its own.                *)
LEMMA NewRow ==
  ASSUME TInv, [Next]_vars, NEW q \in Requests,
         req'[q].stage \in Recorded, req[q].stage \notin Recorded
  PROVE  FinishContribution(q)
<1> USE DEF TInv, TypeOK, ReqRow, Pending, Recorded
<1>1. CASE ElsewhereStep
  BY <1>1 DEF ElsewhereStep
<1>2. CASE \E o \in Orgs, r \in Rounds, c \in Challenges : IssueChallenge(o, r, c)
  BY <1>2 DEF IssueChallenge
<1>3. CASE \E o \in Orgs, c \in Challenges, r \in Rounds, at \in (now - Skew)..(now + Skew) :
             SignContribution(o, c, r, at)
  BY <1>3 DEF SignContribution
<1>4. CASE \E p \in Requests, c \in Challenges : Post(p, c)
  BY <1>4 DEF Post
<1>5. ASSUME NEW p \in Requests, RequestStep(p) PROVE FinishContribution(q)
  <2>1. p = q
    BY <1>5 DEF RequestStep, BeginContribution, RefuseContribution, FinishContribution,
                BurnChallenge
  <2>2. ~BeginContribution(p) /\ ~RefuseContribution(p) /\ ~BurnChallenge(p)
    BY <2>1 DEF BeginContribution, RefuseContribution, BurnChallenge
  <2>3. QED BY <1>5, <2>1, <2>2 DEF RequestStep
<1>6. CASE Crash
  BY <1>6, CrashLoses
<1>7. QED BY StepKinds, <1>1, <1>2, <1>3, <1>4, <1>5, <1>6

(* Only the step that records a row can leave it unsaved.                  *)
LEMMA NewUnsaved ==
  ASSUME [Next]_vars, NEW q \in unsaved', q \notin unsaved
  PROVE  FinishContribution(q)
BY DEF Next, vars, Suspend, Reinstate, ReEnroll, StartRound, Aggregate, IssueChallenge,
       SignContribution, Post, BeginContribution, RefuseContribution, FinishContribution,
       BurnChallenge, CommitElsewhere, Crash, Tick

(* Only BeginContribution lets a request reach the read, after its checks. *)
LEMMA NewRead ==
  ASSUME TInv, [Next]_vars, NEW q \in Requests,
         req'[q].stage = "reading", req[q].stage # "reading"
  PROVE  req[q].stage = "authenticated" /\ Admissible(ReqOrg(q), ReqRound(q))
<1> USE DEF TInv, TypeOK, ReqRow, Pending, Recorded
<1>1. CASE ElsewhereStep
  BY <1>1 DEF ElsewhereStep
<1>2. CASE \E o \in Orgs, r \in Rounds, c \in Challenges : IssueChallenge(o, r, c)
  BY <1>2 DEF IssueChallenge
<1>3. CASE \E o \in Orgs, c \in Challenges, r \in Rounds, at \in (now - Skew)..(now + Skew) :
             SignContribution(o, c, r, at)
  BY <1>3 DEF SignContribution
<1>4. CASE \E p \in Requests, c \in Challenges : Post(p, c)
  BY <1>4 DEF Post
<1>5. CASE \E p \in Requests : RequestStep(p)
  BY <1>5 DEF RequestStep, BeginContribution, RefuseContribution, FinishContribution,
              BurnChallenge
<1>6. CASE Crash
  BY <1>6, CrashLoses
<1>7. QED BY StepKinds, <1>1, <1>2, <1>3, <1>4, <1>5, <1>6

(* Only Post brings a request into flight.                                 *)
LEMMA NewArrival ==
  ASSUME TInv, [Next]_vars, NEW q \in Requests,
         req'[q].stage \in Pending, req[q].stage \notin Pending
  PROVE  \E c \in Challenges : Post(q, c)
<1> USE DEF TInv, TypeOK, ReqRow, Pending, Recorded
<1>1. CASE ElsewhereStep
  BY <1>1 DEF ElsewhereStep
<1>2. CASE \E o \in Orgs, r \in Rounds, c \in Challenges : IssueChallenge(o, r, c)
  BY <1>2 DEF IssueChallenge
<1>3. CASE \E o \in Orgs, c \in Challenges, r \in Rounds, at \in (now - Skew)..(now + Skew) :
             SignContribution(o, c, r, at)
  BY <1>3 DEF SignContribution
<1>4. ASSUME NEW p \in Requests, NEW c \in Challenges, Post(p, c)
      PROVE  Post(q, c)
  <2>1. p = q
    BY <1>4 DEF Post
  <2>2. QED BY <1>4, <2>1
<1>5. CASE \E p \in Requests : RequestStep(p)
  BY <1>5 DEF RequestStep, BeginContribution, RefuseContribution, FinishContribution,
              BurnChallenge
<1>6. CASE Crash
  BY <1>6, CrashLoses
<1>7. QED BY StepKinds, <1>1, <1>2, <1>3, <1>4, <1>5, <1>6

(* A request that has arrived keeps its organisation and its round.        *)
LEMMA RefKept ==
  ASSUME TInv, [Next]_vars, NEW q \in Requests, req[q].stage # "unsent"
  PROVE  ReqOrg(q)' = ReqOrg(q) /\ ReqRound(q)' = ReqRound(q)
<1>1. req[q].chal \in Challenges /\ att[req[q].chal] # Null
  BY DEF TInv, RefOK
<1>2. chal[req[q].chal] # Null
  BY <1>1 DEF TInv, RefOK
<1>3. QED BY <1>1, <1>2, ChallengesKept, RowsKept DEF ReqOrg, ReqRound

-----------------------------------------------------------------------------
(* The rows of the contributions table.                                    *)

(* Single use alone is not inductive: that a fresh row cannot share the    *)
(* challenge of an old one rests on old rows having spent theirs, which is *)
(* part of RowsBackedByChallenge.                                          *)
SInv == TInv /\ ChallengeSingleUse /\ RowsBackedByChallenge /\ AcceptedFresh

LEMMA SInvStep == SInv /\ [Next]_vars => SInv'
<1> SUFFICES ASSUME SInv, [Next]_vars PROVE SInv'
  OBVIOUS
<1>0. TInv
  BY DEF SInv
<1>1. TInv'
  BY <1>0, TInvStep
<1>2. ASSUME NEW q \in Requests, req'[q].stage \in Recorded
      PROVE  \/ q \in Rows /\ req'[q] = req[q]
             \/ q \notin Rows /\ FinishContribution(q)
  BY <1>0, <1>2, RowsKept, NewRow DEF Rows
<1>3. ASSUME NEW q \in Requests, req[q].stage \in Recorded \cup Pending
      PROVE  /\ req[q].chal \in Challenges /\ req'[q].chal = req[q].chal
             /\ BoundAlike(req[q].chal) /\ att'[req[q].chal] = att[req[q].chal]
  <2>1. req[q].stage # "unsent" /\ req[q].chal \in Challenges /\ att[req[q].chal] # Null
    BY <1>0, <1>3 DEF TInv, RefOK, Recorded, Pending
  <2>2. chal[req[q].chal] # Null
    BY <1>0, <2>1 DEF TInv, RefOK
  <2>3. QED BY <1>0, <2>1, <2>2, ChallengesKept, RowsKept
<1>4. ASSUME NEW q \in Requests, FinishContribution(q)
      PROVE  /\ req[q].stage = "reading"
             /\ Fresh(req[q].chal) /\ Usable(req[q].chal, ReqOrg(q), ReqRound(q))
             /\ chal'[req[q].chal].consumed
             /\ req'[q].at = now
  <2>1. req[q].stage = "reading" /\ req[q].chal \in Challenges
    BY <1>0, <1>4 DEF TInv, RefOK, FinishContribution
  <2>2. chal[req[q].chal] \in ChalRow
    BY <1>0, <2>1 DEF TInv, RefOK, TypeOK
  <2>3. chal'[req[q].chal].consumed
    BY <1>0, <1>4, <2>1, <2>2 DEF TInv, TypeOK, ChalRow, FinishContribution
  <2>4. req'[q].at = now
    BY <1>0, <1>4 DEF TInv, TypeOK, ReqRow, FinishContribution
  <2>5. QED BY <1>4, <2>1, <2>3, <2>4 DEF FinishContribution
<1>5. ChallengeSingleUse'
  <2> SUFFICES ASSUME NEW p \in Requests, NEW q \in Requests,
                      req'[p].stage \in Recorded, req'[q].stage \in Recorded,
                      req'[p].chal = req'[q].chal
               PROVE  p = q
    BY DEF ChallengeSingleUse, Rows
  <2>1. CASE p \in Rows /\ q \in Rows
    BY <2>1, <1>3 DEF SInv, ChallengeSingleUse, Rows
  <2>2. ASSUME NEW old \in Rows, NEW new \in Requests, FinishContribution(new),
               req'[old].chal = req'[new].chal
        PROVE  FALSE
    <3>1. chal[req[old].chal].consumed
      BY DEF SInv, RowsBackedByChallenge
    <3>2. ~chal[req[new].chal].consumed
      BY <2>2, <1>4 DEF Usable
    <3>3. req'[old].chal = req[old].chal /\ req'[new].chal = req[new].chal
      BY <1>3, <1>4, <2>2 DEF Rows, Pending
    <3>4. QED BY <2>2, <3>1, <3>2, <3>3
  <2>3. CASE FinishContribution(p) /\ FinishContribution(q)
    <3>1. req[q].stage = "reading" /\ req[p].stage = "reading"
      BY <1>4, <2>3
    <3>2. \A x \in Requests : x # p => req'[x] = req[x]
      BY <2>3, <1>0 DEF FinishContribution, TInv, TypeOK
    <3>3. QED BY <3>1, <3>2 DEF Recorded
  <2>4. QED BY <1>2, <2>1, <2>2, <2>3
<1>6. RowsBackedByChallenge'
  <2> SUFFICES ASSUME NEW q \in Requests, req'[q].stage \in Recorded
               PROVE  LET c == chal'[req'[q].chal]
                      IN /\ c.consumed /\ req'[q].at < c.expires
                         /\ c.org = att'[req'[q].chal].org /\ c.round = att'[req'[q].chal].round
    BY DEF RowsBackedByChallenge, Rows, ReqOrg, ReqRound
  <2>1. CASE q \in Rows /\ req'[q] = req[q]
    <3>1. chal[req[q].chal].consumed /\ chal[req[q].chal].round = att[req[q].chal].round
            /\ chal[req[q].chal].org = att[req[q].chal].org
            /\ req[q].at < chal[req[q].chal].expires
      BY <2>1 DEF SInv, RowsBackedByChallenge, ReqOrg, ReqRound
    <3>2. QED BY <1>3, <2>1, <3>1 DEF BoundAlike, Rows
  <2>2. CASE FinishContribution(q)
    <3>1. /\ chal[req[q].chal].org = att[req[q].chal].org
          /\ chal[req[q].chal].round = att[req[q].chal].round
          /\ chal[req[q].chal].expires > now
      BY <1>4, <2>2 DEF Usable, ReqOrg, ReqRound
    <3>2. now \in Nat /\ chal[req[q].chal].expires \in Nat
      BY <1>0, <1>3, <1>4, <2>2 DEF TInv, TypeOK, ChalRow, RefOK, Pending
    <3>3. now < chal[req[q].chal].expires
      BY <3>1, <3>2
    <3>4. QED BY <1>3, <1>4, <2>2, <3>1, <3>3 DEF BoundAlike, Pending
  <2>3. QED BY <1>2, <2>1, <2>2
<1>7. AcceptedFresh'
  <2> SUFFICES ASSUME NEW q \in Requests, req'[q].stage = "accepted"
               PROVE  /\ att'[req'[q].chal].at - MaxDrift <= req'[q].at
                      /\ req'[q].at <= att'[req'[q].chal].at + MaxDrift
    BY DEF AcceptedFresh, Accepted
  <2>1. CASE q \in Rows /\ req'[q] = req[q]
    <3>1. /\ att[req[q].chal].at - MaxDrift <= req[q].at
          /\ req[q].at <= att[req[q].chal].at + MaxDrift
      BY <2>1 DEF SInv, AcceptedFresh, Accepted
    <3>2. QED BY <1>3, <2>1, <3>1 DEF Rows
  <2>2. CASE FinishContribution(q)
    <3>1. now - att[req[q].chal].at <= MaxDrift /\ att[req[q].chal].at - now <= MaxDrift
      BY <1>4, <2>2 DEF Fresh
    <3>2. now \in Int /\ att[req[q].chal].at \in Int /\ MaxDrift \in Int
      BY <1>0, <1>3, <1>4, <2>2, TimingAssumption DEF TInv, TypeOK, Attest, RefOK, Pending
    <3>3. att[req[q].chal].at - MaxDrift <= now /\ now <= att[req[q].chal].at + MaxDrift
      BY <3>1, <3>2
    <3>4. QED BY <1>3, <1>4, <2>2, <3>3 DEF Pending
  <2>3. QED BY <1>2, <2>1, <2>2 DEF Recorded
<1>8. QED BY <1>1, <1>5, <1>6, <1>7 DEF SInv

LEMMA SInvariant == Spec => []SInv
<1>1. Init => SInv
  <2>1. Init => TInv
    BY TimingAssumption DEF Init, TInv, TypeOK, Rows, RefOK, OrgRow, RoundRow, ReqRow
  <2>2. Init => ChallengeSingleUse /\ RowsBackedByChallenge /\ AcceptedFresh
    BY DEF Init, ChallengeSingleUse, RowsBackedByChallenge, AcceptedFresh, Rows, Accepted,
           Recorded
  <2>3. QED BY <2>1, <2>2 DEF SInv
<1>2. QED BY <1>1, SInvStep, PTL DEF Spec

(* A challenge stands behind at most one row of the contributions table,   *)
(* for any number of posts of it, however they interleave with crashes,    *)
(* suspensions and re-enrolments.                                          *)
THEOREM SingleUse == Spec => []ChallengeSingleUse
<1>1. SInv => ChallengeSingleUse
  BY DEF SInv
<1>2. QED BY <1>1, SInvariant, PTL

(* Every row rests on a challenge spent on its round before it ran out.    *)
THEOREM RowsBacked == Spec => []RowsBackedByChallenge
<1>1. SInv => RowsBackedByChallenge
  BY DEF SInv
<1>2. QED BY <1>1, SInvariant, PTL

(* Acceptance never lies further than the drift from the signing.          *)
THEOREM AlwaysFresh == Spec => []AcceptedFresh
<1>1. SInv => AcceptedFresh
  BY DEF SInv
<1>2. QED BY <1>1, SInvariant, PTL

-----------------------------------------------------------------------------
(* Properties of steps.                                                    *)

(* Suspension and key rotation reach an upload that is already being read: *)
(* acceptance always happens under the organisation's current key.         *)
THEOREM CurrentKey == Spec => AcceptedUnderCurrentKey
<1> DEFINE Step == \A q \in Requests :
      req'[q].stage = "accepted" /\ req[q].stage # "accepted" =>
        LET o == ReqOrg(q)
        IN org[o].active /\ att[req[q].chal].key = org[o].key
<1>1. ASSUME TInv, [Next]_vars PROVE [Step]_vars
  <2> SUFFICES ASSUME NEW q \in Requests, req'[q].stage = "accepted", req[q].stage # "accepted"
               PROVE  org[ReqOrg(q)].active /\ att[req[q].chal].key = org[ReqOrg(q)].key
    OBVIOUS
  <2>1. req[q].stage \notin Recorded
    <3>1. CASE req[q].stage \in Recorded
      BY <1>1, <3>1, RowsKept DEF Recorded
    <3>2. QED BY <3>1
  <2>2. FinishContribution(q)
    BY <1>1, <2>1, NewRow DEF Recorded
  <2>3. HasKey(ReqOrg(q)) /\ Verifies(req[q].chal, ReqOrg(q))
    BY <1>1, <2>2 DEF FinishContribution, TInv, TypeOK, ReqRow
  <2>4. QED BY <2>3 DEF HasKey, Verifies
<1> HIDE DEF Step
<1>2. Spec => [][Step]_vars
  BY <1>1, TInvariant, PTL DEF Spec
<1>3. QED BY <1>2 DEF AcceptedUnderCurrentKey, Step

(* The accepted set of an aggregated round is final as soon as no upload   *)
(* for it is being read: no new read can begin, and rows never change.     *)
THEOREM DrainedFinal == Spec => DrainedRoundIsFinal
<1> DEFINE Step == \A r \in Rounds :
      Drained(r) => Drained(r)' /\ AcceptedFor(r)' = AcceptedFor(r)
<1>1. ASSUME TInv, [Next]_vars PROVE [Step]_vars
  <2> SUFFICES ASSUME NEW r \in Rounds, Drained(r)
               PROVE  Drained(r)' /\ AcceptedFor(r)' = AcceptedFor(r)
    OBVIOUS
  <2>1. round'[r].status = "aggregated"
    BY <1>1 DEF Drained, TInv, TypeOK, RoundRow, Next, vars, Suspend, Reinstate, ReEnroll,
                StartRound, Aggregate, IssueChallenge, SignContribution, Post,
                BeginContribution, RefuseContribution, FinishContribution, BurnChallenge,
                CommitElsewhere, Crash, Tick
  <2>2. ASSUME NEW q \in Requests, req[q].stage # "unsent"
        PROVE  ReqRound(q)' = ReqRound(q)
    BY <1>1, <2>2, RefKept
  <2>3. ASSUME NEW q \in Requests, req'[q].stage = "reading", req[q].stage # "reading"
        PROVE  /\ req[q].stage = "authenticated"
               /\ Admissible(ReqOrg(q), ReqRound(q))
    BY <1>1, <2>3, NewRead
  <2>4. ASSUME NEW q \in Requests, req'[q].stage = "reading", ReqRound(q)' = r
        PROVE  FALSE
    <3>1. CASE req[q].stage = "reading"
      BY <2>2, <2>4, <3>1 DEF Drained
    <3>2. CASE req[q].stage # "reading"
      BY <2>2, <2>3, <2>4, <3>2 DEF Drained, Admissible
    <3>3. QED BY <3>1, <3>2
  <2>5. ASSUME NEW q \in Requests, req'[q].stage = "accepted", ReqRound(q)' = r
        PROVE  req[q].stage = "accepted"
    <3>1. CASE req[q].stage \in Recorded
      BY <1>1, <2>5, <3>1, RowsKept DEF Recorded
    <3>2. CASE req[q].stage \notin Recorded
      <4>1. FinishContribution(q)
        BY <1>1, <2>5, <3>2, NewRow DEF Recorded
      <4>2. req[q].stage = "reading"
        BY <4>1 DEF FinishContribution
      <4>3. QED BY <2>2, <2>5, <4>2 DEF Drained
    <3>3. QED BY <3>1, <3>2
  <2>6. AcceptedFor(r)' = AcceptedFor(r)
    <3>1. ASSUME NEW q \in AcceptedFor(r) PROVE q \in AcceptedFor(r)'
      <4>1. q \in Requests /\ req[q].stage = "accepted" /\ ReqRound(q) = r
        BY DEF AcceptedFor, Accepted
      <4>2. req'[q] = req[q]
        BY <1>1, <4>1, RowsKept DEF Recorded, Drained
      <4>3. QED BY <2>2, <4>1, <4>2 DEF AcceptedFor, Accepted
    <3>2. ASSUME NEW q \in AcceptedFor(r)' PROVE q \in AcceptedFor(r)
      <4>1. q \in Requests /\ req'[q].stage = "accepted" /\ ReqRound(q)' = r
        BY DEF AcceptedFor, Accepted
      <4>2. req[q].stage = "accepted"
        BY <2>5, <4>1
      <4>3. QED BY <2>2, <4>1, <4>2 DEF AcceptedFor, Accepted
    <3>3. QED BY <3>1, <3>2
  <2>7. ASSUME NEW q \in Requests, q \in unsaved' PROVE ReqRound(q)' # r
    <3>1. CASE q \in unsaved
      <4>1. req[q].stage # "unsent" /\ ReqRound(q) # r
        BY <1>1, <3>1 DEF Drained, TInv, TypeOK, Rows, Recorded
      <4>2. QED BY <2>2, <4>1
    <3>2. CASE FinishContribution(q)
      <4>1. req[q].stage = "reading"
        BY <3>2 DEF FinishContribution
      <4>2. ReqRound(q) # r
        BY <4>1 DEF Drained
      <4>3. QED BY <2>2, <4>1, <4>2
    <3>3. QED BY <1>1, <2>7, <3>1, <3>2, NewUnsaved
  <2>8. QED BY <2>1, <2>4, <2>6, <2>7 DEF Drained
<1> HIDE DEF Step
<1>2. Spec => [][Step]_vars
  BY <1>1, TInvariant, PTL DEF Spec
<1>3. QED BY <1>2 DEF DrainedRoundIsFinal, Step

-----------------------------------------------------------------------------
(* Clients that wait for their answers.                                    *)

(* has_accepted_contribution is read before the upload and not again after *)
(* it: what it found stays true only if no other post of the organisation  *)
(* is pending.                                                             *)
OnePending == \A p, q \in InFlight : ReqOrg(p) = ReqOrg(q) => p = q
ReadStillClear ==
  \A q \in Requests : req[q].stage = "reading" => ~AlreadyAccepted(ReqOrg(q), ReqRound(q))
OInv == TInv /\ OnePending /\ ReadStillClear /\ OneAcceptedPerOrgRound

LEMMA OInvStep ==
  ASSUME ~Overlap
  PROVE  OInv /\ [Next]_vars => OInv'
<1> SUFFICES ASSUME OInv, [Next]_vars PROVE OInv'
  OBVIOUS
<1>1. TInv /\ TInv'
  BY TInvStep DEF OInv
<1>2. ASSUME NEW q \in Requests, req'[q].stage = "accepted"
      PROVE  \/ req[q].stage = "accepted"
             \/ req[q].stage = "reading"
  BY <1>1, <1>2, NewRow, RowsKept DEF Recorded, FinishContribution
<1>3. ASSUME NEW q \in Requests, req[q].stage # "unsent"
      PROVE  ReqOrg(q)' = ReqOrg(q) /\ ReqRound(q)' = ReqRound(q)
  BY <1>1, <1>3, RefKept
<1>4. ASSUME NEW p \in Requests, NEW q \in Requests,
             req[p].stage \in Pending, req[q].stage \in Pending, ReqOrg(p) = ReqOrg(q)
      PROVE  p = q
  BY <1>4 DEF OInv, OnePending, InFlight
<1>5. OnePending'
  <2>1. ASSUME NEW p \in Requests, NEW q \in Requests, NEW c \in Challenges, Post(q, c),
               req'[p].stage \in Pending, ReqOrg(p)' = ReqOrg(q)'
        PROVE  p = q
    <3>1. req'[q].chal = c /\ chal' = chal
      BY <1>1, <2>1 DEF Post, TInv, TypeOK
    <3>2. ReqOrg(q)' = att[c].org
      BY <2>1, <3>1 DEF ReqOrg, Post
    <3>3. CASE p # q
      <4>1. req'[p] = req[p]
        BY <1>1, <2>1, <3>3 DEF Post, TInv, TypeOK
      <4>2. p \in InFlight /\ ReqOrg(p) = att[c].org
        BY <2>1, <3>1, <3>2, <4>1 DEF InFlight, ReqOrg, Post
      <4>3. QED BY <2>1, <4>2 DEF Post
    <3>4. QED BY <3>3
  <2>2. ASSUME NEW p \in Requests, NEW q \in Requests,
               req'[p].stage \in Pending, req'[q].stage \in Pending, ReqOrg(p)' = ReqOrg(q)'
        PROVE  p = q
    <3>1. CASE req[p].stage \in Pending /\ req[q].stage \in Pending
      BY <1>3, <1>4, <2>2, <3>1 DEF Pending
    <3>2. CASE req[p].stage \notin Pending
      BY <1>1, <2>1, <2>2, <3>2, NewArrival
    <3>3. CASE req[q].stage \notin Pending
      BY <1>1, <2>1, <2>2, <3>3, NewArrival
    <3>4. QED BY <3>1, <3>2, <3>3
  <2>3. QED BY <2>2 DEF OnePending, InFlight
<1>6. ASSUME NEW q \in Requests, req'[q].stage = "reading"
      PROVE  /\ req[q].stage \in Pending
             /\ ~AlreadyAccepted(ReqOrg(q), ReqRound(q))
  <2>1. CASE req[q].stage = "reading"
    BY <2>1 DEF OInv, ReadStillClear, Pending
  <2>2. CASE req[q].stage # "reading"
    BY <1>1, <1>6, <2>2, NewRead DEF Admissible, Pending
  <2>3. QED BY <2>1, <2>2
<1>7. ReadStillClear'
  <2> SUFFICES ASSUME NEW q \in Requests, req'[q].stage = "reading",
                      NEW p \in Requests, req'[p].stage = "accepted",
                      ReqOrg(p)' = ReqOrg(q)', ReqRound(p)' = ReqRound(q)'
               PROVE  FALSE
    BY DEF ReadStillClear, AlreadyAccepted, Accepted
  <2>1. req[q].stage \in Pending /\ ~AlreadyAccepted(ReqOrg(q), ReqRound(q))
    BY <1>6
  <2>2. req[p].stage # "unsent" /\ req[q].stage # "unsent"
    BY <1>2, <2>1 DEF Pending
  <2>3. ReqOrg(p) = ReqOrg(q) /\ ReqRound(p) = ReqRound(q)
    BY <1>3, <2>2
  <2>4. CASE req[p].stage = "accepted"
    BY <2>1, <2>3, <2>4 DEF AlreadyAccepted, Accepted
  <2>5. CASE req[p].stage = "reading"
    BY <1>4, <2>1, <2>3, <2>5 DEF Pending
  <2>6. QED BY <1>2, <2>4, <2>5
<1>8. OneAcceptedPerOrgRound'
  <2> SUFFICES ASSUME NEW p \in Requests, req'[p].stage = "accepted",
                      NEW q \in Requests, req'[q].stage = "accepted",
                      ReqOrg(p)' = ReqOrg(q)', ReqRound(p)' = ReqRound(q)'
               PROVE  p = q
    BY DEF OneAcceptedPerOrgRound, Accepted
  <2>1. req[p].stage \in {"accepted", "reading"} /\ req[q].stage \in {"accepted", "reading"}
    BY <1>2
  <2>2. ReqOrg(p) = ReqOrg(q) /\ ReqRound(p) = ReqRound(q)
    BY <1>3, <2>1
  <2>3. CASE req[p].stage = "reading" /\ req[q].stage = "reading"
    BY <1>4, <2>2, <2>3 DEF Pending
  <2>4. CASE req[p].stage = "accepted" /\ req[q].stage = "accepted"
    BY <2>2, <2>4 DEF OInv, OneAcceptedPerOrgRound, Accepted
  <2>5. CASE req[p].stage # req[q].stage
    BY <2>1, <2>2, <2>5 DEF OInv, ReadStillClear, AlreadyAccepted, Accepted
  <2>6. QED BY <2>1, <2>3, <2>4, <2>5
<1>9. QED BY <1>1, <1>5, <1>7, <1>8 DEF OInv

(* When every client waits for the answer to its post, no organisation has *)
(* two accepted contributions in a round.  Without that assumption the run *)
(* intake_duplicate shows two.                                             *)
THEOREM OnePerOrgRound ==
  ASSUME ~Overlap
  PROVE  Spec => []OneAcceptedPerOrgRound
<1>1. Init => OInv
  <2>1. Init => TInv
    BY TimingAssumption DEF Init, TInv, TypeOK, Rows, RefOK, OrgRow, RoundRow, ReqRow
  <2>2. Init => OnePending /\ ReadStillClear /\ OneAcceptedPerOrgRound
    BY DEF Init, OnePending, ReadStillClear, OneAcceptedPerOrgRound, InFlight, Pending, Accepted
  <2>3. QED BY <2>1, <2>2 DEF OInv
<1>2. OInv /\ [Next]_vars => OInv'
  BY OInvStep
<1>3. OInv => OneAcceptedPerOrgRound
  BY DEF OInv
<1>4. QED BY <1>1, <1>2, <1>3, PTL DEF Spec

-----------------------------------------------------------------------------
(* The organisations around intake.                                        *)

Standing == INSTANCE OrgStanding WITH Keys <- 0..MaxKey, NoKey <- -1, standing <- org

(* What intake sees of organisations is what OrgStanding says ...          *)
THEOREM OrgsStand == Spec => Standing!Spec
<1>1. Init => Standing!Init
  BY TimingAssumption DEF Init, Standing!Init, Standing!Enrolled
<1>2. ASSUME TInv, [Next]_vars PROVE [Standing!Next]_org
  <2>1. ASSUME NEW o \in Orgs, Suspend(o) PROVE Standing!Next
    BY <2>1 DEF Suspend, Standing!Suspend, Standing!Next
  <2>2. ASSUME NEW o \in Orgs, Reinstate(o) PROVE Standing!Next
    <3>1. org[o].key # -1
      BY <1>2 DEF TInv, TypeOK, OrgRow
    <3>2. QED BY <2>2, <3>1 DEF Reinstate, Standing!Reinstate, Standing!Next
  <2>3. ASSUME NEW o \in Orgs, ReEnroll(o) PROVE Standing!Next
    BY <2>3 DEF ReEnroll, Standing!Enrol, Standing!Next
  <2>4. CASE UNCHANGED org
    BY <2>4
  <2>5. QED
    BY <1>2, <2>1, <2>2, <2>3, <2>4 DEF Next, vars, StartRound, Aggregate, IssueChallenge,
       SignContribution, Post, BeginContribution, RefuseContribution, FinishContribution,
       BurnChallenge, CommitElsewhere, Crash, Tick
<1>3. QED BY <1>1, <1>2, TInvariant, PTL DEF Spec, Standing!Spec

(* ... and nothing that OrgStanding allows is left out: whatever happens   *)
(* to an organisation between two stages of a request is a step of intake. *)
(* Once they have enrolled, OrgRegistry makes no other changes to the      *)
(* organisations (KeepsStanding): what is proved of intake holds beside it. *)
THEOREM StandingIsCovered ==
  ASSUME Standing!Next, unsaved' = {}, UNCHANGED <<now, round, chal, att, req>>
  PROVE  Next
<1>1. PICK o \in Orgs : Standing!Suspend(o) \/ Standing!Reinstate(o) \/ Standing!Enrol(o)
  BY DEF Standing!Next
<1>2. CASE Standing!Suspend(o)
  BY <1>2 DEF Standing!Suspend, Suspend, Next
<1>3. CASE Standing!Reinstate(o)
  BY <1>3 DEF Standing!Reinstate, Reinstate, Next
<1>4. CASE Standing!Enrol(o)
  BY <1>4 DEF Standing!Enrol, ReEnroll, Next
<1>5. QED BY <1>1, <1>2, <1>3, <1>4
=============================================================================
