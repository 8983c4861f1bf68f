------------------------ MODULE ModelLifecycleProofs ------------------------
(***************************************************************************)
(* Proofs about ModelLifecycle, for every set of rounds and contents and   *)
(* every number of crashes; and about what holds when there are none.      *)
(***************************************************************************)
EXTENDS ModelLifecycle, TLAPS

(* What the handler under way has in hand.                                 *)
OpRefs ==
  /\ op.at \in {"writing", "staging", "completing"} =>
       op.act = "aggregated" /\ op.round \in Rounds /\ op.blob \in Blobs
  /\ op.at = "completing" => op.version \in Versions
  /\ op.at = "marking" => op.act = "published" /\ op.round \in Rounds /\ op.version \in Versions
  /\ op.at = "logging" => op.act \in Acts /\ op.version \in Versions

(* A version in use belongs to a round and has a content.                  *)
GmRefs ==
  \A v \in Versions : gm[v].status # "unused" => gm[v].round \in Rounds /\ gm[v].hash \in Blobs

(* The handler under way found its round running, or its version there.    *)
UnderWay ==
  /\ op.at \in {"writing", "staging", "completing"} =>
       round[op.round].status = "running" /\ round[op.round].since + Window <= now
  /\ op.at = "marking" => gm[op.version].round = op.round /\ Published(op.version)

(* The windows a version has gone through, read off its round.             *)
Timing ==
  \A v \in Versions : gm[v].status # "unused" =>
    /\ round[gm[v].round].status # "none"
    /\ round[gm[v].round].since + 2 * Window <= gm[v].until
    /\ Published(v) => gm[v].until <= now

LInv == TypeOK /\ OpRefs /\ GmRefs /\ UnderWay /\ Timing /\ OneActive /\ CompletedIsPublished

-----------------------------------------------------------------------------
(* promote_global_model.                                                   *)

(* A promotion keeps everything of a row but its status, makes v the only  *)
(* active version, and turns no version staged, unstaged or unused.        *)
LEMMA Promotion ==
  ASSUME TypeOK, NEW v \in Versions
  PROVE  /\ Promoted(v) \in [Versions -> GmRow]
         /\ Promoted(v)[v].status = "active"
         /\ \A w \in Versions :
              /\ Promoted(v)[w].round = gm[w].round
              /\ Promoted(v)[w].hash = gm[w].hash
              /\ Promoted(v)[w].until = gm[w].until
              /\ w # v =>
                   Promoted(v)[w].status = IF gm[w].status = "active" THEN "archived"
                                           ELSE gm[w].status
<1> DEFINE on(w) == [gm[w] EXCEPT !.status = "active"]
           off(w) == [gm[w] EXCEPT !.status = "archived"]
<1>1. ASSUME NEW w \in Versions
      PROVE  /\ gm[w] \in GmRow
             /\ on(w) \in GmRow /\ on(w).status = "active"
             /\ on(w).round = gm[w].round /\ on(w).hash = gm[w].hash /\ on(w).until = gm[w].until
             /\ off(w) \in GmRow /\ off(w).status = "archived"
             /\ off(w).round = gm[w].round /\ off(w).hash = gm[w].hash /\ off(w).until = gm[w].until
  BY DEF TypeOK, GmRow
<1>2. Promoted(v) = [w \in Versions |-> IF w = v THEN on(w)
                                        ELSE IF gm[w].status = "active" THEN off(w) ELSE gm[w]]
  BY DEF Promoted
<1> HIDE DEF on, off
<1>3. QED BY <1>1, <1>2

-----------------------------------------------------------------------------
(* The invariant that holds through crashes.                               *)

LEMMA TypeStep == LInv /\ [Next]_vars => TypeOK' /\ OpRefs'
<1> SUFFICES ASSUME LInv, [Next]_vars PROVE TypeOK' /\ OpRefs'
  OBVIOUS
<1> USE BoundsAssumption DEF LInv, OpRefs, TypeOK
<1>0. Idle \in Op
  BY DEF Idle, Op
<1>1. ASSUME NEW r \in Rounds, StartRound(r) PROVE TypeOK' /\ OpRefs'
  <2>1. [status |-> "running", since |-> now] \in RoundRow
    BY DEF RoundRow
  <2>2. QED BY <1>1, <2>1 DEF StartRound
<1>2. ASSUME NEW r \in Rounds, NEW b \in Blobs, BeginAggregate(r, b) PROVE TypeOK' /\ OpRefs'
  <2>1. op' \in Op /\ op'.at = "writing" /\ op'.act = "aggregated" /\ op'.round = r /\ op'.blob = b
    BY <1>2 DEF BeginAggregate, Idle, Op, Acts
  <2>2. QED BY <1>2, <2>1 DEF BeginAggregate
<1>3. CASE WriteModel
  <2>1. op' \in Op /\ op'.at = "staging" /\ op'.act = op.act /\ op'.round = op.round /\ op'.blob = op.blob
    BY <1>3 DEF WriteModel, Op
  <2>2. file' \in [Rounds -> Blobs \cup {Torn, None}]
    BY <1>3 DEF WriteModel
  <2>3. QED BY <1>3, <2>1, <2>2 DEF WriteModel
<1>4. ASSUME NEW v \in Versions, StageVersion(v) PROVE TypeOK' /\ OpRefs'
  <2>1. /\ op' \in Op /\ op'.at = "completing" /\ op'.act = op.act /\ op'.round = op.round
        /\ op'.blob = op.blob /\ op'.version = v
    BY <1>4 DEF StageVersion, Op
  <2>2. [round |-> op.round, status |-> "staged", hash |-> op.blob, until |-> now + Window] \in GmRow
    BY <1>4 DEF StageVersion, GmRow
  <2>3. gm' \in [Versions -> GmRow]
    BY <1>4, <2>2 DEF StageVersion
  <2>4. QED BY <1>4, <2>1, <2>3 DEF StageVersion
<1>5. CASE CompleteRound
  <2>1. op' \in Op /\ op'.at = "logging" /\ op'.act = op.act /\ op'.version = op.version
    BY <1>5 DEF CompleteRound, Op
  <2>2. round' \in [Rounds -> RoundRow]
    BY <1>5 DEF CompleteRound, RoundRow
  <2>3. QED BY <1>5, <2>1, <2>2 DEF CompleteRound, Acts
<1>6. ASSUME NEW r \in Rounds, NEW v \in Versions, Publish(r, v) PROVE TypeOK' /\ OpRefs'
  <2>1. /\ op' \in Op /\ op'.at = "marking" /\ op'.act = "published"
        /\ op'.round = r /\ op'.version = v
    BY <1>6 DEF Publish, Idle, Op, Acts
  <2>2. gm' \in [Versions -> GmRow]
    BY <1>6, Promotion DEF Publish
  <2>3. QED BY <1>6, <2>1, <2>2 DEF Publish
<1>7. CASE MarkCompleted
  <2>1. op' \in Op /\ op'.at = "logging" /\ op'.act = op.act /\ op'.version = op.version
    BY <1>7 DEF MarkCompleted, Op
  <2>2. round' \in [Rounds -> RoundRow]
    BY <1>7 DEF MarkCompleted, RoundRow
  <2>3. QED BY <1>7, <2>1, <2>2 DEF MarkCompleted, Acts
<1>8. ASSUME NEW v \in Versions, Rollback(v) PROVE TypeOK' /\ OpRefs'
  <2>1. op' \in Op /\ op'.at = "logging" /\ op'.act = "rolled_back" /\ op'.version = v
    BY <1>8 DEF Rollback, Idle, Op, Acts
  <2>2. gm' \in [Versions -> GmRow]
    BY <1>8, Promotion DEF Rollback
  <2>3. QED BY <1>8, <2>1, <2>2 DEF Rollback, Acts
<1>9. CASE WriteAudit
  <2>1. log' \subseteq Acts \X Versions
    BY <1>9 DEF WriteAudit
  <2>2. QED BY <1>0, <1>9, <2>1 DEF WriteAudit, Idle
<1>10. CASE Crash
  <2>1. file' \in [Rounds -> Blobs \cup {Torn, None}]
    BY <1>10 DEF Crash
  <2>2. QED BY <1>0, <1>10, <2>1 DEF Crash, Idle
<1>11. CASE Tick
  BY <1>11 DEF Tick
<1>12. CASE UNCHANGED vars
  BY <1>12 DEF vars
<1>13. QED
  BY <1>1, <1>2, <1>3, <1>4, <1>5, <1>6, <1>7, <1>8, <1>9, <1>10, <1>11, <1>12
  DEF Next, Continue

(* What a step does to the version table: nothing, a new staged version    *)
(* from the aggregation under way, or a promotion of one that may be.      *)
Promotable(v) ==
  gm[v].status # "unused" /\ (gm[v].status = "staged" => gm[v].until <= now)

LEMMA TableSteps ==
  ASSUME LInv, [Next]_vars
  PROVE  \/ gm' = gm
         \/ \E v \in Versions : StageVersion(v)
         \/ \E v \in Versions : Promotable(v) /\ gm' = Promoted(v) /\ now' = now /\ round' = round
                               /\ (op'.at = "marking" => op'.version = v /\ op'.round = gm[v].round)
<1>1. ASSUME NEW r \in Rounds, NEW v \in Versions, Publish(r, v)
      PROVE  /\ Promotable(v) /\ gm' = Promoted(v) /\ now' = now /\ round' = round
             /\ op'.version = v /\ op'.round = gm[v].round
  BY <1>1 DEF Publish, LatestStaged, Staged, SoakElapsed, Promotable, Idle
<1>2. ASSUME NEW v \in Versions, Rollback(v)
      PROVE  Promotable(v) /\ gm' = Promoted(v) /\ now' = now /\ round' = round /\ op'.at # "marking"
  BY <1>2 DEF Rollback, MayRollback, Promotable, Idle
<1>3. QED BY <1>1, <1>2 DEF Next, Continue, vars, StartRound, BeginAggregate, WriteModel,
             CompleteRound, MarkCompleted, WriteAudit, Crash, Tick

(* What a step does to a round: nothing, or its next status.               *)
LEMMA RoundSteps ==
  ASSUME LInv, [Next]_vars, NEW r \in Rounds
  PROVE  \/ round'[r] = round[r]
         \/ /\ round[r].status = "none" /\ round'[r].status = "running" /\ gm' = gm
            /\ op' = op /\ op.at = "idle"
         \/ /\ op.at = "completing" /\ op.round = r /\ CompleteRound
            /\ round'[r].status = "aggregated" /\ round'[r].since = round[r].since
         \/ /\ op.at = "marking" /\ op.round = r /\ MarkCompleted
            /\ round'[r].status = "completed" /\ round'[r].since = round[r].since
<1> USE DEF LInv, TypeOK, RoundRow
<1>1. CASE \E x \in Rounds : StartRound(x)
  BY <1>1 DEF StartRound
<1>2. CASE CompleteRound
  BY <1>2 DEF CompleteRound
<1>3. CASE MarkCompleted
  BY <1>3 DEF MarkCompleted
<1>4. QED BY <1>1, <1>2, <1>3 DEF Next, Continue, vars, BeginAggregate, WriteModel, StageVersion,
             Publish, Rollback, WriteAudit, Crash, Tick

(* A new version is an unused row filled in; the others stay.              *)
LEMMA Staging ==
  ASSUME LInv, NEW v \in Versions, StageVersion(v)
  PROVE  /\ op.at = "staging" /\ op.round \in Rounds /\ op.blob \in Blobs
         /\ op'.at = "completing" /\ op'.round = op.round /\ op'.version = v
         /\ gm[v].status = "unused"
         /\ gm'[v] = [round |-> op.round, status |-> "staged",
                      hash |-> op.blob, until |-> now + Window]
         /\ \A w \in Versions : w # v => gm'[w] = gm[w]
         /\ UNCHANGED <<now, round, file>>
BY DEF LInv, TypeOK, OpRefs, StageVersion, NextVersion, Op

LEMMA GmStep == LInv /\ [Next]_vars => GmRefs' /\ OneActive'
<1> SUFFICES ASSUME LInv, [Next]_vars PROVE GmRefs' /\ OneActive'
  OBVIOUS
<1> USE DEF LInv, GmRefs, OneActive, Active
<1>1. CASE gm' = gm
  BY <1>1
<1>2. ASSUME NEW v \in Versions, StageVersion(v) PROVE GmRefs' /\ OneActive'
  BY <1>2, Staging
<1>3. ASSUME NEW v \in Versions, Promotable(v), gm' = Promoted(v) PROVE GmRefs' /\ OneActive'
  BY <1>3, Promotion DEF Promotable
<1>4. QED BY <1>1, <1>2, <1>3, TableSteps

(* Published versions stay published, and versions keep their columns.     *)
LEMMA VersionsKept ==
  ASSUME LInv, [Next]_vars, NEW v \in Versions, gm[v].status # "unused"
  PROVE  /\ gm'[v].status # "unused"
         /\ gm'[v].round = gm[v].round /\ gm'[v].hash = gm[v].hash
         /\ gm'[v].until = gm[v].until
         /\ Published(v) => Published(v)'
<1> USE DEF LInv, Published
<1>1. CASE gm' = gm
  BY <1>1
<1>2. ASSUME NEW w \in Versions, StageVersion(w)
      PROVE  gm'[v] = gm[v]
  BY <1>2, Staging
<1>3. ASSUME NEW w \in Versions, gm' = Promoted(w)
      PROVE  /\ gm'[v].status # "unused"
             /\ gm'[v].round = gm[v].round /\ gm'[v].hash = gm[v].hash
             /\ gm'[v].until = gm[v].until
             /\ Published(v) => Published(v)'
  BY <1>3, Promotion
<1>4. QED BY <1>1, <1>2, <1>3, TableSteps

(* The clock never goes back, and a started round keeps its start.         *)
LEMMA ClockAndStart ==
  ASSUME LInv, [Next]_vars
  PROVE  /\ now \in Nat /\ now' \in Nat /\ now <= now'
         /\ \A r \in Rounds : round[r].status # "none" =>
              round'[r].since = round[r].since /\ round'[r].status # "none"
<1>1. now' = now \/ now' = now + 1
  BY DEF Next, Continue, vars, StartRound, BeginAggregate, WriteModel, StageVersion,
         CompleteRound, Publish, MarkCompleted, Rollback, WriteAudit, Crash, Tick
<1>2. now \in Nat
  BY DEF LInv, TypeOK
<1>3. ASSUME NEW r \in Rounds, round[r].status # "none"
      PROVE  round'[r].since = round[r].since /\ round'[r].status # "none"
  BY <1>3, RoundSteps
<1>4. QED BY <1>1, <1>2, <1>3

LEMMA UnderWayStep == LInv /\ [Next]_vars => UnderWay'
<1> SUFFICES ASSUME LInv, [Next]_vars PROVE UnderWay'
  OBVIOUS
<1> USE DEF LInv, UnderWay
<1>1. ASSUME op'.at \in {"writing", "staging", "completing"}
      PROVE  round'[op'.round].status = "running" /\ round'[op'.round].since + Window <= now'
  <2>1. ASSUME NEW r \in Rounds, NEW b \in Blobs, BeginAggregate(r, b)
        PROVE  round'[op'.round].status = "running" /\ round'[op'.round].since + Window <= now'
    BY <2>1 DEF BeginAggregate, MayAggregate, WindowElapsed, Idle
  <2>2. CASE WriteModel \/ \E v \in Versions : StageVersion(v)
    BY <2>2 DEF WriteModel, StageVersion, TypeOK, Op
  <2>3. CASE Tick
    BY <1>1, <2>3, BoundsAssumption DEF Tick, TypeOK, OpRefs, RoundRow
  <2>4. CASE UNCHANGED vars
    BY <1>1, <2>4 DEF vars
  <2>5. CASE \E r \in Rounds : StartRound(r)
    BY <1>1, <2>5 DEF StartRound
  <2>6. CASE CompleteRound \/ MarkCompleted \/ WriteAudit \/ Crash
    BY <1>1, <2>6 DEF CompleteRound, MarkCompleted, WriteAudit, Crash, Idle, TypeOK, Op
  <2>7. CASE \/ \E r \in Rounds, v \in Versions : Publish(r, v)
             \/ \E v \in Versions : Rollback(v)
    BY <1>1, <2>7 DEF Publish, Rollback, Idle
  <2>8. QED BY <2>1, <2>2, <2>3, <2>4, <2>5, <2>6, <2>7 DEF Next, Continue
<1>2. ASSUME op'.at = "marking"
      PROVE  gm'[op'.version].round = op'.round /\ Published(op.version)'
  <2>1. op'.version \in Versions
    BY <1>2, TypeStep DEF OpRefs
  <2>2. CASE op' = op /\ op.at = "marking"
    <3>1. op.version \in Versions /\ gm[op.version].status # "unused"
      BY <2>2 DEF OpRefs, Published
    <3>2. QED BY <2>2, <3>1, VersionsKept
  <2>3. ASSUME NEW v \in Versions, gm' = Promoted(v), op'.version = v, op'.round = gm[v].round
        PROVE  gm'[op'.version].round = op'.round /\ Published(op.version)'
    BY <2>3, Promotion DEF Published
  <2>4. \/ op' = op
        \/ \E r \in Rounds, v \in Versions : Publish(r, v)
    <3>1. op \in Op
      BY DEF TypeOK
    <3>2. CASE WriteModel \/ CompleteRound \/ MarkCompleted \/ \E v \in Versions : StageVersion(v)
      BY <1>2, <3>1, <3>2 DEF WriteModel, CompleteRound, MarkCompleted, StageVersion, Op
    <3>3. CASE WriteAudit \/ Crash
      BY <1>2, <3>3 DEF WriteAudit, Crash, Idle
    <3>4. CASE \/ \E r \in Rounds, b \in Blobs : BeginAggregate(r, b)
               \/ \E v \in Versions : Rollback(v)
      BY <1>2, <3>4 DEF BeginAggregate, Rollback, Idle
    <3>5. CASE UNCHANGED vars \/ Tick \/ \E r \in Rounds : StartRound(r)
      BY <3>5 DEF vars, Tick, StartRound
    <3>6. QED BY <3>2, <3>3, <3>4, <3>5 DEF Next, Continue
  <2>5. ASSUME NEW r \in Rounds, NEW v \in Versions, Publish(r, v)
        PROVE  gm' = Promoted(v) /\ op'.version = v /\ op'.round = gm[v].round
    BY <2>5 DEF Publish, LatestStaged, Staged, Idle
  <2>6. QED BY <1>2, <2>2, <2>3, <2>4, <2>5
<1>3. QED BY <1>1, <1>2

LEMMA TimingStep == LInv /\ [Next]_vars => Timing'
<1> SUFFICES ASSUME LInv, [Next]_vars, NEW v \in Versions, gm'[v].status # "unused"
             PROVE  /\ round'[gm'[v].round].status # "none"
                    /\ round'[gm'[v].round].since + 2 * Window <= gm'[v].until
                    /\ Published(v)' => gm'[v].until <= now'
  BY DEF Timing
<1> USE BoundsAssumption
<1>1. CASE gm[v].status = "unused"
  <2>1. ~ \E w \in Versions : Promotable(w) /\ gm' = Promoted(w)
    BY <1>1, Promotion DEF LInv, Promotable
  <2>2. PICK w \in Versions : StageVersion(w)
    BY <1>1, <2>1, TableSteps
  <2>3. w = v
    BY <1>1, <2>2, Staging
  <2>4. /\ gm'[v].round = op.round /\ gm'[v].until = now + Window /\ gm'[v].status = "staged"
        /\ op.round \in Rounds /\ op.at = "staging" /\ round' = round
    BY <2>2, <2>3, Staging
  <2>5. round[op.round].status = "running" /\ round[op.round].since + Window <= now
    BY <2>4 DEF LInv, UnderWay
  <2>6. round[op.round].since \in Nat /\ now \in Nat
    BY <2>4 DEF LInv, TypeOK, RoundRow
  <2>7. round[op.round].since + 2 * Window <= now + Window
    BY <2>5, <2>6
  <2>8. QED BY <2>4, <2>5, <2>7 DEF Published
<1>2. CASE gm[v].status # "unused"
  <2>1. gm'[v].round = gm[v].round /\ gm'[v].until = gm[v].until /\ gm[v].round \in Rounds
    BY <1>2, VersionsKept DEF LInv, GmRefs
  <2>2. /\ round[gm[v].round].status # "none"
        /\ round[gm[v].round].since + 2 * Window <= gm[v].until
        /\ Published(v) => gm[v].until <= now
    BY <1>2 DEF LInv, Timing
  <2>3. ASSUME Published(v)', ~Published(v) PROVE gm[v].until <= now
    <3>1. ~ \E w \in Versions : StageVersion(w)
      BY <1>2, <2>3, Staging DEF Published
    <3>2. PICK w \in Versions : Promotable(w) /\ gm' = Promoted(w)
      BY <2>3, <3>1, TableSteps DEF Published
    <3>3. w = v
      BY <2>3, <3>2, Promotion DEF LInv, Published
    <3>4. gm[v].status = "staged"
      BY <1>2, <2>3 DEF Published, LInv, TypeOK, GmRow
    <3>5. QED BY <3>2, <3>3, <3>4 DEF Promotable
  <2>4. gm[v].until \in Nat
    BY DEF LInv, TypeOK, GmRow
  <2>5. Published(v)' => gm[v].until <= now'
    BY <2>2, <2>3, <2>4, ClockAndStart
  <2>6. QED BY <2>1, <2>2, <2>5, ClockAndStart
<1>3. QED BY <1>1, <1>2

LEMMA CompletedStep == LInv /\ [Next]_vars => CompletedIsPublished'
<1> SUFFICES ASSUME LInv, [Next]_vars, NEW r \in Rounds, round'[r].status = "completed"
             PROVE  \E v \in Versions : gm'[v].round = r /\ Published(v)'
  BY DEF CompletedIsPublished
<1>1. PICK v \in Versions : gm[v].round = r /\ Published(v)
  <2>1. CASE round[r].status = "completed"
    BY <2>1 DEF LInv, CompletedIsPublished
  <2>2. CASE op.at = "marking" /\ op.round = r
    BY <2>2 DEF LInv, UnderWay, OpRefs
  <2>3. QED BY <2>1, <2>2, RoundSteps
<1>2. gm[v].status # "unused"
  BY <1>1 DEF Published
<1>3. QED BY <1>1, <1>2, VersionsKept

LEMMA LInvariant == Spec => []LInv
<1>1. Init => LInv
  <2> SUFFICES ASSUME Init PROVE LInv
    OBVIOUS
  <2>1. TypeOK
    BY BoundsAssumption DEF Init, TypeOK, RoundRow, GmRow, Op, Idle
  <2>2. OpRefs /\ GmRefs /\ UnderWay /\ Timing /\ OneActive
    BY DEF Init, Idle, OpRefs, GmRefs, UnderWay, Timing, OneActive, Active
  <2>3. CompletedIsPublished
    BY DEF Init, CompletedIsPublished
  <2>4. QED BY <2>1, <2>2, <2>3 DEF LInv
<1>2. LInv /\ [Next]_vars => LInv'
  BY TypeStep, GmStep, UnderWayStep, TimingStep, CompletedStep DEF LInv
<1>3. QED BY <1>1, <1>2, PTL DEF Spec

(* Type correctness of the lifecycle, for every value of the constants.    *)
THEOREM TypeCorrect == Spec => []TypeOK
<1>1. LInv => TypeOK
  BY DEF LInv
<1>2. QED BY <1>1, LInvariant, PTL

(* However promotions and crashes fall, no two versions are active.        *)
THEOREM AtMostOneActive == Spec => []OneActive
<1>1. LInv => OneActive
  BY DEF LInv
<1>2. QED BY <1>1, LInvariant, PTL

(* No version is published before two windows have passed since its round  *)
(* started.                                                                *)
THEOREM SoakedBeforePublished == Spec => []PublishedAfterBothWindows
<1>1. ASSUME LInv PROVE PublishedAfterBothWindows
  <2> SUFFICES ASSUME NEW v \in Versions, Published(v)
               PROVE  round[gm[v].round].since + 2 * Window <= now
    BY DEF PublishedAfterBothWindows
  <2>1. gm[v].status # "unused" /\ gm[v].round \in Rounds
    BY <1>1 DEF LInv, GmRefs, Published
  <2>2. round[gm[v].round].since + 2 * Window <= gm[v].until /\ gm[v].until <= now
    BY <1>1, <2>1 DEF LInv, Timing
  <2>3. round[gm[v].round].since \in Nat /\ gm[v].until \in Nat /\ now \in Nat
    BY <1>1, <2>1 DEF LInv, TypeOK, RoundRow, GmRow
  <2>4. QED BY <2>2, <2>3, BoundsAssumption
<1>2. LInv => PublishedAfterBothWindows
  BY <1>1
<1>3. QED BY <1>2, LInvariant, PTL

(* A completed round has a version that was published.                     *)
THEOREM CompletedArePublished == Spec => []CompletedIsPublished
<1>1. LInv => CompletedIsPublished
  BY DEF LInv
<1>2. QED BY <1>1, LInvariant, PTL

(* A completed round keeps its status and its file.                        *)
THEOREM CompletedStays == Spec => CompletedIsFinal
<1> DEFINE Step == \A r \in Rounds : round[r].status = "completed" =>
                     round'[r] = round[r] /\ file'[r] = file[r]
<1>1. ASSUME LInv, [Next]_vars PROVE [Step]_vars
  <2> SUFFICES ASSUME NEW r \in Rounds, round[r].status = "completed", Next
               PROVE  round'[r] = round[r] /\ file'[r] = file[r]
    BY <1>1
  <2>1. op.at \in {"writing", "staging", "completing"} => op.round # r
    BY <1>1 DEF LInv, UnderWay
  <2>2. file'[r] = file[r]
    BY <1>1, <2>1 DEF LInv, TypeOK, Next, Continue, StartRound, BeginAggregate, WriteModel,
                      StageVersion, CompleteRound, Publish, MarkCompleted, Rollback, WriteAudit,
                      Crash, Tick
  <2>3. round'[r] = round[r]
    <3>1. CASE MarkCompleted /\ op.round = r
      BY <1>1, <3>1 DEF LInv, TypeOK, RoundRow, MarkCompleted
    <3>2. QED BY <1>1, <2>1, <3>1, RoundSteps
  <2>4. QED BY <2>2, <2>3
<1> HIDE DEF Step
<1>2. Spec => [][Step]_vars
  BY <1>1, LInvariant, PTL DEF Spec
<1>3. QED BY <1>2 DEF CompletedIsFinal, Step

-----------------------------------------------------------------------------
(* The version table implements PublishedModel, crashes or not.            *)

(* Staging puts one model on trial and changes nothing else.               *)
LEMMA StagingOnTrial ==
  ASSUME LInv, NEW v \in Versions, StageVersion(v)
  PROVE  /\ OnTrial' = OnTrial \cup {[model |-> op.blob, until |-> now + Window]}
         /\ Released' = Released /\ Active' = Active
         /\ \A w \in Active : gm'[w] = gm[w]
<1> USE Staging DEF Published
<1>1. \A w \in Versions : gm'[w].status = "staged" <=> w = v \/ gm[w].status = "staged"
  OBVIOUS
<1>2. gm'[v].hash = op.blob /\ gm'[v].until = now + Window
  OBVIOUS
<1>3. \A w \in Versions : gm[w].status = "staged" => gm'[w] = gm[w]
  OBVIOUS
<1>4. OnTrial' = OnTrial \cup {[model |-> op.blob, until |-> now + Window]}
  BY <1>1, <1>2, <1>3 DEF OnTrial
<1>5. \A w \in Versions : (Published(w)' <=> Published(w)) /\ (Published(w) => gm'[w] = gm[w])
  OBVIOUS
<1>6. Released' = Released
  BY <1>5 DEF Released
<1>7. Active' = Active /\ \A w \in Active : gm'[w] = gm[w]
  BY DEF Active
<1>8. QED BY <1>4, <1>6, <1>7

(* A promotion takes at most its own model off trial, adds it to the       *)
(* released ones and leaves v as the one active version.                   *)
LEMMA PromotionReleases ==
  ASSUME LInv, NEW v \in Versions, Promotable(v), gm' = Promoted(v)
  PROVE  /\ Active' = {v}
         /\ Released' = Released \cup {gm[v].hash}
         /\ gm[v].status # "staged" => OnTrial' = OnTrial
         /\ OnTrial' \in {OnTrial, OnTrial \ {[model |-> gm[v].hash, until |-> gm[v].until]}}
         /\ gm'[v].hash = gm[v].hash /\ gm'[v].round = gm[v].round
<1>0. TypeOK /\ OneActive
  BY DEF LInv
<1>1. /\ gm'[v].status = "active" /\ gm'[v].hash = gm[v].hash /\ gm'[v].round = gm[v].round
      /\ \A w \in Versions :
           /\ gm'[w].hash = gm[w].hash /\ gm'[w].until = gm[w].until
           /\ w # v => gm'[w].status = IF gm[w].status = "active" THEN "archived" ELSE gm[w].status
  BY <1>0, Promotion
<1>2. Active' = {v}
  BY <1>1 DEF Active
<1>3. Released' = Released \cup {gm[v].hash}
  <2>1. \A w \in Versions : Published(w)' <=> (w = v \/ Published(w))
    BY <1>1 DEF Published
  <2>2. QED BY <1>1, <2>1 DEF Released
<1>4. \A w \in Versions : gm'[w].status = "staged" <=> w # v /\ gm[w].status = "staged"
  BY <1>1
<1>5. ASSUME gm[v].status # "staged" PROVE OnTrial' = OnTrial
  BY <1>1, <1>4, <1>5 DEF OnTrial
<1>6. OnTrial' \in {OnTrial, OnTrial \ {[model |-> gm[v].hash, until |-> gm[v].until]}}
  <2> DEFINE e(w) == [model |-> gm[w].hash, until |-> gm[w].until]
             St == {w \in Versions : gm[w].status = "staged"}
  <2>1. OnTrial = {e(w) : w \in St}
    BY DEF OnTrial
  <2>2. OnTrial' = {e(w) : w \in St \ {v}}
    BY <1>1, <1>4 DEF OnTrial
  <2> HIDE DEF e, St
  <2>3. OnTrial' \in {OnTrial, OnTrial \ {e(v)}}
    <3>1. CASE \E w \in St \ {v} : e(w) = e(v)
      BY <2>1, <2>2, <3>1
    <3>2. CASE ~ \E w \in St \ {v} : e(w) = e(v)
      <4>1. OnTrial' = OnTrial \ {e(v)}
        BY <2>1, <2>2, <3>2
      <4>2. QED BY <4>1
    <3>3. QED BY <3>1, <3>2
  <2>4. QED BY <2>3 DEF e
<1>7. QED BY <1>1, <1>2, <1>3, <1>5, <1>6

(* Every step of the lifecycle is a step of the promise or leaves it be.   *)
LEMMA TableStep ==
  ASSUME LInv, [Next]_vars
  PROVE  [Table!Next]_(Table!pvars)
<1>1. CASE gm' = gm
  <2>1. OnTrial' = OnTrial /\ Released' = Released /\ ServedHash' = ServedHash
    BY <1>1 DEF OnTrial, Released, ServedHash, Active, Published
  <2>2. now' = now \/ now' > now
    BY ClockAndStart
  <2>3. QED BY <2>1, <2>2 DEF Table!Next, Table!Elapse, Table!pvars
<1>2. ASSUME NEW v \in Versions, StageVersion(v) PROVE Table!Observe
  <2> DEFINE e == [model |-> op.blob, until |-> now + Window]
  <2>1. OnTrial' = OnTrial \cup {e} /\ Released' = Released /\ ServedHash' = ServedHash
    BY <1>2, StagingOnTrial DEF ServedHash
  <2>2. now' = now
    BY <1>2 DEF StageVersion
  <2>3. e.until >= now + Window
    BY BoundsAssumption DEF LInv, TypeOK
  <2>4. e \in OnTrial'
    BY <2>1
  <2> HIDE DEF e
  <2>5. QED BY <2>1, <2>2, <2>3, <2>4 DEF Table!Observe
<1>3. ASSUME NEW v \in Versions, Promotable(v), gm' = Promoted(v), now' = now
      PROVE  Table!Next
  <2>1. gm[v].hash \in Blobs
    BY <1>3 DEF LInv, GmRefs, Promotable
  <2>2. /\ Released' = Released \cup {gm[v].hash}
        /\ ServedHash' = {gm[v].hash}
        /\ gm[v].status # "staged" => OnTrial' = OnTrial
        /\ OnTrial' \in {OnTrial, OnTrial \ {[model |-> gm[v].hash, until |-> gm[v].until]}}
    BY <1>3, PromotionReleases DEF ServedHash
  <2>3. CASE gm[v].status = "staged"
    <3> DEFINE e == [model |-> gm[v].hash, until |-> gm[v].until]
    <3>1. e \in OnTrial /\ e.model = gm[v].hash /\ e.until <= now
      BY <1>3, <2>3 DEF OnTrial, Promotable
    <3>2. OnTrial' \in {OnTrial, OnTrial \ {e}}
      BY <2>2
    <3> HIDE DEF e
    <3>3. Table!Release(gm[v].hash)
      BY <1>3, <2>2, <3>1, <3>2 DEF Table!Release
    <3>4. QED BY <2>1, <3>3 DEF Table!Next
  <2>4. CASE gm[v].status # "staged"
    <3>1. Published(v)
      BY <1>3, <2>4 DEF LInv, TypeOK, GmRow, Promotable, Published
    <3>2. gm[v].hash \in Released
      BY <3>1 DEF Released
    <3>3. Released' = Released
      BY <2>2, <3>2
    <3>4. Table!Restore(gm[v].hash)
      BY <1>3, <2>2, <2>4, <3>2, <3>3 DEF Table!Restore
    <3>5. QED BY <2>1, <3>4 DEF Table!Next
  <2>5. QED BY <2>3, <2>4
<1>4. QED BY <1>1, <1>2, <1>3, TableSteps DEF Table!Next

(* The active version changes only by releasing a version that soaked, or  *)
(* by going back to one released before: the table keeps the promise of    *)
(* PublishedModel whatever handlers are cut short.                         *)
THEOREM TableRefines == Spec => TableKeepsPromise
<1>1. Init => Table!Init
  BY DEF Init, Table!Init, OnTrial, Released, ServedHash, Active, Published
<1>2. LInv /\ [Next]_vars => [Table!Next]_(Table!pvars)
  BY TableStep
<1>3. QED BY <1>1, <1>2, LInvariant, PTL DEF Spec, Table!Spec, TableKeepsPromise

-----------------------------------------------------------------------------
(* When no handler is cut short.                                           *)

(* Every version in use has its content on disk; its round has left        *)
(* "running" unless its own aggregation is still to say so, and each trail *)
(* of a version is complete unless its own handler is still to write it.   *)
Whole ==
  /\ op.at = "staging" => file[op.round] = op.blob
  /\ op.at = "completing" => gm[op.version].round = op.round
  /\ \A v \in Versions : gm[v].status # "unused" =>
       /\ file[gm[v].round] = gm[v].hash
       /\ round[gm[v].round].status = "running" => op.at = "completing" /\ op.version = v
       /\ Published(v) /\ round[gm[v].round].status # "completed" =>
            op.at = "marking" /\ op.round = gm[v].round
       /\ <<"aggregated", v>> \notin log =>
            op.at \in {"completing", "logging"} /\ op.act = "aggregated" /\ op.version = v
       /\ Published(v) /\ <<"published", v>> \notin log =>
            op.at \in {"marking", "logging"} /\ op.act = "published" /\ op.version = v

NInv == LInv /\ Whole

LEMMA WholeStep ==
  ASSUME MaxCrashes = 0
  PROVE  NInv /\ [Next]_vars => Whole'
<1> SUFFICES ASSUME LInv, Whole, [Next]_vars PROVE Whole'
  BY DEF NInv
<1>0. TypeOK /\ OpRefs /\ GmRefs /\ UnderWay /\ Timing
  BY DEF LInv
<1>1. ASSUME NEW r \in Rounds, StartRound(r) PROVE Whole'
  <2>1. /\ UNCHANGED <<gm, file, log, op>>
        /\ round[r].status = "none" /\ round' = [round EXCEPT ![r] = [status |-> "running", since |-> now]]
    BY <1>1 DEF StartRound
  <2>2. \A v \in Versions : gm[v].status # "unused" => gm[v].round # r
    BY <1>0, <2>1 DEF Timing
  <2>3. \A v \in Versions : gm[v].status # "unused" => round'[gm[v].round] = round[gm[v].round]
    BY <1>0, <2>1, <2>2 DEF TypeOK
  <2>4. QED BY <2>1, <2>3 DEF Whole, Published
<1>2. ASSUME NEW r \in Rounds, NEW b \in Blobs, BeginAggregate(r, b) PROVE Whole'
  <2>1. op.at = "idle" /\ op'.at = "writing" /\ UNCHANGED <<round, gm, file, log>>
    BY <1>2 DEF BeginAggregate, Idle
  <2>2. QED BY <2>1 DEF Whole, Published
<1>3. CASE WriteModel
  <2>1. /\ op.at = "writing" /\ op'.at = "staging" /\ op'.round = op.round /\ op'.blob = op.blob
        /\ file' = [file EXCEPT ![op.round] = op.blob] /\ op.round \in Rounds
        /\ UNCHANGED <<round, gm, log>>
    BY <1>0, <1>3 DEF WriteModel, TypeOK, Op, OpRefs
  <2>2. round[op.round].status = "running"
    BY <1>0, <2>1 DEF UnderWay
  <2>3. \A v \in Versions : gm[v].status # "unused" => gm[v].round # op.round
    BY <2>1, <2>2 DEF Whole
  <2>4. \A v \in Versions : gm[v].status # "unused" => file'[gm[v].round] = file[gm[v].round]
    BY <1>0, <2>1, <2>3 DEF TypeOK, GmRefs
  <2>5. file'[op.round] = op.blob
    BY <1>0, <2>1 DEF TypeOK
  <2>6. QED BY <2>1, <2>4, <2>5 DEF Whole, Published
<1>4. ASSUME NEW v \in Versions, StageVersion(v) PROVE Whole'
  <2>1. /\ op.at = "staging" /\ op'.at = "completing" /\ op'.version = v /\ op'.round = op.round
        /\ op'.act = "aggregated"
        /\ gm[v].status = "unused" /\ gm'[v].status = "staged"
        /\ gm'[v].round = op.round /\ gm'[v].hash = op.blob
        /\ \A w \in Versions : w # v => gm'[w] = gm[w]
        /\ UNCHANGED <<round, file, log>>
    BY <1>0, <1>4, Staging DEF StageVersion, TypeOK, Op, OpRefs
  <2>2. \A w \in Versions : gm[w].status # "unused" => round[gm[w].round].status # "running"
    BY <2>1 DEF Whole
  <2>3. ASSUME NEW w \in Versions, gm'[w].status # "unused", w # v
        PROVE  /\ gm'[w] = gm[w] /\ gm[w].status # "unused"
    BY <2>1, <2>3
  <2>4. QED BY <2>1, <2>2, <2>3 DEF Whole, Published
<1>5. CASE CompleteRound
  <2>1. /\ op.at = "completing" /\ op'.at = "logging" /\ op.round \in Rounds
        /\ op'.act = op.act /\ op'.version = op.version
        /\ op.act = "aggregated"
        /\ round'[op.round].status = "aggregated"
        /\ \A r \in Rounds : r # op.round => round'[r] = round[r]
        /\ UNCHANGED <<gm, file, log>>
    BY <1>0, <1>5 DEF CompleteRound, TypeOK, Op, OpRefs, RoundRow
  <2>2. round[op.round].status = "running" /\ gm[op.version].round = op.round
    BY <1>0, <2>1 DEF UnderWay, Whole
  <2>3. ASSUME NEW v \in Versions, gm[v].status # "unused"
        PROVE  gm[v].round \in Rounds /\ round'[gm[v].round].status # "running"
    BY <1>0, <2>1, <2>2, <2>3 DEF Whole, GmRefs
  <2>4. ASSUME NEW v \in Versions, Published(v)
        PROVE  round'[gm[v].round].status = "completed"
    <3>1. gm[v].status # "unused"
      BY <2>4 DEF Published
    <3>2. round[gm[v].round].status = "completed"
      BY <2>1, <2>4, <3>1 DEF Whole
    <3>3. QED BY <2>1, <2>2, <2>3, <3>1, <3>2
  <2>5. QED BY <2>1, <2>3, <2>4 DEF Whole, Published
<1>6. ASSUME NEW v \in Versions, gm' = Promoted(v), UNCHANGED <<round, file, log>>,
             op.at = "idle", gm[v].status # "unused",
             \/ op'.at = "marking" /\ op'.act = "published" /\ op'.version = v /\ op'.round = gm[v].round
             \/ op'.at = "logging" /\ Published(v)
      PROVE  Whole'
  <2>1. \A w \in Versions : /\ gm'[w].round = gm[w].round /\ gm'[w].hash = gm[w].hash
                            /\ gm'[w].status # "unused" => gm[w].status # "unused"
                            /\ w # v => (Published(w)' <=> Published(w))
    BY <1>0, <1>6, Promotion DEF Published
  <2>2. \A w \in Versions : gm[w].status # "unused" =>
          /\ file[gm[w].round] = gm[w].hash
          /\ round[gm[w].round].status # "running"
          /\ Published(w) => round[gm[w].round].status = "completed"
          /\ <<"aggregated", w>> \in log
          /\ Published(w) => <<"published", w>> \in log
    BY <1>6 DEF Whole
  <2>3. QED BY <1>6, <2>1, <2>2 DEF Whole
<1>7. CASE MarkCompleted
  <2>1. /\ op.at = "marking" /\ op'.at = "logging" /\ op.round \in Rounds
        /\ op'.act = op.act /\ op'.version = op.version /\ op.act = "published"
        /\ round'[op.round].status = "completed"
        /\ \A r \in Rounds : r # op.round => round'[r] = round[r]
        /\ UNCHANGED <<gm, file, log>>
    BY <1>0, <1>7 DEF MarkCompleted, TypeOK, Op, OpRefs, RoundRow
  <2>2. ASSUME NEW v \in Versions, gm[v].status # "unused"
        PROVE  /\ gm[v].round \in Rounds
               /\ round'[gm[v].round].status # "running"
               /\ Published(v) => round'[gm[v].round].status = "completed"
    BY <1>0, <2>1, <2>2 DEF Whole, GmRefs
  <2>3. QED BY <2>1, <2>2 DEF Whole, Published
<1>8. CASE WriteAudit
  <2>1. /\ op.at = "logging" /\ op'.at = "idle" /\ log' = log \cup {<<op.act, op.version>>}
        /\ UNCHANGED <<round, gm, file>>
    BY <1>8 DEF WriteAudit, Idle
  <2>2. ASSUME NEW v \in Versions, gm[v].status # "unused"
        PROVE  <<"aggregated", v>> \in log' /\ (Published(v) => <<"published", v>> \in log')
    BY <2>1, <2>2 DEF Whole
  <2>3. QED BY <2>1, <2>2 DEF Whole, Published
<1>9. ~Crash
  BY <1>0 DEF Crash, TypeOK
<1>10. CASE Tick \/ UNCHANGED vars
  BY <1>10 DEF Tick, vars, Whole, Published
<1>11. ASSUME NEW r \in Rounds, NEW v \in Versions, Publish(r, v) PROVE Whole'
  <2>1. /\ gm' = Promoted(v) /\ UNCHANGED <<round, file, log>> /\ op.at = "idle"
        /\ gm[v].status # "unused"
        /\ op'.at = "marking" /\ op'.act = "published" /\ op'.version = v /\ op'.round = gm[v].round
    BY <1>11 DEF Publish, LatestStaged, Staged, Idle
  <2>2. QED BY <1>6, <2>1
<1>12. ASSUME NEW v \in Versions, Rollback(v) PROVE Whole'
  <2>1. /\ gm' = Promoted(v) /\ UNCHANGED <<round, file, log>> /\ op.at = "idle"
        /\ gm[v].status # "unused" /\ op'.at = "logging" /\ Published(v)
    BY <1>0, <1>12 DEF Rollback, MayRollback, Idle, Published, TypeOK, GmRow
  <2>2. QED BY <1>6, <2>1
<1>13. QED BY <1>1, <1>2, <1>3, <1>4, <1>5, <1>7, <1>8, <1>9, <1>10, <1>11, <1>12 DEF Next, Continue

LEMMA NInvariant ==
  ASSUME MaxCrashes = 0
  PROVE  Spec => []NInv
<1>1. Init => Whole
  BY DEF Init, Whole, Idle
<1>2. NInv /\ LInv' /\ [Next]_vars => NInv'
  BY WholeStep DEF NInv
<1>3. LInv /\ Whole => NInv
  BY DEF NInv
<1>4. QED BY <1>1, <1>2, <1>3, LInvariant, PTL DEF Spec

(* When handlers run to their ends, published bytes are the staged ones.   *)
THEOREM WholeHandlers ==
  ASSUME MaxCrashes = 0
  PROVE  Spec => []ServedAsPublished
<1>1. NInv => ServedAsPublished
  BY DEF NInv, Whole, ServedAsPublished, Published
<1>2. QED BY <1>1, NInvariant, PTL

(* Then the rounds of published versions are completed between requests,   *)
THEOREM PublishedAreCompleted ==
  ASSUME MaxCrashes = 0
  PROVE  Spec => []PublishedRoundIsCompleted
<1>1. NInv => PublishedRoundIsCompleted
  BY DEF NInv, Whole, PublishedRoundIsCompleted, Published
<1>2. QED BY <1>1, NInvariant, PTL

(* and every aggregation and publication is in the audit trail.            *)
THEOREM AuditIsComplete ==
  ASSUME MaxCrashes = 0
  PROVE  Spec => []AuditComplete
<1>1. NInv => AuditComplete
  BY DEF NInv, Whole, AuditComplete, Published
<1>2. QED BY <1>1, NInvariant, PTL

(* And then the bytes organisations are given keep the abstract promise.   *)
THEOREM BytesRefine ==
  ASSUME MaxCrashes = 0
  PROVE  Spec => BytesKeepPromise
<1>1. Init => Bytes!Init
  BY DEF Init, Bytes!Init, OnTrial, Released, ServedBytes, Active, Published
<1>2. NInv => ServedBytes = ServedHash
  <2>1. ASSUME NInv, NEW v \in Active PROVE file[gm[v].round] = gm[v].hash
    BY <2>1 DEF NInv, Whole, Active
  <2>2. QED BY <2>1 DEF ServedBytes, ServedHash
<1>3. ASSUME NInv, NInv', [Next]_vars PROVE [Bytes!Next]_(Bytes!pvars)
  <2>0. ASSUME NEW v \in Active' PROVE file'[gm'[v].round] = gm'[v].hash
    BY <1>3, <2>0 DEF NInv, Whole, Active
  <2>1. ServedBytes = ServedHash /\ ServedBytes' = ServedHash'
    BY <1>2, <1>3, <2>0 DEF ServedBytes, ServedHash
  <2>2. [Table!Next]_(Table!pvars)
    BY <1>3, TableStep DEF NInv
  <2>3. QED BY <2>1, <2>2 DEF Table!Next, Table!pvars, Table!Observe, Table!Release,
             Table!Restore, Table!Elapse, Bytes!Next, Bytes!pvars, Bytes!Observe,
             Bytes!Release, Bytes!Restore, Bytes!Elapse
<1>4. QED BY <1>1, <1>3, NInvariant, PTL DEF Spec, Bytes!Spec, BytesKeepPromise
=============================================================================
