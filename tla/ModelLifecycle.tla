--------------------------- MODULE ModelLifecycle ---------------------------
(***************************************************************************)
(* From aggregation to publication: a round's merged model is written to   *)
(* round_{id}.json, recorded as a staged version, published after its soak *)
(* window, archived by the next publication, and possibly rolled back to.  *)
(*                                                                         *)
(* aggregate_round, publish_round_model and rollback_global_model run on   *)
(* one event loop and never suspend, so no other handler runs between two  *)
(* of their steps; but each makes several commits (a file, two tables, the *)
(* audit database) and the process can stop between any two of them.  `op` *)
(* is the handler under way: a restart forgets it and nothing else.        *)
(*                                                                         *)
(* What is merged depends on the contributions and on the trust scores at  *)
(* that moment; here it is any member of Blobs, and a hash is its content. *)
(***************************************************************************)
EXTENDS Integers

CONSTANTS
  Rounds,       \* round ids
  Blobs,        \* contents a merged model can have
  MaxVersions,  \* bound on the version ids
  Window,       \* observation_hours: intake of the round, then soak of its model
  Horizon,      \* bound on the clock
  MaxCrashes,   \* bound on the times the process stops inside a handler
  Torn,         \* content of a file whose writing was cut short
  None          \* no file, no model

ASSUME BoundsAssumption ==
  /\ MaxVersions \in Nat /\ Window \in Nat /\ Horizon \in Nat /\ MaxCrashes \in Nat
ASSUME ContentAssumption ==
  None \notin Blobs /\ Torn \notin Blobs

Versions == 1..MaxVersions

VARIABLES
  now,      \* time.time()
  round,    \* rounds table: status and started_at
  gm,       \* global_models table; status "unused" for an id not yet given
  file,     \* round_{id}.json of each round
  log,      \* audit trail, its own database
  op,       \* the handler under way and what it has in hand
  crashes   \* how often the process has stopped inside a handler

vars == <<now, round, gm, file, log, op, crashes>>

-----------------------------------------------------------------------------
(* Types.                                                                  *)

Acts     == {"aggregated", "published", "rolled_back"}
RoundRow == [status : {"none", "running", "aggregated", "completed"}, since : Nat]
GmRow    == [round : Rounds \cup {None}, status : {"unused", "staged", "active", "archived"},
             hash : Blobs \cup {None}, until : Nat]
Op       == [at : {"idle", "writing", "staging", "completing", "marking", "logging"},
             act : Acts \cup {None}, round : Rounds \cup {None},
             blob : Blobs \cup {None}, version : Versions \cup {None}]
Idle     == [at |-> "idle", act |-> None, round |-> None, blob |-> None, version |-> None]

(* All tables hold rows of their declared columns.                         *)
TypeOK ==
  /\ now \in Nat
  /\ round \in [Rounds -> RoundRow]
  /\ gm \in [Versions -> GmRow]
  /\ file \in [Rounds -> Blobs \cup {Torn, None}]
  /\ log \subseteq Acts \X Versions
  /\ op \in Op
  /\ crashes \in 0..MaxCrashes

-----------------------------------------------------------------------------
(* Queries.                                                                *)

Staged(r)    == {v \in Versions : gm[v].round = r /\ gm[v].status = "staged"}
Active       == {v \in Versions : gm[v].status = "active"}
Published(v) == gm[v].status \in {"active", "archived"}

(* get_staged_model_for_round: the youngest staged version of the round.   *)
LatestStaged(r, v) == v \in Staged(r) /\ \A w \in Staged(r) : w <= v

(* The id AUTOINCREMENT gives next.                                        *)
NextVersion(v) ==
  gm[v].status = "unused" /\ \A w \in Versions : w < v => gm[w].status # "unused"

(* The table after promote_global_model(v): one commit archives the active *)
(* version and activates v.                                                *)
PromotedBeside(v) == [gm EXCEPT ![v].status = "active"]
Promoted(v) ==
  [w \in Versions |->
     IF w = v THEN [gm[w] EXCEPT !.status = "active"]
     ELSE IF gm[w].status = "active" THEN [gm[w] EXCEPT !.status = "archived"]
     ELSE gm[w]]

WindowElapsedAtOnce(r) == TRUE
WindowElapsed(r) == round[r].since + Window <= now

SoakElapsedEarly(v) == gm[v].until <= now + 1
SoakElapsed(v) == gm[v].until <= now

-----------------------------------------------------------------------------
StartRound(r) ==
  /\ op.at = "idle"
  /\ round[r].status = "none"
  /\ round' = [round EXCEPT ![r] = [status |-> "running", since |-> now]]
  /\ UNCHANGED <<now, gm, file, log, op, crashes>>

-----------------------------------------------------------------------------
(* aggregate_round, once at least one contribution survived validation.    *)

MayAggregateAgain(r) == round[r].status # "none" /\ WindowElapsed(r)
MayAggregate(r) == round[r].status = "running" /\ WindowElapsed(r)

(* The checks pass and the survivors merge into b.                         *)
BeginAggregate(r, b) ==
  /\ op.at = "idle"
  /\ MayAggregate(r)
  /\ op' = [Idle EXCEPT !.at = "writing", !.act = "aggregated", !.round = r, !.blob = b]
  /\ UNCHANGED <<now, round, gm, file, log, crashes>>

(* write_bytes replaces whatever an earlier, interrupted aggregation of    *)
(* the round left under the same name.                                     *)
WriteModel ==
  /\ op.at = "writing"
  /\ file' = [file EXCEPT ![op.round] = op.blob]
  /\ op' = [op EXCEPT !.at = "staging"]
  /\ UNCHANGED <<now, round, gm, log, crashes>>

(* stage_global_model.                                                     *)
StageSwapped(v) ==
  /\ op.at = "staging"
  /\ NextVersion(v)
  /\ gm' = [gm EXCEPT ![v] = [round |-> op.blob, status |-> "staged",
                              hash |-> op.round, until |-> now + Window]]
  /\ op' = [op EXCEPT !.at = "completing", !.version = v]
  /\ UNCHANGED <<now, round, file, log, crashes>>
StageVersion(v) ==
  /\ op.at = "staging"
  /\ NextVersion(v)
  /\ gm' = [gm EXCEPT ![v] = [round |-> op.round, status |-> "staged",
                              hash |-> op.blob, until |-> now + Window]]
  /\ op' = [op EXCEPT !.at = "completing", !.version = v]
  /\ UNCHANGED <<now, round, file, log, crashes>>

(* complete_round(status="aggregated").                                    *)
CompleteRoundAtOnce ==
  /\ op.at = "completing"
  /\ round' = [round EXCEPT ![op.round].status = "completed"]
  /\ op' = [op EXCEPT !.at = "logging"]
  /\ UNCHANGED <<now, gm, file, log, crashes>>
CompleteRound ==
  /\ op.at = "completing"
  /\ round' = [round EXCEPT ![op.round].status = "aggregated"]
  /\ op' = [op EXCEPT !.at = "logging"]
  /\ UNCHANGED <<now, gm, file, log, crashes>>

-----------------------------------------------------------------------------
(* publish_round_model: the round's own status is not among its checks.    *)

Publish(r, v) ==
  /\ op.at = "idle"
  /\ round[r].status # "none"
  /\ LatestStaged(r, v)
  /\ SoakElapsed(v)
  /\ gm' = Promoted(v)
  /\ op' = [Idle EXCEPT !.at = "marking", !.act = "published", !.round = r, !.version = v]
  /\ UNCHANGED <<now, round, file, log, crashes>>

(* set_round_status("completed").                                          *)
ForgetCompleted ==
  /\ op.at = "marking"
  /\ op' = [op EXCEPT !.at = "logging"]
  /\ UNCHANGED <<now, round, gm, file, log, crashes>>
MarkCompleted ==
  /\ op.at = "marking"
  /\ round' = [round EXCEPT ![op.round].status = "completed"]
  /\ op' = [op EXCEPT !.at = "logging"]
  /\ UNCHANGED <<now, gm, file, log, crashes>>

-----------------------------------------------------------------------------
(* rollback_global_model refuses a version that is still staged.           *)

MayRollbackAnything(v) == gm[v].status # "unused"
MayRollback(v) == gm[v].status \notin {"unused", "staged"}

Rollback(v) ==
  /\ op.at = "idle"
  /\ MayRollback(v)
  /\ gm' = Promoted(v)
  /\ op' = [Idle EXCEPT !.at = "logging", !.act = "rolled_back", !.version = v]
  /\ UNCHANGED <<now, round, file, log, crashes>>

-----------------------------------------------------------------------------
(* The last commit of the three handlers, in the audit database.           *)
WriteRollbackAudit ==
  /\ op.at = "logging"
  /\ log' = IF op.act = "rolled_back" THEN log \cup {<<op.act, op.version>>} ELSE log
  /\ op' = Idle
  /\ UNCHANGED <<now, round, gm, file, crashes>>
WriteAudit ==
  /\ op.at = "logging"
  /\ log' = log \cup {<<op.act, op.version>>}
  /\ op' = Idle
  /\ UNCHANGED <<now, round, gm, file, crashes>>

(* The process stops inside a handler and is restarted; a write that was   *)
(* under way may have truncated the file.                                  *)
Crash ==
  /\ op.at # "idle"
  /\ crashes < MaxCrashes
  /\ crashes' = crashes + 1
  /\ op' = Idle
  /\ \/ UNCHANGED file
     \/ op.at = "writing" /\ file' = [file EXCEPT ![op.round] = Torn]
  /\ UNCHANGED <<now, round, gm, log>>

Tick ==
  /\ now < Horizon
  /\ now' = now + 1
  /\ UNCHANGED <<round, gm, file, log, op, crashes>>

-----------------------------------------------------------------------------

Init ==
  /\ now = 0
  /\ round = [r \in Rounds |-> [status |-> "none", since |-> 0]]
  /\ gm = [v \in Versions |-> [round |-> None, status |-> "unused", hash |-> None, until |-> 0]]
  /\ file = [r \in Rounds |-> None]
  /\ log = {}
  /\ op = Idle
  /\ crashes = 0

(* The rest of a handler that has begun.                                   *)
Continue ==
  \/ WriteModel \/ CompleteRound \/ MarkCompleted \/ WriteAudit
  \/ \E v \in Versions : StageVersion(v)

Next ==
  \/ \E r \in Rounds : StartRound(r)
  \/ \E r \in Rounds, b \in Blobs : BeginAggregate(r, b)
  \/ \E r \in Rounds, v \in Versions : Publish(r, v)
  \/ \E v \in Versions : Rollback(v)
  \/ Continue
  \/ Crash
  \/ Tick

Spec == Init /\ [][Next]_vars

(* A handler that has begun is driven on by the event loop, time passes,   *)
(* and the operator publishes what has soaked: a publish request that      *)
(* arrives during another handler waits for the loop and is not lost to    *)
(* it, hence strong fairness.  Nothing obliges anyone to start, aggregate  *)
(* or roll back.                                                           *)
FairSpec ==
  /\ Spec
  /\ WF_vars(Continue)
  /\ WF_vars(Tick)
  /\ \A r \in Rounds : SF_vars(\E v \in Versions : Publish(r, v))

-----------------------------------------------------------------------------
(* What holds whatever is interrupted.                                     *)

(* At most one version is active: the two UPDATEs of a promotion are one   *)
(* commit, so no crash leaves two or lets readers see two.                 *)
OneActive == \A v, w \in Active : v = w

(* No model was published before its round had gone through both windows,  *)
(* intake and then soak, by whichever of publish and rollback it came.     *)
PublishedAfterBothWindows ==
  \A v \in Versions :
    Published(v) => round[gm[v].round].since + 2 * Window <= now

(* A completed round has a published version.                              *)
CompletedIsPublished ==
  \A r \in Rounds : round[r].status = "completed" =>
    \E v \in Versions : gm[v].round = r /\ Published(v)

(* A completed round is never aggregated again, and the file its own       *)
(* endpoint serves from then on does not change any more.                  *)
CompletedIsFinal ==
  [][\A r \in Rounds : round[r].status = "completed" =>
       round'[r] = round[r] /\ file'[r] = file[r]]_vars

-----------------------------------------------------------------------------
(* What holds as long as no handler is cut short.                          *)

(* The bytes served for a published version are those that were staged.    *)
ServedAsPublished ==
  \A v \in Versions : Published(v) => file[gm[v].round] = gm[v].hash

(* Between requests, the round of a published version is completed.        *)
PublishedRoundIsCompleted ==
  op.at = "idle" =>
    \A v \in Versions : Published(v) => round[gm[v].round].status = "completed"

(* Between requests, every version has its aggregation in the audit trail, *)
(* and every published one its publication.                                *)
AuditComplete ==
  op.at = "idle" =>
    \A v \in Versions :
      /\ gm[v].status # "unused" => <<"aggregated", v>> \in log
      /\ Published(v) => <<"published", v>> \in log

(* A round that was aggregated, its soak ending within the clock's bound,  *)
(* is completed in the end.                                                *)
AggregatedCompletes ==
  \A r \in Rounds :
    /\ round[r].status = "aggregated"
    /\ \E v \in Versions : gm[v].round = r /\ gm[v].until <= Horizon
    ~> round[r].status = "completed"

-----------------------------------------------------------------------------
(* The abstract promise, told of the version table and of the bytes.       *)

OnTrial     == {[model |-> gm[v].hash, until |-> gm[v].until] :
                  v \in {w \in Versions : gm[w].status = "staged"}}
Released    == {gm[v].hash : v \in {w \in Versions : Published(w)}}
ServedHash  == {gm[v].hash : v \in Active}
ServedBytes == {file[gm[v].round] : v \in Active}

Table == INSTANCE PublishedModel WITH
  Models <- Blobs, Soak <- Window,
  trial <- OnTrial, released <- Released, served <- ServedHash
Bytes == INSTANCE PublishedModel WITH
  Models <- Blobs, Soak <- Window,
  trial <- OnTrial, released <- Released, served <- ServedBytes

(* The active version changes only by releasing a version that soaked or   *)
(* by going back to a released one, whatever crashes.                      *)
TableKeepsPromise == Table!Spec

(* The bytes GET /global-model signs and serves change only so, as long as *)
(* no handler is cut short.                                                *)
BytesKeepPromise == Bytes!Spec
=============================================================================
