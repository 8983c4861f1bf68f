---------------------------- MODULE RoundIntake ----------------------------
(***************************************************************************)
(* The intake side of a federated round: one-shot challenges, the signed   *)
(* contributions the organisations post, and the closing of the round by   *)
(* aggregation.                                                            *)
(*                                                                         *)
(* The coordinator is one event loop.  A handler runs to its end without   *)
(* interleaving, except submit_contribution, which suspends twice: between *)
(* the mTLS middleware and the handler body (the form is parsed there) and *)
(* at `await model.read()`, in the middle of its verification chain.  A    *)
(* request is therefore a record with a stage, and everything the database *)
(* holds can change between two of its stages.  The process can also stop  *)
(* and restart at any point (`restart: unless-stopped`), also between the  *)
(* two commits of one handler.  When the commit of a contribution's row    *)
(* fails, the row stays in the open transaction of the one connection all  *)
(* handlers share: every query finds it, the next commit saves it, and it  *)
(* is lost if the process stops before that.                               *)
(*                                                                         *)
(* Time is counted in ticks; the challenge lifetime (600 s), the tolerated *)
(* timestamp drift (300 s) and the observation window are parameters.      *)
(***************************************************************************)
EXTENDS Integers, FiniteSets

CONSTANTS
  Orgs,          \* organisations of the registry, all enrolled at the start
  Rounds,        \* round ids
  Challenges,    \* challenge tokens the server can draw
  Requests,      \* POST /rounds/{id}/contribute calls, never reused
  ChallengeTTL,  \* ttl_seconds of issue_challenge
  MaxDrift,      \* the 300 s tolerance on submitted_at
  Skew,          \* how far an organisation's clock may be off
  Window,        \* observation_hours of a round
  Horizon,       \* bound on the clock
  MaxKey,        \* an organisation has the keys 0..MaxKey
  Overlap,       \* may a client post again while an earlier post is pending?
  Null           \* no challenge, no attestation

ASSUME TimingAssumption ==
  /\ ChallengeTTL \in Nat /\ MaxDrift \in Nat /\ Skew \in Nat
  /\ Window \in Nat /\ Horizon \in Nat /\ MaxKey \in Nat
ASSUME OverlapAssumption == Overlap \in BOOLEAN
ASSUME NullAssumption ==
  /\ Null \notin Challenges
  /\ Null \notin [org : Orgs, round : Rounds, expires : Nat, consumed : BOOLEAN]
  /\ Null \notin [org : Orgs, round : Rounds, key : Nat, at : Int]

VARIABLES
  now,     \* time.time() of the server
  org,     \* orgs table: is the status 'active', and which key
  round,   \* rounds table, with the rows the aggregation took
  chal,    \* challenges table
  att,     \* signed attestations, indexed by the challenge they quote
  req,     \* contribution requests; the finished ones are the contributions table
  unsaved  \* rows of contributions in the open transaction

vars == <<now, org, round, chal, att, req, unsaved>>

-----------------------------------------------------------------------------
(* Types.                                                                  *)

OrgRow   == [active : BOOLEAN, key : Nat]
RoundRow == [status : {"none", "running", "aggregated"}, startedAt : Nat,
             responded : SUBSET Requests]
ChalRow  == [org : Orgs, round : Rounds, expires : Nat, consumed : BOOLEAN]
Attest   == [org : Orgs, round : Rounds, key : Nat, at : Int]
Pending  == {"authenticated", "reading"}
Recorded == {"accepted", "rejected"}
ReqRow   == [stage : {"unsent", "refused"} \cup Pending \cup Recorded,
             chal : Challenges \cup {Null}, at : Nat]

InFlight == {q \in Requests : req[q].stage \in Pending}
Rows     == {q \in Requests : req[q].stage \in Recorded}
Accepted == {q \in Requests : req[q].stage = "accepted"}

(* All tables hold rows of their declared columns.                         *)
TypeOK ==
  /\ now \in Nat
  /\ org \in [Orgs -> OrgRow]
  /\ round \in [Rounds -> RoundRow]
  /\ chal \in [Challenges -> ChalRow \cup {Null}]
  /\ att \in [Challenges -> Attest \cup {Null}]
  /\ req \in [Requests -> ReqRow]
  /\ unsaved \subseteq Rows

-----------------------------------------------------------------------------
(* What a request refers to: the attestation names the organisation (the   *)
(* handler refuses any other than the authenticated one) and the round.    *)

ReqOrg(q)   == att[req[q].chal].org
ReqRound(q) == att[req[q].chal].round

(* The rows get_accepted_models returns for round r.                       *)
AcceptedFor(r) == {q \in Accepted : ReqRound(q) = r}

(* has_accepted_contribution(round_id, org_id).                            *)
AlreadyAcceptedSameChallenge(o, r) ==
  \E q \in Accepted : ReqOrg(q) = o /\ ReqRound(q) = r /\ ~chal[req[q].chal].consumed
AlreadyAccepted(o, r) ==
  \E q \in Accepted : ReqOrg(q) = o /\ ReqRound(q) = r

(* The WHERE clause of the single UPDATE in consume_challenge.             *)
UsableTwice(c, o, r) ==
  chal[c].org = o /\ chal[c].round = r /\ chal[c].expires > now
UsableInAnyRound(c, o, r) ==
  chal[c].org = o /\ ~chal[c].consumed /\ chal[c].expires > now
UsableByAnyOrg(c, o, r) ==
  chal[c].round = r /\ ~chal[c].consumed /\ chal[c].expires > now
Usable(c, o, r) ==
  /\ chal[c].org = o
  /\ chal[c].round = r
  /\ ~chal[c].consumed
  /\ chal[c].expires > now

(* The freshness check: submitted_at within MaxDrift of the server clock,  *)
(* taken after the body was read.                                          *)
FreshOneSided(c) == now - att[c].at <= MaxDrift
Fresh(c) ==
  /\ now - att[c].at <= MaxDrift
  /\ att[c].at - now <= MaxDrift

(* get_org_public_key(org_id) finds a key: only that of an active org.     *)
HasKeyOfAnyStatus(o) == org[o].key \in Nat
HasKey(o) == org[o].active

(* att_verify with the registered key.                                     *)
VerifiesWithOldKey(c, o) == att[c].key <= org[o].key
Verifies(c, o) == att[c].key = org[o].key

-----------------------------------------------------------------------------
(* The organisations: what the operator and the registry do to them.       *)

(* Block, revoke or leave-request: the organisation is no longer active.   *)
(* Whatever is committed here saves the rows of the open transaction too.  *)
Suspend(o) ==
  /\ org[o].active
  /\ org' = [org EXCEPT ![o].active = FALSE]
  /\ unsaved' = {}
  /\ UNCHANGED <<now, round, chal, att, req>>

(* unblock_org makes the organisation active again, with the same key.     *)
Reinstate(o) ==
  /\ ~org[o].active
  /\ org' = [org EXCEPT ![o].active = TRUE]
  /\ unsaved' = {}
  /\ UNCHANGED <<now, round, chal, att, req>>

(* A revoked organisation enrols again, under the key it brings: another   *)
(* one, or one it had before.                                              *)
ReEnrollWithoutKey(o) ==
  /\ ~org[o].active
  /\ org' = [org EXCEPT ![o] = [active |-> TRUE, key |-> Null]]
  /\ unsaved' = {}
  /\ UNCHANGED <<now, round, chal, att, req>>
ReEnroll(o) ==
  /\ ~org[o].active
  /\ \E k \in 0..MaxKey : org' = [org EXCEPT ![o] = [active |-> TRUE, key |-> k]]
  /\ unsaved' = {}
  /\ UNCHANGED <<now, round, chal, att, req>>

-----------------------------------------------------------------------------
(* Rounds.                                                                 *)

(* start_round, for all or for some organisations.  Only active ones count *)
(* towards min_clients, which is at least 1.  Whom the round was for is    *)
(* not recorded here: nothing on the way of a contribution looks at it.    *)
StartRound(r) ==
  /\ round[r].status = "none"
  /\ \E o \in Orgs : org[o].active
  /\ round' = [round EXCEPT ![r] = [status |-> "running", startedAt |-> now,
                                    responded |-> {}]]
  /\ unsaved' = {}
  /\ UNCHANGED <<now, org, chal, att, req>>

(* aggregate_round, when the trust validation leaves a survivor: the round *)
(* stops running and its row counts the contributions taken.  When none    *)
(* survives nothing of this module changes.                                *)
Aggregate(r) ==
  /\ round[r].status = "running"
  /\ now >= round[r].startedAt + Window
  /\ AcceptedFor(r) # {}
  /\ round' = [round EXCEPT ![r].status = "aggregated",
                            ![r].responded = AcceptedFor(r)]
  /\ unsaved' = {}
  /\ UNCHANGED <<now, org, chal, att, req>>

-----------------------------------------------------------------------------
(* An organisation's client.                                               *)

(* GET /rounds/{id}/challenge, for an authenticated organisation.          *)
IssueChallenge(o, r, c) ==
  /\ chal[c] = Null
  /\ org[o].active
  /\ round[r].status = "running"
  /\ chal' = [chal EXCEPT ![c] = [org |-> o, round |-> r,
                                  expires |-> now + ChallengeTTL, consumed |-> FALSE]]
  /\ unsaved' = {}
  /\ UNCHANGED <<now, org, round, att, req>>

(* build_signed_contribution: the client signs once per challenge, with    *)
(* the key it holds now and the time its own clock shows.  A client is     *)
(* free to quote the challenge for another round than it was drawn for, or *)
(* one that was drawn by another organisation.                             *)
SignContribution(o, c, r, at) ==
  /\ chal[c] # Null
  /\ att[c] = Null
  /\ att' = [att EXCEPT ![c] = [org |-> o, round |-> r, key |-> org[o].key, at |-> at]]
  /\ UNCHANGED <<now, org, round, chal, req, unsaved>>

(* The signed contribution reaches the server, perhaps not for the first   *)
(* time, and the mTLS middleware finds the organisation active.  A client  *)
(* that waits for its answer has no other request pending.                 *)
Post(q, c) ==
  /\ req[q].stage = "unsent"
  /\ att[c] # Null
  /\ org[att[c].org].active
  /\ Overlap \/ \A p \in InFlight : ReqOrg(p) # att[c].org
  /\ req' = [req EXCEPT ![q] = [stage |-> "authenticated", chal |-> c, at |-> 0]]
  /\ UNCHANGED <<now, org, round, chal, att, unsaved>>

-----------------------------------------------------------------------------
(* submit_contribution.                                                    *)

AdmissibleAlways(o, r) == ~AlreadyAccepted(o, r)
Admissible(o, r) == round[r].status = "running" /\ ~AlreadyAccepted(o, r)

(* From the handler's entry to `await model.read()`.                       *)
BeginContribution(q) ==
  /\ req[q].stage = "authenticated"
  /\ req' = [req EXCEPT ![q].stage =
               IF Admissible(ReqOrg(q), ReqRound(q)) THEN "reading" ELSE "refused"]
  /\ UNCHANGED <<now, org, round, chal, att, unsaved>>

(* After the read: the bytes are too long or do not have the attested      *)
(* hash, the timestamp has drifted, or the challenge is not usable.  Only  *)
(* the last is found out by a commit.                                      *)
RefuseContribution(q) ==
  /\ req[q].stage = "reading"
  /\ req' = [req EXCEPT ![q].stage = "refused"]
  /\ unsaved' \in {unsaved, {}}
  /\ UNCHANGED <<now, org, round, chal, att>>

(* The challenge is consumed; then the key decides what is recorded.  That *)
(* last commit may fail: the call ends in 500, and its row is unsaved.     *)
FinishContribution(q) ==
  LET c == req[q].chal
      o == ReqOrg(q)
      outcome == IF ~HasKey(o) THEN "refused"
                 ELSE IF Verifies(c, o) THEN "accepted" ELSE "rejected"
  IN /\ req[q].stage = "reading"
     /\ Fresh(c)
     /\ Usable(c, o, ReqRound(q))
     /\ chal' = [chal EXCEPT ![c].consumed = TRUE]
     /\ req' = [req EXCEPT ![q].stage = outcome, ![q].at = now]
     /\ unsaved' \in {{}, IF outcome \in Recorded THEN {q} ELSE {}}
     /\ UNCHANGED <<now, org, round, att>>

(* The challenge is consumed and a later step fails: the signature is not  *)
(* hex, the model file cannot be written, or the INSERT raises.  Nothing   *)
(* is recorded, and the challenge is gone.                                 *)
BurnChallenge(q) ==
  LET c == req[q].chal
  IN /\ req[q].stage = "reading"
     /\ Fresh(c)
     /\ Usable(c, ReqOrg(q), ReqRound(q))
     /\ chal' = [chal EXCEPT ![c].consumed = TRUE]
     /\ req' = [req EXCEPT ![q].stage = "refused"]
     /\ unsaved' = {}
     /\ UNCHANGED <<now, org, round, att>>

(* A handler that is not modelled commits.                                 *)
CommitElsewhere ==
  /\ unsaved # {}
  /\ unsaved' = {}
  /\ UNCHANGED <<now, org, round, chal, att, req>>

Lost(Q) ==
  req' = [q \in Requests |-> IF q \in Q THEN [req[q] EXCEPT !.stage = "refused"] ELSE req[q]]

(* The process stops and restarts.  Every pending request is lost, and     *)
(* every unsaved row; or one of the requests has just committed the use of *)
(* its challenge, which saved them.                                        *)
Crash ==
  /\ InFlight \cup unsaved # {}
  /\ \/ Lost(InFlight \cup unsaved) /\ UNCHANGED chal
     \/ \E q \in InFlight :
          /\ Lost(InFlight)
          /\ req[q].stage = "reading"
          /\ Fresh(req[q].chal)
          /\ Usable(req[q].chal, ReqOrg(q), ReqRound(q))
          /\ chal' = [chal EXCEPT ![req[q].chal].consumed = TRUE]
  /\ unsaved' = {}
  /\ UNCHANGED <<now, org, round, att>>

Tick ==
  /\ now < Horizon
  /\ now' = now + 1
  /\ UNCHANGED <<org, round, chal, att, req, unsaved>>

-----------------------------------------------------------------------------

Init ==
  /\ now = 0
  /\ org = [o \in Orgs |-> [active |-> TRUE, key |-> 0]]
  /\ round = [r \in Rounds |-> [status |-> "none", startedAt |-> 0,
                                responded |-> {}]]
  /\ chal = [c \in Challenges |-> Null]
  /\ att = [c \in Challenges |-> Null]
  /\ req = [q \in Requests |-> [stage |-> "unsent", chal |-> Null, at |-> 0]]
  /\ unsaved = {}

Next ==
  \/ \E o \in Orgs : Suspend(o) \/ Reinstate(o) \/ ReEnroll(o)
  \/ \E r \in Rounds : StartRound(r) \/ Aggregate(r)
  \/ \E o \in Orgs, r \in Rounds, c \in Challenges : IssueChallenge(o, r, c)
  \/ \E o \in Orgs, c \in Challenges, r \in Rounds, at \in (now - Skew)..(now + Skew) :
       SignContribution(o, c, r, at)
  \/ \E q \in Requests, c \in Challenges : Post(q, c)
  \/ \E q \in Requests :
       \/ BeginContribution(q) \/ RefuseContribution(q)
       \/ FinishContribution(q) \/ BurnChallenge(q)
  \/ CommitElsewhere \/ Crash
  \/ Tick

Spec == Init /\ [][Next]_vars

-----------------------------------------------------------------------------
(* What intake guarantees.                                                 *)

(* Replay safety: however a signed contribution is posted again, whatever  *)
(* overlaps, fails or restarts, a challenge stands behind at most one row. *)
ChallengeSingleUse ==
  \A p, q \in Rows : req[p].chal = req[q].chal => p = q

(* Every row rests on a challenge that was drawn by the organisation and   *)
(* for the very round the signed attestation names, was spent on it, and   *)
(* had not run out.                                                        *)
RowsBackedByChallenge ==
  \A q \in Rows :
    LET c == chal[req[q].chal]
    IN /\ c.consumed /\ req[q].at < c.expires
       /\ c.org = ReqOrg(q) /\ c.round = ReqRound(q)

(* An accepted contribution was signed within the tolerated drift of the   *)
(* moment it was recorded, however long the upload waited for its read.    *)
AcceptedFresh ==
  \A q \in Accepted :
    LET signed == att[req[q].chal].at
    IN signed - MaxDrift <= req[q].at /\ req[q].at <= signed + MaxDrift

(* At most one accepted contribution per (org, round): true of clients     *)
(* that never post while an earlier post of theirs is still being handled. *)
OneAcceptedPerOrgRound ==
  \A p, q \in Accepted :
    ReqOrg(p) = ReqOrg(q) /\ ReqRound(p) = ReqRound(q) => p = q

(* A contribution is accepted only in a step at which its organisation is  *)
(* active and still holds the key that signed it: suspension and key       *)
(* rotation take effect even on an upload already being read.              *)
AcceptedUnderCurrentKey ==
  [][\A q \in Requests :
       req'[q].stage = "accepted" /\ req[q].stage # "accepted" =>
         LET o == ReqOrg(q)
         IN org[o].active /\ att[req[q].chal].key = org[o].key]_vars

(* The reads outstanding when a round closes are the only way its accepted *)
(* set can still grow, and rows that are not saved the only way it can     *)
(* shrink: once an aggregated round has neither, the set is final.         *)
Drained(r) ==
  /\ round[r].status = "aggregated"
  /\ \A q \in Requests : req[q].stage = "reading" \/ q \in unsaved => ReqRound(q) # r
DrainedRoundIsFinal ==
  [][\A r \in Rounds :
       Drained(r) => Drained(r)' /\ AcceptedFor(r)' = AcceptedFor(r)]_vars

-----------------------------------------------------------------------------
(* What the documentation says and an interleaving refutes.                *)

(* A contribution accepted for an aggregated round was aggregated.         *)
AcceptedIsAggregated ==
  \A r \in Rounds : round[r].status = "aggregated" => AcceptedFor(r) \subseteq round[r].responded
=============================================================================
