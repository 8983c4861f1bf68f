-------------------------- MODULE CoordinatorHost --------------------------
(***************************************************************************)
(* The coordinator process around two of its parts, the audit trail and    *)
(* the federation CA: start and stop, and the handlers that use both.      *)
(*                                                                         *)
(* A handler that enrols or revokes an organisation commits its row, has   *)
(* the CRL rewritten if it revokes, logs, and answers.  The organisation   *)
(* is in one database, the log in another, the CRL and the keys in files.  *)
(* Handlers do not overlap; init_ca, a program of its own, may run         *)
(* meanwhile.  Rules on who may enrol again are those of OrgRegistry: here *)
(* an organisation enrols once.                                            *)
(***************************************************************************)
EXTENDS AuditTrail, FederationCa

CONSTANTS
  Orgs,        \* organisations
  MaxMishaps,  \* bound on the handlers that stop or cannot log
  None         \* no organisation

ASSUME HostAssumption == MaxMishaps \in Nat /\ None \notin Orgs

VARIABLES
  org,     \* the organisation's row, and what it has been given
  op,      \* the handler under way, after its first commit
  mishaps  \* handlers that stopped or could not log

hostVars == <<org, op, mishaps>>
vars == <<auditVars, caVars, hostVars>>

-----------------------------------------------------------------------------

(* By whom the certificate is signed, which CA certificate and which key   *)
(* of the coordinator came with it; the number of its revocation; the log  *)
(* entry of the latest change and whether that was answered.               *)
Org == [status : {"none", "active", "revoked"}, signer : Content, anchor : Content,
        pub : Content, revocation : Nat, entry : Nat, answered : BOOLEAN]
NoOrg == [status |-> "none", signer |-> Absent, anchor |-> Absent, pub |-> Absent,
          revocation |-> 0, entry |-> 0, answered |-> FALSE]
Op == [at : {"idle", "logging", "answering"}, org : Orgs \cup {None},
       sealed : BOOLEAN]
Idle == [at |-> "idle", org |-> None, sealed |-> FALSE]

(* All parts have their types.                                             *)
HostTypeOK ==
  /\ AuditTypeOK
  /\ CaTypeOK
  /\ org \in [Orgs -> Org]
  /\ op \in Op
  /\ mishaps \in 0..MaxMishaps

-----------------------------------------------------------------------------
(* The process, and init_ca beside it.                                     *)

Start == StartUp /\ OpenTrail /\ UNCHANGED hostVars
Read == (Load \/ LoadFails) /\ UNCHANGED <<auditVars, hostVars>>
StopIdle == op.at = "idle" /\ Stop /\ CloseTrail /\ UNCHANGED hostVars

RunInit ==
  /\ BeginInit \/ OpenFile \/ FillFile \/ InitStops \/ Archive
  /\ UNCHANGED <<auditVars, hostVars>>

Mishap == mishaps < MaxMishaps /\ mishaps' = mishaps + 1

(* It stops in a handler.                                                  *)
Crash ==
  /\ op.at # "idle"
  /\ Mishap
  /\ Stop
  /\ \/ CloseTrail
     \/ op.at = "logging" /\ at = "up" /\ CutShort
  /\ op' = Idle
  /\ UNCHANGED org

-----------------------------------------------------------------------------
(* Handlers.                                                               *)

Enrolled(o) ==
  /\ org[o].status = "none"
  /\ app.key # Absent
  /\ org' = [org EXCEPT ![o] = [NoOrg EXCEPT !.status = "active",
                                  !.signer = app.key, !.anchor = app.cert, !.pub = app.signing]]

(* POST /orgs/enroll asks for the CA, not for the signing key, which it    *)
(* needs for its answer.                                                   *)
EnrollOrg(o) ==
  /\ op.at = "idle" /\ at = "up"
  /\ Enrolled(o)
  /\ op' = [at |-> "logging", org |-> o, sealed |-> FALSE]
  /\ UNCHANGED <<auditVars, caVars, mishaps>>

(* Enrolment by token asks for both; its answer is made before it logs.    *)
EnrollWithToken(o) ==
  /\ op.at = "idle" /\ at = "up"
  /\ app.signing # Absent
  /\ Enrolled(o)
  /\ op' = [at |-> "logging", org |-> o, sealed |-> TRUE]
  /\ UNCHANGED <<auditVars, caVars, mishaps>>

RevokeOrg(o) ==
  /\ op.at = "idle"
  /\ org[o].status = "active"
  /\ Revoke
  /\ org' = [org EXCEPT ![o].status = "revoked", ![o].revocation = revoked + 1,
                        ![o].answered = FALSE, ![o].entry = 0]
  /\ op' = [at |-> "logging", org |-> o, sealed |-> TRUE]
  /\ UNCHANGED <<auditVars, mishaps>>

RegenerateCrl == (OpenCrl \/ WriteCrl \/ WriteCrlFails) /\ UNCHANGED <<auditVars, hostVars>>

WriteAudit ==
  /\ op.at = "logging" /\ at = "up"
  /\ Log
  /\ op' = [op EXCEPT !.at = "answering"]
  /\ org' = [org EXCEPT ![op.org].entry = calls + 1]
  /\ UNCHANGED <<caVars, mishaps>>

(* log() raises: 500 after the change is made.                             *)
AuditFails ==
  /\ op.at = "logging" /\ at = "up"
  /\ Mishap
  /\ InsertFails \/ CommitFails
  /\ op' = Idle
  /\ UNCHANGED <<caVars, org>>

(* Without a signing key there is a 500 instead of the package.            *)
Answer ==
  /\ op.at = "answering"
  /\ org' = [org EXCEPT ![op.org].answered = op.sealed \/ app.signing # Absent]
  /\ op' = Idle
  /\ UNCHANGED <<auditVars, caVars, mishaps>>

-----------------------------------------------------------------------------

Init ==
  /\ AuditInit
  /\ CaInit
  /\ org = [o \in Orgs |-> NoOrg]
  /\ op = Idle
  /\ mishaps = 0

Next ==
  \/ Start \/ Read \/ StopIdle \/ Crash \/ RunInit
  \/ \E o \in Orgs : EnrollOrg(o) \/ EnrollWithToken(o) \/ RevokeOrg(o)
  \/ RegenerateCrl \/ WriteAudit \/ AuditFails \/ Answer

Spec == Init /\ [][Next]_vars

-----------------------------------------------------------------------------

Recorded(o) == \E i \in 1..Len(table) : table[i].entry = org[o].entry

(* What an organisation was given belongs together: its certificate        *)
(* verifies under the CA certificate, and the coordinator's key is that of *)
(* the same CA, however init_ca was interrupted, repeated or run beside    *)
(* the coordinator.                                                        *)
PackageFits ==
  \A o \in Orgs : org[o].status # "none" =>
    /\ org[o].anchor = org[o].signer
    /\ org[o].pub \in {Absent, org[o].signer}

(* A change that is made is also logged and answered, unless the process   *)
(* stopped, the log could not be written, or the coordinator was started   *)
(* on a CA that was not done.                                              *)
CommittedIsAnswered ==
  op.at = "idle" /\ mishaps = 0 /\ sound =>
    \A o \in Orgs : org[o].status # "none" => org[o].answered /\ Recorded(o)

(* A certificate that is revoked and verifies under the CA certificate     *)
(* loaded is on the list loaded, across restarts and rotations of the CA,  *)
(* if the list could always be written and FL_CA_DIR says where.           *)
RevokedOnList ==
  at = "up" /\ sound /\ listed /\ ~elsewhere /\ app.key # Absent =>
    \A o \in Orgs :
      org[o].status = "revoked" /\ org[o].signer = app.key => org[o].revocation <= app.crl
=============================================================================
