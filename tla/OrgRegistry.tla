---------------------------- MODULE OrgRegistry ----------------------------
(***************************************************************************)
(* The registry of organisations: enrolment by the operator or by token,   *)
(* blocking, revocation with its list of revoked certificates (CRL), and   *)
(* the removal that organisation and operator acknowledge mutually.        *)
(*                                                                         *)
(* A handler does not suspend, except that the leave request is parsed     *)
(* after the mTLS middleware has identified its sender: what the           *)
(* middleware saw may be out of date when the handler runs.  Handlers with *)
(* several commits are split at the commits, where the process can stop;   *)
(* `op` is the handler under way.  The CRL is kept in memory and in a file *)
(* that is read at start; a file that cannot be read counts as empty.      *)
(* Start-up reads it from FL_CA_DIR or else the data directory, while      *)
(* _regenerate_crl writes it to FL_CA_DIR or else data/ca: another file    *)
(* when FL_CA_DIR is not set.  The CA and the coordinator's keys are       *)
(* loaded.                                                                 *)
(***************************************************************************)
EXTENDS Integers, FiniteSets

CONSTANTS
  Orgs,       \* org ids
  Keys,       \* public keys organisations register, perhaps again
  Serials,    \* serial numbers of the client certificates the CA issues
  Tokens,     \* jti of enrolment tokens
  TokenTTL,   \* lifetime of a token
  Horizon,    \* bound on the clock
  MaxFaults,  \* bound on the interrupted handlers and failed CRL writes
  None        \* no token, no certificate, no organisation, no key

ASSUME BoundsAssumption ==
  TokenTTL \in Nat /\ Horizon \in Nat /\ MaxFaults \in Nat
ASSUME NoneAssumption ==
  /\ None \notin Orgs /\ None \notin Keys /\ None \notin Serials /\ None \notin Tokens
  /\ None \notin [org : Orgs, key : Keys, token : Tokens \cup {None}]
  /\ None \notin [org : Orgs, expires : Nat, used : BOOLEAN]

VARIABLES
  now,      \* time.time()
  row,      \* orgs table; status "none" where there is no row
  token,    \* enrollment_tokens table
  cert,     \* certificates issued for an enrolment, by serial number
  crl,      \* app.state.fl_crl, the serials on it
  disk,     \* the serials in the CRL file that start-up reads
  elsewhere,\* FL_CA_DIR is not set: the CRL is rewritten in another file
  leaving,  \* leave requests past the middleware, by the certificate shown
  op,       \* the handler under way
  agreed,   \* history: organisations whose revocation is an approved removal
  damaged,  \* history: the CRL was last to be rewritten in vain
  faults    \* how many handlers were interrupted or failed to write the CRL

vars == <<now, row, token, cert, crl, disk, elsewhere, leaving, op, agreed, damaged, faults>>

-----------------------------------------------------------------------------
(* Types.                                                                  *)

Status   == {"active", "blocked", "leave_pending", "revoked"}
OrgRow   == [status : Status \cup {"none"}, key : Keys \cup {None},
             serial : Serials \cup {None}, leave : Keys \cup {None}, confirm : BOOLEAN]
NoRow    == [status |-> "none", key |-> None, serial |-> None, leave |-> None,
             confirm |-> FALSE]
TokenRow == [org : Orgs, expires : Nat, used : BOOLEAN]
Cert     == [org : Orgs, key : Keys, token : Tokens \cup {None}]
Op       == [at : {"idle", "enrolling", "confirming", "regenerating"},
             org : Orgs \cup {None}, key : Keys \cup {None}, token : Tokens \cup {None}]
Idle     == [at |-> "idle", org |-> None, key |-> None, token |-> None]

(* All tables hold rows of their declared columns.                         *)
TypeOK ==
  /\ now \in Nat
  /\ row \in [Orgs -> OrgRow]
  /\ token \in [Tokens -> TokenRow \cup {None}]
  /\ cert \in [Serials -> Cert \cup {None}]
  /\ crl \subseteq Serials
  /\ disk \subseteq Serials
  /\ elsewhere \in BOOLEAN
  /\ leaving \subseteq Serials
  /\ op \in Op
  /\ agreed \subseteq Orgs
  /\ damaged \in BOOLEAN
  /\ faults \in 0..MaxFaults

-----------------------------------------------------------------------------
(* Queries.                                                                *)

(* enroll_org refuses an id that has a row, unless the row is revoked.     *)
EnrollableUnlessBlocked(o) == row[o].status # "blocked"
Enrollable(o) == row[o].status \in {"none", "revoked"}

(* The row INSERT OR REPLACE writes: columns it does not name become NULL. *)
EnrolledSwapped(o, k, s) ==
  [row EXCEPT ![o] = [status |-> "active", key |-> s, serial |-> k, leave |-> None,
                      confirm |-> FALSE]]
KeptRemoval(o, k, s) ==
  [row EXCEPT ![o].status = "active", ![o].key = k, ![o].serial = s]
Enrolled(o, k, s) ==
  [row EXCEPT ![o] = [status |-> "active", key |-> k, serial |-> s, leave |-> None,
                      confirm |-> FALSE]]

(* list_revoked_serials.                                                   *)
RevokedSerials == {row[o].serial : o \in {p \in Orgs : row[p].status = "revoked"}}

(* The WHERE clause of the single UPDATE in consume_enroll_token.          *)
RedeemableAgain(t) == token[t] # None /\ token[t].expires > now
Redeemable(t) == token[t] # None /\ ~token[t].used /\ token[t].expires > now

-----------------------------------------------------------------------------
(* Enrolment.                                                              *)

(* POST /orgs/enroll.                                                      *)
EnrollOrg(o, k, s) ==
  /\ op.at = "idle"
  /\ cert[s] = None
  /\ Enrollable(o)
  /\ cert' = [cert EXCEPT ![s] = [org |-> o, key |-> k, token |-> None]]
  /\ row' = Enrolled(o, k, s)
  /\ agreed' = agreed \ {o}
  /\ UNCHANGED <<now, token, crl, disk, elsewhere, leaving, op, damaged, faults>>

MintEnrollToken(o, t) ==
  /\ op.at = "idle"
  /\ token[t] = None
  /\ Enrollable(o)
  /\ token' = [token EXCEPT ![t] = [org |-> o, expires |-> now + TokenTTL, used |-> FALSE]]
  /\ UNCHANGED <<now, row, cert, crl, disk, elsewhere, leaving, op, agreed, damaged, faults>>

(* enroll_with_token up to its first commit: token and proof of possession *)
(* of k are in order and the token is spent.                               *)
RedeemToken(t, k) ==
  /\ op.at = "idle"
  /\ Redeemable(t)
  /\ token' = [token EXCEPT ![t].used = TRUE]
  /\ op' = [at |-> "enrolling", org |-> token[t].org, key |-> k, token |-> t]
  /\ UNCHANGED <<now, row, cert, crl, disk, elsewhere, leaving, agreed, damaged, faults>>

(* Its second commit, under a certificate issued in between.               *)
EnrollRedeemed(s) ==
  /\ op.at = "enrolling"
  /\ cert[s] = None
  /\ Enrollable(op.org)
  /\ cert' = [cert EXCEPT ![s] = [org |-> op.org, key |-> op.key, token |-> op.token]]
  /\ row' = Enrolled(op.org, op.key, s)
  /\ agreed' = agreed \ {op.org}
  /\ op' = Idle
  /\ UNCHANGED <<now, token, crl, disk, elsewhere, leaving, damaged, faults>>

(* The organisation was enrolled after the token was minted: 409, and the  *)
(* certificate goes nowhere.                                               *)
RefuseRedeemed ==
  /\ op.at = "enrolling"
  /\ ~Enrollable(op.org)
  /\ op' = Idle
  /\ UNCHANGED <<now, row, token, cert, crl, disk, elsewhere, leaving, agreed, damaged, faults>>

-----------------------------------------------------------------------------
(* The operator's hand on the status.  Neither blocking nor unblocking     *)
(* asks what it was.                                                       *)

BlockOrg(o) ==
  /\ op.at = "idle"
  /\ row[o].status # "none"
  /\ row' = [row EXCEPT ![o].status = "blocked"]
  /\ agreed' = agreed \ {o}
  /\ UNCHANGED <<now, token, cert, crl, disk, elsewhere, leaving, op, damaged, faults>>

UnblockOrg(o) ==
  /\ op.at = "idle"
  /\ row[o].status # "none"
  /\ row' = [row EXCEPT ![o].status = "active"]
  /\ agreed' = agreed \ {o}
  /\ UNCHANGED <<now, token, cert, crl, disk, elsewhere, leaving, op, damaged, faults>>

RevokeOrg(o) ==
  /\ op.at = "idle"
  /\ row[o].status # "none"
  /\ row' = [row EXCEPT ![o].status = "revoked"]
  /\ agreed' = agreed \ {o}
  /\ op' = [Idle EXCEPT !.at = "regenerating", !.org = o]
  /\ UNCHANGED <<now, token, cert, crl, disk, elsewhere, leaving, damaged, faults>>

(* _regenerate_crl: the file first, then the list in memory.               *)
RegenerateAdds ==
  /\ op.at = "regenerating"
  /\ disk' = IF elsewhere THEN disk ELSE disk \cup {row[op.org].serial}
  /\ crl' = crl \cup {row[op.org].serial}
  /\ damaged' = FALSE
  /\ op' = Idle
  /\ UNCHANGED <<now, row, token, cert, elsewhere, leaving, agreed, faults>>
RegenerateCrl ==
  /\ op.at = "regenerating"
  /\ disk' = IF elsewhere THEN disk ELSE RevokedSerials
  /\ crl' = RevokedSerials
  /\ damaged' = FALSE
  /\ op' = Idle
  /\ UNCHANGED <<now, row, token, cert, elsewhere, leaving, agreed, faults>>

(* The write raises, perhaps with the file already truncated; the caller   *)
(* goes on as if nothing had happened.                                     *)
RegenerateCrlFails ==
  /\ op.at = "regenerating"
  /\ faults < MaxFaults
  /\ faults' = faults + 1
  /\ disk' \in IF elsewhere THEN {disk} ELSE {disk, {}}
  /\ damaged' = TRUE
  /\ op' = Idle
  /\ UNCHANGED <<now, row, token, cert, crl, elsewhere, leaving, agreed>>

-----------------------------------------------------------------------------
(* Removal by mutual acknowledgement.                                      *)

(* A leave request, signed with the key of the certificate s it is sent    *)
(* under, passes the middleware.                                           *)
SendLeave(s) ==
  /\ op.at = "idle"
  /\ cert[s] # None
  /\ s \notin crl
  /\ row[cert[s].org].status = "active"
  /\ leaving' = leaving \cup {s}
  /\ UNCHANGED <<now, row, token, cert, crl, disk, elsewhere, op, agreed, damaged, faults>>

(* org_leave_request: the signature is checked under the registered key.   *)
LeavableUnverified(s) == row[cert[s].org].status \in Status \ {"revoked"}
Leavable(s) ==
  /\ row[cert[s].org].status \in Status \ {"revoked"}
  /\ row[cert[s].org].key = cert[s].key

OrgLeaveRequest(s) ==
  /\ op.at = "idle"
  /\ s \in leaving
  /\ leaving' = leaving \ {s}
  /\ row' = IF Leavable(s)
            THEN [row EXCEPT ![cert[s].org].status = "leave_pending",
                             ![cert[s].org].leave = cert[s].key]
            ELSE row
  /\ UNCHANGED <<now, token, cert, crl, disk, elsewhere, op, agreed, damaged, faults>>

(* approve_removal, up to its first commit.                                *)
ApprovableAlways(o) == row[o].status # "none"
Approvable(o) == row[o].status = "leave_pending"

ApproveRemoval(o) ==
  /\ op.at = "idle"
  /\ Approvable(o)
  /\ row' = [row EXCEPT ![o].status = "revoked"]
  /\ agreed' = agreed \cup {o}
  /\ op' = [Idle EXCEPT !.at = "confirming", !.org = o]
  /\ UNCHANGED <<now, token, cert, crl, disk, elsewhere, leaving, damaged, faults>>

(* set_removal_confirm; _regenerate_crl follows.                           *)
ForgetConfirm ==
  /\ op.at = "confirming"
  /\ op' = [op EXCEPT !.at = "regenerating"]
  /\ UNCHANGED <<now, row, token, cert, crl, disk, elsewhere, leaving, agreed, damaged, faults>>
ConfirmRemoval ==
  /\ op.at = "confirming"
  /\ row' = [row EXCEPT ![op.org].confirm = TRUE]
  /\ op' = [op EXCEPT !.at = "regenerating"]
  /\ UNCHANGED <<now, token, cert, crl, disk, elsewhere, leaving, agreed, damaged, faults>>

-----------------------------------------------------------------------------
(* The process restarts between two handlers: the CRL is what the file     *)
(* says, and requests on their way to a handler are gone.                  *)
Restart ==
  /\ op.at = "idle"
  /\ crl' = disk
  /\ leaving' = {}
  /\ UNCHANGED <<now, row, token, cert, disk, elsewhere, op, agreed, damaged, faults>>

(* It stops inside a handler: what follows the last commit never happens.  *)
Crash ==
  /\ op.at # "idle"
  /\ faults < MaxFaults
  /\ faults' = faults + 1
  /\ disk' \in IF op.at = "regenerating" /\ ~elsewhere
              THEN {disk, {}, RevokedSerials} ELSE {disk}
  /\ crl' = disk'
  /\ damaged' = (damaged \/ op.at # "enrolling")
  /\ leaving' = {}
  /\ op' = Idle
  /\ UNCHANGED <<now, row, token, cert, elsewhere, agreed>>

Tick ==
  /\ now < Horizon
  /\ now' = now + 1
  /\ UNCHANGED <<row, token, cert, crl, disk, elsewhere, leaving, op, agreed, damaged, faults>>

-----------------------------------------------------------------------------

Init ==
  /\ now = 0
  /\ row = [o \in Orgs |-> NoRow]
  /\ token = [t \in Tokens |-> None]
  /\ cert = [s \in Serials |-> None]
  /\ crl = {}
  /\ disk = {}
  /\ elsewhere \in BOOLEAN
  /\ leaving = {}
  /\ op = Idle
  /\ agreed = {}
  /\ damaged = FALSE
  /\ faults = 0

Next ==
  \/ \E o \in Orgs, k \in Keys, s \in Serials : EnrollOrg(o, k, s)
  \/ \E o \in Orgs, t \in Tokens : MintEnrollToken(o, t)
  \/ \E t \in Tokens, k \in Keys : RedeemToken(t, k)
  \/ \E s \in Serials : EnrollRedeemed(s) \/ SendLeave(s) \/ OrgLeaveRequest(s)
  \/ \E o \in Orgs : BlockOrg(o) \/ UnblockOrg(o) \/ RevokeOrg(o) \/ ApproveRemoval(o)
  \/ RefuseRedeemed \/ RegenerateCrl \/ RegenerateCrlFails \/ ConfirmRemoval
  \/ Restart \/ Crash
  \/ Tick

Spec == Init /\ [][Next]_vars

-----------------------------------------------------------------------------
(* What holds whatever is interrupted.                                     *)

(* A token stands behind at most one certificate, and that one is for the  *)
(* organisation it was minted for, however redemptions fail or restart.    *)
TokenEnrolsOnce ==
  /\ \A s, u \in Serials :
       cert[s] # None /\ cert[u] # None /\ cert[s].token = cert[u].token =>
         cert[s].token = None \/ s = u
  /\ \A s \in Serials :
       cert[s] # None /\ cert[s].token # None => cert[s].org = token[cert[s].token].org

(* An enrolment in force, blocked or about to leave is never replaced by   *)
(* another: its certificate is the organisation's until it is revoked.     *)
EnrolmentStands ==
  [][\A o \in Orgs :
       row[o].status \notin {"none", "revoked"} => row'[o].serial = row[o].serial]_vars

(* No removal is pending or confirmed without a leave request signed under *)
(* the key of the present enrolment: a request under another key, of an    *)
(* earlier enrolment or on its way when the key changed, does not count.   *)
RemovalRestsOnRequest ==
  \A o \in Orgs :
    row[o].status = "leave_pending" \/ row[o].confirm =>
      row[o].leave # None /\ row[o].leave = row[o].key

(* Between requests every revoked organisation's certificate is on the     *)
(* list, in memory and in the file, across restarts, if FL_CA_DIR is set   *)
(* and the latest rewriting of the list was not cut short or failed: a     *)
(* rewriting also makes good what earlier ones have lost.                  *)
RevokedListed ==
  op.at = "idle" /\ ~damaged /\ ~elsewhere => RevokedSerials \subseteq crl \cap disk

(* As long as no handler was cut short or failed to write the CRL, every   *)
(* organisation whose removal was approved has its confirmation.           *)
Confirmed == \A o \in agreed : row[o].status = "revoked" /\ row[o].confirm
AgreedRemovalConfirmed == op.at = "idle" /\ faults = 0 => Confirmed

-----------------------------------------------------------------------------
(* What intake relies on.                                                  *)

Registry == INSTANCE OrgStanding WITH
  NoKey <- None,
  standing <- [o \in Orgs |-> [active |-> row[o].status = "active", key |-> row[o].key]]

(* Whatever blocking, leaving, revoking and enrolling follow on each other, *)
(* interrupted or not, the key an organisation's contributions verify      *)
(* under is replaced only while it is not active, by its own enrolment.    *)
KeepsStanding == Registry!Spec

-----------------------------------------------------------------------------
(* What a comment in api.py says.                                          *)

(* approve_removal, crash or no crash: the organisation can always         *)
(* finalize an approved removal.                                           *)
LeaverCanFinalize == op.at = "idle" => Confirmed
=============================================================================
