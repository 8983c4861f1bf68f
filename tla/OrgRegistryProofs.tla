------------------------- MODULE OrgRegistryProofs -------------------------
(***************************************************************************)
(* Proofs about OrgRegistry, for every set of organisations, keys,         *)
(* certificates and tokens and every number of faults.                     *)
(***************************************************************************)
EXTENDS OrgRegistry, TLAPS

(* A row that is there has a key and a certificate.                        *)
RowRefs ==
  \A o \in Orgs : row[o].status # "none" => row[o].key \in Keys /\ row[o].serial \in Serials

(* What the handler under way has in hand.                                 *)
OpRefs ==
  /\ op.at = "enrolling" => op.org \in Orgs /\ op.key \in Keys /\ op.token \in Tokens
  /\ op.at = "confirming" => op.org \in Orgs

(* A leave request on its way was sent under a certificate.                *)
LeavingRefs == \A s \in leaving : cert[s] # None

TInv == TypeOK /\ RowRefs /\ OpRefs /\ LeavingRefs

-----------------------------------------------------------------------------
(* What the operations do to the table of organisations.                   *)

(* Setting the status of one row touches nothing else.                     *)
LEMMA SetStatus ==
  ASSUME TInv, NEW o \in Orgs, NEW x \in Status, row[o].status # "none",
         row' = [row EXCEPT ![o].status = x]
  PROVE  /\ row' \in [Orgs -> OrgRow]
         /\ RowRefs'
         /\ row'[o].status = x
         /\ \A p \in Orgs :
              /\ row'[p].key = row[p].key /\ row'[p].serial = row[p].serial
              /\ row'[p].leave = row[p].leave /\ row'[p].confirm = row[p].confirm
              /\ p # o => row'[p] = row[p]
<1>1. row \in [Orgs -> OrgRow] /\ row[o] \in OrgRow
  BY DEF TInv, TypeOK
<1> DEFINE new == [row[o] EXCEPT !.status = x]
<1>2. /\ new \in OrgRow /\ new.status = x /\ new.key = row[o].key /\ new.serial = row[o].serial
      /\ new.leave = row[o].leave /\ new.confirm = row[o].confirm
  BY <1>1 DEF OrgRow
<1>3. row' = [row EXCEPT ![o] = new]
  BY <1>1
<1> HIDE DEF new
<1>4. row'[o] = new /\ \A p \in Orgs : p # o => row'[p] = row[p]
  BY <1>1, <1>3
<1>5. row' \in [Orgs -> OrgRow]
  BY <1>1, <1>2, <1>3
<1>6. RowRefs'
  <2> SUFFICES ASSUME NEW p \in Orgs, row'[p].status # "none"
               PROVE  row'[p].key \in Keys /\ row'[p].serial \in Serials
    BY DEF RowRefs
  <2>1. CASE p = o
    BY <1>2, <1>4, <2>1 DEF TInv, RowRefs
  <2>2. CASE p # o
    BY <1>4, <2>2 DEF TInv, RowRefs
  <2>3. QED BY <2>1, <2>2
<1>7. QED BY <1>2, <1>4, <1>5, <1>6

(* An enrolment replaces one row by a fresh one.                           *)
LEMMA Enrolment ==
  ASSUME TInv, NEW o \in Orgs, NEW k \in Keys, NEW s \in Serials, row' = Enrolled(o, k, s)
  PROVE  /\ row' \in [Orgs -> OrgRow]
         /\ RowRefs'
         /\ row'[o].status = "active" /\ row'[o].leave = None /\ row'[o].confirm = FALSE
         /\ row'[o].serial = s /\ row'[o].key = k
         /\ \A p \in Orgs : p # o => row'[p] = row[p]
<1> DEFINE new == [status |-> "active", key |-> k, serial |-> s, leave |-> None, confirm |-> FALSE]
<1>1. row \in [Orgs -> OrgRow]
  BY DEF TInv, TypeOK
<1>2. /\ new \in OrgRow /\ new.status = "active" /\ new.key = k /\ new.serial = s
      /\ new.leave = None /\ new.confirm = FALSE
  BY DEF OrgRow, Status
<1>3. row' = [row EXCEPT ![o] = new]
  BY DEF Enrolled
<1> HIDE DEF new
<1>4. row'[o] = new /\ \A p \in Orgs : p # o => row'[p] = row[p]
  BY <1>1, <1>3
<1>5. row' \in [Orgs -> OrgRow]
  BY <1>1, <1>2, <1>3
<1>6. RowRefs'
  BY <1>2, <1>4 DEF TInv, RowRefs
<1>7. QED BY <1>2, <1>4, <1>5, <1>6

(* A leave request sets its sender's row to leave_pending, with the key it *)
(* was verified under, which is the registered one.                        *)
LEMMA Leaving ==
  ASSUME TInv, NEW s \in Serials, OrgLeaveRequest(s), cert[s] # None, Leavable(s)
  PROVE  LET o == cert[s].org
         IN /\ o \in Orgs
            /\ row[o].status \notin {"none", "revoked"}
            /\ row' \in [Orgs -> OrgRow]
            /\ RowRefs'
            /\ row'[o].status = "leave_pending"
            /\ row'[o].leave \in Keys /\ row'[o].leave = row'[o].key
            /\ row'[o].serial = row[o].serial /\ row'[o].confirm = row[o].confirm
            /\ row'[o].key = row[o].key
            /\ \A p \in Orgs : p # o => row'[p] = row[p]
<1> DEFINE o == cert[s].org
           new == [row[o] EXCEPT !.status = "leave_pending", !.leave = cert[s].key]
<1>1. row \in [Orgs -> OrgRow] /\ cert[s] \in Cert
  BY DEF TInv, TypeOK
<1>2. o \in Orgs /\ cert[s].key \in Keys /\ row[o] \in OrgRow
  BY <1>1 DEF Cert
<1>3. row[o].status \notin {"none", "revoked"} /\ row[o].key = cert[s].key
  BY DEF Leavable, Status
<1>4. row' = [row EXCEPT ![o].status = "leave_pending", ![o].leave = cert[s].key]
  BY DEF OrgLeaveRequest
<1>5. row' = [row EXCEPT ![o] = new]
  BY <1>1, <1>2, <1>4
<1>6. /\ new \in OrgRow /\ new.status = "leave_pending" /\ new.leave = cert[s].key
      /\ new.key = row[o].key /\ new.serial = row[o].serial /\ new.confirm = row[o].confirm
  BY <1>2 DEF OrgRow, Status
<1> HIDE DEF new
<1>7. row'[o] = new /\ \A p \in Orgs : p # o => row'[p] = row[p]
  BY <1>1, <1>2, <1>5
<1>8. row' \in [Orgs -> OrgRow]
  BY <1>1, <1>2, <1>5, <1>6
<1>9. RowRefs'
  BY <1>3, <1>6, <1>7 DEF TInv, RowRefs
<1>10. QED BY <1>2, <1>3, <1>6, <1>7, <1>8, <1>9

(* The confirmation changes nothing else of its row.                       *)
LEMMA Confirming ==
  ASSUME TInv, ConfirmRemoval
  PROVE  /\ op.org \in Orgs
         /\ row' \in [Orgs -> OrgRow]
         /\ RowRefs'
         /\ row'[op.org].confirm = TRUE
         /\ \A p \in Orgs :
              /\ row'[p].status = row[p].status /\ row'[p].key = row[p].key
              /\ row'[p].serial = row[p].serial /\ row'[p].leave = row[p].leave
              /\ p # op.org => row'[p] = row[p]
<1> DEFINE o == op.org
           new == [row[o] EXCEPT !.confirm = TRUE]
<1>1. o \in Orgs
  BY DEF TInv, OpRefs, ConfirmRemoval
<1>2. row \in [Orgs -> OrgRow] /\ row[o] \in OrgRow
  BY <1>1 DEF TInv, TypeOK
<1>3. row' = [row EXCEPT ![o] = new]
  BY <1>1, <1>2 DEF ConfirmRemoval
<1>4. /\ new \in OrgRow /\ new.confirm = TRUE /\ new.status = row[o].status
      /\ new.key = row[o].key /\ new.serial = row[o].serial /\ new.leave = row[o].leave
  BY <1>2 DEF OrgRow
<1> HIDE DEF new
<1>5. row'[o] = new /\ \A p \in Orgs : p # o => row'[p] = row[p]
  BY <1>1, <1>2, <1>3
<1>6. row' \in [Orgs -> OrgRow]
  BY <1>1, <1>2, <1>3, <1>4
<1>7. RowRefs'
  BY <1>4, <1>5 DEF TInv, RowRefs
<1>8. QED BY <1>1, <1>4, <1>5, <1>6, <1>7

-----------------------------------------------------------------------------
(* Types along every step.                                                 *)

LEMMA TInvStep == TInv /\ [Next]_vars => TInv'
<1> SUFFICES ASSUME TInv, [Next]_vars PROVE TInv'
  OBVIOUS
<1> USE DEF TInv, TypeOK, RowRefs, OpRefs, LeavingRefs, Op, Idle
<1>1. ASSUME NEW o \in Orgs, NEW k \in Keys, NEW s \in Serials, EnrollOrg(o, k, s) PROVE TInv'
  <2>1. row' \in [Orgs -> OrgRow] /\ RowRefs'
    BY <1>1, Enrolment DEF EnrollOrg
  <2>2. [org |-> o, key |-> k, token |-> None] \in Cert /\ None \notin Cert
    BY NoneAssumption DEF Cert
  <2>3. cert' \in [Serials -> Cert \cup {None}]
    BY <1>1, <2>2 DEF EnrollOrg
  <2>4. QED BY <1>1, <2>1, <2>3 DEF EnrollOrg
<1>2. ASSUME NEW o \in Orgs, NEW t \in Tokens, MintEnrollToken(o, t) PROVE TInv'
  <2>1. [org |-> o, expires |-> now + TokenTTL, used |-> FALSE] \in TokenRow
    BY BoundsAssumption DEF TokenRow
  <2>2. token' \in [Tokens -> TokenRow \cup {None}]
    BY <1>2, <2>1 DEF MintEnrollToken
  <2>3. QED BY <1>2, <2>2 DEF MintEnrollToken
<1>3. ASSUME NEW t \in Tokens, NEW k \in Keys, RedeemToken(t, k) PROVE TInv'
  <2>1. token[t] \in TokenRow
    BY <1>3 DEF RedeemToken, Redeemable
  <2>2. [token[t] EXCEPT !.used = TRUE] \in TokenRow /\ token[t].org \in Orgs
    BY <2>1 DEF TokenRow
  <2>3. token' \in [Tokens -> TokenRow \cup {None}]
    BY <1>3, <2>2 DEF RedeemToken
  <2>4. op' \in Op /\ OpRefs'
    BY <1>3, <2>2 DEF RedeemToken
  <2>5. QED BY <1>3, <2>3, <2>4 DEF RedeemToken
<1>4. ASSUME NEW s \in Serials, EnrollRedeemed(s) PROVE TInv'
  <2>1. op.org \in Orgs /\ op.key \in Keys /\ op.token \in Tokens
    BY <1>4 DEF EnrollRedeemed
  <2>2. row' \in [Orgs -> OrgRow] /\ RowRefs'
    BY <1>4, <2>1, Enrolment DEF EnrollRedeemed
  <2>3. [org |-> op.org, key |-> op.key, token |-> op.token] \in Cert /\ None \notin Cert
    BY <2>1, NoneAssumption DEF Cert
  <2>4. cert' \in [Serials -> Cert \cup {None}]
    BY <1>4, <2>3 DEF EnrollRedeemed
  <2>5. QED BY <1>4, <2>2, <2>4 DEF EnrollRedeemed
<1>5. ASSUME NEW s \in Serials, SendLeave(s) PROVE TInv'
  BY <1>5 DEF SendLeave
<1>6. ASSUME NEW s \in Serials, OrgLeaveRequest(s) PROVE TInv'
  <2>1. row' \in [Orgs -> OrgRow] /\ RowRefs'
    <3>1. CASE Leavable(s)
      <4>1. cert[s] # None
        BY <1>6 DEF OrgLeaveRequest
      <4>2. QED BY <1>6, <3>1, <4>1, Leaving
    <3>2. CASE ~Leavable(s)
      BY <1>6, <3>2 DEF OrgLeaveRequest
    <3>3. QED BY <3>1, <3>2
  <2>2. QED BY <1>6, <2>1 DEF OrgLeaveRequest
<1>7. ASSUME NEW o \in Orgs, BlockOrg(o) \/ UnblockOrg(o) \/ RevokeOrg(o) \/ ApproveRemoval(o)
      PROVE TInv'
  <2>1. PICK x \in Status : row' = [row EXCEPT ![o].status = x]
    BY <1>7 DEF BlockOrg, UnblockOrg, RevokeOrg, ApproveRemoval, Status
  <2>2. row[o].status # "none"
    BY <1>7 DEF BlockOrg, UnblockOrg, RevokeOrg, ApproveRemoval, Approvable
  <2>3. row' \in [Orgs -> OrgRow] /\ RowRefs'
    BY <2>1, <2>2, SetStatus
  <2>4. QED BY <1>7, <2>3 DEF BlockOrg, UnblockOrg, RevokeOrg, ApproveRemoval
<1>8. CASE RefuseRedeemed
  BY <1>8 DEF RefuseRedeemed
<1>9. CASE RegenerateCrl \/ RegenerateCrlFails \/ Crash
  <2>1. RevokedSerials \subseteq Serials
    BY DEF RevokedSerials
  <2>2. faults' \in 0..MaxFaults
    BY <1>9, BoundsAssumption DEF RegenerateCrl, RegenerateCrlFails, Crash
  <2>3. crl' \subseteq Serials /\ disk' \subseteq Serials
    BY <1>9, <2>1 DEF RegenerateCrl, RegenerateCrlFails, Crash
  <2>4. damaged' \in BOOLEAN
    BY <1>9 DEF RegenerateCrl, RegenerateCrlFails, Crash
  <2>5. QED BY <1>9, <2>2, <2>3, <2>4 DEF RegenerateCrl, RegenerateCrlFails, Crash
<1>10. CASE ConfirmRemoval
  <2>1. row' \in [Orgs -> OrgRow] /\ RowRefs'
    BY <1>10, Confirming
  <2>2. QED BY <1>10, <2>1 DEF ConfirmRemoval
<1>11. CASE Restart
  BY <1>11 DEF Restart
<1>12. CASE Tick
  BY <1>12 DEF Tick
<1>13. CASE UNCHANGED vars
  BY <1>13 DEF vars
<1>14. QED
  BY <1>1, <1>2, <1>3, <1>4, <1>5, <1>6, <1>7, <1>8, <1>9, <1>10, <1>11, <1>12, <1>13 DEF Next

LEMMA TInvInit == Init => TInv
<1> SUFFICES ASSUME Init PROVE TInv
  OBVIOUS
<1>1. NoRow \in OrgRow /\ Idle \in Op
  BY DEF NoRow, OrgRow, Idle, Op
<1>2. TypeOK
  <2>1. elsewhere \in BOOLEAN /\ damaged \in BOOLEAN
    BY Zenon DEF Init
  <2>2. /\ now \in Nat /\ row \in [Orgs -> OrgRow] /\ token \in [Tokens -> TokenRow \cup {None}]
        /\ cert \in [Serials -> Cert \cup {None}] /\ faults \in 0..MaxFaults
    BY <1>1, BoundsAssumption DEF Init
  <2>3. crl \subseteq Serials /\ disk \subseteq Serials /\ leaving \subseteq Serials
        /\ op \in Op /\ agreed \subseteq Orgs
    BY <1>1 DEF Init
  <2>4. QED BY <2>1, <2>2, <2>3, Zenon DEF TypeOK
<1>3. RowRefs /\ OpRefs /\ LeavingRefs
  BY DEF Init, RowRefs, NoRow, OpRefs, Idle, LeavingRefs
<1>4. QED BY <1>2, <1>3 DEF TInv

LEMMA TInvariant == Spec => []TInv
BY TInvInit, TInvStep, PTL DEF Spec

(* Every table holds rows of its declared columns, in every state.         *)
THEOREM TypeCorrect == Spec => []TypeOK
<1>1. TInv => TypeOK
  BY DEF TInv
<1>2. QED BY <1>1, TInvariant, PTL

-----------------------------------------------------------------------------
(* Enrolments stand: the columns of an organisation's certificate are      *)
(* written by the two enrolments only, which require its row to be absent  *)
(* or revoked.                                                             *)

LEMMA SerialStands ==
  ASSUME TInv, [Next]_vars, NEW p \in Orgs, row[p].status \notin {"none", "revoked"}
  PROVE  row'[p].serial = row[p].serial
<1>1. ASSUME NEW o \in Orgs, NEW k \in Keys, NEW s \in Serials, EnrollOrg(o, k, s)
      PROVE  row'[p].serial = row[p].serial
  <2>1. p # o
    BY <1>1 DEF EnrollOrg, Enrollable
  <2>2. QED BY <1>1, <2>1, Enrolment DEF EnrollOrg
<1>2. ASSUME NEW s \in Serials, EnrollRedeemed(s) PROVE row'[p].serial = row[p].serial
  <2>1. op.org \in Orgs /\ op.key \in Keys /\ p # op.org
    BY <1>2 DEF EnrollRedeemed, Enrollable, TInv, OpRefs
  <2>2. QED BY <1>2, <2>1, Enrolment DEF EnrollRedeemed
<1>3. ASSUME NEW o \in Orgs, BlockOrg(o) \/ UnblockOrg(o) \/ RevokeOrg(o) \/ ApproveRemoval(o)
      PROVE  row'[p].serial = row[p].serial
  <2>1. PICK x \in Status : row' = [row EXCEPT ![o].status = x]
    BY <1>3 DEF BlockOrg, UnblockOrg, RevokeOrg, ApproveRemoval, Status
  <2>2. row[o].status # "none"
    BY <1>3 DEF BlockOrg, UnblockOrg, RevokeOrg, ApproveRemoval, Approvable
  <2>3. QED BY <2>1, <2>2, SetStatus
<1>4. ASSUME NEW s \in Serials, OrgLeaveRequest(s) PROVE row'[p].serial = row[p].serial
  <2>1. cert[s] # None
    BY <1>4 DEF OrgLeaveRequest, TInv, LeavingRefs
  <2>2. CASE Leavable(s)
    BY <1>4, <2>1, <2>2, Leaving
  <2>3. CASE ~Leavable(s)
    BY <1>4, <2>3 DEF OrgLeaveRequest
  <2>4. QED BY <2>2, <2>3
<1>5. CASE ConfirmRemoval
  BY <1>5, Confirming
<1>6. CASE row' = row
  BY <1>6
<1>7. QED
  BY <1>1, <1>2, <1>3, <1>4, <1>5, <1>6
  DEF Next, vars, MintEnrollToken, RedeemToken, SendLeave, RefuseRedeemed, RegenerateCrl,
      RegenerateCrlFails, Restart, Crash, Tick

(* An enrolment in force, blocked or about to leave keeps its certificate  *)
(* whatever handlers do in whatever order, interrupted or not.             *)
THEOREM EnrolmentsStand == Spec => EnrolmentStands
<1>1. TInv /\ [Next]_vars =>
        [\A o \in Orgs :
           row[o].status \notin {"none", "revoked"} => row'[o].serial = row[o].serial]_vars
  BY SerialStands
<1>2. QED BY <1>1, TInvariant, PTL DEF Spec, EnrolmentStands

-----------------------------------------------------------------------------
(* Tokens enrol once: a certificate's token is spent, and the token in the *)
(* hands of enroll_with_token is spent and behind no certificate yet.      *)

TokenRefs ==
  /\ op.at = "enrolling" =>
       /\ token[op.token] # None /\ token[op.token].used /\ token[op.token].org = op.org
       /\ \A s \in Serials : cert[s] # None => cert[s].token # op.token
  /\ \A s \in Serials :
       cert[s] # None /\ cert[s].token # None =>
         /\ token[cert[s].token] # None
         /\ token[cert[s].token].used
         /\ token[cert[s].token].org = cert[s].org

OnceInv == TokenEnrolsOnce /\ TokenRefs

LEMMA OnceStep == TInv /\ OnceInv /\ [Next]_vars => OnceInv'
<1> SUFFICES ASSUME TInv, OnceInv, [Next]_vars PROVE OnceInv'
  OBVIOUS
<1> USE DEF OnceInv, TokenEnrolsOnce, TokenRefs
<1>a. \A s \in Serials : cert[s] # None => cert[s].token \in Tokens \cup {None}
  BY DEF TInv, TypeOK, Cert
<1>b. cert \in [Serials -> Cert \cup {None}] /\ token \in [Tokens -> TokenRow \cup {None}]
  BY DEF TInv, TypeOK
<1>1. ASSUME NEW o \in Orgs, NEW k \in Keys, NEW s \in Serials, EnrollOrg(o, k, s)
      PROVE  OnceInv'
  <2> DEFINE new == [org |-> o, key |-> k, token |-> None]
  <2>1. new.token = None
    OBVIOUS
  <2> HIDE DEF new
  <2>2. cert'[s] = new /\ \A u \in Serials : u # s => cert'[u] = cert[u]
    BY <1>1, <1>b DEF EnrollOrg, new
  <2>3. token' = token /\ op'.at # "enrolling"
    BY <1>1 DEF EnrollOrg
  <2>4. TokenEnrolsOnce'
    BY <2>1, <2>2, <2>3
  <2>5. TokenRefs'
    BY <2>1, <2>2, <2>3
  <2>6. QED BY <2>4, <2>5
<1>2. ASSUME NEW o \in Orgs, NEW t \in Tokens, MintEnrollToken(o, t) PROVE OnceInv'
  <2>1. cert' = cert /\ op'.at # "enrolling" /\ \A v \in Tokens : v # t => token'[v] = token[v]
    BY <1>2, <1>b DEF MintEnrollToken
  <2>2. \A s \in Serials : cert[s] # None => cert[s].token # t
    BY <1>2, NoneAssumption DEF MintEnrollToken
  <2>3. QED BY <2>1, <2>2, <1>a
<1>3. ASSUME NEW t \in Tokens, NEW k \in Keys, RedeemToken(t, k) PROVE OnceInv'
  <2> DEFINE new == [token[t] EXCEPT !.used = TRUE]
  <2>1. token[t] \in TokenRow /\ token[t].used = FALSE
    BY <1>3, <1>b DEF RedeemToken, Redeemable, TokenRow
  <2>2. new \in TokenRow /\ new.used = TRUE /\ new.org = token[t].org
    BY <2>1 DEF TokenRow
  <2>3. token' = [token EXCEPT ![t] = new]
    BY <1>3 DEF RedeemToken
  <2> HIDE DEF new
  <2>4. token'[t] = new /\ new # None /\ \A v \in Tokens : v # t => token'[v] = token[v]
    BY <2>2, <2>3, <1>b, NoneAssumption DEF TokenRow
  <2>5. cert' = cert /\ op'.org = new.org /\ op'.token = t
    BY <1>3, <2>2 DEF RedeemToken
  <2>6. \A s \in Serials : cert[s] # None => cert[s].token # t
    BY <2>1, NoneAssumption
  <2>7. TokenEnrolsOnce'
    BY <2>4, <2>5, <2>6, <1>a
  <2>8. TokenRefs'
    BY <2>2, <2>4, <2>5, <2>6, <1>a
  <2>9. QED BY <2>7, <2>8
<1>4. ASSUME NEW s \in Serials, EnrollRedeemed(s) PROVE OnceInv'
  <2> DEFINE new == [org |-> op.org, key |-> op.key, token |-> op.token]
  <2>1. new.token = op.token /\ new.org = op.org
    OBVIOUS
  <2> HIDE DEF new
  <2>2. cert'[s] = new /\ \A u \in Serials : u # s => cert'[u] = cert[u]
    BY <1>4, <1>b DEF EnrollRedeemed, new
  <2>3. token' = token /\ op.at = "enrolling" /\ op'.at # "enrolling"
    BY <1>4 DEF EnrollRedeemed, Idle
  <2>4. TokenEnrolsOnce'
    BY <2>1, <2>2, <2>3
  <2>5. TokenRefs'
    BY <2>1, <2>2, <2>3
  <2>6. QED BY <2>4, <2>5
<1>5. CASE /\ token' = token /\ cert' = cert
           /\ op' = op \/ op'.at # "enrolling"
  BY <1>5
<1>6. QED
  <2>1. ASSUME NEW o \in Orgs, BlockOrg(o) \/ UnblockOrg(o) \/ RevokeOrg(o) \/ ApproveRemoval(o)
        PROVE  OnceInv'
    BY <1>5, <2>1 DEF BlockOrg, UnblockOrg, RevokeOrg, ApproveRemoval, Idle
  <2>2. ASSUME NEW s \in Serials, SendLeave(s) \/ OrgLeaveRequest(s) PROVE OnceInv'
    BY <1>5, <2>2 DEF SendLeave, OrgLeaveRequest
  <2>3. CASE RefuseRedeemed \/ RegenerateCrl \/ RegenerateCrlFails \/ Crash
    BY <1>5, <2>3 DEF RefuseRedeemed, RegenerateCrl, RegenerateCrlFails, Crash, Idle
  <2>4. CASE ConfirmRemoval
    <3>1. op'.at # "enrolling"
      BY <2>4 DEF ConfirmRemoval, TInv, TypeOK, Op
    <3>2. QED BY <1>5, <2>4, <3>1 DEF ConfirmRemoval
  <2>5. CASE Restart \/ Tick \/ UNCHANGED vars
    BY <1>5, <2>5 DEF Restart, Tick, vars
  <2>6. QED BY <1>1, <1>2, <1>3, <1>4, <2>1, <2>2, <2>3, <2>4, <2>5 DEF Next

(* A token stands behind at most one certificate, one for the organisation *)
(* it was minted for, however redemptions fail or are cut short.           *)
THEOREM TokensEnrolOnce == Spec => []TokenEnrolsOnce
<1>1. Init => OnceInv
  BY DEF Init, OnceInv, TokenEnrolsOnce, TokenRefs, Idle
<1>2. OnceInv => TokenEnrolsOnce
  BY DEF OnceInv
<1>3. QED BY <1>1, <1>2, OnceStep, TInvariant, PTL DEF Spec

-----------------------------------------------------------------------------
(* Removals: between its two commits approve_removal has the leave request *)
(* still before it, and an agreed removal is confirmed or about to be.     *)

ConfirmingRefs ==
  op.at = "confirming" =>
    /\ row[op.org].status = "revoked"
    /\ row[op.org].leave # None /\ row[op.org].leave = row[op.org].key

AgreedRefs ==
  \A o \in agreed :
    /\ row[o].status = "revoked"
    /\ faults = 0 => row[o].confirm \/ (op.at = "confirming" /\ op.org = o)

RemovalInv == RemovalRestsOnRequest /\ ConfirmingRefs /\ AgreedRefs

LEMMA RemovalStep == TInv /\ RemovalInv /\ [Next]_vars => RemovalInv'
<1> SUFFICES ASSUME TInv, RemovalInv, [Next]_vars PROVE RemovalInv'
  OBVIOUS
<1> USE DEF RemovalInv, RemovalRestsOnRequest, ConfirmingRefs, AgreedRefs
<1>a. agreed \subseteq Orgs /\ faults \in Nat
  BY BoundsAssumption DEF TInv, TypeOK
<1>1. ASSUME NEW o \in Orgs, NEW k \in Keys, NEW s \in Serials, row' = Enrolled(o, k, s),
             agreed' = agreed \ {o}, faults' = faults, op.at # "confirming", op'.at = "idle"
      PROVE  RemovalInv'
  <2>1. /\ row'[o].status = "active" /\ row'[o].confirm = FALSE
        /\ \A p \in Orgs : p # o => row'[p] = row[p]
    BY <1>1, Enrolment
  <2>2. RemovalRestsOnRequest'
    BY <2>1
  <2>3. ConfirmingRefs'
    BY <1>1
  <2>4. AgreedRefs'
    BY <1>1, <1>a, <2>1
  <2>5. QED BY <2>2, <2>3, <2>4
<1>2. ASSUME NEW o \in Orgs, BlockOrg(o) \/ UnblockOrg(o) \/ RevokeOrg(o) PROVE RemovalInv'
  <2>1. PICK x \in Status \ {"leave_pending"} : row' = [row EXCEPT ![o].status = x]
    BY <1>2 DEF BlockOrg, UnblockOrg, RevokeOrg, Status
  <2>2. /\ row[o].status # "none" /\ agreed' = agreed \ {o} /\ faults' = faults
        /\ op.at = "idle" /\ op'.at # "confirming"
    BY <1>2 DEF BlockOrg, UnblockOrg, RevokeOrg, Idle
  <2>3. /\ row'[o].status = x
        /\ \A p \in Orgs :
             /\ row'[p].key = row[p].key /\ row'[p].leave = row[p].leave
             /\ row'[p].confirm = row[p].confirm
             /\ p # o => row'[p] = row[p]
    BY <2>1, <2>2, SetStatus
  <2>4. RemovalRestsOnRequest'
    BY <2>1, <2>3
  <2>5. ConfirmingRefs'
    BY <2>2
  <2>6. AgreedRefs'
    BY <1>a, <2>2, <2>3
  <2>7. QED BY <2>4, <2>5, <2>6
<1>3. ASSUME NEW o \in Orgs, ApproveRemoval(o) PROVE RemovalInv'
  <2>1. row[o].status = "leave_pending" /\ row' = [row EXCEPT ![o].status = "revoked"]
    BY <1>3 DEF ApproveRemoval, Approvable
  <2>2. /\ agreed' = agreed \cup {o} /\ faults' = faults /\ op.at = "idle"
        /\ op'.at = "confirming" /\ op'.org = o
    BY <1>3 DEF ApproveRemoval, Idle
  <2>3. /\ row'[o].status = "revoked"
        /\ \A p \in Orgs :
             /\ row'[p].key = row[p].key /\ row'[p].leave = row[p].leave
             /\ row'[p].confirm = row[p].confirm
             /\ p # o => row'[p] = row[p]
    BY <2>1, SetStatus DEF Status
  <2>4. row[o].leave # None /\ row[o].leave = row[o].key
    BY <2>1
  <2>5. RemovalRestsOnRequest'
    BY <2>3, <2>4
  <2>6. ConfirmingRefs'
    BY <2>2, <2>3, <2>4
  <2>7. AgreedRefs'
    BY <1>a, <2>2, <2>3
  <2>8. QED BY <2>5, <2>6, <2>7
<1>4. ASSUME NEW s \in Serials, OrgLeaveRequest(s) PROVE RemovalInv'
  <2>1. cert[s] # None /\ op.at = "idle" /\ op' = op /\ agreed' = agreed /\ faults' = faults
    BY <1>4 DEF OrgLeaveRequest, TInv, LeavingRefs
  <2>2. CASE Leavable(s)
    <3>1. PICK o \in Orgs :
            /\ row[o].status # "revoked"
            /\ row'[o].leave \in Keys /\ row'[o].leave = row'[o].key
            /\ \A p \in Orgs : p # o => row'[p] = row[p]
      BY <1>4, <2>1, <2>2, Leaving
    <3>2. QED BY <1>a, <2>1, <3>1, NoneAssumption
  <2>3. CASE ~Leavable(s)
    BY <1>4, <2>1, <2>3 DEF OrgLeaveRequest
  <2>4. QED BY <2>2, <2>3
<1>5. CASE ConfirmRemoval
  <2>1. /\ row'[op.org].confirm = TRUE
        /\ \A p \in Orgs :
             /\ row'[p].status = row[p].status /\ row'[p].key = row[p].key
             /\ row'[p].leave = row[p].leave
             /\ p # op.org => row'[p] = row[p]
    BY <1>5, Confirming
  <2>2. op.at = "confirming" /\ agreed' = agreed /\ faults' = faults
    BY <1>5 DEF ConfirmRemoval
  <2>3. op'.at = "regenerating"
    BY <1>5 DEF ConfirmRemoval, TInv, TypeOK, Op
  <2>4. RemovalRestsOnRequest'
    BY <2>1, <2>2
  <2>5. ConfirmingRefs'
    BY <2>3
  <2>6. AgreedRefs'
    BY <1>a, <2>1, <2>2
  <2>7. QED BY <2>4, <2>5, <2>6
<1>6. CASE /\ row' = row /\ agreed' = agreed
           /\ \/ op' = op /\ faults' = faults
              \/ op.at # "confirming" /\ op'.at # "confirming" /\ faults' = faults
              \/ op'.at # "confirming" /\ faults' = faults + 1
  BY <1>a, <1>6
<1>7. QED
  <2>1. ASSUME NEW o \in Orgs, NEW k \in Keys, NEW s \in Serials, EnrollOrg(o, k, s)
        PROVE  RemovalInv'
    BY <1>1, <2>1 DEF EnrollOrg
  <2>2. ASSUME NEW s \in Serials, EnrollRedeemed(s) PROVE RemovalInv'
    BY <1>1, <2>2 DEF EnrollRedeemed, Idle, TInv, OpRefs
  <2>3. ASSUME NEW o \in Orgs, NEW t \in Tokens, MintEnrollToken(o, t) PROVE RemovalInv'
    BY <1>6, <2>3 DEF MintEnrollToken
  <2>4. ASSUME NEW t \in Tokens, NEW k \in Keys, RedeemToken(t, k) PROVE RemovalInv'
    BY <1>6, <2>4 DEF RedeemToken
  <2>5. ASSUME NEW s \in Serials, SendLeave(s) PROVE RemovalInv'
    BY <1>6, <2>5 DEF SendLeave
  <2>6. CASE RefuseRedeemed \/ RegenerateCrl \/ RegenerateCrlFails \/ Crash
    BY <1>6, <2>6 DEF RefuseRedeemed, RegenerateCrl, RegenerateCrlFails, Crash, Idle
  <2>7. CASE Restart \/ Tick \/ UNCHANGED vars
    BY <1>6, <2>7 DEF Restart, Tick, vars
  <2>8. QED
    BY <1>2, <1>3, <1>4, <1>5, <2>1, <2>2, <2>3, <2>4, <2>5, <2>6, <2>7 DEF Next

LEMMA RemovalInvariant == Spec => []RemovalInv
<1>1. Init => RemovalInv
  BY DEF Init, RemovalInv, RemovalRestsOnRequest, ConfirmingRefs, AgreedRefs, NoRow, Idle
<1>2. QED BY <1>1, RemovalStep, TInvariant, PTL DEF Spec

(* No removal is pending or confirmed without a leave request signed under *)
(* the key of the present enrolment, in whatever order requests arrive.    *)
THEOREM RemovalsRestOnRequests == Spec => []RemovalRestsOnRequest
<1>1. RemovalInv => RemovalRestsOnRequest
  BY DEF RemovalInv
<1>2. QED BY <1>1, RemovalInvariant, PTL

(* Without faults every approved removal has its confirmation as soon as   *)
(* the handler is through.                                                 *)
THEOREM RemovalsConfirmed == Spec => []AgreedRemovalConfirmed
<1>1. RemovalInv => AgreedRemovalConfirmed
  BY DEF RemovalInv, AgreedRefs, AgreedRemovalConfirmed, Confirmed
<1>2. QED BY <1>1, RemovalInvariant, PTL

-----------------------------------------------------------------------------
(* The list of revoked certificates: except while approve_removal or       *)
(* revoke_org is under way, it has every revoked serial, unless the latest *)
(* of them could not rewrite it.                                           *)

ListedInv ==
  ~damaged /\ ~elsewhere /\ op.at \in {"idle", "enrolling"} =>
    RevokedSerials \subseteq crl \cap disk

(* An enrolment and a status other than "revoked" shrink the set.          *)
LEMMA RevokedShrink ==
  ASSUME \A p \in Orgs : row'[p].status = "revoked" =>
           row[p].status = "revoked" /\ row'[p].serial = row[p].serial
  PROVE  RevokedSerials' \subseteq RevokedSerials
BY DEF RevokedSerials

LEMMA ListedStep == TInv /\ ListedInv /\ [Next]_vars => ListedInv'
<1> SUFFICES ASSUME TInv, ListedInv, [Next]_vars PROVE ListedInv'
  OBVIOUS
<1> USE DEF ListedInv
<1>1. ASSUME NEW o \in Orgs, NEW k \in Keys, NEW s \in Serials, row' = Enrolled(o, k, s),
             op.at \in {"idle", "enrolling"}, UNCHANGED <<crl, disk, elsewhere, damaged>>
      PROVE  ListedInv'
  <2>1. RevokedSerials' \subseteq RevokedSerials
    BY <1>1, Enrolment, RevokedShrink
  <2>2. QED BY <1>1, <2>1
<1>2. ASSUME NEW o \in Orgs, BlockOrg(o) \/ UnblockOrg(o) PROVE ListedInv'
  <2>1. PICK x \in Status \ {"revoked"} : row' = [row EXCEPT ![o].status = x]
    BY <1>2 DEF BlockOrg, UnblockOrg, Status
  <2>2. row[o].status # "none" /\ op.at = "idle" /\ UNCHANGED <<crl, disk, elsewhere, damaged>>
    BY <1>2 DEF BlockOrg, UnblockOrg
  <2>3. RevokedSerials' \subseteq RevokedSerials
    BY <2>1, <2>2, SetStatus, RevokedShrink
  <2>4. QED BY <2>2, <2>3
<1>3. ASSUME NEW o \in Orgs, RevokeOrg(o) \/ ApproveRemoval(o) PROVE ListedInv'
  BY <1>3 DEF RevokeOrg, ApproveRemoval, Idle
<1>4. ASSUME NEW s \in Serials, OrgLeaveRequest(s) PROVE ListedInv'
  <2>1. cert[s] # None /\ op.at = "idle" /\ UNCHANGED <<crl, disk, elsewhere, damaged>>
    BY <1>4 DEF OrgLeaveRequest, TInv, LeavingRefs
  <2>2. RevokedSerials' \subseteq RevokedSerials
    <3>1. CASE Leavable(s)
      BY <1>4, <2>1, <3>1, Leaving, RevokedShrink
    <3>2. CASE ~Leavable(s)
      BY <1>4, <3>2 DEF OrgLeaveRequest, RevokedSerials
    <3>3. QED BY <3>1, <3>2
  <2>3. QED BY <2>1, <2>2
<1>5. CASE ConfirmRemoval
  BY <1>5 DEF ConfirmRemoval, TInv, TypeOK, Op
<1>6. CASE RegenerateCrl
  <2>1. RevokedSerials' = RevokedSerials
    BY <1>6 DEF RegenerateCrl, RevokedSerials
  <2>2. QED BY <1>6, <2>1 DEF RegenerateCrl
<1>7. CASE RegenerateCrlFails \/ (Crash /\ op.at # "enrolling")
  BY <1>7 DEF RegenerateCrlFails, Crash
<1>8. CASE /\ row' = row /\ disk' = disk /\ UNCHANGED elsewhere
           /\ damaged' = damaged
           /\ crl' \in {crl, disk}
           /\ op' = op \/ op.at \in {"idle", "enrolling"}
  <2>1. RevokedSerials' = RevokedSerials
    BY <1>8 DEF RevokedSerials
  <2>2. QED BY <1>8, <2>1
<1>9. QED
  <2>1. ASSUME NEW o \in Orgs, NEW k \in Keys, NEW s \in Serials, EnrollOrg(o, k, s)
        PROVE  ListedInv'
    BY <1>1, <2>1 DEF EnrollOrg
  <2>2. ASSUME NEW s \in Serials, EnrollRedeemed(s) PROVE ListedInv'
    BY <1>1, <2>2 DEF EnrollRedeemed, TInv, OpRefs
  <2>3. ASSUME NEW o \in Orgs, NEW t \in Tokens, MintEnrollToken(o, t) PROVE ListedInv'
    BY <1>8, <2>3 DEF MintEnrollToken
  <2>4. ASSUME NEW t \in Tokens, NEW k \in Keys, RedeemToken(t, k) PROVE ListedInv'
    BY <1>8, <2>4 DEF RedeemToken
  <2>5. ASSUME NEW s \in Serials, SendLeave(s) PROVE ListedInv'
    BY <1>8, <2>5 DEF SendLeave
  <2>6. CASE RefuseRedeemed \/ Restart \/ Tick \/ UNCHANGED vars
    BY <1>8, <2>6 DEF RefuseRedeemed, Restart, Tick, vars
  <2>7. CASE Crash /\ op.at = "enrolling"
    <3>1. (damaged' = TRUE) = (damaged = TRUE) /\ damaged \in BOOLEAN
      BY <2>7 DEF Crash, TInv, TypeOK
    <3>2. damaged' \in BOOLEAN
      BY <2>7 DEF Crash
    <3>3. QED BY <1>8, <2>7, <3>1, <3>2 DEF Crash
  <2>8. QED
    BY <1>2, <1>3, <1>4, <1>5, <1>6, <1>7, <2>1, <2>2, <2>3, <2>4, <2>5, <2>6, <2>7 DEF Next

(* With FL_CA_DIR set, between requests, every revoked organisation's      *)
(* certificate is on the list in memory and in the file, unless the latest *)
(* rewriting was cut short or failed; the next one makes that good.        *)
THEOREM RevokedAreListed == Spec => []RevokedListed
<1>1. Init => ListedInv
  BY DEF Init, ListedInv, RevokedSerials, NoRow
<1>2. ListedInv => RevokedListed
  BY DEF ListedInv, RevokedListed
<1>3. QED BY <1>1, <1>2, ListedStep, TInvariant, PTL DEF Spec

-----------------------------------------------------------------------------
(* What intake relies on.                                                  *)

StandingOf(o) == [active |-> row[o].status = "active", key |-> row[o].key]
standingBar   == [o \in Orgs |-> StandingOf(o)]

(* A change of one row that keeps its key, or makes it active with another *)
(* key when it is not, is a step of OrgStanding or none.                   *)
LEMMA OneRowStep ==
  ASSUME NEW o \in Orgs, \A p \in Orgs : p # o => StandingOf(p)' = StandingOf(p),
         \/ /\ row'[o].key = row[o].key
            /\ row[o].key # None \/ row'[o].status # "active"
         \/ /\ row[o].status # "active"
            /\ row'[o].status = "active" /\ row'[o].key \in Keys
  PROVE  [Registry!Next]_standingBar
<1>1. standingBar' = [standingBar EXCEPT ![o] = StandingOf(o)']
  BY DEF standingBar
<1>2. standingBar[o] = StandingOf(o)
  BY DEF standingBar
<1>a. ASSUME NEW x \in BOOLEAN, NEW y \in BOOLEAN, NEW k,
             standingBar[o] = [active |-> x, key |-> k], StandingOf(o)' = [active |-> y, key |-> k]
      PROVE  standingBar' = [standingBar EXCEPT ![o].active = y]
  <2>1. [standingBar[o] EXCEPT !.active = y] = [active |-> y, key |-> k]
    BY <1>a
  <2>2. QED BY <1>1, <1>a, <2>1
<1>3. CASE StandingOf(o)' = StandingOf(o)
  BY <1>1, <1>2, <1>3 DEF standingBar
<1>4. CASE row'[o].key = row[o].key /\ row[o].status = "active" /\ row'[o].status # "active"
  <2>1. StandingOf(o)' = [active |-> FALSE, key |-> row[o].key]
    BY <1>4 DEF StandingOf
  <2>2. standingBar[o] = [active |-> TRUE, key |-> row[o].key]
    BY <1>2, <1>4 DEF StandingOf
  <2>3. standingBar' = [standingBar EXCEPT ![o].active = FALSE]
    BY <1>a, <2>1, <2>2
  <2>4. standingBar[o].active
    BY <2>2
  <2>5. QED BY <2>3, <2>4 DEF Registry!Suspend, Registry!Next, StandingOf, standingBar
<1>5. CASE row'[o].key = row[o].key /\ row[o].status # "active" /\ row'[o].status = "active"
           /\ row[o].key # None
  <2>1. StandingOf(o)' = [active |-> TRUE, key |-> row[o].key]
    BY <1>5 DEF StandingOf
  <2>2. standingBar[o] = [active |-> FALSE, key |-> row[o].key]
    BY <1>2, <1>5 DEF StandingOf
  <2>3. standingBar' = [standingBar EXCEPT ![o].active = TRUE]
    BY <1>a, <2>1, <2>2
  <2>4. ~standingBar[o].active /\ standingBar[o].key # None
    BY <2>2, <1>5
  <2>5. QED BY <2>3, <2>4 DEF Registry!Reinstate, Registry!Next, StandingOf, standingBar
<1>6. CASE row[o].status # "active" /\ row'[o].status = "active" /\ row'[o].key \in Keys
  <2>1. StandingOf(o)' = [active |-> TRUE, key |-> row'[o].key]
    BY <1>6 DEF StandingOf
  <2>2. QED BY <1>1, <1>2, <1>6, <2>1 DEF Registry!Enrol, Registry!Next, StandingOf, standingBar
<1>7. QED BY <1>3, <1>4, <1>5, <1>6 DEF StandingOf

LEMMA StandingStep == TInv /\ [Next]_vars => [Registry!Next]_standingBar
<1> SUFFICES ASSUME TInv, [Next]_vars PROVE [Registry!Next]_standingBar
  OBVIOUS
<1>0. row \in [Orgs -> OrgRow] /\ None \notin Keys
  BY NoneAssumption DEF TInv, TypeOK
<1>1. ASSUME NEW o \in Orgs, NEW k \in Keys, NEW s \in Serials, EnrollOrg(o, k, s)
      PROVE  [Registry!Next]_standingBar
  <2>1. row[o].status # "active"
    BY <1>1 DEF EnrollOrg, Enrollable
  <2>2. /\ row'[o].status = "active" /\ row'[o].key = k
        /\ \A p \in Orgs : p # o => row'[p] = row[p]
    BY <1>1, Enrolment DEF EnrollOrg
  <2>3. \A p \in Orgs : p # o => StandingOf(p)' = StandingOf(p)
    BY <2>2 DEF StandingOf
  <2>4. QED BY <2>1, <2>2, <2>3, OneRowStep
<1>2. ASSUME NEW s \in Serials, EnrollRedeemed(s) PROVE [Registry!Next]_standingBar
  <2>1. op.org \in Orgs /\ op.key \in Keys /\ row[op.org].status # "active"
    BY <1>2 DEF EnrollRedeemed, Enrollable, TInv, OpRefs
  <2>a. row' = Enrolled(op.org, op.key, s)
    BY <1>2 DEF EnrollRedeemed
  <2>2. /\ row'[op.org].status = "active" /\ row'[op.org].key = op.key
        /\ \A p \in Orgs : p # op.org => row'[p] = row[p]
    BY <2>1, <2>a, Enrolment
  <2>3. \A p \in Orgs : p # op.org => StandingOf(p)' = StandingOf(p)
    BY <2>2 DEF StandingOf
  <2>4. QED BY <2>1, <2>2, <2>3, OneRowStep
<1>3. ASSUME NEW o \in Orgs, BlockOrg(o) \/ UnblockOrg(o) \/ RevokeOrg(o) \/ ApproveRemoval(o)
      PROVE  [Registry!Next]_standingBar
  <2>1. PICK x \in Status : row' = [row EXCEPT ![o].status = x]
    BY <1>3 DEF BlockOrg, UnblockOrg, RevokeOrg, ApproveRemoval, Status
  <2>2. row[o].status # "none"
    BY <1>3 DEF BlockOrg, UnblockOrg, RevokeOrg, ApproveRemoval, Approvable
  <2>3. row[o].key # None
    BY <1>0, <2>2 DEF TInv, RowRefs
  <2>4. row'[o].key = row[o].key /\ \A p \in Orgs : p # o => row'[p] = row[p]
    BY <2>1, <2>2, SetStatus
  <2>5. \A p \in Orgs : p # o => StandingOf(p)' = StandingOf(p)
    BY <2>4 DEF StandingOf
  <2>6. QED BY <2>3, <2>4, <2>5, OneRowStep
<1>4. ASSUME NEW s \in Serials, OrgLeaveRequest(s) PROVE [Registry!Next]_standingBar
  <2>1. cert[s] # None
    BY <1>4 DEF OrgLeaveRequest, TInv, LeavingRefs
  <2>2. CASE Leavable(s)
    <3>1. PICK o \in Orgs :
            /\ row'[o].status = "leave_pending" /\ row'[o].key = row[o].key
            /\ \A p \in Orgs : p # o => row'[p] = row[p]
      BY <1>4, <2>1, <2>2, Leaving
    <3>2. \A p \in Orgs : p # o => StandingOf(p)' = StandingOf(p)
      BY <3>1 DEF StandingOf
    <3>3. QED BY <3>1, <3>2, OneRowStep
  <2>3. CASE ~Leavable(s)
    BY <1>4, <2>3 DEF OrgLeaveRequest, standingBar, StandingOf
  <2>4. QED BY <2>2, <2>3
<1>5. CASE ConfirmRemoval
  <2>1. \A p \in Orgs : row'[p].status = row[p].status /\ row'[p].key = row[p].key
    BY <1>5, Confirming
  <2>2. QED BY <2>1 DEF standingBar, StandingOf
<1>6. CASE row' = row
  BY <1>6 DEF standingBar, StandingOf
<1>7. QED
  BY <1>1, <1>2, <1>3, <1>4, <1>5, <1>6
  DEF Next, vars, MintEnrollToken, RedeemToken, SendLeave, RefuseRedeemed, RegenerateCrl,
      RegenerateCrlFails, Restart, Crash, Tick

(* The registry keeps the promise RoundIntake builds on: the registered    *)
(* key of an organisation is replaced only while it is not active, and by  *)
(* its own enrolment, in whatever order handlers run and are cut short.    *)
THEOREM StandingKept == Spec => KeepsStanding
<1>1. Init => Registry!Init
  <2> SUFFICES ASSUME Init PROVE Registry!Init
    OBVIOUS
  <2>1. \A o \in Orgs : row[o].key = None /\ (row[o].status = "active") = FALSE
    BY DEF Init, NoRow
  <2>2. \A o \in Orgs : [active |-> row[o].status = "active", key |-> row[o].key] = Registry!NoOrg
    BY <2>1 DEF Registry!NoOrg
  <2>3. QED BY <2>2 DEF Registry!Init
<1>2. TInv /\ [Next]_vars => [Registry!Next]_standingBar
  BY StandingStep
<1>3. QED BY <1>1, <1>2, TInvariant, PTL
          DEF Spec, Registry!Spec, KeepsStanding, standingBar, StandingOf
=============================================================================
