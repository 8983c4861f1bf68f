----------------------- MODULE CoordinatorHostProofs -----------------------
(***************************************************************************)
(* Proofs about CoordinatorHost.  Each step of the host is a step of the   *)
(* audit trail and a step of the CA directory, or leaves them alone, so    *)
(* what is proved of these two holds in the host.  The rest is an          *)
(* invariant over all three.                                               *)
(***************************************************************************)
EXTENDS CoordinatorHost, AuditTrailProofs, FederationCaProofs

(* While a handler is under way the process is up; it answers last.        *)
HandlerOK ==
  op.at # "idle" => op.org \in Orgs /\ at \in {"up", "listing"} /\ ~org[op.org].answered

(* A change is answered and in the log, or its handler gets there.         *)
AnswerableOK ==
  mishaps = 0 /\ sound =>
    \A o \in Orgs : org[o].status # "none" =>
      \/ org[o].answered /\ org[o].entry \in acked
      \/ op.org = o /\ op.at = "logging" /\ (op.sealed \/ app.signing # Absent)
      \/ op.org = o /\ op.at = "answering" /\ (op.sealed \/ app.signing # Absent)
           /\ org[o].entry \in acked

(* Revocations are numbered, and only a CA that was done has signed.       *)
Numbered ==
  \A o \in Orgs : org[o].status = "revoked" => org[o].revocation \in 1..revoked
SignersDone ==
  sound => \A o \in Orgs : org[o].status # "none" => org[o].signer \in done

(* The CRL in the directory lists what its CA has signed and was revoked.  *)
DirectoryLists ==
  sound /\ listed /\ ~elsewhere /\ at # "listing" =>
    \A o \in Orgs :
      org[o].status = "revoked" /\ org[o].signer = file["ca_key"]
        => org[o].revocation <= file["crl"]

(* A coordinator without a CA faces a directory that has signed nothing:   *)
(* what it revokes is not missing from the list there.                     *)
UnlistedOK ==
  /\ at = "listing" => app.key # Absent
  /\ sound /\ at = "up" /\ app.key = Absent =>
       \A o \in Orgs : org[o].status # "none" => org[o].signer # file["ca_key"]

ListInv == Numbered /\ SignersDone /\ DirectoryLists /\ UnlistedOK /\ RevokedOnList

OwnTypeOK == org \in [Orgs -> Org] /\ op \in Op /\ mishaps \in 0..MaxMishaps

HostInv ==
  /\ AInv /\ CaInv
  /\ OwnTypeOK
  /\ HandlerOK /\ AnswerableOK
  /\ PackageFits
  /\ ListInv

-----------------------------------------------------------------------------
(* Steps of the parts.                                                     *)

LEMMA StepsOfParts ==
  ASSUME [Next]_vars
  PROVE  [AuditNext]_auditVars /\ [CaNext]_caVars
<1>1. CASE Start
  BY <1>1 DEF Start, AuditNext, CaNext
<1>2. CASE Read
  BY <1>2 DEF Read, CaNext
<1>3. CASE StopIdle
  BY <1>3 DEF StopIdle, AuditNext, CaNext
<1>4. CASE Crash
  BY <1>4 DEF Crash, AuditNext, CaNext
<1>5. CASE RunInit
  BY <1>5 DEF RunInit, CaNext
<1>6. CASE \E o \in Orgs : EnrollOrg(o) \/ EnrollWithToken(o) \/ RevokeOrg(o)
  BY <1>6 DEF EnrollOrg, EnrollWithToken, RevokeOrg, CaNext
<1>7. CASE RegenerateCrl
  BY <1>7 DEF RegenerateCrl, CaNext
<1>8. CASE WriteAudit
  BY <1>8 DEF WriteAudit, AuditNext
<1>9. CASE AuditFails
  BY <1>9 DEF AuditFails, AuditNext
<1>10. CASE Answer
  BY <1>10 DEF Answer
<1>11. CASE UNCHANGED vars
  BY <1>11 DEF vars
<1>12. QED
  BY <1>1, <1>2, <1>3, <1>4, <1>5, <1>6, <1>7, <1>8, <1>9, <1>10, <1>11 DEF Next

LEMMA InitOfParts == Init => AuditInit /\ CaInit
BY DEF Init

(* The host implements both of its parts: whatever it does, the audit      *)
(* trail and the CA directory see only what they allow, so what is proved  *)
(* of a part alone holds of the running coordinator.                       *)
THEOREM HostIsParts == Spec => AuditSpec /\ CaSpec
<1>1. [Next]_vars => [AuditNext]_auditVars /\ [CaNext]_caVars
  BY StepsOfParts
<1>2. QED BY <1>1, InitOfParts, PTL DEF Spec, AuditSpec, CaSpec

(* What the histories of the CA do.                                        *)
LEMMA HistoriesGrow ==
  ASSUME CaInv, [CaNext]_caVars
  PROVE  /\ sound' => sound
         /\ listed' => listed
         /\ elsewhere' = elsewhere
         /\ done \subseteq done'
         /\ revoked \in Nat /\ revoked' \in Nat /\ revoked <= revoked'
         /\ done \subseteq Nat
<1>1. revoked \in Nat /\ done \subseteq Nat
  BY CaAssumption DEF CaInv, CaTypeOK
<1>2. /\ sound' => sound
      /\ listed' => listed
      /\ elsewhere' = elsewhere
      /\ done \subseteq done'
      /\ revoked' \in {revoked, revoked + 1}
  <2>1. CASE BeginInit \/ OpenFile \/ InitStops \/ Archive \/ Load \/ LoadFails \/ UNCHANGED caVars
    BY <2>1 DEF BeginInit, OpenFile, InitStops, Archive, Load, LoadFails, caVars
  <2>2. CASE OpenCrl \/ WriteCrl \/ WriteCrlFails
    BY <2>2 DEF OpenCrl, WriteCrl, WriteCrlFails
  <2>3. CASE FillFile
    <3>1. done' \in {done, done \cup {init.run}}
      BY <2>3 DEF FillFile
    <3>2. QED BY <2>3, <3>1 DEF FillFile
  <2>4. CASE StartUp \/ Stop
    <3>1. UNCHANGED <<elsewhere, done, revoked>>
      BY <2>4 DEF StartUp, Stop
    <3>2. sound' => sound
      BY <2>4, Zenon DEF StartUp, Stop
    <3>3. listed' => listed
      BY <2>4, Zenon DEF StartUp, Stop
    <3>4. QED BY <3>1, <3>2, <3>3
  <2>5. CASE Revoke
    BY <2>5 DEF Revoke
  <2>6. QED BY <2>1, <2>2, <2>3, <2>4, <2>5 DEF CaNext
<1>3. QED BY <1>1, <1>2

(* Unless the CRL is being rewritten, the CRL of a CA that was done stays  *)
(* as it is for as long as its CA key is there.                            *)
LEMMA DirectoryKept ==
  ASSUME CaInv, [CaNext]_caVars, at # "listing"
  PROVE  \/ file'["ca_key"] \notin done
         \/ file'["ca_key"] = file["ca_key"] /\ file'["crl"] = file["crl"]
<1>0. /\ done \subseteq Nat /\ Absent = -2 /\ Torn = -1
      /\ file \in [Files -> Content]
  BY CaAssumption DEF CaInv, CaTypeOK, Absent, Torn
<1>1. CASE OpenFile \/ FillFile
  <2>1. init # NoInit /\ file' \in {[file EXCEPT ![NextFile] = Torn],
                                    [file EXCEPT ![NextFile] = IF NextFile = "crl" THEN 0 ELSE init.run]}
    BY <1>1 DEF OpenFile, FillFile
  <2>2. PICK n \in 1..6 : n = init.next
    BY <2>1 DEF CaInv, InitOK
  <2>3. NextFile = Sequence[n] /\ init.run = inits /\ inits \notin done
    BY <2>1, <2>2 DEF NextFile, CaInv, InitOK
  <2>4. CASE n = 1
    <3>1. NextFile = "ca_key"
      BY <2>3, <2>4, FilesAre
    <3>2. file'["ca_key"] \in {Torn, inits}
      BY <1>0, <2>1, <2>3, <3>1, FilesAre
    <3>3. QED BY <1>0, <2>3, <3>2
  <2>5. CASE n # 1
    <3>1. NextFile # "ca_key" /\ file["ca_key"] = inits
      BY <2>1, <2>2, <2>3, <2>5, FilesAre DEF CaInv, InitOK
    <3>2. file'["ca_key"] = inits
      BY <1>0, <2>1, <3>1, FilesAre
    <3>3. QED BY <2>3, <3>2
  <2>6. QED BY <2>4, <2>5
<1>2. CASE Archive
  BY <1>0, <1>2, FilesAre DEF Archive, NoFiles
<1>3. CASE OpenCrl \/ WriteCrl \/ WriteCrlFails
  BY <1>3 DEF OpenCrl, WriteCrl, WriteCrlFails
<1>4. CASE BeginInit \/ InitStops \/ StartUp \/ Load \/ LoadFails \/ Stop \/ Revoke \/ UNCHANGED caVars
  BY <1>4 DEF BeginInit, InitStops, StartUp, Load, LoadFails, Stop, Revoke, caVars
<1>5. QED BY <1>1, <1>2, <1>3, <1>4 DEF CaNext

(* A start that does not fail for the CA's sake: a CA that was done has    *)
(* all its files, but perhaps not the CRL.                                 *)
LEMMA DoneIsReadable ==
  ASSUME CaInv, LoadFails, sound
  PROVE  at = "crl" /\ app.key = file["ca_key"] /\ app.key \in done /\ file["crl"] < 0
<1>0. done \subseteq Nat /\ \A f \in Files : file[f] \in Int
  BY CaAssumption DEF CaInv, CaTypeOK, Content
<1>1. at \in Loading /\ Readable(at) < 0
  BY DEF LoadFails
<1>2. file["ca_key"] \in done /\ file["ca_key"] >= 0
  <2>1. file["ca_key"] \in done
    BY <1>1 DEF CaInv, LoadingOK
  <2>2. file["ca_key"] \in Nat
    BY <1>0, <2>1, Zenon
  <2>3. QED BY <2>1, <2>2
<1>3. \A f \in {"ca_key", "ca_cert", "signing_key", "coordinator_cert"} : Readable(f) = file["ca_key"]
  <2>1. Readable("signing_key") = file["ca_key"] /\ file["ca_cert"] = file["ca_key"]
           /\ file["coordinator_cert"] = file["ca_key"]
    BY <1>2 DEF CaInv, DirectoryOK
  <2>2. \A f \in {"ca_key", "ca_cert", "coordinator_cert"} : Readable(f) = file[f]
    BY DEF Readable
  <2>3. QED BY <2>1, <2>2
<1>4. at \notin {"ca_key", "ca_cert", "signing_key", "coordinator_cert"}
  BY <1>0, <1>1, <1>2, <1>3, FilesAre
<1>5. at = "crl"
  BY <1>1, <1>4 DEF Loading
<1>6. app.key = file["ca_key"] /\ file["crl"] < 0
  BY <1>1, <1>5 DEF CaInv, LoadingOK, Readable
<1>7. QED BY <1>2, <1>5, <1>6

(* The list invariant under every step of the directory that does not      *)
(* revoke.                                                                 *)
LEMMA ListsKept ==
  ASSUME CaInv, CaInv', [CaNext]_caVars, ~Revoke, ListInv, org \in [Orgs -> Org], org' = org
  PROVE  ListInv'
<1>0. /\ sound' => sound
      /\ listed' => listed
      /\ elsewhere' = elsewhere
      /\ done \subseteq done' /\ done \subseteq Nat
      /\ revoked \in Nat /\ revoked' \in Nat /\ revoked <= revoked'
  BY HistoriesGrow
<1>1. /\ \A o \in Orgs : org[o].revocation \in Nat /\ org[o].signer \in Int
      /\ \A f \in Files : file[f] \in Int
      /\ app.key \in Int /\ app.crl \in Int /\ Absent = -2
  BY CaAssumption DEF Org, CaInv, CaTypeOK, Content, Absent
<1>2. Numbered'
  <2>1. SUFFICES ASSUME NEW o \in Orgs, org[o].status = "revoked" PROVE org[o].revocation \in 1..revoked'
    BY DEF Numbered
  <2>2. QED BY <1>0, <1>1, <2>1 DEF ListInv, Numbered
<1>3. SignersDone'
  BY <1>0 DEF ListInv, SignersDone
<1>4. \A o \in Orgs : sound /\ org[o].status # "none" => org[o].signer \in done
  BY DEF ListInv, SignersDone
<1>5. Org \subseteq [status : {"none", "active", "revoked"}, signer : Content, anchor : Content,
                     pub : Content, revocation : Nat, entry : Nat, answered : BOOLEAN]
  BY DEF Org
<1>6. CASE WriteCrl
  <2>1. /\ at = "listing" /\ at' = "up"
        /\ file' = (IF elsewhere THEN file ELSE [file EXCEPT !["crl"] = revoked])
        /\ app' = [app EXCEPT !.crl = revoked] /\ UNCHANGED revoked
    BY <1>6 DEF WriteCrl
  <2>2. app'.key = app.key /\ app'.crl = revoked /\ app.key # Absent
    BY <2>1 DEF CaInv, CaTypeOK, ListInv, UnlistedOK
  <2>3. ~elsewhere => file'["crl"] = revoked
    BY <2>1, FilesAre DEF CaInv, CaTypeOK
  <2>4. \A o \in Orgs : org[o].status = "revoked" => org[o].revocation <= revoked
    BY <1>0, <1>1 DEF ListInv, Numbered
  <2>5. DirectoryLists'
    BY <1>0, <2>3, <2>4 DEF DirectoryLists
  <2>6. UnlistedOK' /\ RevokedOnList'
    BY <2>1, <2>2, <2>4 DEF UnlistedOK, RevokedOnList
  <2>7. QED BY <1>2, <1>3, <2>5, <2>6 DEF ListInv
<1>7. CASE WriteCrlFails \/ Stop
  <2>1. (at = "listing" => ~listed') /\ at' \in {"up", "down"}
           /\ (WriteCrlFails => at = "listing" /\ app' = app) /\ (at' = "up" => WriteCrlFails) /\ file' = file
    BY <1>7 DEF WriteCrlFails, Stop
  <2>2. DirectoryLists' /\ RevokedOnList'
    BY <1>0, <2>1 DEF DirectoryLists, RevokedOnList, ListInv
  <2>3. UnlistedOK'
    BY <2>1 DEF UnlistedOK, ListInv
  <2>4. QED BY <1>2, <1>3, <2>2, <2>3 DEF ListInv
<1>8. ASSUME at # "listing" PROVE DirectoryLists'
  <2>1. SUFFICES ASSUME sound', listed', ~elsewhere', NEW o \in Orgs, org[o].status = "revoked",
                        org[o].signer = file'["ca_key"]
                 PROVE  org[o].revocation <= file'["crl"]
    BY DEF DirectoryLists
  <2>2. org[o].signer \in done
    BY <1>0, <1>4, <2>1
  <2>3. file'["ca_key"] = file["ca_key"] /\ file'["crl"] = file["crl"]
    BY <1>8, <2>1, <2>2, DirectoryKept
  <2>4. QED BY <1>0, <1>8, <2>1, <2>3 DEF ListInv, DirectoryLists
<1>9. CASE StartUp
  <2>1. at = "down" /\ app' = app /\ file' = file
           /\ at' = (IF file["ca_key"] = Absent THEN "up" ELSE "ca_key")
    BY <1>9 DEF StartUp
  <2>2. app.key = Absent
    BY <2>1 DEF CaInv, LoadingOK, NotLoaded
  <2>3. RevokedOnList'
    BY <2>1, <2>2 DEF RevokedOnList
  <2>4. at' # "listing" /\ (at' = "up" => file'["ca_key"] \notin done)
    BY <1>0, <1>1, <2>1
  <2>5. UnlistedOK'
    BY <1>0, <1>4, <2>4 DEF UnlistedOK
  <2>6. QED BY <1>2, <1>3, <1>8, <2>1, <2>3, <2>5 DEF ListInv
<1>10. CASE Load
  <2>1. at \in Loading /\ at' = After(at) /\ app' = Assigned(at) /\ file' = file
           /\ UNCHANGED <<sound, listed, elsewhere>>
    BY <1>10 DEF Load
  <2>2. at # "listing" /\ at' # "listing" /\ (at' = "up" => at = "crl")
    BY <2>1 DEF Loading, After
  <2>3. at = "crl" => /\ app'.key = file["ca_key"] /\ app'.crl = file["crl"]
                      /\ app'.key # Absent
    BY <1>1, <2>1 DEF CaInv, CaTypeOK, LoadingOK, Loading, Assigned
  <2>4. UnlistedOK'
    BY <2>2, <2>3 DEF UnlistedOK
  <2>5. RevokedOnList'
    BY <2>1, <2>2, <2>3 DEF RevokedOnList, ListInv, DirectoryLists
  <2>6. QED BY <1>2, <1>3, <1>8, <2>2, <2>4, <2>5 DEF ListInv
<1>11. CASE LoadFails
  <2>1. at \in Loading /\ at' = "up" /\ app' = app /\ file' = file
           /\ UNCHANGED <<sound, listed, elsewhere>>
    BY <1>11 DEF LoadFails
  <2>2. sound => at = "crl" /\ app.key = file["ca_key"] /\ app.key \in done /\ file["crl"] < 0
    BY <1>11, DoneIsReadable
  <2>3. at # "listing"
    BY <2>1 DEF Loading
  <2>4. UnlistedOK'
    BY <1>0, <1>1, <2>1, <2>2 DEF UnlistedOK
  <2>5. RevokedOnList'
    <3>1. SUFFICES ASSUME sound, listed, ~elsewhere, NEW o \in Orgs, org[o].status = "revoked",
                          org[o].signer = app.key
                   PROVE  FALSE
      BY <2>1 DEF RevokedOnList
    <3>2. org[o].revocation <= file["crl"] /\ file["crl"] < 0
      BY <2>2, <2>3, <3>1 DEF ListInv, DirectoryLists
    <3>3. org[o].revocation \in Nat /\ file["crl"] \in Int
      BY <1>1, FilesAre
    <3>4. QED BY <3>2, <3>3
  <2>6. QED BY <1>2, <1>3, <1>8, <2>3, <2>4, <2>5 DEF ListInv
<1>12. CASE BeginInit \/ OpenFile \/ FillFile \/ InitStops \/ Archive \/ OpenCrl \/ UNCHANGED caVars
  <2>1. at' = at /\ app' = app /\ sound' = sound /\ listed' = listed
    BY <1>12 DEF BeginInit, OpenFile, FillFile, InitStops, Archive, OpenCrl, caVars
  <2>2. RevokedOnList'
    BY <1>0, <2>1 DEF RevokedOnList, ListInv
  <2>3. DirectoryLists'
    BY <1>8, <2>1 DEF DirectoryLists
  <2>4. UnlistedOK'
    <3>1. at = "up" => file'["ca_key"] \notin done \/ file'["ca_key"] = file["ca_key"]
      BY DirectoryKept
    <3>2. QED BY <1>4, <2>1, <3>1 DEF UnlistedOK, ListInv
  <2>5. QED BY <1>2, <1>3, <2>2, <2>3, <2>4 DEF ListInv
<1>13. QED
  BY <1>6, <1>7, <1>9, <1>10, <1>11, <1>12 DEF CaNext

-----------------------------------------------------------------------------
(* The invariant of the host.                                              *)

LEMMA HostInvInit == Init => HostInv
<1> SUFFICES ASSUME Init PROVE HostInv
  OBVIOUS
<1>1. AInv /\ CaInv
  BY InitOfParts, AInvInit, CaInvInit
<1>2. org = [o \in Orgs |-> NoOrg] /\ op = Idle /\ mishaps = 0
  BY DEF Init
<1>3. NoOrg \in Org
  BY CaAssumption DEF NoOrg, Org, Content, Absent
<1>4. OwnTypeOK
  BY <1>2, <1>3, HostAssumption DEF OwnTypeOK, Op, Idle
<1>5. \A o \in Orgs : org[o].status = "none"
  BY <1>2 DEF NoOrg
<1>6. HandlerOK /\ AnswerableOK /\ PackageFits
  BY <1>2, <1>5 DEF HandlerOK, AnswerableOK, PackageFits, Idle
<1>7. at = "down"
  BY DEF Init, CaInit
<1>8. Numbered /\ SignersDone /\ DirectoryLists /\ UnlistedOK /\ RevokedOnList
  BY <1>5, <1>7 DEF Numbered, SignersDone, DirectoryLists, UnlistedOK, RevokedOnList
<1>9. QED BY <1>1, <1>4, <1>6, <1>8 DEF HostInv, ListInv

(* Steps that change no organisation.                                      *)
LEMMA QuietStep ==
  ASSUME HostInv, CaInv', [CaNext]_caVars, revoked' = revoked, org' = org
  PROVE  PackageFits' /\ ListInv'
<1>1. CaInv /\ ListInv /\ org \in [Orgs -> Org] /\ revoked \in Nat
  BY HistoriesGrow DEF HostInv, OwnTypeOK
<1>2. ~Revoke
  BY <1>1 DEF Revoke
<1>3. ListInv'
  BY <1>1, <1>2, ListsKept
<1>4. PackageFits'
  BY DEF HostInv, PackageFits
<1>5. QED BY <1>3, <1>4

(* Steps of the process and of init_ca, and the rewriting of the CRL.      *)
LEMMA HandlerKept ==
  ASSUME HostInv, [CaNext]_caVars,
         UNCHANGED <<org, op, mishaps>>, acked \subseteq acked',
         op.at = "idle" \/ (at' \in {"up", "listing"} /\ app'.signing = app.signing)
  PROVE  OwnTypeOK' /\ HandlerOK' /\ AnswerableOK'
<1>1. sound' => sound
  BY HistoriesGrow DEF HostInv
<1>2. HandlerOK'
  BY DEF HostInv, HandlerOK
<1>3. AnswerableOK'
  <2>1. SUFFICES ASSUME mishaps = 0, sound, NEW o \in Orgs, org[o].status # "none"
                 PROVE  \/ org[o].answered /\ org[o].entry \in acked
                        \/ op.org = o /\ op.at = "logging" /\ (op.sealed \/ app'.signing # Absent)
                        \/ op.org = o /\ op.at = "answering" /\ (op.sealed \/ app'.signing # Absent)
                             /\ org[o].entry \in acked
    BY <1>1 DEF AnswerableOK
  <2>2. \/ org[o].answered /\ org[o].entry \in acked
        \/ op.org = o /\ op.at = "logging" /\ (op.sealed \/ app.signing # Absent)
        \/ op.org = o /\ op.at = "answering" /\ (op.sealed \/ app.signing # Absent)
             /\ org[o].entry \in acked
    BY <2>1 DEF HostInv, AnswerableOK
  <2>3. QED BY <2>2
<1>4. QED BY <1>2, <1>3 DEF HostInv, OwnTypeOK

(* When no handler is under way every change is answered and in the log.   *)
LEMMA IdleAnswered ==
  ASSUME HostInv, op.at = "idle", mishaps = 0, sound
  PROVE  \A o \in Orgs : org[o].status # "none" => org[o].answered /\ org[o].entry \in acked
BY DEF HostInv, AnswerableOK

LEMMA EnrolStep ==
  ASSUME HostInv, NEW o \in Orgs, NEW sealed \in BOOLEAN,
         op.at = "idle", at = "up", Enrolled(o), sealed => app.signing # Absent,
         op' = [at |-> "logging", org |-> o, sealed |-> sealed],
         UNCHANGED <<auditVars, caVars, mishaps>>
  PROVE  OwnTypeOK' /\ HandlerOK' /\ AnswerableOK' /\ PackageFits' /\ ListInv'
<1> DEFINE new == [NoOrg EXCEPT !.status = "active", !.signer = app.key, !.anchor = app.cert,
                                !.pub = app.signing]
<1>1. org[o].status = "none" /\ app.key # Absent /\ org' = [org EXCEPT ![o] = new]
  BY DEF Enrolled
<1>2. /\ new \in Org /\ new.status = "active" /\ new.signer = app.key /\ new.anchor = app.cert
      /\ new.pub = app.signing /\ ~new.answered
  BY CaAssumption DEF NoOrg, Org, HostInv, CaInv, CaTypeOK, Content, Absent
<1> HIDE DEF new
<1>3. org \in [Orgs -> Org] /\ op \in Op
  BY DEF HostInv, OwnTypeOK
<1>4. org'[o] = new /\ \A p \in Orgs \ {o} : org'[p] = org[p]
  BY <1>1, <1>3
<1>5. /\ UNCHANGED <<file, init, inits, done, at, hand, app, elsewhere, revoked, sound, listed>>
      /\ UNCHANGED <<acked, mishaps>>
  BY DEF auditVars, caVars
<1>6. OwnTypeOK'
  BY <1>1, <1>2, <1>3, <1>5 DEF OwnTypeOK, Op, HostInv
<1>7. HandlerOK'
  BY <1>2, <1>4, <1>5 DEF HandlerOK
<1>8. AnswerableOK'
  <2>1. sound => app.signing # Absent
    BY <1>1 DEF HostInv, CaInv, LoadedWhole
  <2>2. op'.org = o /\ op'.at = "logging"
    OBVIOUS
  <2>3. QED BY <1>4, <1>5, <2>1, <2>2, IdleAnswered DEF AnswerableOK
<1>9. PackageFits'
  BY <1>2, <1>4 DEF HostInv, CaInv, LoadedFits, PackageFits
<1>10. ListInv'
  <2>1. Numbered'
    BY <1>2, <1>4, <1>5 DEF HostInv, ListInv, Numbered
  <2>2. SignersDone'
    BY <1>1, <1>2, <1>4, <1>5 DEF HostInv, ListInv, SignersDone, CaInv, LoadingOK
  <2>3. DirectoryLists' /\ RevokedOnList'
    BY <1>2, <1>4, <1>5 DEF HostInv, ListInv, DirectoryLists, RevokedOnList
  <2>4. UnlistedOK'
    BY <1>1, <1>5 DEF HostInv, ListInv, UnlistedOK
  <2>5. QED BY <2>1, <2>2, <2>3, <2>4 DEF ListInv
<1>11. QED BY <1>6, <1>7, <1>8, <1>9, <1>10

LEMMA RevokeStep ==
  ASSUME HostInv, NEW o \in Orgs, RevokeOrg(o)
  PROVE  OwnTypeOK' /\ HandlerOK' /\ AnswerableOK' /\ PackageFits' /\ ListInv'
<1>1. /\ op.at = "idle" /\ at = "up" /\ org[o].status = "active" /\ revoked' = revoked + 1
      /\ at' = (IF app.key = Absent THEN "up" ELSE "listing")
      /\ UNCHANGED <<file, done, app, elsewhere, sound, listed, acked, mishaps>>
      /\ op' = [at |-> "logging", org |-> o, sealed |-> TRUE]
      /\ org' = [org EXCEPT ![o].status = "revoked", ![o].revocation = revoked + 1,
                            ![o].answered = FALSE, ![o].entry = 0]
  BY DEF RevokeOrg, Revoke, auditVars
<1>2. org \in [Orgs -> Org] /\ revoked \in Nat /\ op \in Op
  BY CaAssumption DEF HostInv, OwnTypeOK, CaInv, CaTypeOK
<1> DEFINE new == [org[o] EXCEPT !.status = "revoked", !.revocation = revoked + 1,
                                 !.answered = FALSE, !.entry = 0]
<1>3. org' = [org EXCEPT ![o] = new]
  BY <1>1, <1>2
<1>4. /\ new \in Org /\ new.status = "revoked" /\ new.revocation = revoked + 1 /\ ~new.answered
      /\ new.signer = org[o].signer /\ new.anchor = org[o].anchor /\ new.pub = org[o].pub
  <2>1. org[o] \in Org /\ revoked + 1 \in Nat
    BY <1>2
  <2>2. PICK r \in Org : r = org[o]
    BY <2>1
  <2>3. new = [r EXCEPT !.status = "revoked", !.revocation = revoked + 1, !.answered = FALSE, !.entry = 0]
    BY <2>2
  <2>4. QED BY <2>1, <2>2, <2>3 DEF Org
<1> HIDE DEF new
<1>5. org'[o] = new /\ \A p \in Orgs \ {o} : org'[p] = org[p]
  BY <1>2, <1>3
<1>6. OwnTypeOK'
  <2>1. org' \in [Orgs -> Org]
    BY <1>2, <1>3, <1>4
  <2>2. op' \in Op
    BY <1>1 DEF Op
  <2>3. QED BY <1>1, <2>1, <2>2 DEF OwnTypeOK, HostInv
<1>7. HandlerOK'
  <2>1. op'.org = o /\ at' \in {"up", "listing"}
    BY <1>1
  <2>2. QED BY <1>4, <1>5, <2>1 DEF HandlerOK
<1>8. AnswerableOK'
  <2>1. op'.org = o /\ op'.at = "logging" /\ op'.sealed
    BY <1>1
  <2>2. op.at = "idle" /\ UNCHANGED <<acked, mishaps, sound, app>>
    BY <1>1
  <2>3. QED BY <1>5, <2>1, <2>2, IdleAnswered DEF AnswerableOK
<1>9. PackageFits'
  BY <1>1, <1>4, <1>5 DEF HostInv, PackageFits
<1>10. Numbered'
  <2>1. SUFFICES ASSUME NEW p \in Orgs, org'[p].status = "revoked" PROVE org'[p].revocation \in 1..(revoked + 1)
    BY <1>1 DEF Numbered
  <2>2. CASE p = o
    BY <1>2, <1>4, <1>5, <2>2
  <2>3. CASE p # o
    <3>1. org[p].revocation \in 1..revoked /\ org'[p] = org[p]
      BY <1>5, <2>1, <2>3 DEF HostInv, ListInv, Numbered
    <3>2. QED BY <1>2, <3>1
  <2>4. QED BY <2>2, <2>3
<1>11. SignersDone'
  <2>1. org[o].status # "none" /\ UNCHANGED <<sound, done>>
    BY <1>1
  <2>2. QED BY <1>4, <1>5, <2>1 DEF HostInv, ListInv, SignersDone
<1>12. CASE app.key # Absent
  <2>1. at' = "listing" /\ app' = app
    BY <1>1, <1>12
  <2>2. DirectoryLists' /\ RevokedOnList'
    BY <2>1 DEF DirectoryLists, RevokedOnList
  <2>3. UnlistedOK'
    BY <1>12, <2>1 DEF UnlistedOK
  <2>4. QED BY <1>6, <1>7, <1>8, <1>9, <1>10, <1>11, <2>2, <2>3 DEF ListInv
<1>13. CASE app.key = Absent
  <2>1. sound => \A p \in Orgs : org'[p].status # "none" => org'[p].signer # file["ca_key"]
    BY <1>1, <1>4, <1>5, <1>13 DEF HostInv, ListInv, UnlistedOK
  <2>2. UnlistedOK' /\ DirectoryLists' /\ RevokedOnList'
    BY <1>1, <1>13, <2>1 DEF UnlistedOK, DirectoryLists, RevokedOnList
  <2>3. QED BY <1>6, <1>7, <1>8, <1>9, <1>10, <1>11, <2>2 DEF ListInv
<1>14. QED BY <1>12, <1>13

(* Steps that change only the log entry of an organisation or whether its  *)
(* change was answered.                                                    *)
LEMMA FieldsKept ==
  ASSUME HostInv, UNCHANGED caVars,
         \A o \in Orgs :
           /\ org'[o].status = org[o].status /\ org'[o].signer = org[o].signer
           /\ org'[o].anchor = org[o].anchor /\ org'[o].pub = org[o].pub
           /\ org'[o].revocation = org[o].revocation
  PROVE  PackageFits' /\ ListInv'
<1>1. UNCHANGED <<file, done, at, app, elsewhere, revoked, sound, listed>>
  BY DEF caVars
<1>2. PackageFits'
  BY DEF HostInv, PackageFits
<1>3. Numbered' /\ SignersDone'
  BY <1>1 DEF HostInv, ListInv, Numbered, SignersDone
<1>4. DirectoryLists' /\ UnlistedOK' /\ RevokedOnList'
  BY <1>1 DEF HostInv, ListInv, DirectoryLists, UnlistedOK, RevokedOnList
<1>5. QED BY <1>2, <1>3, <1>4 DEF ListInv

LEMMA WriteAuditStep ==
  ASSUME HostInv, WriteAudit
  PROVE  OwnTypeOK' /\ HandlerOK' /\ AnswerableOK' /\ PackageFits' /\ ListInv'
<1>1. /\ op.at = "logging" /\ at = "up" /\ acked' = acked \cup {calls + 1}
      /\ op' = [op EXCEPT !.at = "answering"]
      /\ org' = [org EXCEPT ![op.org].entry = calls + 1]
      /\ UNCHANGED <<caVars, mishaps>> /\ UNCHANGED <<at, app, sound>>
  BY DEF WriteAudit, Log, caVars
<1>2. org \in [Orgs -> Org] /\ op \in Op /\ op.org \in Orgs /\ calls + 1 \in Nat
  BY <1>1 DEF HostInv, OwnTypeOK, HandlerOK, AInv, AuditTypeOK
<1>3. PICK o \in Orgs : o = op.org
  BY <1>2
<1>4. PICK r \in Org : r = org[o]
  BY <1>2
<1> DEFINE new == [r EXCEPT !.entry = calls + 1]
<1>5. org' = [org EXCEPT ![o] = new]
  BY <1>1, <1>2, <1>3, <1>4
<1>6. /\ new \in Org /\ new.status = r.status /\ new.signer = r.signer /\ new.anchor = r.anchor
      /\ new.pub = r.pub /\ new.revocation = r.revocation /\ new.entry = calls + 1
      /\ new.answered = r.answered
  BY <1>2 DEF Org
<1> HIDE DEF new
<1>7. org'[o] = new /\ \A p \in Orgs \ {o} : org'[p] = org[p]
  BY <1>2, <1>5
<1>8. op' \in Op /\ op'.at = "answering" /\ op'.org = o /\ op'.sealed = op.sealed
  BY <1>1, <1>2, <1>3 DEF Op
<1>9. OwnTypeOK'
  <2>1. org' \in [Orgs -> Org]
    BY <1>2, <1>5, <1>6
  <2>2. QED BY <1>1, <1>8, <2>1 DEF HostInv, OwnTypeOK
<1>10. HandlerOK'
  BY <1>1, <1>3, <1>4, <1>6, <1>7, <1>8 DEF HostInv, HandlerOK
<1>11. AnswerableOK'
  <2>1. SUFFICES ASSUME mishaps = 0, sound, NEW p \in Orgs, org'[p].status # "none"
                 PROVE  \/ org'[p].answered /\ org'[p].entry \in acked'
                        \/ op'.org = p /\ op'.at = "answering" /\ (op'.sealed \/ app'.signing # Absent)
                             /\ org'[p].entry \in acked'
    BY <1>1 DEF AnswerableOK
  <2>2. org[p].status # "none" /\ acked \subseteq acked' /\ (p = o => org'[p].entry \in acked')
           /\ org'[p].answered = org[p].answered
    BY <1>1, <1>4, <1>6, <1>7, <2>1 DEF Org
  <2>3. \/ org[p].answered /\ org[p].entry \in acked
        \/ op.org = p /\ (op.sealed \/ app.signing # Absent)
    BY <2>1, <2>2 DEF HostInv, AnswerableOK
  <2>4. CASE p = o
    BY <1>1, <1>8, <2>2, <2>3, <2>4
  <2>5. CASE p # o
    BY <1>3, <1>7, <2>2, <2>3, <2>5
  <2>6. QED BY <2>4, <2>5
<1>12. PackageFits' /\ ListInv'
  BY <1>1, <1>4, <1>6, <1>7, FieldsKept
<1>13. QED BY <1>9, <1>10, <1>11, <1>12

LEMMA AnswerStep ==
  ASSUME HostInv, Answer
  PROVE  OwnTypeOK' /\ HandlerOK' /\ AnswerableOK' /\ PackageFits' /\ ListInv'
<1>1. /\ op.at = "answering" /\ op' = Idle
      /\ org' = [org EXCEPT ![op.org].answered = op.sealed \/ app.signing # Absent]
      /\ UNCHANGED <<caVars, mishaps>> /\ UNCHANGED <<acked, app, sound>>
  BY DEF Answer, caVars, auditVars
<1>2. org \in [Orgs -> Org] /\ op \in Op /\ op.org \in Orgs
  BY <1>1 DEF HostInv, OwnTypeOK, HandlerOK
<1>3. PICK o \in Orgs : o = op.org
  BY <1>2
<1>4. PICK r \in Org : r = org[o]
  BY <1>2
<1>5. PICK got \in BOOLEAN : got = (op.sealed \/ app.signing # Absent)
  OBVIOUS
<1> DEFINE new == [r EXCEPT !.answered = got]
<1>6. org' = [org EXCEPT ![o] = new]
  BY <1>1, <1>2, <1>3, <1>4, <1>5
<1>7. /\ new \in Org /\ new.status = r.status /\ new.signer = r.signer /\ new.anchor = r.anchor
      /\ new.pub = r.pub /\ new.revocation = r.revocation /\ new.entry = r.entry /\ new.answered = got
  BY DEF Org
<1> HIDE DEF new
<1>8. org'[o] = new /\ \A p \in Orgs \ {o} : org'[p] = org[p]
  BY <1>2, <1>6
<1>9. OwnTypeOK' /\ HandlerOK'
  <2>1. org' \in [Orgs -> Org]
    BY <1>2, <1>6, <1>7
  <2>2. QED BY <1>1, <2>1 DEF HostInv, OwnTypeOK, HandlerOK, Op, Idle
<1>10. AnswerableOK'
  <2>1. SUFFICES ASSUME mishaps = 0, sound, NEW p \in Orgs, org'[p].status # "none"
                 PROVE  org'[p].answered /\ org'[p].entry \in acked
    BY <1>1 DEF AnswerableOK
  <2>2. org[p].status # "none" /\ org'[p].entry = org[p].entry
    BY <1>4, <1>7, <1>8, <2>1
  <2>3. \/ org[p].answered /\ org[p].entry \in acked
        \/ op.org = p /\ (op.sealed \/ app.signing # Absent) /\ org[p].entry \in acked
    BY <1>1, <2>1, <2>2 DEF HostInv, AnswerableOK
  <2>4. CASE p # o
    BY <1>3, <1>8, <2>2, <2>3, <2>4
  <2>5. CASE p = o
    BY <1>1, <1>3, <1>5, <1>7, <1>8, <2>2, <2>3, <2>5 DEF HostInv, HandlerOK
  <2>6. QED BY <2>4, <2>5
<1>11. PackageFits' /\ ListInv'
  BY <1>1, <1>4, <1>7, <1>8, FieldsKept
<1>12. QED BY <1>9, <1>10, <1>11

(* After a mishap nothing is said about answers.                           *)
LEMMA MishapStep ==
  ASSUME HostInv, CaInv', [CaNext]_caVars, revoked' = revoked, org' = org, op' = Idle, Mishap
  PROVE  OwnTypeOK' /\ HandlerOK' /\ AnswerableOK' /\ PackageFits' /\ ListInv'
<1>1. mishaps \in 0..MaxMishaps /\ mishaps < MaxMishaps /\ mishaps' = mishaps + 1
  BY DEF HostInv, OwnTypeOK, Mishap
<1>2. mishaps' \in 0..MaxMishaps /\ mishaps' # 0
  BY <1>1, HostAssumption
<1>3. OwnTypeOK' /\ HandlerOK' /\ AnswerableOK'
  BY <1>2 DEF HostInv, OwnTypeOK, HandlerOK, AnswerableOK, Op, Idle
<1>4. QED BY <1>3, QuietStep

LEMMA HostInvStep == HostInv /\ [Next]_vars => HostInv'
<1> SUFFICES ASSUME HostInv, [Next]_vars PROVE HostInv'
  OBVIOUS
<1>1. [AuditNext]_auditVars /\ [CaNext]_caVars
  BY StepsOfParts
<1>2. AInv' /\ CaInv'
  BY <1>1, AInvStep, CaInvStep DEF HostInv
<1>3. SUFFICES OwnTypeOK' /\ HandlerOK' /\ AnswerableOK' /\ PackageFits' /\ ListInv'
  BY <1>2 DEF HostInv
<1>4. op.at \in {"idle", "logging", "answering"} /\ (op.at # "idle" => at \in {"up", "listing"})
  BY DEF HostInv, OwnTypeOK, Op, HandlerOK
<1>5. CASE Start
  <2>1. UNCHANGED <<org, op, mishaps, revoked, acked>> /\ at = "down"
    BY <1>5 DEF Start, StartUp, OpenTrail, hostVars
  <2>2. QED BY <1>1, <1>2, <1>4, <2>1, QuietStep, HandlerKept
<1>6. CASE Read
  <2>1. UNCHANGED <<org, op, mishaps, revoked, acked>> /\ at \in Loading
    BY <1>6 DEF Read, Load, LoadFails, hostVars, auditVars
  <2>2. op.at = "idle"
    BY <1>4, <2>1 DEF Loading
  <2>3. QED BY <1>1, <1>2, <2>1, <2>2, QuietStep, HandlerKept
<1>7. CASE StopIdle
  <2>1. UNCHANGED <<org, op, mishaps, revoked, acked>> /\ op.at = "idle"
    BY <1>7 DEF StopIdle, Stop, CloseTrail, hostVars
  <2>2. QED BY <1>1, <1>2, <2>1, QuietStep, HandlerKept
<1>8. CASE Crash
  <2>1. revoked' = revoked /\ org' = org /\ op' = Idle /\ Mishap
    BY <1>8 DEF Crash, Stop
  <2>2. QED BY <1>1, <1>2, <2>1, MishapStep
<1>9. CASE RunInit
  <2>1. UNCHANGED <<org, op, mishaps, revoked, acked, at, app>>
    BY <1>9 DEF RunInit, BeginInit, OpenFile, FillFile, InitStops, Archive, hostVars, auditVars
  <2>2. QED BY <1>1, <1>2, <1>4, <2>1, QuietStep, HandlerKept
<1>10. CASE \E o \in Orgs : EnrollOrg(o) \/ EnrollWithToken(o) \/ RevokeOrg(o)
  <2>1. PICK o \in Orgs : EnrollOrg(o) \/ EnrollWithToken(o) \/ RevokeOrg(o)
    BY <1>10
  <2>2. CASE EnrollOrg(o)
    <3>1. op.at = "idle" /\ at = "up" /\ Enrolled(o) /\ UNCHANGED <<auditVars, caVars, mishaps>>
             /\ op' = [at |-> "logging", org |-> o, sealed |-> FALSE]
      BY <2>2 DEF EnrollOrg
    <3>2. QED BY <3>1, EnrolStep
  <2>3. CASE EnrollWithToken(o)
    <3>1. op.at = "idle" /\ at = "up" /\ Enrolled(o) /\ UNCHANGED <<auditVars, caVars, mishaps>>
             /\ op' = [at |-> "logging", org |-> o, sealed |-> TRUE] /\ app.signing # Absent
      BY <2>3 DEF EnrollWithToken
    <3>2. QED BY <3>1, EnrolStep
  <2>4. CASE RevokeOrg(o)
    BY <2>4, RevokeStep
  <2>5. QED BY <2>1, <2>2, <2>3, <2>4
<1>11. CASE RegenerateCrl
  <2>1. UNCHANGED <<org, op, mishaps, revoked, acked>> /\ at' \in {"up", "listing"}
    BY <1>11 DEF RegenerateCrl, OpenCrl, WriteCrl, WriteCrlFails, hostVars, auditVars
  <2>2. app'.signing = app.signing
    <3>1. app \in [key : Content, cert : Content, signing : Content, crl : Content]
      BY DEF HostInv, CaInv, CaTypeOK
    <3>2. app' \in {app, [app EXCEPT !.crl = revoked]}
      BY <1>11 DEF RegenerateCrl, OpenCrl, WriteCrl, WriteCrlFails
    <3>3. QED BY <3>1, <3>2
  <2>3. QED BY <1>1, <1>2, <2>1, <2>2, QuietStep, HandlerKept
<1>12. CASE WriteAudit
  BY <1>12, WriteAuditStep
<1>13. CASE AuditFails
  <2>1. revoked' = revoked /\ org' = org /\ op' = Idle /\ Mishap
    BY <1>13 DEF AuditFails, caVars
  <2>2. QED BY <1>1, <1>2, <2>1, MishapStep
<1>14. CASE Answer
  BY <1>14, AnswerStep
<1>15. CASE UNCHANGED vars
  <2>1. UNCHANGED <<org, op, mishaps, revoked, acked, at, app>>
    BY <1>15 DEF vars, hostVars, auditVars, caVars
  <2>2. QED BY <1>1, <1>2, <1>4, <2>1, QuietStep, HandlerKept
<1>16. QED
  BY <1>5, <1>6, <1>7, <1>8, <1>9, <1>10, <1>11, <1>12, <1>13, <1>14, <1>15 DEF Next

LEMMA HostInvAlways == Spec => []HostInv
BY HostInvInit, HostInvStep, PTL DEF Spec

-----------------------------------------------------------------------------

(* The host keeps the types of its parts and its own.                      *)
THEOREM HostTypes == Spec => []HostTypeOK
<1>1. HostInv => HostTypeOK
  BY DEF HostInv, AInv, CaInv, OwnTypeOK, HostTypeOK
<1>2. QED BY <1>1, HostInvAlways, PTL

(* The host uses the audit trail as its specification says, so what is     *)
(* acknowledged in the host is recorded, in order.                         *)
THEOREM HostAcksRecorded == Spec => []AckedRecorded
BY HostIsParts, AcksAreRecorded, PTL

(* ... and its chain breaks at rows that were taken along, nowhere else.   *)
THEOREM HostChainBreaks == Spec => []ChainBreaksAtStrays
BY HostIsParts, ChainBreaks, PTL

(* An organisation is never given a certificate, a CA certificate and a    *)
(* coordinator's key of different CAs.                                     *)
THEOREM PackagesFit == Spec => []PackageFits
<1>1. HostInv => PackageFits
  BY DEF HostInv
<1>2. QED BY <1>1, HostInvAlways, PTL

(* What is committed is logged and answered, if nothing stopped it and the *)
(* coordinator was only started on CAs that were done.                     *)
THEOREM CommitsAreAnswered == Spec => []CommittedIsAnswered
<1>1. HostInv => CommittedIsAnswered
  <2>1. SUFFICES ASSUME HostInv, op.at = "idle", mishaps = 0, sound, NEW o \in Orgs, org[o].status # "none"
                 PROVE  org[o].answered /\ Recorded(o)
    BY DEF CommittedIsAnswered
  <2>2. org[o].answered /\ org[o].entry \in acked
    BY <2>1, IdleAnswered
  <2>3. QED BY <2>1, <2>2 DEF HostInv, AInv, TableOK, AckedRecorded, Recorded
<1>2. QED BY <1>1, HostInvAlways, PTL

(* A revoked certificate is on the list that is loaded together with the   *)
(* CA that signed it.                                                      *)
THEOREM RevokedAreListed == Spec => []RevokedOnList
<1>1. HostInv => RevokedOnList
  BY DEF HostInv, ListInv
<1>2. QED BY <1>1, HostInvAlways, PTL
=============================================================================
