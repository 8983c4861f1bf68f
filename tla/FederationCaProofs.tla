------------------------ MODULE FederationCaProofs ------------------------
(***************************************************************************)
(* Proofs about FederationCa, for any number of runs of init_ca, restarts  *)
(* and rotations.                                                          *)
(***************************************************************************)
EXTENDS FederationCa, TLAPS

(* A run of init_ca has written what comes before the file it is at, and   *)
(* is not done yet.                                                        *)
InitOK ==
  init # NoInit =>
    /\ init.next \in 1..6 /\ init.run = inits /\ inits \in 1..MaxInits
    /\ inits \notin done
    /\ init.next = 1 => file["ca_key"] < 0
    /\ init.next > 1 => file["ca_key"] = inits
    /\ init.next > 2 => file["ca_cert"] = inits
    /\ init.next > 4 => file["coordinator_cert"] = inits
    /\ init.next > 5 => file["signing_key"] = inits

(* A directory with a CA key has files of one CA only, and the files of a  *)
(* CA that is done are all there; one without has none that is looked at.  *)
DirectoryOK ==
  /\ \A f \in Files \ {"ca_key", "crl"} :
       IF file["ca_key"] < 0 THEN file[f] = Absent
                             ELSE file[f] \in {Absent, Torn, file["ca_key"]}
  /\ file["ca_key"] \in done =>
       /\ file["ca_cert"] = file["ca_key"]
       /\ file["coordinator_cert"] = file["ca_key"]
       /\ Readable("signing_key") = file["ca_key"]

(* While a coordinator reads the files, the CA key stays what it was.      *)
LoadingOK ==
  /\ at \in {"down", "ca_key", "ca_cert"} => app = NotLoaded
  /\ at \in Loading \ {"ca_key"} => file["ca_key"] >= 0
  /\ at \in {"ca_cert", "coordinator_cert"} => hand = file["ca_key"]
  /\ at \in {"signing_key", "coordinator_cert", "crl"} => app.key = file["ca_key"]
  /\ at = "crl" => app.signing = app.key
  /\ sound /\ at \in Loading => file["ca_key"] \in done
  /\ sound => app.key \in done \cup {Absent}

CaInv == CaTypeOK /\ InitOK /\ DirectoryOK /\ LoadingOK /\ LoadedFits /\ LoadedWhole

-----------------------------------------------------------------------------

LEMMA FilesAre ==
  /\ Files = {"ca_key", "ca_cert", "coordinator_key", "coordinator_cert", "signing_key", "crl"}
  /\ Sequence[1] = "ca_key" /\ Sequence[2] = "ca_cert" /\ Sequence[3] = "coordinator_key"
  /\ Sequence[4] = "coordinator_cert" /\ Sequence[5] = "signing_key" /\ Sequence[6] = "crl"
<1>1. /\ Sequence[1] = "ca_key" /\ Sequence[2] = "ca_cert" /\ Sequence[3] = "coordinator_key"
      /\ Sequence[4] = "coordinator_cert" /\ Sequence[5] = "signing_key" /\ Sequence[6] = "crl"
  BY DEF Sequence
<1>2. 1..6 = {1, 2, 3, 4, 5, 6}
  OBVIOUS
<1>3. QED BY <1>1, <1>2 DEF Files

LEMMA CaInvInit == CaInit => CaInv
<1> SUFFICES ASSUME CaInit PROVE CaInv
  OBVIOUS
<1>1. CaTypeOK
  <2>1. Absent \in Content /\ 0 \in Content
    BY CaAssumption DEF Absent, Content
  <2>2. file \in [Files -> Content]
    BY <2>1 DEF CaInit, NoFiles, OldFiles
  <2>3. init \in [run : 0..MaxInits, next : 0..6] /\ inits \in 0..MaxInits /\ revoked \in 0..MaxRevocations
    BY CaAssumption DEF CaInit, NoInit
  <2>4. QED BY <2>1, <2>2, <2>3 DEF CaInit, CaTypeOK, NotLoaded
<1>2. DirectoryOK
  BY FilesAre DEF CaInit, DirectoryOK, NoFiles, OldFiles, Readable, Absent
<1>3. InitOK /\ LoadingOK /\ LoadedFits /\ LoadedWhole
  BY DEF CaInit, InitOK, LoadingOK, LoadedFits, LoadedWhole, NotLoaded, Loading
<1>4. QED BY <1>1, <1>2, <1>3 DEF CaInv

LEMMA CaInvStep == CaInv /\ [CaNext]_caVars => CaInv'
<1> SUFFICES ASSUME CaInv, [CaNext]_caVars PROVE CaInv'
  OBVIOUS
<1>0. /\ MaxInits \in Nat /\ MaxRevocations \in Nat /\ inits \in 0..MaxInits
      /\ done \subseteq 0..inits /\ Absent = -2 /\ Torn = -1
      /\ file \in [Files -> Content] /\ \A f \in Files : file[f] \in Int
  BY CaAssumption DEF CaInv, CaTypeOK, Absent, Torn, Content
<1>1. CASE BeginInit
  <2>1. init' = [run |-> inits + 1, next |-> 1] /\ inits' = inits + 1 /\ inits < MaxInits
           /\ file["ca_key"] = Absent
    BY <1>1 DEF BeginInit
  <2>2. init' \in [run : 0..MaxInits, next : 0..6] /\ inits' \in 0..MaxInits /\ done \subseteq 0..inits'
           /\ inits' \notin done /\ inits' \in 1..MaxInits
    BY <1>0, <2>1
  <2>3. CaTypeOK'
    BY <1>1, <2>2 DEF BeginInit, CaInv, CaTypeOK
  <2>4. InitOK'
    BY <1>0, <1>1, <2>1, <2>2 DEF BeginInit, InitOK
  <2>5. QED BY <1>1, <2>3, <2>4 DEF BeginInit, CaInv, DirectoryOK, LoadingOK, LoadedFits,
                                    LoadedWhole, Readable
<1>2. CASE OpenFile
  <2>1. init # NoInit /\ file' = [file EXCEPT ![NextFile] = Torn]
           /\ UNCHANGED <<init, inits, done, at, hand, app, elsewhere, revoked, sound, listed>>
    BY <1>2 DEF OpenFile
  <2>2. PICK n \in 1..6 : n = init.next
    BY <2>1 DEF CaInv, InitOK
  <2>3. NextFile = Sequence[n] /\ NextFile \in Files
    BY <2>2 DEF NextFile, Files
  <2>4. CaTypeOK'
    <3>1. Torn \in Content
      BY <1>0 DEF Content
    <3>2. file' \in [Files -> Content]
      BY <1>0, <2>1, <3>1
    <3>3. QED BY <2>1, <3>2 DEF CaInv, CaTypeOK
  <2>5. file["ca_key"] \notin done /\ file'["ca_key"] \notin done /\ (n = 1 <=> NextFile = "ca_key")
    BY <1>0, <2>1, <2>2, <2>3, FilesAre DEF CaInv, InitOK
  <2>6. \A f \in Files : file'[f] = IF f = NextFile THEN Torn ELSE file[f]
    BY <1>0, <2>1, <2>3
  <2>7. InitOK'
    BY <1>0, <2>1, <2>2, <2>3, <2>6, FilesAre DEF CaInv, InitOK
  <2>8. DirectoryOK'
    BY <1>0, <2>1, <2>2, <2>3, <2>5, <2>6, FilesAre DEF CaInv, InitOK, DirectoryOK
  <2>9. LoadingOK'
    <3>1. ~(sound /\ at \in Loading)
      BY <2>5 DEF CaInv, LoadingOK
    <3>2. "ca_key" \in Files
      BY FilesAre
    <3>3. CASE n = 1
      <4>1. file["ca_key"] < 0
        BY <2>1, <2>2, <3>3 DEF CaInv, InitOK
      <4>2. at \notin Loading \ {"ca_key"}
        BY <1>0, <3>2, <4>1 DEF CaInv, LoadingOK
      <4>3. QED BY <2>1, <3>1, <4>2 DEF CaInv, LoadingOK, Loading
    <3>4. CASE n # 1
      <4>1. file'["ca_key"] = file["ca_key"]
        BY <2>5, <2>6, <3>2, <3>4
      <4>2. QED BY <2>1, <4>1 DEF CaInv, LoadingOK
    <3>5. QED BY <3>3, <3>4
  <2>10. QED BY <2>1, <2>4, <2>7, <2>8, <2>9 DEF CaInv, LoadedFits, LoadedWhole
<1>3. CASE FillFile
  <2>1. /\ init # NoInit /\ file[NextFile] = Torn
        /\ file' = [file EXCEPT ![NextFile] = IF NextFile = "crl" THEN 0 ELSE init.run]
        /\ init' = (IF NextFile = "crl" THEN NoInit ELSE [init EXCEPT !.next = @ + 1])
        /\ done' = (IF NextFile = "crl" THEN done \cup {init.run} ELSE done)
        /\ UNCHANGED <<inits, at, hand, app, elsewhere, revoked, sound, listed>>
    BY <1>3 DEF FillFile
  <2>2. PICK n \in 1..6 : n = init.next
    BY <2>1 DEF CaInv, InitOK
  <2>3. NextFile = Sequence[n] /\ NextFile \in Files
    BY <2>2 DEF NextFile, Files
  <2>4. init.run = inits /\ inits \in 1..MaxInits /\ inits \notin done /\ (NextFile = "crl" <=> n = 6)
    BY <2>1, <2>2, <2>3, FilesAre DEF CaInv, InitOK
  <2>5. \A f \in Files : file'[f] = IF f = NextFile THEN IF n = 6 THEN 0 ELSE inits ELSE file[f]
    BY <1>0, <2>1, <2>2, <2>3, <2>4, FilesAre DEF CaInv, InitOK
  <2>6. CaTypeOK'
    <3>1. file' \in [Files -> Content]
      <4>1. 0 \in Content /\ inits \in Content
        BY <1>0 DEF Content
      <4>2. QED BY <1>0, <2>1, <2>4, <4>1
    <3>2. init' \in [run : 0..MaxInits, next : 0..6]
      <4>1. CASE n = 6
        BY <1>0, <2>1, <2>4, <4>1 DEF NoInit
      <4>2. CASE n # 6
        <5>1. init' = [init EXCEPT !.next = @ + 1] /\ init.next + 1 \in 0..6
          BY <2>1, <2>2, <2>4, <4>2
        <5>2. QED BY <5>1 DEF CaInv, CaTypeOK
      <4>3. QED BY <4>1, <4>2
    <3>3. done' \subseteq 0..inits'
      BY <1>0, <2>1, <2>4
    <3>4. QED BY <2>1, <3>1, <3>2, <3>3 DEF CaInv, CaTypeOK
  <2>7. InitOK'
    <3>1. CASE n = 6
      BY <2>1, <2>4, <3>1 DEF InitOK
    <3>2. CASE n # 6
      <4>1. init' = [init EXCEPT !.next = @ + 1] /\ done' = done
        BY <2>1, <2>4, <3>2
      <4>2. init'.next = n + 1 /\ init'.run = inits
        BY <2>2, <2>4, <4>1 DEF CaInv, CaTypeOK
      <4>3. \A m \in {1, 2, 4, 5} : n + 1 > m <=> n > m \/ n = m
        BY <2>2
      <4>4. QED
        BY <1>0, <2>1, <2>2, <2>3, <2>4, <2>5, <3>2, <4>1, <4>2, <4>3, FilesAre DEF CaInv, InitOK
    <3>3. QED BY <3>1, <3>2
  <2>8. file'["ca_key"] = (IF n = 1 THEN inits ELSE file["ca_key"]) /\ file'["ca_key"] = inits
    BY <2>1, <2>2, <2>3, <2>4, <2>5, FilesAre DEF CaInv, InitOK
  <2>9. DirectoryOK'
    <3>1. \A f \in Files \ {"ca_key", "crl"} : file'[f] \in {Absent, Torn, inits}
      BY <1>0, <2>1, <2>2, <2>3, <2>4, <2>5, FilesAre DEF CaInv, InitOK, DirectoryOK
    <3>2. inits \in done' => n = 6
      BY <2>1, <2>4
    <3>3. n = 6 => /\ file'["ca_cert"] = inits /\ file'["coordinator_cert"] = inits
                   /\ file'["signing_key"] = inits
      BY <2>1, <2>2, <2>3, <2>4, <2>5, FilesAre DEF CaInv, InitOK
    <3>4. n = 6 => Readable("signing_key")' = inits
      BY <1>0, <2>4, <3>3 DEF Readable
    <3>5. QED BY <1>0, <2>4, <2>8, <3>1, <3>2, <3>3, <3>4 DEF DirectoryOK
  <2>10. LoadingOK'
    <3>1. file["ca_key"] \notin done
      BY <1>0, <2>1, <2>2, <2>3, <2>4, FilesAre DEF CaInv, InitOK
    <3>2. ~(sound /\ at \in Loading) /\ done \subseteq done'
      BY <2>1, <3>1 DEF CaInv, LoadingOK
    <3>3. CASE n = 1
      <4>1. file["ca_key"] < 0
        BY <2>1, <2>2, <3>3 DEF CaInv, InitOK
      <4>2. at \notin Loading \ {"ca_key"}
        BY <1>0, <4>1, FilesAre DEF CaInv, LoadingOK
      <4>3. QED BY <2>1, <3>2, <4>2 DEF CaInv, LoadingOK, Loading
    <3>4. CASE n # 1
      <4>1. file'["ca_key"] = file["ca_key"]
        BY <2>8, <3>4
      <4>2. QED BY <2>1, <3>2, <4>1 DEF CaInv, LoadingOK
    <3>5. QED BY <3>3, <3>4
  <2>11. QED BY <2>1, <2>6, <2>7, <2>9, <2>10 DEF CaInv, LoadedFits, LoadedWhole
<1>4. CASE InitStops
  <2>1. init' = NoInit /\ UNCHANGED <<file, inits, done, at, hand, app, elsewhere, revoked, sound, listed>>
    BY <1>4 DEF InitStops
  <2>2. NoInit \in [run : 0..MaxInits, next : 0..6]
    BY <1>0 DEF NoInit
  <2>3. QED BY <2>1, <2>2 DEF CaInv, CaTypeOK, InitOK, DirectoryOK, LoadingOK, LoadedFits,
                             LoadedWhole, Readable
<1>5. CASE Archive
  <2>1. init = NoInit /\ at \in {"down", "up"} /\ file' = NoFiles
           /\ UNCHANGED <<init, inits, done, at, hand, app, elsewhere, revoked, sound, listed>>
    BY <1>5 DEF Archive
  <2>2. CaTypeOK'
    <3>1. Absent \in Content
      BY <1>0 DEF Content
    <3>2. QED BY <2>1, <3>1 DEF CaInv, CaTypeOK, NoFiles
  <2>3. \A f \in Files : file'[f] = Absent
    BY <2>1 DEF NoFiles
  <2>4. Absent \notin done
    BY <1>0
  <2>5. DirectoryOK' /\ LoadingOK'
    BY <1>0, <2>1, <2>3, <2>4, FilesAre DEF CaInv, DirectoryOK, LoadingOK, Loading
  <2>6. QED BY <2>1, <2>2, <2>5 DEF CaInv, InitOK, LoadedFits, LoadedWhole
<1>6. CASE StartUp
  <2>1. /\ at = "down" /\ at' = (IF file["ca_key"] = Absent THEN "up" ELSE "ca_key")
        /\ sound' = (sound /\ file["ca_key"] \in done \cup {Absent})
        /\ UNCHANGED <<file, init, inits, done, hand, app, elsewhere, revoked, listed>>
    BY <1>6 DEF StartUp
  <2>2. app = NotLoaded /\ sound \in BOOLEAN
    BY <2>1 DEF CaInv, CaTypeOK, LoadingOK
  <2>3. CaTypeOK'
    BY <2>1, <2>2 DEF CaInv, CaTypeOK, Loading
  <2>4. DirectoryOK' /\ InitOK' /\ LoadedFits'
    BY <2>1 DEF CaInv, DirectoryOK, InitOK, LoadedFits, Readable
  <2>5. LoadingOK' /\ LoadedWhole'
    BY <2>1, <2>2 DEF CaInv, LoadingOK, LoadedWhole, NotLoaded, Loading
  <2>6. QED BY <2>3, <2>4, <2>5 DEF CaInv
<1>7. CASE Load
  <2>1. /\ at \in Loading /\ Readable(at) >= 0
        /\ hand' = (IF at \in {"ca_key", "signing_key"} THEN Readable(at) ELSE Absent)
        /\ app' = Assigned(at) /\ at' = After(at)
        /\ UNCHANGED <<file, init, inits, done, elsewhere, revoked, sound, listed>>
    BY <1>7 DEF Load
  <2>2. Absent \in Content /\ 0 \in Content /\ \A f \in Files : file[f] \in Content
    BY <1>0 DEF Content
  <2>3. at \in Files
    BY <2>1, FilesAre DEF Loading
  <2>4. Readable(at) \in Content
    BY <2>2, <2>3 DEF Readable
  <2>5. app \in [key : Content, cert : Content, signing : Content, crl : Content] /\ hand \in Content
    BY DEF CaInv, CaTypeOK
  <2>6. CASE at = "ca_key"
    <3>1. at' = "ca_cert" /\ app' = app /\ hand' = file["ca_key"] /\ file["ca_key"] >= 0
      BY <2>1, <2>6 DEF Assigned, After, Readable
    <3>2. CaTypeOK'
      BY <2>1, <2>2, <2>3, <2>6, <3>1 DEF CaInv, CaTypeOK, Loading
    <3>3. LoadingOK' /\ LoadedWhole'
      BY <2>1, <2>6, <3>1 DEF CaInv, LoadingOK, LoadedWhole, Loading
    <3>4. QED BY <2>1, <3>1, <3>2, <3>3 DEF CaInv, InitOK, DirectoryOK, LoadedFits, Readable
  <2>7. CASE at = "ca_cert"
    <3>1. at' = "signing_key" /\ app' = [app EXCEPT !.key = hand, !.cert = file["ca_cert"]]
             /\ hand' = Absent /\ file["ca_cert"] >= 0
      BY <2>1, <2>7 DEF Assigned, After, Readable
    <3>2. CaTypeOK'
      BY <2>1, <2>2, <2>3, <2>5, <2>7, <3>1 DEF CaInv, CaTypeOK, Loading
    <3>3. hand = file["ca_key"] /\ file["ca_key"] >= 0
      BY <2>7 DEF CaInv, LoadingOK, Loading
    <3>4. file["ca_cert"] = file["ca_key"]
      BY <1>0, <2>7, <3>1, <3>3, FilesAre DEF CaInv, DirectoryOK
    <3>5. app'.key = file["ca_key"] /\ app'.cert = app'.key /\ app'.signing = Absent
      BY <2>5, <2>7, <3>1, <3>3, <3>4 DEF CaInv, LoadingOK, NotLoaded
    <3>6. LoadingOK' /\ LoadedWhole' /\ LoadedFits'
      BY <2>1, <2>7, <3>1, <3>3, <3>5 DEF CaInv, LoadingOK, LoadedWhole, LoadedFits, Loading
    <3>7. QED BY <2>1, <3>2, <3>6 DEF CaInv, InitOK, DirectoryOK, Readable
  <2>8. CASE at = "signing_key"
    <3>1. at' = "coordinator_cert" /\ app' = app /\ hand' = Readable("signing_key")
             /\ Readable("signing_key") >= 0
      BY <2>1, <2>8 DEF Assigned, After
    <3>2. CaTypeOK'
      BY <2>1, <2>4, <2>8, <3>1 DEF CaInv, CaTypeOK, Loading
    <3>3. file["ca_key"] >= 0
      BY <2>8 DEF CaInv, LoadingOK, Loading
    <3>4. Readable("signing_key") = file["ca_key"]
      BY <1>0, <3>1, <3>3, FilesAre DEF CaInv, DirectoryOK, Readable
    <3>5. LoadingOK' /\ LoadedWhole' /\ LoadedFits'
      BY <2>1, <2>8, <3>1, <3>3, <3>4 DEF CaInv, LoadingOK, LoadedWhole, LoadedFits, Loading
    <3>6. QED BY <2>1, <3>2, <3>5 DEF CaInv, InitOK, DirectoryOK, Readable
  <2>9. CASE at = "coordinator_cert"
    <3>1. at' = "crl" /\ app' = [app EXCEPT !.signing = hand] /\ hand' = Absent
      BY <2>1, <2>9 DEF Assigned, After
    <3>2. CaTypeOK'
      BY <2>1, <2>2, <2>5, <2>9, <3>1 DEF CaInv, CaTypeOK, Loading
    <3>3. hand = file["ca_key"] /\ app.key = file["ca_key"]
      BY <2>9 DEF CaInv, LoadingOK
    <3>4. app'.key = app.key /\ app'.cert = app.cert /\ app'.signing = app.key
      BY <2>5, <3>1, <3>3
    <3>5. LoadingOK' /\ LoadedWhole' /\ LoadedFits'
      BY <2>1, <2>9, <3>1, <3>3, <3>4 DEF CaInv, LoadingOK, LoadedWhole, LoadedFits, Loading
    <3>6. QED BY <2>1, <3>2, <3>5 DEF CaInv, InitOK, DirectoryOK, Readable
  <2>10. CASE at = "crl"
    <3>1. at' = "up" /\ app' = [app EXCEPT !.crl = file["crl"]] /\ hand' = Absent
      BY <2>1, <2>10 DEF Assigned, After
    <3>2. CaTypeOK'
      BY <2>1, <2>2, <2>3, <2>5, <2>10, <3>1 DEF CaInv, CaTypeOK, Loading
    <3>3. app'.key = app.key /\ app'.cert = app.cert /\ app'.signing = app.signing
      BY <2>5, <3>1
    <3>4. LoadingOK' /\ LoadedWhole' /\ LoadedFits'
      BY <2>1, <2>10, <3>1, <3>3 DEF CaInv, LoadingOK, LoadedWhole, LoadedFits, Loading
    <3>5. QED BY <2>1, <3>2, <3>4 DEF CaInv, InitOK, DirectoryOK, Readable
  <2>11. QED BY <2>1, <2>6, <2>7, <2>8, <2>9, <2>10 DEF Loading
<1>8. CASE LoadFails
  <2>1. /\ at \in Loading /\ Readable(at) < 0 /\ at' = "up" /\ hand' = Absent
        /\ UNCHANGED <<file, init, inits, done, app, elsewhere, revoked, sound, listed>>
    BY <1>8 DEF LoadFails
  <2>2. CaTypeOK'
    <3>1. Absent \in Content
      BY <1>0 DEF Content
    <3>2. QED BY <2>1, <3>1 DEF CaInv, CaTypeOK
  <2>3. LoadingOK'
    BY <2>1 DEF CaInv, LoadingOK, Loading
  <2>4. LoadedWhole'
    <3>1. SUFFICES ASSUME sound, app.key # Absent PROVE app.signing = app.key
      BY <2>1 DEF LoadedWhole
    <3>2. at \in {"signing_key", "coordinator_cert", "crl"}
      BY <2>1, <3>1 DEF CaInv, LoadingOK, Loading, NotLoaded
    <3>3. file["ca_key"] >= 0 /\ file["ca_key"] \in done
      BY <2>1, <3>1, <3>2 DEF CaInv, LoadingOK
    <3>4. at # "signing_key"
      <4>1. Readable("signing_key") >= 0
        BY <3>3 DEF CaInv, DirectoryOK
      <4>2. Readable("signing_key") \in Int
        BY <1>0, FilesAre DEF Readable
      <4>3. QED BY <2>1, <4>1, <4>2
    <3>5. at # "coordinator_cert"
      <4>1. Readable("coordinator_cert") = file["ca_key"] /\ file["ca_key"] \in Int
        BY <1>0, <3>3, FilesAre DEF CaInv, DirectoryOK, Readable
      <4>2. QED BY <2>1, <3>3, <4>1
    <3>6. QED BY <3>2, <3>4, <3>5 DEF CaInv, LoadingOK
  <2>5. QED BY <2>1, <2>2, <2>3, <2>4 DEF CaInv, InitOK, DirectoryOK, LoadedFits, Readable
<1>9. CASE Stop
  <2>1. /\ at' = "down" /\ hand' = Absent /\ app' = NotLoaded
        /\ listed' = (listed /\ at # "listing")
        /\ UNCHANGED <<file, init, inits, done, elsewhere, revoked, sound>>
    BY <1>9 DEF Stop
  <2>2. CaTypeOK'
    <3>1. Absent \in Content
      BY <1>0 DEF Content
    <3>2. QED BY <2>1, <3>1 DEF CaInv, CaTypeOK, NotLoaded
  <2>3. LoadingOK' /\ LoadedWhole' /\ LoadedFits'
    BY <2>1 DEF CaInv, LoadingOK, LoadedWhole, LoadedFits, Loading, NotLoaded
  <2>4. QED BY <2>1, <2>2, <2>3 DEF CaInv, InitOK, DirectoryOK, Readable
<1>10. CASE Revoke
  <2>1. /\ at = "up" /\ revoked < MaxRevocations /\ revoked' = revoked + 1
        /\ at' = (IF app.key = Absent THEN "up" ELSE "listing")
        /\ UNCHANGED <<file, init, inits, done, hand, app, elsewhere, sound, listed>>
    BY <1>10 DEF Revoke
  <2>2. revoked' \in 0..MaxRevocations
    BY <1>0, <2>1 DEF CaInv, CaTypeOK
  <2>3. CaTypeOK'
    BY <2>1, <2>2 DEF CaInv, CaTypeOK
  <2>4. LoadingOK' /\ LoadedWhole' /\ LoadedFits'
    BY <2>1 DEF CaInv, LoadingOK, LoadedWhole, LoadedFits, Loading
  <2>5. QED BY <2>1, <2>3, <2>4 DEF CaInv, InitOK, DirectoryOK, Readable
<1>11. CASE OpenCrl
  <2>1. /\ file' = [file EXCEPT !["crl"] = Torn]
        /\ UNCHANGED <<init, inits, done, at, hand, app, elsewhere, revoked, sound, listed>>
    BY <1>11 DEF OpenCrl
  <2>2. CaTypeOK'
    <3>1. Torn \in Content
      BY <1>0 DEF Content
    <3>2. file' \in [Files -> Content]
      BY <1>0, <2>1, <3>1
    <3>3. QED BY <2>1, <3>2 DEF CaInv, CaTypeOK
  <2>3. \A f \in Files \ {"crl"} : file'[f] = file[f]
    BY <1>0, <2>1
  <2>4. InitOK' /\ DirectoryOK'
    BY <2>1, <2>3, FilesAre DEF CaInv, InitOK, DirectoryOK, Readable
  <2>5. LoadingOK' /\ LoadedFits' /\ LoadedWhole'
    BY <2>1, <2>3, FilesAre DEF CaInv, LoadingOK, LoadedFits, LoadedWhole
  <2>6. QED BY <2>2, <2>4, <2>5 DEF CaInv
<1>12. CASE WriteCrl
  <2>1. /\ at = "listing" /\ at' = "up"
        /\ file' = (IF elsewhere THEN file ELSE [file EXCEPT !["crl"] = revoked])
        /\ app' = [app EXCEPT !.crl = revoked]
        /\ UNCHANGED <<init, inits, done, hand, elsewhere, revoked, sound, listed>>
    BY <1>12 DEF WriteCrl
  <2>2. CaTypeOK'
    <3>1. revoked \in Content
      BY <1>0 DEF Content, CaInv, CaTypeOK
    <3>2. file' \in [Files -> Content]
      BY <1>0, <2>1, <3>1
    <3>3. app' \in [key : Content, cert : Content, signing : Content, crl : Content]
      BY <2>1, <3>1 DEF CaInv, CaTypeOK
    <3>4. QED BY <2>1, <3>2, <3>3 DEF CaInv, CaTypeOK
  <2>3. \A f \in Files \ {"crl"} : file'[f] = file[f]
    BY <1>0, <2>1
  <2>4. InitOK' /\ DirectoryOK'
    BY <2>1, <2>3, FilesAre DEF CaInv, InitOK, DirectoryOK, Readable
  <2>5. app'.key = app.key /\ app'.cert = app.cert /\ app'.signing = app.signing
    BY <2>1 DEF CaInv, CaTypeOK
  <2>6. LoadingOK' /\ LoadedFits' /\ LoadedWhole'
    BY <2>1, <2>3, <2>5, FilesAre DEF CaInv, LoadingOK, LoadedFits, LoadedWhole, Loading
  <2>7. QED BY <2>2, <2>4, <2>6 DEF CaInv
<1>13. CASE WriteCrlFails
  <2>1. /\ at = "listing" /\ at' = "up" /\ listed' = FALSE
        /\ UNCHANGED <<file, init, inits, done, hand, app, elsewhere, revoked, sound>>
    BY <1>13 DEF WriteCrlFails
  <2>2. CaTypeOK'
    BY <2>1 DEF CaInv, CaTypeOK
  <2>3. LoadingOK' /\ LoadedWhole' /\ LoadedFits'
    BY <2>1 DEF CaInv, LoadingOK, LoadedWhole, LoadedFits, Loading
  <2>4. QED BY <2>1, <2>2, <2>3 DEF CaInv, InitOK, DirectoryOK, Readable
<1>14. CASE UNCHANGED caVars
  BY <1>14 DEF caVars, CaInv, CaTypeOK, InitOK, DirectoryOK, LoadingOK, LoadedFits, LoadedWhole, Readable
<1>15. QED
  BY <1>1, <1>2, <1>3, <1>4, <1>5, <1>6, <1>7, <1>8, <1>9, <1>10, <1>11, <1>12, <1>13, <1>14 DEF CaNext

LEMMA CaInvAlways == CaSpec => []CaInv
<1>1. QED BY CaInvInit, CaInvStep, PTL DEF CaSpec

-----------------------------------------------------------------------------

(* Whatever init_ca does while a coordinator starts, and wherever it was   *)
(* stopped before: the CA certificate and the signing key that are loaded  *)
(* are those of the CA key that is loaded.                                 *)
THEOREM LoadsFit == CaSpec => []LoadedFits
<1>1. CaInv => LoadedFits
  BY DEF CaInv
<1>2. QED BY <1>1, CaInvAlways, PTL

(* A start on a CA that was done loads all of it.                          *)
THEOREM LoadsWhole == CaSpec => []LoadedWhole
<1>1. CaInv => LoadedWhole
  BY DEF CaInv
<1>2. QED BY <1>1, CaInvAlways, PTL
=============================================================================
