--------------------------- MODULE FederationCa ---------------------------
(***************************************************************************)
(* The directory of the federation CA: what init_ca writes into it, file   *)
(* by file, what the coordinator reads from it when it starts, and the     *)
(* list of revoked certificates (CRL) it rewrites there.                   *)
(*                                                                         *)
(* init_ca is a program of its own and may run while a coordinator starts  *)
(* or is up.  It may be stopped between any two files, or inside one; it   *)
(* refuses to run again until the operator has archived the directory.     *)
(*                                                                         *)
(* What a file holds is the number of the init_ca that wrote it, of the    *)
(* CRL the number of revocations it lists.  Number 0 is a directory of the *)
(* old layout, where the coordinator's only key was an Ed25519 key.        *)
(***************************************************************************)
EXTENDS Integers, Sequences

CONSTANTS
  MaxInits,        \* bound on the runs of init_ca
  MaxRevocations   \* bound on the revocations

ASSUME CaAssumption == MaxInits \in Nat /\ MaxRevocations \in Nat

VARIABLES
  file,     \* the files of the directory
  init,     \* the run of init_ca under way, and the file it has come to
  inits,    \* runs of init_ca so far
  done,     \* history: the runs that have returned
  at,       \* the coordinator is down, up, reading a file or rewriting the CRL
  hand,     \* local of load_ca and load_coordinator_keypair: what was just read
  app,      \* app.state: CA key and certificate, signing key, CRL
  elsewhere,\* FL_CA_DIR is not set: the CRL is rewritten under data/ca
  revoked,  \* revocations so far
  sound,    \* history: no start has found a CA that was not done
  listed    \* history: every rewriting of the CRL has succeeded

caVars == <<file, init, inits, done, at, hand, app, elsewhere, revoked, sound, listed>>

-----------------------------------------------------------------------------

Absent == -2  \* no such file; not loaded
Torn   == -1  \* opened for writing, which truncates

(* The files in the order in which init_ca writes them.                    *)
Sequence == <<"ca_key", "ca_cert", "coordinator_key", "coordinator_cert", "signing_key", "crl">>
Files    == {Sequence[i] : i \in 1..6}
NoFiles  == [f \in Files |-> Absent]
OldFiles == [f \in Files |-> IF f = "signing_key" THEN Absent ELSE 0]

NoInit    == [run |-> 0, next |-> 0]
NotLoaded == [key |-> Absent, cert |-> Absent, signing |-> Absent, crl |-> Absent]
Loading   == {"ca_key", "ca_cert", "signing_key", "coordinator_cert", "crl"}

(* Files and what was loaded from them hold numbers that were given out.   *)
Content == -2..(MaxInits + MaxRevocations)
CaTypeOK ==
  /\ file \in [Files -> Content]
  /\ init \in [run : 0..MaxInits, next : 0..6]
  /\ inits \in 0..MaxInits
  /\ done \subseteq 0..inits
  /\ at \in Loading \cup {"down", "up", "listing"}
  /\ hand \in Content
  /\ app \in [key : Content, cert : Content, signing : Content, crl : Content]
  /\ elsewhere \in BOOLEAN
  /\ revoked \in 0..MaxRevocations
  /\ sound \in BOOLEAN /\ listed \in BOOLEAN

-----------------------------------------------------------------------------
(* init_ca.                                                                *)

BeginInitAnyway ==
  /\ init = NoInit
  /\ inits < MaxInits
  /\ inits' = inits + 1
  /\ init' = [run |-> inits + 1, next |-> 1]
  /\ UNCHANGED <<file, done, at, hand, app, elsewhere, revoked, sound, listed>>
BeginInit ==
  /\ init = NoInit
  /\ inits < MaxInits
  /\ file["ca_key"] = Absent
  /\ inits' = inits + 1
  /\ init' = [run |-> inits + 1, next |-> 1]
  /\ UNCHANGED <<file, done, at, hand, app, elsewhere, revoked, sound, listed>>

(* write_bytes opens the next file and fills it.  A new CRL lists nothing. *)
NextFile == Sequence[init.next]

OpenFile ==
  /\ init # NoInit
  /\ file[NextFile] # Torn
  /\ file' = [file EXCEPT ![NextFile] = Torn]
  /\ UNCHANGED <<init, inits, done, at, hand, app, elsewhere, revoked, sound, listed>>

FillFileForever ==
  /\ init # NoInit
  /\ file[NextFile] = Torn
  /\ file' = [file EXCEPT ![NextFile] = IF NextFile = "crl" THEN 0 ELSE init.run]
  /\ init' = [init EXCEPT !.next = @ + 1]
  /\ done' = IF NextFile = "crl" THEN done \cup {init.run} ELSE done
  /\ UNCHANGED <<inits, at, hand, app, elsewhere, revoked, sound, listed>>
FillFile ==
  /\ init # NoInit
  /\ file[NextFile] = Torn
  /\ file' = [file EXCEPT ![NextFile] = IF NextFile = "crl" THEN 0 ELSE init.run]
  /\ init' = IF NextFile = "crl" THEN NoInit ELSE [init EXCEPT !.next = @ + 1]
  /\ done' = IF NextFile = "crl" THEN done \cup {init.run} ELSE done
  /\ UNCHANGED <<inits, at, hand, app, elsewhere, revoked, sound, listed>>

InitStops ==
  /\ init # NoInit
  /\ init' = NoInit
  /\ UNCHANGED <<file, inits, done, at, hand, app, elsewhere, revoked, sound, listed>>

(* The operator moves the directory away, not while a coordinator uses it. *)
Archive ==
  /\ init = NoInit
  /\ at \in {"down", "up"}
  /\ file' = NoFiles
  /\ UNCHANGED <<init, inits, done, at, hand, app, elsewhere, revoked, sound, listed>>

-----------------------------------------------------------------------------
(* The CA in build_app.                                                    *)

StartUp ==
  /\ at = "down"
  /\ at' = IF file["ca_key"] = Absent THEN "up" ELSE "ca_key"
  /\ sound' = (sound /\ file["ca_key"] \in done \cup {Absent})
  /\ UNCHANGED <<file, init, inits, done, hand, app, elsewhere, revoked, listed>>

(* What is read where.  Without a signing key the coordinator's key is     *)
(* taken, which is refused unless it is one of the old layout.             *)
Readable(f) ==
  IF f = "signing_key" /\ file[f] = Absent
  THEN IF file["coordinator_key"] = 0 THEN 0 ELSE Absent
  ELSE file[f]

AfterCrlFirst(f) ==
  CASE f = "ca_key" -> "ca_cert" [] f = "ca_cert" -> "crl"
    [] f = "crl" -> "signing_key" [] f = "signing_key" -> "coordinator_cert"
    [] f = "coordinator_cert" -> "up"
After(f) ==
  CASE f = "ca_key" -> "ca_cert" [] f = "ca_cert" -> "signing_key"
    [] f = "signing_key" -> "coordinator_cert" [] f = "coordinator_cert" -> "crl"
    [] f = "crl" -> "up"

Assigned(f) ==
  CASE f = "ca_cert" -> [app EXCEPT !.key = hand, !.cert = file[f]]
    [] f = "coordinator_cert" -> [app EXCEPT !.signing = hand]
    [] f = "crl" -> [app EXCEPT !.crl = file[f]]
    [] f \in {"ca_key", "signing_key"} -> app

Load ==
  /\ at \in Loading
  /\ Readable(at) >= 0
  /\ hand' = IF at \in {"ca_key", "signing_key"} THEN Readable(at) ELSE Absent
  /\ app' = Assigned(at)
  /\ at' = After(at)
  /\ UNCHANGED <<file, init, inits, done, elsewhere, revoked, sound, listed>>

(* A file that is missing or torn raises: what is not assigned stays None. *)
LoadFails ==
  /\ at \in Loading
  /\ Readable(at) < 0
  /\ at' = "up"
  /\ hand' = Absent
  /\ UNCHANGED <<file, init, inits, done, app, elsewhere, revoked, sound, listed>>

Stop ==
  /\ at # "down"
  /\ at' = "down"
  /\ hand' = Absent
  /\ app' = NotLoaded
  /\ listed' = (listed /\ at # "listing")
  /\ UNCHANGED <<file, init, inits, done, elsewhere, revoked, sound>>

-----------------------------------------------------------------------------
(* _regenerate_crl, called when a certificate has been revoked.            *)

Revoke ==
  /\ at = "up"
  /\ revoked < MaxRevocations
  /\ revoked' = revoked + 1
  /\ at' = IF app.key = Absent THEN "up" ELSE "listing"
  /\ UNCHANGED <<file, init, inits, done, hand, app, elsewhere, sound, listed>>

OpenCrl ==
  /\ at = "listing" /\ ~elsewhere
  /\ file["crl"] # Torn
  /\ file' = [file EXCEPT !["crl"] = Torn]
  /\ UNCHANGED <<init, inits, done, at, hand, app, elsewhere, revoked, sound, listed>>

WriteCrlInMemory ==
  /\ at = "listing"
  /\ elsewhere \/ file["crl"] = Torn
  /\ UNCHANGED file
  /\ app' = [app EXCEPT !.crl = revoked]
  /\ at' = "up"
  /\ UNCHANGED <<init, inits, done, hand, elsewhere, revoked, sound, listed>>
WriteCrl ==
  /\ at = "listing"
  /\ elsewhere \/ file["crl"] = Torn
  /\ file' = IF elsewhere THEN file ELSE [file EXCEPT !["crl"] = revoked]
  /\ app' = [app EXCEPT !.crl = revoked]
  /\ at' = "up"
  /\ UNCHANGED <<init, inits, done, hand, elsewhere, revoked, sound, listed>>

(* There may be no directory.  The exception is logged, and the caller     *)
(* goes on.                                                                *)
WriteCrlFails ==
  /\ at = "listing"
  /\ at' = "up"
  /\ listed' = FALSE
  /\ UNCHANGED <<file, init, inits, done, hand, app, elsewhere, revoked, sound>>

-----------------------------------------------------------------------------

CaInit ==
  /\ file \in {NoFiles, OldFiles}
  /\ init = NoInit /\ inits = 0 /\ done = {0}
  /\ at = "down" /\ hand = Absent /\ app = NotLoaded
  /\ elsewhere \in BOOLEAN
  /\ revoked = 0
  /\ sound = TRUE /\ listed = TRUE

CaNext ==
  \/ BeginInit \/ OpenFile \/ FillFile \/ InitStops \/ Archive
  \/ StartUp \/ Load \/ LoadFails \/ Stop
  \/ Revoke \/ OpenCrl \/ WriteCrl \/ WriteCrlFails

CaSpec == CaInit /\ [][CaNext]_caVars

-----------------------------------------------------------------------------

(* What a start has loaded belongs to one CA, whatever init_ca was doing   *)
(* meanwhile, and all of it is there if the CA was done.                   *)
LoadedFits ==
  /\ app.cert = app.key
  /\ app.signing \in {Absent, app.key}
LoadedWhole ==
  sound /\ at \in {"up", "listing"} /\ app.key # Absent => app.signing = app.key
=============================================================================
