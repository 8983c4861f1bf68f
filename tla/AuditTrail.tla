---------------------------- MODULE AuditTrail ----------------------------
(***************************************************************************)
(* The audit trail: a table in a database of its own, each row with a hash *)
(* of its entry and of the hash before it.  The hash of the last row is    *)
(* cached; log() adds a row in a transaction and commits it, under a lock. *)
(*                                                                         *)
(* The INSERT or the commit may raise.  A commit that does either loses    *)
(* the transaction or leaves it open, with its rows, on the one connection *)
(* the process has, and the next commit takes them along.                  *)
(*                                                                         *)
(* An entry is the number of its call, its time stamp telling it from all  *)
(* others.  A hash is the sequence of what was hashed into it, as if no    *)
(* two inputs collide.                                                     *)
(***************************************************************************)
EXTENDS Integers, Sequences

CONSTANT MaxCalls  \* bound on the calls of log()

ASSUME CallsAssumption == MaxCalls \in Nat

VARIABLES
  table,    \* audit_log, as committed
  pending,  \* rows in the open transaction
  prev,     \* _prev_hash
  open,     \* is there a connection?
  calls,    \* how often log() was called
  acked,    \* history: calls that have returned
  stray     \* history: calls that have raised with their row left pending

auditVars == <<table, pending, prev, open, calls, acked, stray>>

-----------------------------------------------------------------------------

LogRow  == [entry : Nat, hash : Seq(Nat)]
Genesis == <<>>

(* Columns, and that every entry is from a call.                           *)
AuditTypeOK ==
  /\ table \in Seq(LogRow) /\ pending \in Seq(LogRow)
  /\ prev \in Seq(Nat)
  /\ open \in BOOLEAN
  /\ calls \in Nat
  /\ acked \subseteq 1..calls /\ stray \subseteq 1..calls

LastHash == IF table = <<>> THEN Genesis ELSE table[Len(table)].hash

(* The row the next call inserts, and the table if that is committed.      *)
NextRow == [entry |-> calls + 1, hash |-> Append(prev, calls + 1)]
Committed == table \o Append(pending, NextRow)

Called == open /\ calls < MaxCalls /\ calls' = calls + 1

-----------------------------------------------------------------------------

OpenForgetful ==
  /\ ~open
  /\ open' = TRUE
  /\ prev' = Genesis
  /\ UNCHANGED <<table, pending, calls, acked, stray>>
OpenTrail ==
  /\ ~open
  /\ open' = TRUE
  /\ prev' = LastHash
  /\ UNCHANGED <<table, pending, calls, acked, stray>>

LogUncommitted ==
  /\ Called
  /\ pending' = Append(pending, NextRow)
  /\ prev' = NextRow.hash
  /\ acked' = acked \cup {calls + 1}
  /\ UNCHANGED <<table, open, stray>>
Log ==
  /\ Called
  /\ table' = Committed
  /\ pending' = <<>>
  /\ prev' = NextRow.hash
  /\ acked' = acked \cup {calls + 1}
  /\ UNCHANGED <<open, stray>>

InsertFails ==
  /\ Called
  /\ UNCHANGED <<table, pending, prev, open, acked, stray>>

CommitFails ==
  /\ Called
  /\ \/ pending' = Append(pending, NextRow) /\ stray' = stray \cup {calls + 1}
     \/ pending' = <<>> /\ UNCHANGED stray
  /\ UNCHANGED <<table, prev, open, acked>>

(* The process stops inside a call, before its commit or after it ...      *)
CutShort ==
  /\ Called
  /\ table' \in {table, Committed}
  /\ pending' = <<>>
  /\ prev' = Genesis
  /\ open' = FALSE
  /\ UNCHANGED <<acked, stray>>

(* ... or elsewhere.                                                       *)
CloseTrail ==
  /\ open
  /\ pending' = <<>>
  /\ prev' = Genesis
  /\ open' = FALSE
  /\ UNCHANGED <<table, calls, acked, stray>>

AuditInit ==
  /\ table = <<>> /\ pending = <<>> /\ prev = Genesis /\ open = FALSE
  /\ calls = 0 /\ acked = {} /\ stray = {}

AuditNext ==
  OpenTrail \/ Log \/ InsertFails \/ CommitFails \/ CutShort \/ CloseTrail

AuditSpec == AuditInit /\ [][AuditNext]_auditVars

-----------------------------------------------------------------------------

(* verify_integrity, row by row.                                           *)
Linked(i) ==
  table[i].hash = Append(IF i = 1 THEN Genesis ELSE table[i - 1].hash, table[i].entry)

(* Every call that has returned has its row, and rows are in the order of  *)
(* the calls, whatever failed and however often the process restarted.     *)
AckedRecorded ==
  /\ \A c \in acked : \E i \in 1..Len(table) : table[i].entry = c
  /\ \A i, j \in 1..Len(table) : i < j => table[i].entry < table[j].entry

(* Verification fails exactly behind a row whose own commit had failed and *)
(* that a later one took along.  No other failure breaks the chain, and    *)
(* the rows behind the break are linked again.                             *)
ChainBreaksAtStrays ==
  \A i \in 1..Len(table) :
    Linked(i) <=> (i = 1 \/ table[i - 1].entry \notin stray)
=============================================================================
