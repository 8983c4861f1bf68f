------------------------- MODULE AuditTrailProofs -------------------------
(***************************************************************************)
(* Proofs about AuditTrail, for any number of calls, failures and restarts. *)
(***************************************************************************)
EXTENDS AuditTrail, SequenceTheorems, TLAPS

(* What the committed rows are like ...                                    *)
TableOK ==
  /\ \A i \in 1..Len(table) : table[i].entry \in 1..calls
  /\ table # <<>> => table[Len(table)].entry \notin stray
  /\ AckedRecorded
  /\ ChainBreaksAtStrays

(* ... and those left pending: later than all committed, each hashed on    *)
(* top of the last committed, since none of their calls moved the cache.   *)
PendingOK ==
  /\ open => prev = LastHash
  /\ ~open => pending = <<>>
  /\ \A i \in 1..Len(pending) :
       /\ pending[i].entry \in stray
       /\ pending[i].hash = Append(prev, pending[i].entry)
       /\ \A j \in 1..Len(table) : table[j].entry < pending[i].entry
       /\ \A j \in 1..Len(pending) : i < j => pending[i].entry < pending[j].entry

AInv == AuditTypeOK /\ TableOK /\ PendingOK

-----------------------------------------------------------------------------

LEMMA NextRowTypes ==
  ASSUME AInv
  PROVE  /\ NextRow \in LogRow
         /\ NextRow.entry = calls + 1
         /\ NextRow.hash = Append(prev, calls + 1)
  BY DEF AInv, AuditTypeOK, NextRow, LogRow

(* The table after a commit: what was there, what was pending, the row.    *)
LEMMA CommittedRows ==
  ASSUME AInv
  PROVE  /\ Committed \in Seq(LogRow)
         /\ Len(Committed) = Len(table) + Len(pending) + 1
         /\ \A i \in 1..Len(table) : Committed[i] = table[i]
         /\ \A i \in 1..Len(pending) : Committed[Len(table) + i] = pending[i]
         /\ Committed[Len(table) + Len(pending) + 1] = NextRow
<1> DEFINE added == Append(pending, NextRow)
<1>1. table \in Seq(LogRow) /\ pending \in Seq(LogRow) /\ NextRow \in LogRow
  BY NextRowTypes DEF AInv, AuditTypeOK
<1>2. /\ added \in Seq(LogRow) /\ Len(added) = Len(pending) + 1
      /\ \A i \in 1..Len(pending) : added[i] = pending[i]
      /\ added[Len(pending) + 1] = NextRow
  BY <1>1
<1>3. Committed = table \o added
  BY DEF Committed
<1> HIDE DEF added
<1>4. /\ Committed \in Seq(LogRow) /\ Len(Committed) = Len(table) + Len(added)
      /\ \A i \in 1..Len(table) : Committed[i] = table[i]
      /\ \A i \in 1..Len(added) : Committed[Len(table) + i] = added[i]
  <2>1. /\ Committed \in Seq(LogRow) /\ Len(Committed) = Len(table) + Len(added)
        /\ \A i \in 1..(Len(table) + Len(added)) :
             Committed[i] = IF i <= Len(table) THEN table[i] ELSE added[i - Len(table)]
    <3>1. /\ table \o added \in Seq(LogRow)
          /\ Len(table \o added) = Len(table) + Len(added)
          /\ \A i \in 1..(Len(table) + Len(added)) :
               (table \o added)[i] = IF i <= Len(table) THEN table[i] ELSE added[i - Len(table)]
      BY <1>1, <1>2, ConcatProperties, Zenon
    <3>2. QED BY <1>3, <3>1, Zenon
  <2>2. \A i \in 1..Len(table) : i \in 1..(Len(table) + Len(added)) /\ i <= Len(table)
    BY <1>1, <1>2
  <2>3. \A i \in 1..Len(added) :
          /\ Len(table) + i \in 1..(Len(table) + Len(added))
          /\ ~(Len(table) + i <= Len(table)) /\ (Len(table) + i) - Len(table) = i
    BY <1>1, <1>2
  <2>4. QED BY <2>1, <2>2, <2>3
<1>5. Len(table) \in Nat /\ Len(pending) \in Nat
  BY <1>1
<1>6. Committed[Len(table) + (Len(pending) + 1)] = NextRow
  BY <1>2, <1>4, <1>5
<1>7. Len(table) + (Len(pending) + 1) = Len(table) + Len(pending) + 1
  BY <1>5
<1>8. QED BY <1>2, <1>4, <1>5, <1>6, <1>7

(* A commit keeps the table in order, its breaks behind the strays.        *)
LEMMA CommitKeeps ==
  ASSUME AInv, open, table' = Committed, calls' = calls + 1, stray' = stray,
         acked' \subseteq acked \cup {calls + 1}
  PROVE  TableOK'
<1> DEFINE n == Len(table)
           p == Len(pending)
           t == Committed
<1>1. /\ n \in Nat /\ p \in Nat /\ calls \in Nat /\ prev \in Seq(Nat)
      /\ stray \subseteq 1..calls
  BY DEF AInv, AuditTypeOK
<1>2. /\ t \in Seq(LogRow) /\ Len(t) = n + p + 1
      /\ \A i \in 1..n : t[i] = table[i]
      /\ \A i \in (n + 1)..(n + p) : t[i] = pending[i - n]
      /\ t[n + p + 1].entry = calls + 1
      /\ t[n + p + 1].hash = Append(prev, calls + 1)
  <2>1. \A i \in (n + 1)..(n + p) : i - n \in 1..p /\ n + (i - n) = i
    BY <1>1
  <2>2. \A i \in (n + 1)..(n + p) : t[i] = pending[i - n]
    BY <2>1, CommittedRows
  <2>3. QED BY <2>2, CommittedRows, NextRowTypes
<1> HIDE DEF n, p, t
<1>3. \A i \in 1..n : table[i].entry \in 1..calls
  BY DEF AInv, TableOK, n
<1>4. \A i \in (n + 1)..(n + p) :
        /\ t[i].entry \in stray /\ t[i].entry \in 1..calls
        /\ t[i].hash = Append(prev, t[i].entry)
        /\ \A j \in 1..n : table[j].entry < t[i].entry
        /\ \A j \in (n + 1)..(n + p) : i < j => t[i].entry < t[j].entry
  <2>1. \A i \in (n + 1)..(n + p) : i - n \in 1..Len(pending)
    BY <1>1 DEF p
  <2>2. \A i, j \in (n + 1)..(n + p) : i < j => i - n < j - n
    BY <1>1
  <2>3. \A i \in (n + 1)..(n + p) :
          /\ t[i].entry \in stray
          /\ t[i].hash = Append(prev, t[i].entry)
          /\ \A j \in 1..n : table[j].entry < t[i].entry
    BY <1>2, <2>1 DEF AInv, PendingOK, n
  <2>4. \A i, j \in (n + 1)..(n + p) : i < j => t[i].entry < t[j].entry
    BY <1>2, <2>1, <2>2 DEF AInv, PendingOK
  <2>5. QED BY <1>1, <2>3, <2>4
<1>5. \A i \in 1..Len(t) : t[i].entry \in 1..(calls + 1) /\ (i # n + p + 1 => t[i].entry \in 1..calls)
  <2> SUFFICES ASSUME NEW i \in 1..Len(t)
               PROVE  t[i].entry \in 1..(calls + 1) /\ (i # n + p + 1 => t[i].entry \in 1..calls)
    OBVIOUS
  <2>1. CASE i \in 1..n
    BY <1>1, <1>2, <1>3, <2>1
  <2>2. CASE i \in (n + 1)..(n + p)
    BY <1>1, <1>4, <2>2
  <2>3. CASE i = n + p + 1
    BY <1>1, <1>2, <2>3
  <2>4. QED BY <1>1, <1>2, <2>1, <2>2, <2>3
<1>6. \A i, j \in 1..Len(t) : i < j => t[i].entry < t[j].entry
  <2> SUFFICES ASSUME NEW i \in 1..Len(t), NEW j \in 1..Len(t), i < j
               PROVE  t[i].entry < t[j].entry
    OBVIOUS
  <2>1. CASE j \in 1..n
    <3>1. i \in 1..n
      BY <1>1, <1>2, <2>1
    <3>2. table[i].entry < table[j].entry
      BY <2>1, <3>1 DEF AInv, TableOK, AckedRecorded, n
    <3>3. QED BY <1>2, <2>1, <3>1, <3>2
  <2>2. CASE j \in (n + 1)..(n + p)
    <3>1. CASE i \in 1..n
      BY <1>2, <1>4, <2>2, <3>1
    <3>2. CASE i \in (n + 1)..(n + p)
      BY <1>4, <2>2, <3>2
    <3>3. QED BY <1>1, <1>2, <2>2, <3>1, <3>2
  <2>3. CASE j = n + p + 1
    <3>1. i # n + p + 1
      BY <1>1, <1>2, <2>3
    <3>2. QED BY <1>1, <1>2, <1>5, <2>3, <3>1
  <2>4. QED BY <1>1, <1>2, <2>1, <2>2, <2>3
<1>7. \A c \in acked' : \E i \in 1..Len(t) : t[i].entry = c
  <2> SUFFICES ASSUME NEW c \in acked' PROVE \E i \in 1..Len(t) : t[i].entry = c
    OBVIOUS
  <2>1. CASE c \in acked
    <3>1. PICK i \in 1..n : table[i].entry = c
      BY <2>1 DEF AInv, TableOK, AckedRecorded, n
    <3>2. i \in 1..Len(t) /\ t[i] = table[i]
      BY <1>1, <1>2
    <3>3. QED BY <3>1, <3>2
  <2>2. CASE c = calls + 1
    <3>1. n + p + 1 \in 1..Len(t)
      BY <1>1, <1>2
    <3>2. QED BY <1>2, <2>2, <3>1
  <2>3. QED BY <2>1, <2>2
<1>8. ASSUME NEW i \in 1..Len(t)
      PROVE  (t[i].hash = Append(IF i = 1 THEN Genesis ELSE t[i - 1].hash, t[i].entry))
               <=> (i = 1 \/ t[i - 1].entry \notin stray)
  <2>1. CASE i \in 1..n
    <3>1. i # 1 => i - 1 \in 1..n
      BY <1>1, <2>1
    <3>2. Linked(i) <=> (i = 1 \/ table[i - 1].entry \notin stray)
      BY <2>1 DEF AInv, TableOK, ChainBreaksAtStrays, n
    <3>3. QED BY <1>2, <2>1, <3>1, <3>2 DEF Linked
  <2>2. CASE i \in (n + 1)..(n + p + 1)
    <3>1. t[i].hash = Append(prev, t[i].entry)
      BY <1>1, <1>2, <1>4, <2>2
    <3>2. CASE i = n + 1
      <4>1. prev = LastHash /\ table \in Seq(LogRow)
        BY DEF AInv, PendingOK, AuditTypeOK
      <4>2. CASE n = 0
        <5>1. prev = Genesis /\ i = 1
          BY <3>2, <4>1, <4>2 DEF LastHash, n
        <5>2. QED BY <3>1, <5>1
      <4>3. CASE n # 0
        <5>1. i # 1 /\ i - 1 = n /\ n \in 1..n
          BY <1>1, <3>2, <4>3
        <5>2. t[i - 1] = table[n]
          BY <1>2, <5>1
        <5>3. prev = table[n].hash /\ table[n].entry \notin stray
          BY <4>1, <4>3 DEF LastHash, n, AInv, TableOK
        <5>4. QED BY <3>1, <5>1, <5>2, <5>3
      <4>4. QED BY <4>2, <4>3
    <3>3. CASE i # n + 1
      <4>1. i # 1 /\ i - 1 \in (n + 1)..(n + p)
        BY <1>1, <2>2, <3>3
      <4>2. t[i - 1].entry \in stray /\ t[i - 1].hash = Append(prev, t[i - 1].entry)
        BY <1>4, <4>1
      <4>3. t[i - 1].entry \in Nat /\ t[i].entry \in Nat
        BY <1>1, <1>2, <1>5, <4>1
      <4>4. /\ Len(Append(prev, t[i].entry)) = Len(prev) + 1
            /\ Append(prev, t[i - 1].entry) \in Seq(Nat)
            /\ Len(Append(prev, t[i - 1].entry)) = Len(prev) + 1
            /\ Len(prev) \in Nat
        BY <1>1, <4>3
      <4>5. Len(Append(t[i - 1].hash, t[i].entry)) = Len(prev) + 2
        BY <4>2, <4>3, <4>4
      <4>6. t[i].hash # Append(t[i - 1].hash, t[i].entry)
        BY <3>1, <4>4, <4>5
      <4>7. QED BY <4>1, <4>2, <4>6
    <3>4. QED BY <3>2, <3>3
  <2>3. QED BY <1>1, <1>2, <2>1, <2>2
<1>9. t[Len(t)].entry \notin stray
  BY <1>1, <1>2
<1>10. table' = t
  BY DEF t
<1>11. AckedRecorded'
  BY <1>6, <1>7, <1>10 DEF AckedRecorded
<1>12. ChainBreaksAtStrays'
  BY <1>8, <1>10 DEF ChainBreaksAtStrays, Linked
<1>13. QED BY <1>5, <1>9, <1>10, <1>11, <1>12 DEF TableOK

LEMMA AInvInit == AuditInit => AInv
<1> SUFFICES ASSUME AuditInit PROVE AInv
  OBVIOUS
<1>1. table = <<>> /\ pending = <<>> /\ prev \in Seq(Nat) /\ acked = {} /\ stray = {}
         /\ calls = 0 /\ open = FALSE
  BY DEF AuditInit, Genesis
<1>2. \A i \in 1..Len(<<>>) : FALSE
  OBVIOUS
<1>3. AuditTypeOK
  <2>1. <<>> \in Seq(LogRow)
    OBVIOUS
  <2>2. {} \subseteq 1..0 /\ FALSE \in BOOLEAN /\ 0 \in Nat
    OBVIOUS
  <2>3. QED BY <1>1, <2>1, <2>2, Zenon DEF AuditTypeOK
<1>4. TableOK
  BY <1>1, <1>2 DEF TableOK, AckedRecorded, ChainBreaksAtStrays
<1>5. PendingOK
  BY <1>1, <1>2 DEF PendingOK
<1>6. QED BY <1>3, <1>4, <1>5 DEF AInv

LEMMA AInvStep == AInv /\ [AuditNext]_auditVars => AInv'
<1> SUFFICES ASSUME AInv, [AuditNext]_auditVars PROVE AInv'
  OBVIOUS
<1>0. /\ calls \in Nat /\ table \in Seq(LogRow) /\ pending \in Seq(LogRow)
      /\ prev \in Seq(Nat) /\ acked \subseteq 1..calls /\ stray \subseteq 1..calls
  BY DEF AInv, AuditTypeOK
<1>1. \A i \in 1..Len(table) : table[i].entry \in 1..calls
  BY DEF AInv, TableOK
<1>2. Genesis \in Seq(Nat) /\ <<>> \in Seq(LogRow) /\ Len(<<>>) = 0
  BY DEF Genesis
(* A call that commits nothing adds nothing to the table.                  *)
<1>3. ASSUME table' = table, acked' = acked, calls' \in {calls, calls + 1},
             stray' \in {stray, stray \cup {calls + 1}}
      PROVE  TableOK'
  <2>1. \A i \in 1..Len(table) : table[i].entry \in 1..calls' /\ table[i].entry # calls + 1
    BY <1>0, <1>1, <1>3
  <2>2. \A i \in 1..Len(table) : table[i].entry \in stray' <=> table[i].entry \in stray
    BY <1>3, <2>1
  <2>3. \A i \in 1..Len(table) : i # 1 => i - 1 \in 1..Len(table)
    BY <1>0
  <2>4. ChainBreaksAtStrays'
    BY <1>3, <2>2, <2>3 DEF AInv, TableOK, ChainBreaksAtStrays, Linked
  <2>5. table # <<>> => Len(table) \in 1..Len(table)
    BY <1>0
  <2>6. QED BY <1>3, <2>1, <2>2, <2>4, <2>5 DEF AInv, TableOK, AckedRecorded
<1>4. CASE OpenTrail
  <2>1. LastHash \in Seq(Nat)
    <3>1. CASE table = <<>>
      BY <1>2, <3>1 DEF LastHash
    <3>2. CASE table # <<>>
      <4>1. Len(table) \in 1..Len(table)
        BY <1>0, <3>2
      <4>2. table[Len(table)] \in LogRow
        BY <1>0, <4>1
      <4>3. QED BY <3>2, <4>2 DEF LastHash, LogRow
    <3>3. QED BY <3>1, <3>2
  <2>2. PendingOK'
    BY <1>2, <1>4 DEF OpenTrail, AInv, PendingOK, LastHash
  <2>3. QED BY <1>0, <1>3, <1>4, <2>1, <2>2 DEF OpenTrail, AInv, AuditTypeOK
<1>5. CASE Log
  <2>1. TableOK'
    BY <1>5, CommitKeeps DEF Log, Called
  <2>2. /\ Len(table') = Len(table) + Len(pending) + 1
        /\ table'[Len(table) + Len(pending) + 1] = NextRow /\ table' \in Seq(LogRow)
    BY <1>5, CommittedRows DEF Log
  <2>3. LastHash' = NextRow.hash
    BY <1>0, <2>2 DEF LastHash
  <2>4. PendingOK'
    BY <1>2, <1>5, <2>3 DEF Log, Called, PendingOK
  <2>5. NextRow.hash \in Seq(Nat)
    BY NextRowTypes DEF LogRow
  <2>6. AuditTypeOK'
    BY <1>0, <1>2, <1>5, <2>2, <2>5 DEF Log, Called, AInv, AuditTypeOK
  <2>7. QED BY <2>1, <2>4, <2>6 DEF AInv
<1>6. CASE InsertFails
  <2>1. PendingOK'
    BY <1>6 DEF InsertFails, Called, AInv, PendingOK, LastHash
  <2>2. QED BY <1>0, <1>3, <1>6, <2>1 DEF InsertFails, Called, AInv, AuditTypeOK
<1>7. CASE CommitFails
  <2>1. /\ table' = table /\ acked' = acked /\ prev' = prev /\ calls' = calls + 1
        /\ open' = open /\ open
    BY <1>7 DEF CommitFails, Called
  <2>2. CASE pending' = <<>> /\ stray' = stray
    <3>1. PendingOK'
      BY <1>2, <2>1, <2>2 DEF AInv, PendingOK, LastHash
    <3>2. QED BY <1>0, <1>2, <1>3, <2>1, <2>2, <3>1 DEF AInv, AuditTypeOK
  <2>3. CASE pending' = Append(pending, NextRow) /\ stray' = stray \cup {calls + 1}
    <3> DEFINE p == Len(pending)
    <3>1. /\ pending' \in Seq(LogRow) /\ Len(pending') = p + 1 /\ p \in Nat
          /\ \A i \in 1..p : pending'[i] = pending[i]
          /\ pending'[p + 1] = NextRow
      BY <1>0, <2>3, NextRowTypes
    <3>2. \A i \in 1..p : pending[i].entry \in 1..calls
      BY <1>0 DEF AInv, PendingOK
    <3>3. ASSUME NEW i \in 1..(p + 1)
          PROVE  /\ pending'[i].entry \in stray'
                 /\ pending'[i].hash = Append(prev, pending'[i].entry)
                 /\ \A j \in 1..Len(table) : table[j].entry < pending'[i].entry
                 /\ \A j \in 1..(p + 1) : i < j => pending'[i].entry < pending'[j].entry
      <4>1. CASE i = p + 1
        <5>1. pending'[i].entry = calls + 1 /\ pending'[i].hash = Append(prev, calls + 1)
          BY <3>1, <4>1, NextRowTypes
        <5>2. QED BY <1>0, <1>1, <2>3, <3>1, <4>1, <5>1
      <4>2. CASE i \in 1..p
        <5>1. /\ pending[i].entry \in stray
              /\ pending[i].hash = Append(prev, pending[i].entry)
              /\ \A j \in 1..Len(table) : table[j].entry < pending[i].entry
              /\ \A j \in 1..p : i < j => pending[i].entry < pending[j].entry
          BY <4>2 DEF AInv, PendingOK
        <5>2. pending'[p + 1].entry = calls + 1
          BY <3>1, NextRowTypes
        <5>3. \A j \in 1..(p + 1) : j \in 1..p \/ j = p + 1
          BY <3>1
        <5>4. \A j \in 1..(p + 1) : i < j => pending'[i].entry < pending'[j].entry
          <6> SUFFICES ASSUME NEW j \in 1..(p + 1), i < j
                       PROVE  pending'[i].entry < pending'[j].entry
            OBVIOUS
          <6>1. CASE j \in 1..p
            BY <3>1, <4>2, <5>1, <6>1
          <6>2. CASE j = p + 1
            <7>1. pending'[i].entry = pending[i].entry /\ pending[i].entry \in 1..calls
              BY <3>1, <3>2, <4>2
            <7>2. QED BY <1>0, <5>2, <6>2, <7>1
          <6>3. QED BY <5>3, <6>1, <6>2
        <5>5. QED BY <2>3, <3>1, <4>2, <5>1, <5>4
      <4>3. QED BY <3>1, <4>1, <4>2
    <3>4. PendingOK'
      BY <2>1, <3>1, <3>3 DEF AInv, PendingOK, LastHash
    <3>5. QED BY <1>0, <1>3, <2>1, <2>3, <3>1, <3>4 DEF AInv, AuditTypeOK
  <2>4. QED BY <1>7, <2>2, <2>3 DEF CommitFails
<1>8. CASE CutShort
  <2>1. TableOK'
    <3>1. CASE table' = table
      BY <1>3, <1>8, <3>1 DEF CutShort, Called
    <3>2. CASE table' = Committed
      BY <1>8, <3>2, CommitKeeps DEF CutShort, Called
    <3>3. QED BY <1>8, <3>1, <3>2 DEF CutShort
  <2>2. PendingOK'
    BY <1>2, <1>8 DEF CutShort, PendingOK
  <2>3. table' \in Seq(LogRow)
    BY <1>0, <1>8, CommittedRows DEF CutShort
  <2>4. /\ pending' = <<>> /\ prev' = Genesis /\ open' = FALSE /\ calls' = calls + 1
        /\ acked' = acked /\ stray' = stray
    BY <1>8 DEF CutShort, Called
  <2>5. AuditTypeOK'
    <3>1. 1..calls \subseteq 1..(calls + 1) /\ calls + 1 \in Nat
      BY <1>0
    <3>2. acked' \subseteq 1..calls' /\ stray' \subseteq 1..calls' /\ calls' \in Nat
      BY <1>0, <2>4, <3>1
    <3>3. pending' \in Seq(LogRow) /\ prev' \in Seq(Nat) /\ open' \in BOOLEAN
      BY <1>2, <2>4
    <3>4. QED BY <2>3, <3>2, <3>3 DEF AuditTypeOK
  <2>6. QED BY <2>1, <2>2, <2>5 DEF AInv
<1>9. CASE CloseTrail
  <2>1. PendingOK'
    BY <1>2, <1>9 DEF CloseTrail, PendingOK
  <2>2. QED BY <1>0, <1>2, <1>3, <1>9, <2>1 DEF CloseTrail, AInv, AuditTypeOK
<1>10. CASE UNCHANGED auditVars
  BY <1>10 DEF auditVars, AInv, AuditTypeOK, TableOK, PendingOK, AckedRecorded,
               ChainBreaksAtStrays, Linked, LastHash
<1>11. QED
  BY <1>4, <1>5, <1>6, <1>7, <1>8, <1>9, <1>10 DEF AuditNext

LEMMA AInvAlways == AuditSpec => []AInv
  BY AInvInit, AInvStep, PTL DEF AuditSpec

(* What was acknowledged is in the table, in the order of the calls.       *)
THEOREM AcksAreRecorded == AuditSpec => []AckedRecorded
<1>1. AInv => AckedRecorded
  BY DEF AInv, TableOK
<1>2. QED BY AInvAlways, <1>1, PTL

(* The chain breaks behind stray rows and nowhere else.                    *)
THEOREM ChainBreaks == AuditSpec => []ChainBreaksAtStrays
<1>1. AInv => ChainBreaksAtStrays
  BY DEF AInv, TableOK
<1>2. QED BY AInvAlways, <1>1, PTL
=============================================================================
