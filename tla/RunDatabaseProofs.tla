-------------------------- MODULE RunDatabaseProofs --------------------------
(***************************************************************************)
(* Proofs about RunDatabase, for any number of runs, connections, readers  *)
(* and records: every table is a sequence numbered without gaps, the       *)
(* active pointer of an artifact is its latest version, readers miss       *)
(* nothing, and the repository implements RunRecords.                      *)
(***************************************************************************)
EXTENDS RunDatabase, SequenceTheorems, TLAPS

(* A connection that is in the middle of one of the three transactions.    *)
InTx(c) == tx[c].at \in {"read", "inserted"}

(* A transaction numbers a table that its method writes.                   *)
NameFits == \A c \in Connections : InTx(c) => tx[c].name \in NamesOf(tx[c].method)

(* Who has inserted holds the lock, and nobody has committed since its     *)
(* snapshot.                                                               *)
LockHeld ==
  \A c \in Connections : tx[c].at = "inserted" => writer = c /\ ~tx[c].stale

(* What a transaction has read is still so, unless somebody has committed. *)
Fresh(t) ==
  /\ t.last = Len(Rows(t.method, t.run, t.name))
  /\ t.pointer = activeVersion[t.run]

SnapshotFresh ==
  \A c \in Connections : InTx(c) /\ ~tx[c].stale => Fresh(tx[c])

(* The row at place i has number i.                                        *)
EventsNumbered ==
  \A r \in Runs : \A i \in 1 .. Len(events[r]) : events[r][i].seq = i

(* The inductive invariant. TypeOK is not inductive without it: that the   *)
(* rows stay a sequence depends on what was read before the insert.        *)
DatabaseInv ==
  /\ TypeOK
  /\ NameFits
  /\ LockHeld
  /\ SnapshotFresh
  /\ EventsNumbered
  /\ ActiveIsLatest
  /\ ReadersMissNothing

-----------------------------------------------------------------------------
(* The operators *)

(* The greatest number of a sequence of rows is its length.                *)
LEMMA LastKeyIsLen ==
  ASSUME NEW S, NEW s \in Seq(S)
  PROVE  LastKey(s) = Len(s)
<1>1. DOMAIN s = 1 .. Len(s) /\ Len(s) \in Nat
  OBVIOUS
<1>2. Len(s) \in DOMAIN s \union {0} /\ \A j \in DOMAIN s : j <= Len(s)
  BY <1>1
<1>3. ASSUME NEW k \in DOMAIN s \union {0}, \A j \in DOMAIN s : j <= k
      PROVE  k = Len(s)
  <2>1. k <= Len(s)
    BY <1>1
  <2>2. Len(s) <= k
    BY <1>1, <1>3
  <2>. QED BY <1>1, <2>1, <2>2
<1>. QED BY <1>2, <1>3 DEF LastKey

(* A row with the next number goes to the end.                             *)
LEMMA InsertIsAppend ==
  ASSUME NEW S, NEW s \in Seq(S), NEW e \in S
  PROVE  Insert(s, Len(s) + 1, e) = Append(s, e)
<1>1. DOMAIN s \union {Len(s) + 1} = 1 .. Len(s) + 1
  OBVIOUS
<1>2. Append(s, e) \in Seq(S) /\ Len(Append(s, e)) = Len(s) + 1
  OBVIOUS
<1>3. Append(s, e) \in [1 .. Len(s) + 1 -> S]
  BY <1>2, LenProperties
<1>4. \A k \in 1 .. Len(s) + 1 : Append(s, e)[k] = IF k = Len(s) + 1 THEN e ELSE s[k]
  OBVIOUS
<1>5. Append(s, e) = [k \in 1 .. Len(s) + 1 |-> IF k = Len(s) + 1 THEN e ELSE s[k]]
  BY <1>3, <1>4
<1>. QED BY <1>1, <1>5 DEF Insert

(* What a transaction is, by its place.                                    *)
LEMMA TxTypes ==
  ASSUME TypeOK, NEW c \in Connections
  PROVE  /\ tx[c].at \in {"idle", "checked", "read", "inserted"}
         /\ tx[c].at = "idle" => tx[c] = NoTx
         /\ tx[c].at = "checked" => tx[c] \in AnswerTx
         /\ InTx(c) => tx[c] \in RecordTx
<1>1. tx[c] \in {NoTx} \union AnswerTx \union RecordTx
  BY DEF TypeOK
<1>2. CASE tx[c] = NoTx
  BY <1>2 DEF NoTx, InTx
<1>3. CASE tx[c] \in AnswerTx
  BY <1>3 DEF AnswerTx, InTx
<1>4. CASE tx[c] \in RecordTx
  BY <1>4 DEF RecordTx, InTx
<1>. QED BY <1>1, <1>2, <1>3, <1>4

-----------------------------------------------------------------------------
(* What a commit does, seen from the tables: one record at the end of one  *)
(* of them.                                                                *)

EventAppended(r, d) ==
  /\ events' = [events EXCEPT ![r] =
       Append(events[r], [seq |-> Len(events[r]) + 1, prev |-> Len(events[r]), data |-> d])]
  /\ UNCHANGED <<clarifications, artifacts, activeVersion>>

ClarificationAppended(r, d) ==
  /\ clarifications' = [clarifications EXCEPT ![r] =
       Append(clarifications[r], [seq |-> Len(clarifications[r]) + 1, data |-> d])]
  /\ UNCHANGED <<events, artifacts, activeVersion>>

ArtifactAdded(r, n, d) ==
  /\ artifacts' = [artifacts EXCEPT ![r] = [artifacts[r] EXCEPT ![n] =
       Append(artifacts[r][n], [version |-> Len(artifacts[r][n]) + 1, data |-> d])]]
  /\ activeVersion' = [activeVersion EXCEPT ![r] =
       [activeVersion[r] EXCEPT ![n] = Len(artifacts[r][n]) + 1]]
  /\ UNCHANGED <<events, clarifications>>

LEMMA CommitAppends ==
  ASSUME DatabaseInv, NEW c \in Connections, Commit(c)
  PROVE  \E r \in Runs, d \in Payloads :
           \/ EventAppended(r, d)
           \/ ClarificationAppended(r, d)
           \/ \E n \in Names : ArtifactAdded(r, n, d)
<1> DEFINE t == tx[c]
<1>1. /\ t \in RecordTx /\ t.name \in NamesOf(t.method)
      /\ t.last = Len(Rows(t.method, t.run, t.name))
      /\ t.pointer = activeVersion[t.run]
  <2>1. t.at = "inserted" /\ InTx(c)
    BY DEF Commit, InTx
  <2>2. t \in RecordTx
    BY <2>1, TxTypes DEF DatabaseInv
  <2>3. ~t.stale
    BY <2>1 DEF DatabaseInv, LockHeld
  <2>. QED BY <2>1, <2>2, <2>3 DEF DatabaseInv, NameFits, SnapshotFresh, Fresh
<1>2. /\ t.run \in Runs /\ t.data \in Payloads /\ t.method \in Methods
  BY <1>1 DEF RecordTx
<1>3. CommitRows(t)
  BY DEF Commit
<1>4. CASE t.method = "AppendEvent"
  <2>1. events[t.run] \in Seq([seq : Nat, prev : Nat, data : Payloads])
    BY <1>2 DEF DatabaseInv, TypeOK
  <2>2. t.last = Len(events[t.run]) /\ t.last \in Nat
    BY <1>1, <1>4, <2>1, LenProperties DEF Rows
  <2>3. EventRow(t) = [seq |-> t.last + 1, prev |-> t.last, data |-> t.data]
    BY DEF EventRow
  <2>4. EventRow(t) \in [seq : Nat, prev : Nat, data : Payloads]
    BY <1>2, <2>2, <2>3
  <2>5. Insert(events[t.run], t.last + 1, EventRow(t)) = Append(events[t.run], EventRow(t))
    BY <2>1, <2>2, <2>4, InsertIsAppend
  <2>6. /\ events' = [events EXCEPT ![t.run] = Insert(events[t.run], t.last + 1, EventRow(t))]
        /\ UNCHANGED <<clarifications, artifacts, activeVersion>>
    BY <1>3, <1>4 DEF CommitRows
  <2>7. EventAppended(t.run, t.data)
    BY <2>2, <2>3, <2>5, <2>6 DEF EventAppended
  <2>. QED BY <1>2, <2>7
<1>5. CASE t.method = "AppendClarification"
  <2>1. clarifications[t.run] \in Seq([seq : Nat, data : Payloads])
    BY <1>2 DEF DatabaseInv, TypeOK
  <2>2. t.last = Len(clarifications[t.run]) /\ t.last \in Nat
    BY <1>1, <1>5, <2>1, LenProperties DEF Rows
  <2>3. [seq |-> t.last + 1, data |-> t.data] \in [seq : Nat, data : Payloads]
    BY <1>2, <2>2
  <2>4. Insert(clarifications[t.run], t.last + 1, [seq |-> t.last + 1, data |-> t.data])
          = Append(clarifications[t.run], [seq |-> t.last + 1, data |-> t.data])
    BY <2>1, <2>2, <2>3, InsertIsAppend
  <2>5. /\ clarifications' = [clarifications EXCEPT ![t.run] =
             Insert(clarifications[t.run], t.last + 1, [seq |-> t.last + 1, data |-> t.data])]
        /\ UNCHANGED <<events, artifacts, activeVersion>>
    BY <1>3, <1>5 DEF CommitRows
  <2>6. ClarificationAppended(t.run, t.data)
    BY <2>2, <2>4, <2>5 DEF ClarificationAppended
  <2>. QED BY <1>2, <2>6
<1>6. CASE t.method = "AddArtifact"
  <2>0. t.name \in Names
    BY <1>1, <1>6 DEF NamesOf
  <2>1. artifacts[t.run][t.name] \in Seq([version : Nat, data : Payloads])
    <3>1. artifacts \in [Runs -> [Names -> Seq([version : Nat, data : Payloads])]]
      BY DEF DatabaseInv, TypeOK
    <3>2. artifacts[t.run] \in [Names -> Seq([version : Nat, data : Payloads])]
      BY <1>2, <3>1, Zenon
    <3>. QED BY <2>0, <3>2, Zenon
  <2>2. t.last = Len(artifacts[t.run][t.name]) /\ t.last \in Nat
    BY <1>1, <1>6, <2>1, LenProperties DEF Rows
  <2>3. [version |-> t.last + 1, data |-> t.data] \in [version : Nat, data : Payloads]
    <3>1. t.last \in Nat
      BY <2>2
    <3>2. t.last + 1 \in Nat
      BY <3>1
    <3>. QED BY <1>2, <3>2, Zenon
  <2>4. Insert(artifacts[t.run][t.name], t.last + 1, [version |-> t.last + 1, data |-> t.data])
          = Append(artifacts[t.run][t.name], [version |-> t.last + 1, data |-> t.data])
    BY <2>1, <2>2, <2>3, InsertIsAppend
  <2>5. /\ artifacts' = [artifacts EXCEPT ![t.run] = [artifacts[t.run] EXCEPT ![t.name] =
             Insert(artifacts[t.run][t.name], t.last + 1,
                    [version |-> t.last + 1, data |-> t.data])]]
        /\ activeVersion' = [activeVersion EXCEPT ![t.run] = NewPointer(t)]
        /\ UNCHANGED <<events, clarifications>>
    <3>1. artifacts \in [Runs -> [Names -> Seq([version : Nat, data : Payloads])]]
      BY DEF DatabaseInv, TypeOK
    <3>. QED BY <1>2, <1>3, <1>6, <2>0, <3>1 DEF CommitRows
  <2>6. NewPointer(t) = [activeVersion[t.run] EXCEPT ![t.name] = Len(artifacts[t.run][t.name]) + 1]
    BY <1>1, <2>2 DEF NewPointer
  <2>7. ArtifactAdded(t.run, t.name, t.data)
    BY <2>2, <2>4, <2>5, <2>6 DEF ArtifactAdded
  <2>. QED BY <1>2, <2>0, <2>7
<1>. QED BY <1>2, <1>4, <1>5, <1>6 DEF Methods

-----------------------------------------------------------------------------
(* The connections *)

TxType == {NoTx} \union AnswerTx \union RecordTx

(* The conjuncts of the invariant that speak of the connections.           *)
TxInv ==
  /\ tx \in [Connections -> TxType]
  /\ writer \in Connections \union {NoConnection}
  /\ NameFits
  /\ LockHeld
  /\ SnapshotFresh

LEMMA TxInvOfDatabaseInv == DatabaseInv => TxInv
  BY DEF DatabaseInv, TypeOK, TxInv, TxType

(* One connection moves and the tables stay: it is enough to look at that  *)
(* connection, as long as nobody else loses the lock.                      *)
LEMMA OneConnectionMoves ==
  ASSUME TxInv, NEW c \in Connections, NEW t \in TxType,
         tx' = [tx EXCEPT ![c] = t],
         writer' \in Connections \union {NoConnection},
         \A d \in Connections : d # c /\ writer = d => writer' = d,
         UNCHANGED tables,
         t.at \in {"read", "inserted"} => t.name \in NamesOf(t.method),
         t.at = "inserted" => writer' = c /\ ~t.stale,
         t.at \in {"read", "inserted"} /\ ~t.stale => Fresh(t)
  PROVE  TxInv'
<1>1. tx' \in [Connections -> TxType]
  BY DEF TxInv
<1>2. tx'[c] = t /\ \A d \in Connections : d # c => tx'[d] = tx[d]
  BY DEF TxInv
<1>3. NameFits'
  BY <1>2 DEF TxInv, NameFits, InTx
<1>4. LockHeld'
  BY <1>2 DEF TxInv, LockHeld
<1>5. SnapshotFresh'
  <2>1. ASSUME NEW d \in Connections, InTx(d)', ~tx'[d].stale
        PROVE  Fresh(tx[d])'
    <3>1. CASE d = c
      BY <1>2, <2>1, <3>1 DEF InTx, Fresh, Rows, tables
    <3>2. CASE d # c
      <4>1. tx'[d] = tx[d] /\ InTx(d) /\ ~tx[d].stale
        BY <1>2, <2>1, <3>2 DEF InTx
      <4>2. Fresh(tx[d])
        BY <4>1 DEF TxInv, SnapshotFresh
      <4>. QED BY <4>1, <4>2 DEF Fresh, Rows, tables
    <3>. QED BY <3>1, <3>2
  <2>. QED BY <2>1 DEF SnapshotFresh
<1>. QED BY <1>1, <1>3, <1>4, <1>5 DEF TxInv

(* A commit, by a transaction or by a single statement, leaves nobody with *)
(* the lock and no snapshot fresh, so that nothing depends on the tables.  *)
LEMMA CommitMakesStale ==
  ASSUME TxInv, NEW c \in Connections, writer \in {NoConnection, c},
         tx' = AfterCommit(c), writer' = NoConnection
  PROVE  TxInv'
<1>1. \A d \in Connections : tx[d].at = "inserted" => d = c
  BY DatabaseAssumption DEF TxInv, LockHeld
<1>2. tx'[c] = NoTx
  BY DEF AfterCommit
<1>3. ASSUME NEW d \in Connections, d # c
      PROVE  /\ tx'[d] \in TxType
             /\ tx'[d].at = tx[d].at
             /\ tx[d].at = "read" => /\ tx'[d].stale
                                     /\ tx'[d].name = tx[d].name
                                     /\ tx'[d].method = tx[d].method
  <2>1. tx[d] \in TxType
    BY DEF TxInv
  <2>2. CASE tx[d].at = "read"
    <3>1. tx'[d] = [tx[d] EXCEPT !.stale = TRUE]
      BY <1>3, <2>2 DEF AfterCommit
    <3>2. tx[d] \in RecordTx
      BY <2>1, <2>2 DEF TxType, NoTx, AnswerTx
    <3>. QED BY <2>2, <3>1, <3>2 DEF TxType, RecordTx
  <2>3. CASE tx[d].at # "read"
    BY <1>3, <2>1, <2>3 DEF AfterCommit
  <2>. QED BY <2>2, <2>3
<1>4. tx' \in [Connections -> TxType]
  <2>1. \A d \in Connections : tx'[d] \in TxType
    BY <1>2, <1>3 DEF TxType
  <2>2. tx' = [d \in Connections |-> tx'[d]]
    BY DEF AfterCommit
  <2>. QED BY <2>1, <2>2
<1>5. ASSUME NEW d \in Connections, InTx(d)'
      PROVE  d # c /\ tx[d].at = "read" /\ tx'[d].stale /\ tx'[d].at = "read"
             /\ tx'[d].name \in NamesOf(tx'[d].method)
  <2>1. d # c
    BY <1>2, <1>5 DEF InTx, NoTx
  <2>2. tx[d].at = "read"
    BY <1>1, <1>3, <1>5, <2>1 DEF InTx
  <2>. QED BY <1>3, <2>1, <2>2 DEF TxInv, NameFits, InTx
<1>6. NameFits' /\ LockHeld' /\ SnapshotFresh'
  BY <1>5 DEF NameFits, LockHeld, SnapshotFresh, InTx
<1>. QED BY <1>4, <1>6 DEF TxInv

(* Every step keeps what is said of the connections.                       *)
LEMMA StepKeepsTxInv ==
  ASSUME DatabaseInv, [Next]_vars
  PROVE  TxInv'
<1>0. TxInv
  BY TxInvOfDatabaseInv
<1>1. ASSUME NEW c \in Connections, NEW method \in Methods, NEW r \in Runs,
             NEW data \in Payloads, NEW n \in NamesOf(method),
             ReadLast(c, method, r, n, data)
      PROVE  TxInv'
  <2> DEFINE t == [at |-> "read", method |-> method, run |-> r, name |-> n, data |-> data,
                   last |-> LastKey(Rows(method, r, n)), pointer |-> activeVersion[r],
                   stale |-> FALSE]
  <2>1. LastKey(Rows(method, r, n)) = Len(Rows(method, r, n))
        /\ Len(Rows(method, r, n)) \in Nat
    <3>1. CASE method = "AppendEvent"
      <4>1. Rows(method, r, n) = events[r]
        BY <3>1 DEF Rows
      <4>2. events[r] \in Seq([seq : Nat, prev : Nat, data : Payloads])
        BY DEF DatabaseInv, TypeOK
      <4>. QED BY <4>1, <4>2, LastKeyIsLen, LenProperties
    <3>2. CASE method = "AppendClarification"
      <4>1. Rows(method, r, n) = clarifications[r]
        BY <3>2 DEF Rows
      <4>2. clarifications[r] \in Seq([seq : Nat, data : Payloads])
        BY DEF DatabaseInv, TypeOK
      <4>. QED BY <4>1, <4>2, LastKeyIsLen, LenProperties
    <3>3. CASE method = "AddArtifact"
      <4>1. Rows(method, r, n) = artifacts[r][n] /\ n \in Names
        BY <3>3 DEF Rows, NamesOf
      <4>2. artifacts[r][n] \in Seq([version : Nat, data : Payloads])
        <5>1. artifacts \in [Runs -> [Names -> Seq([version : Nat, data : Payloads])]]
          BY DEF DatabaseInv, TypeOK
        <5>2. artifacts[r] \in [Names -> Seq([version : Nat, data : Payloads])]
          BY <5>1, Zenon
        <5>. QED BY <4>1, <5>2, Zenon
      <4>. QED BY <4>1, <4>2, LastKeyIsLen, LenProperties
    <3>. QED BY <3>1, <3>2, <3>3 DEF Methods
  <2>2. activeVersion[r] \in [Names -> Nat]
    BY DEF DatabaseInv, TypeOK
  <2>3. n \in Names \union {NoName}
    BY DEF NamesOf
  <2>4. t \in RecordTx
    BY <2>1, <2>2, <2>3 DEF RecordTx
  <2>5. /\ t \in TxType /\ tx' = [tx EXCEPT ![c] = t] /\ writer' = writer
        /\ UNCHANGED tables /\ t.name \in NamesOf(t.method) /\ t.at = "read" /\ Fresh(t)
    BY <1>1, <2>1, <2>4 DEF TxType, ReadLast, Fresh
  <2>. QED BY <1>0, <2>5, OneConnectionMoves DEF TxInv
<1>2. ASSUME NEW c \in Connections, InsertRow(c)
      PROVE  TxInv'
  <2> DEFINE t == [tx[c] EXCEPT !.at = "inserted"]
  <2>1. tx[c].at = "read" /\ InTx(c) /\ ~tx[c].stale /\ writer = NoConnection
    BY <1>2 DEF InsertRow, MayWrite, InTx
  <2>2. tx[c] \in RecordTx
    BY <2>1, TxTypes DEF DatabaseInv
  <2>3. t \in RecordTx /\ t.at = "inserted" /\ t.stale = tx[c].stale /\ t.last = tx[c].last
        /\ t.pointer = tx[c].pointer /\ t.method = tx[c].method /\ t.run = tx[c].run
        /\ t.name = tx[c].name
    BY <2>2 DEF RecordTx
  <2>4. t.name \in NamesOf(t.method)
    BY <1>0, <2>1, <2>3 DEF TxInv, NameFits
  <2>5. Fresh(tx[c])
    BY <1>0, <2>1 DEF TxInv, SnapshotFresh
  <2>6. Fresh(t)
    BY <2>3, <2>5 DEF Fresh
  <2>7. /\ t \in TxType /\ tx' = [tx EXCEPT ![c] = t] /\ writer' = c /\ UNCHANGED tables
    BY <1>2, <2>1, <2>3 DEF TxType, InsertRow
  <2>8. \A d \in Connections : d # c /\ writer = d => writer' = d
    BY <2>1, DatabaseAssumption
  <2>. QED BY <1>0, <2>1, <2>3, <2>4, <2>6, <2>7, <2>8, OneConnectionMoves
<1>3. ASSUME NEW c \in Connections, Commit(c)
      PROVE  TxInv'
  <2>1. writer = c
    BY <1>0, <1>3 DEF Commit, TxInv, LockHeld
  <2>. QED BY <1>0, <1>3, <2>1, CommitMakesStale DEF Commit
<1>4. ASSUME NEW c \in Connections, Fail(c)
      PROVE  TxInv'
  <2>1. NoTx \in TxType /\ NoTx.at = "idle"
    BY DEF TxType, NoTx
  <2>2. /\ writer' \in Connections \union {NoConnection}
        /\ \A d \in Connections : d # c /\ writer = d => writer' = d
    BY <1>0, <1>4 DEF Fail, TxInv
  <2>. QED BY <1>0, <1>4, <2>1, <2>2, OneConnectionMoves DEF Fail
<1>5. ASSUME NEW c \in Connections, Autocommit(c)
      PROVE  TxInv'
  BY <1>0, <1>5, CommitMakesStale DEF Autocommit
<1>6. ASSUME NEW c \in Connections, NEW a \in Attentions, NEW answer \in Answers,
             CheckAnswer(c, a, answer)
      PROVE  TxInv'
  <2> DEFINE t == [at |-> "checked", attention |-> a, answer |-> answer]
  <2>1. t \in TxType /\ t.at = "checked"
    BY DEF TxType, AnswerTx
  <2>2. tx' = [tx EXCEPT ![c] = t] /\ writer' = writer /\ UNCHANGED tables
    BY <1>6 DEF CheckAnswer
  <2>. QED BY <1>0, <2>1, <2>2, OneConnectionMoves DEF TxInv
<1>7. ASSUME UNCHANGED <<tables, writer, tx>>
      PROVE  TxInv'
  BY <1>0, <1>7 DEF TxInv, NameFits, LockHeld, SnapshotFresh, InTx, Fresh, Rows, tables
<1>8. CASE Crash
  <2>1. tx' = [c \in Connections |-> NoTx] /\ writer' = NoConnection
    BY <1>8 DEF Crash
  <2>. QED BY <2>1 DEF TxInv, NameFits, LockHeld, SnapshotFresh, InTx, TxType, NoTx
<1>9. CASE UNCHANGED vars
  BY <1>7, <1>9 DEF vars
<1>10. ASSUME NEW p \in Readers, NEW r \in Runs, ReadPage(p, r)
       PROVE  TxInv'
  BY <1>7, <1>10 DEF ReadPage
<1>11. ASSUME NEW c \in Connections,
              GoesOn(c) \/ OtherWrite(c) \/ \E a \in Attentions : CreateAttention(c, a)
       PROVE  TxInv'
  BY <1>2, <1>3, <1>4, <1>5, <1>11 DEF GoesOn, WriteAnswer, OtherWrite, CreateAttention
<1>. QED BY <1>1, <1>6, <1>8, <1>9, <1>10, <1>11 DEF Next

-----------------------------------------------------------------------------
(* The tables *)

EventRows == [seq : Nat, prev : Nat, data : Payloads]
ClarificationRows == [seq : Nat, data : Payloads]
ArtifactRows == [version : Nat, data : Payloads]

TablesTyped ==
  /\ events \in [Runs -> Seq(EventRows)]
  /\ clarifications \in [Runs -> Seq(ClarificationRows)]
  /\ artifacts \in [Runs -> [Names -> Seq(ArtifactRows)]]
  /\ activeVersion \in [Runs -> [Names -> Nat]]

(* The conjuncts of the invariant that speak of the tables and readers.    *)
TablesInv ==
  /\ TablesTyped
  /\ EventsNumbered
  /\ ActiveIsLatest

ReadersInv ==
  /\ cursor \in [Readers -> [Runs -> Nat]]
  /\ seen \in [Readers -> [Runs -> SUBSET Nat]]
  /\ ReadersMissNothing

LEMMA TablesInvOfDatabaseInv == DatabaseInv => TablesInv /\ ReadersInv
  BY DEF DatabaseInv, TypeOK, TablesInv, ReadersInv, TablesTyped, EventRows,
         ClarificationRows, ArtifactRows

(* Only a commit changes the tables, and it leaves the readers alone.      *)
LEMMA OnlyCommitsChangeTables ==
  ASSUME [Next]_vars
  PROVE  \/ UNCHANGED tables
         \/ (\E c \in Connections : Commit(c)) /\ UNCHANGED readerVars
<1>1. CASE UNCHANGED vars
  BY <1>1 DEF vars
<1>2. CASE Crash
  BY <1>2 DEF Crash
<1>3. CASE \E p \in Readers, r \in Runs : ReadPage(p, r)
  BY <1>3 DEF ReadPage
<1>4. ASSUME NEW c \in Connections,
             \/ \E method \in Methods, r \in Runs, data \in Payloads :
                  \E n \in NamesOf(method) : ReadLast(c, method, r, n, data)
             \/ GoesOn(c)
             \/ \E a \in Attentions :
                  \/ CreateAttention(c, a)
                  \/ \E answer \in Answers : CheckAnswer(c, a, answer)
             \/ OtherWrite(c)
      PROVE  UNCHANGED tables \/ (Commit(c) /\ UNCHANGED readerVars)
  BY <1>4 DEF ReadLast, GoesOn, InsertRow, Commit, WriteAnswer, Fail, CreateAttention,
              CheckAnswer, OtherWrite
<1>. QED BY <1>1, <1>2, <1>3, <1>4 DEF Next

(* An appended event keeps the rows numbered, and none is lost.            *)
LEMMA EventAppendedKeeps ==
  ASSUME TablesInv, NEW r \in Runs, NEW d \in Payloads, EventAppended(r, d)
  PROVE  TablesInv' /\ \A q \in Runs : Len(events[q]) <= Len(events'[q])
<1> DEFINE e == [seq |-> Len(events[r]) + 1, prev |-> Len(events[r]), data |-> d]
<1>1. events \in [Runs -> Seq(EventRows)] /\ events[r] \in Seq(EventRows)
  BY DEF TablesInv, TablesTyped
<1>2. Len(events[r]) \in Nat
  BY <1>1, LenProperties
<1>3. e \in EventRows
  BY <1>2 DEF EventRows
<1>4. /\ Append(events[r], e) \in Seq(EventRows)
      /\ Len(Append(events[r], e)) = Len(events[r]) + 1
      /\ \A i \in 1 .. Len(events[r]) : Append(events[r], e)[i] = events[r][i]
      /\ Append(events[r], e)[Len(events[r]) + 1] = e
  BY <1>1, <1>3, AppendProperties
<1>5. /\ events' = [events EXCEPT ![r] = Append(events[r], e)]
      /\ UNCHANGED <<clarifications, artifacts, activeVersion>>
  BY DEF EventAppended
<1>6. /\ events'[r] = Append(events[r], e)
      /\ \A q \in Runs : q # r => events'[q] = events[q]
  BY <1>1, <1>5
<1>7. TablesTyped'
  <2>1. events' \in [Runs -> Seq(EventRows)]
    BY <1>1, <1>4, <1>5
  <2>. QED BY <1>5, <2>1 DEF TablesInv, TablesTyped
<1>8. EventsNumbered'
  <2>1. ASSUME NEW q \in Runs, NEW i \in 1 .. Len(events'[q])
        PROVE  events'[q][i].seq = i
    <3>1. CASE q # r
      BY <1>6, <2>1, <3>1 DEF TablesInv, EventsNumbered
    <3>2. CASE q = r /\ i = Len(events[r]) + 1
      BY <1>4, <1>6, <3>2
    <3>3. CASE q = r /\ i # Len(events[r]) + 1
      <4>1. i \in 1 .. Len(events[r])
        BY <1>2, <1>4, <1>6, <2>1, <3>3
      <4>2. events'[q][i] = events[r][i]
        BY <1>4, <1>6, <3>3, <4>1
      <4>. QED BY <4>1, <4>2 DEF TablesInv, EventsNumbered
    <3>. QED BY <3>1, <3>2, <3>3
  <2>. QED BY <2>1 DEF EventsNumbered
<1>9. ActiveIsLatest'
  BY <1>5 DEF TablesInv, ActiveIsLatest
<1>10. ASSUME NEW q \in Runs
       PROVE  Len(events[q]) <= Len(events'[q])
  <2>1. Len(events[q]) \in Nat
    BY <1>1, LenProperties
  <2>2. Len(events'[q]) = Len(events[q]) \/ Len(events'[q]) = Len(events[q]) + 1
    BY <1>4, <1>6
  <2>. QED BY <2>1, <2>2
<1>. QED BY <1>7, <1>8, <1>9, <1>10 DEF TablesInv

(* An appended clarification keeps its table a sequence.                   *)
LEMMA ClarificationAppendedKeeps ==
  ASSUME TablesInv, NEW r \in Runs, NEW d \in Payloads, ClarificationAppended(r, d)
  PROVE  TablesInv' /\ UNCHANGED events
<1> DEFINE e == [seq |-> Len(clarifications[r]) + 1, data |-> d]
<1>1. /\ clarifications \in [Runs -> Seq(ClarificationRows)]
      /\ clarifications[r] \in Seq(ClarificationRows)
  BY DEF TablesInv, TablesTyped
<1>2. Len(clarifications[r]) \in Nat
  BY <1>1, LenProperties
<1>3. e \in ClarificationRows
  BY <1>2 DEF ClarificationRows
<1>4. Append(clarifications[r], e) \in Seq(ClarificationRows)
  BY <1>1, <1>3, AppendProperties
<1>5. /\ clarifications' = [clarifications EXCEPT ![r] = Append(clarifications[r], e)]
      /\ UNCHANGED <<events, artifacts, activeVersion>>
  BY DEF ClarificationAppended
<1>6. clarifications' \in [Runs -> Seq(ClarificationRows)]
  BY <1>1, <1>4, <1>5
<1>7. TablesTyped'
  BY <1>5, <1>6 DEF TablesInv, TablesTyped
<1>8. EventsNumbered' /\ ActiveIsLatest'
  BY <1>5 DEF TablesInv, EventsNumbered, ActiveIsLatest
<1>. QED BY <1>5, <1>7, <1>8 DEF TablesInv

(* A new version and the pointer to it come together.                      *)
LEMMA ArtifactAddedKeeps ==
  ASSUME TablesInv, NEW r \in Runs, NEW n \in Names, NEW d \in Payloads,
         ArtifactAdded(r, n, d)
  PROVE  TablesInv' /\ UNCHANGED events
<1> DEFINE s == artifacts[r][n]
           e == [version |-> Len(s) + 1, data |-> d]
<1>1. /\ artifacts \in [Runs -> [Names -> Seq(ArtifactRows)]]
      /\ activeVersion \in [Runs -> [Names -> Nat]]
  BY DEF TablesInv, TablesTyped
<1>2. artifacts[r] \in [Names -> Seq(ArtifactRows)] /\ activeVersion[r] \in [Names -> Nat]
  BY <1>1, Zenon
<1>3. s \in Seq(ArtifactRows)
  BY <1>2, Zenon
<1>4. Len(s) \in Nat
  BY <1>3, LenProperties
<1>5. Len(s) + 1 \in Nat
  BY <1>4
<1>6. e \in ArtifactRows
  BY <1>5 DEF ArtifactRows
<1>7. Append(s, e) \in Seq(ArtifactRows) /\ Len(Append(s, e)) = Len(s) + 1
  BY <1>3, <1>6, AppendProperties
<1>8. /\ artifacts' = [artifacts EXCEPT ![r] = [artifacts[r] EXCEPT ![n] = Append(s, e)]]
      /\ activeVersion' = [activeVersion EXCEPT ![r] = [activeVersion[r] EXCEPT ![n] = Len(s) + 1]]
      /\ UNCHANGED <<events, clarifications>>
  BY DEF ArtifactAdded
<1>9. /\ [artifacts[r] EXCEPT ![n] = Append(s, e)] \in [Names -> Seq(ArtifactRows)]
      /\ [activeVersion[r] EXCEPT ![n] = Len(s) + 1] \in [Names -> Nat]
  BY <1>2, <1>5, <1>7
<1>10. TablesTyped'
  <2>1. artifacts' \in [Runs -> [Names -> Seq(ArtifactRows)]]
    BY <1>1, <1>8, <1>9
  <2>2. activeVersion' \in [Runs -> [Names -> Nat]]
    BY <1>1, <1>8, <1>9
  <2>. QED BY <1>8, <2>1, <2>2 DEF TablesInv, TablesTyped
<1>11. EventsNumbered'
  BY <1>8 DEF TablesInv, EventsNumbered
<1>12. ActiveIsLatest'
  <2>1. ASSUME NEW q \in Runs, NEW m \in Names
        PROVE  activeVersion'[q][m] = Len(artifacts'[q][m])
    <3>1. CASE q # r
      <4>1. activeVersion'[q] = activeVersion[q] /\ artifacts'[q] = artifacts[q]
        BY <1>1, <1>8, <3>1
      <4>. QED BY <4>1 DEF TablesInv, ActiveIsLatest
    <3>2. CASE q = r /\ m # n
      <4>1. /\ activeVersion'[q][m] = activeVersion[q][m]
            /\ artifacts'[q][m] = artifacts[q][m]
        BY <1>1, <1>2, <1>8, <3>2
      <4>. QED BY <4>1 DEF TablesInv, ActiveIsLatest
    <3>3. CASE q = r /\ m = n
      <4>1. activeVersion'[q][m] = Len(s) + 1 /\ artifacts'[q][m] = Append(s, e)
        BY <1>1, <1>2, <1>8, <3>3
      <4>. QED BY <1>7, <4>1
    <3>. QED BY <3>1, <3>2, <3>3
  <2>. QED BY <2>1 DEF ActiveIsLatest
<1>. QED BY <1>8, <1>10, <1>11, <1>12 DEF TablesInv

LEMMA StepKeepsTables ==
  ASSUME DatabaseInv, [Next]_vars
  PROVE  TablesInv' /\ \A q \in Runs : Len(events[q]) <= Len(events'[q])
<1>1. TablesInv
  BY TablesInvOfDatabaseInv
<1>2. \A q \in Runs : Len(events[q]) \in Nat
  <2>1. \A q \in Runs : events[q] \in Seq(EventRows)
    BY <1>1 DEF TablesInv, TablesTyped
  <2>. QED BY <2>1, LenProperties
<1>3. CASE UNCHANGED tables
  BY <1>1, <1>2, <1>3 DEF tables, TablesInv, TablesTyped, EventsNumbered, ActiveIsLatest
<1>4. ASSUME NEW c \in Connections, Commit(c)
      PROVE  TablesInv' /\ \A q \in Runs : Len(events[q]) <= Len(events'[q])
  <2>1. PICK r \in Runs, d \in Payloads :
           \/ EventAppended(r, d)
           \/ ClarificationAppended(r, d)
           \/ \E n \in Names : ArtifactAdded(r, n, d)
    BY <1>4, CommitAppends
  <2>2. CASE EventAppended(r, d)
    BY <1>1, <2>2, EventAppendedKeeps
  <2>3. CASE ClarificationAppended(r, d)
    BY <1>1, <1>2, <2>3, ClarificationAppendedKeeps
  <2>4. CASE \E n \in Names : ArtifactAdded(r, n, d)
    BY <1>1, <1>2, <2>4, ArtifactAddedKeeps
  <2>. QED BY <2>1, <2>2, <2>3, <2>4
<1>. QED BY <1>3, <1>4, OnlyCommitsChangeTables

-----------------------------------------------------------------------------
(* The readers *)

(* latest_seq is the number of the last event, or 0 when the page is       *)
(* empty.                                                                  *)
LEMMA LatestSeqOfPage ==
  ASSUME NEW m \in Nat, NEW n \in Nat, NEW page, page = m + 1 .. n
  PROVE  LatestSeq(page) \in {0, n}
<1>1. CASE page = {}
  BY <1>1 DEF LatestSeq
<1>2. CASE page # {}
  <2>1. n \in page /\ \A k \in page : k <= n
    BY <1>2
  <2>2. ASSUME NEW l \in page \union {0}, \A k \in page : k <= l
        PROVE  l = n
    <3>1. n <= l
      BY <2>1, <2>2
    <3>2. l \in Nat /\ l <= n
      BY <2>2
    <3>. QED BY <3>1, <3>2
  <2>. QED BY <2>1, <2>2, Zenon DEF LatestSeq
<1>. QED BY <1>1, <1>2

(* What ReadersMissNothing says of one reader and run.                     *)
LEMMA ReaderHasPrefix ==
  ASSUME TablesInv, ReadersInv, NEW p \in Readers, NEW r \in Runs
  PROVE  /\ DOMAIN events[r] = 1 .. Len(events[r]) /\ Len(events[r]) \in Nat
         /\ \E n \in 0 .. Len(events[r]) : seen[p][r] = 1 .. n /\ cursor[p][r] \in {0, n}
<1>1. DOMAIN events[r] = 1 .. Len(events[r]) /\ Len(events[r]) \in Nat
  <2>1. events[r] \in Seq(EventRows)
    BY DEF TablesInv, TablesTyped
  <2>. QED BY <2>1, LenProperties
<1>2. PICK n \in DOMAIN events[r] \union {0} :
        seen[p][r] = 1 .. n /\ cursor[p][r] \in {0, n}
  BY DEF ReadersInv, ReadersMissNothing
<1>3. n \in 0 .. Len(events[r])
  BY <1>1
<1>. QED BY <1>1, <1>2, <1>3

(* A page ends at the last event there is, and joins what the reader has   *)
(* without a gap, whether it goes on from there or from the beginning.     *)
LEMMA PageReadToTheEnd ==
  ASSUME TablesInv, ReadersInv, NEW p \in Readers, NEW r \in Runs, ReadPage(p, r)
  PROVE  /\ \E latest \in {0, Len(events[r])} :
              cursor' = [cursor EXCEPT ![p] = [cursor[p] EXCEPT ![r] = latest]]
         /\ seen' = [seen EXCEPT ![p] = [seen[p] EXCEPT ![r] = 1 .. Len(events[r])]]
         /\ Len(events[r]) \in Nat
         /\ UNCHANGED events
<1> DEFINE page == EventsAfter(r, cursor[p][r])
<1>1. DOMAIN events[r] = 1 .. Len(events[r]) /\ Len(events[r]) \in Nat
  BY ReaderHasPrefix
<1>2. cursor[p] \in [Runs -> Nat] /\ seen[p] \in [Runs -> SUBSET Nat]
  BY DEF ReadersInv
<1>3. PICK n \in 0 .. Len(events[r]) : seen[p][r] = 1 .. n /\ cursor[p][r] \in {0, n}
  BY ReaderHasPrefix
<1>4. cursor[p][r] \in Nat /\ page = cursor[p][r] + 1 .. Len(events[r])
  BY <1>1, <1>3 DEF EventsAfter
<1>5. seen[p][r] \union page = 1 .. Len(events[r])
  BY <1>1, <1>3, <1>4
<1>6. /\ cursor' = [cursor EXCEPT ![p][r] = LatestSeq(page)]
      /\ seen' = [seen EXCEPT ![p][r] = @ \union page]
      /\ UNCHANGED events
  BY DEF ReadPage, tables
<1> HIDE DEF page
<1>7. LatestSeq(page) \in {0, Len(events[r])}
  BY <1>1, <1>4, LatestSeqOfPage
<1>8. cursor' = [cursor EXCEPT ![p] = [cursor[p] EXCEPT ![r] = LatestSeq(page)]]
  BY <1>6 DEF ReadersInv
<1>9. seen' = [seen EXCEPT ![p] = [seen[p] EXCEPT ![r] = 1 .. Len(events[r])]]
  BY <1>5, <1>6 DEF ReadersInv
<1>. QED BY <1>1, <1>6, <1>7, <1>8, <1>9

LEMMA StepKeepsReaders ==
  ASSUME DatabaseInv, [Next]_vars
  PROVE  ReadersInv'
<1>1. TablesInv /\ ReadersInv
  BY TablesInvOfDatabaseInv
<1>2. CASE UNCHANGED readerVars
  <2>1. ASSUME NEW p \in Readers, NEW r \in Runs
        PROVE  \E n \in DOMAIN events'[r] \union {0} :
                 seen[p][r] = 1 .. n /\ cursor[p][r] \in {0, n}
    <3>1. Len(events[r]) \in Nat
      BY <1>1, ReaderHasPrefix
    <3>2. PICK n \in 0 .. Len(events[r]) : seen[p][r] = 1 .. n /\ cursor[p][r] \in {0, n}
      BY <1>1, ReaderHasPrefix
    <3>3. events'[r] \in Seq(EventRows)
      BY StepKeepsTables DEF TablesInv, TablesTyped
    <3>4. DOMAIN events'[r] = 1 .. Len(events'[r]) /\ Len(events'[r]) \in Nat
      BY <3>3, LenProperties
    <3>5. Len(events[r]) <= Len(events'[r])
      BY StepKeepsTables
    <3>6. n \in DOMAIN events'[r] \union {0}
      BY <3>1, <3>4, <3>5
    <3>. QED BY <3>2, <3>6
  <2>. QED BY <1>1, <1>2, <2>1 DEF ReadersInv, ReadersMissNothing, readerVars
<1>3. ASSUME NEW p \in Readers, NEW r \in Runs, ReadPage(p, r)
      PROVE  ReadersInv'
  <2>1. /\ seen' = [seen EXCEPT ![p] = [seen[p] EXCEPT ![r] = 1 .. Len(events[r])]]
        /\ Len(events[r]) \in Nat
        /\ events' = events
    BY <1>1, <1>3, PageReadToTheEnd
  <2>2. PICK latest \in {0, Len(events[r])} :
          cursor' = [cursor EXCEPT ![p] = [cursor[p] EXCEPT ![r] = latest]]
    BY <1>1, <1>3, PageReadToTheEnd
  <2>3. cursor \in [Readers -> [Runs -> Nat]] /\ seen \in [Readers -> [Runs -> SUBSET Nat]]
    BY <1>1 DEF ReadersInv
  <2>4. cursor[p] \in [Runs -> Nat] /\ seen[p] \in [Runs -> SUBSET Nat]
    BY <2>3
  <2>5. /\ [cursor[p] EXCEPT ![r] = latest] \in [Runs -> Nat]
        /\ [seen[p] EXCEPT ![r] = 1 .. Len(events[r])] \in [Runs -> SUBSET Nat]
    BY <2>1, <2>4
  <2>6. cursor' \in [Readers -> [Runs -> Nat]] /\ seen' \in [Readers -> [Runs -> SUBSET Nat]]
    BY <2>1, <2>2, <2>3, <2>5
  <2>7. ASSUME NEW q \in Readers, NEW o \in Runs
        PROVE  \E n \in DOMAIN events'[o] \union {0} :
                 seen'[q][o] = 1 .. n /\ cursor'[q][o] \in {0, n}
    <3>1. CASE q = p /\ o = r
      <4>1. seen'[q][o] = 1 .. Len(events[r]) /\ cursor'[q][o] \in {0, Len(events[r])}
        BY <2>1, <2>2, <2>3, <2>4, <3>1
      <4>2. Len(events[r]) \in DOMAIN events'[o] \union {0}
        <5>1. DOMAIN events[r] = 1 .. Len(events[r])
          BY <1>1, ReaderHasPrefix
        <5>. QED BY <2>1, <3>1, <5>1
      <4>. QED BY <4>1, <4>2
    <3>2. CASE q # p \/ o # r
      <4>1. cursor'[q][o] = cursor[q][o] /\ seen'[q][o] = seen[q][o]
        BY <2>1, <2>2, <2>3, <2>4, <3>2
      <4>. QED BY <1>1, <2>1, <4>1 DEF ReadersInv, ReadersMissNothing
    <3>. QED BY <3>1, <3>2
  <2>. QED BY <2>6, <2>7 DEF ReadersInv, ReadersMissNothing
<1>4. (\E p \in Readers, r \in Runs : ReadPage(p, r)) \/ UNCHANGED readerVars
  <2>1. CASE UNCHANGED vars
    BY <2>1 DEF vars
  <2>2. CASE Crash
    BY <2>2 DEF Crash
  <2>3. ASSUME NEW c \in Connections,
               \/ \E method \in Methods, r \in Runs, data \in Payloads :
                    \E n \in NamesOf(method) : ReadLast(c, method, r, n, data)
               \/ GoesOn(c)
               \/ \E a \in Attentions :
                    \/ CreateAttention(c, a)
                    \/ \E answer \in Answers : CheckAnswer(c, a, answer)
               \/ OtherWrite(c)
        PROVE  UNCHANGED readerVars
    BY <2>3 DEF ReadLast, GoesOn, InsertRow, Commit, WriteAnswer, Fail, CreateAttention,
                CheckAnswer, OtherWrite
  <2>. QED BY <2>1, <2>2, <2>3 DEF Next
<1>. QED BY <1>2, <1>3, <1>4

-----------------------------------------------------------------------------
(* The attentions *)

AttentionType ==
  attention \in [Attentions ->
    {NoAttention, [status |-> "OPEN"]} \union [status : {"ANSWERED"}, answer : Answers]]

(* An attention changes when it is created and when an answer is written.   *)
LEMMA OnlyAnswersChangeAttentions ==
  ASSUME [Next]_vars
  PROVE  \/ UNCHANGED attention
         \/ \E c \in Connections : WriteAnswer(c) \/ \E a \in Attentions : CreateAttention(c, a)
<1>1. CASE UNCHANGED vars
  BY <1>1 DEF vars
<1>2. CASE Crash
  BY <1>2 DEF Crash
<1>3. CASE \E p \in Readers, r \in Runs : ReadPage(p, r)
  BY <1>3 DEF ReadPage
<1>4. ASSUME NEW c \in Connections,
             \/ \E method \in Methods, r \in Runs, data \in Payloads :
                  \E n \in NamesOf(method) : ReadLast(c, method, r, n, data)
             \/ InsertRow(c) \/ Commit(c) \/ Fail(c)
             \/ \E a \in Attentions, answer \in Answers : CheckAnswer(c, a, answer)
             \/ OtherWrite(c)
      PROVE  UNCHANGED attention
  BY <1>4 DEF ReadLast, InsertRow, Commit, Fail, CheckAnswer, OtherWrite
<1>. QED BY <1>1, <1>2, <1>3, <1>4 DEF Next, GoesOn

LEMMA StepKeepsAttentionType ==
  ASSUME DatabaseInv, [Next]_vars
  PROVE  AttentionType'
<1>1. AttentionType
  BY DEF DatabaseInv, TypeOK, AttentionType
<1>2. CASE UNCHANGED attention
  BY <1>1, <1>2 DEF AttentionType
<1>3. ASSUME NEW c \in Connections, NEW a \in Attentions, CreateAttention(c, a)
      PROVE  AttentionType'
  BY <1>1, <1>3 DEF CreateAttention, AttentionType
<1>4. ASSUME NEW c \in Connections, WriteAnswer(c)
      PROVE  AttentionType'
  <2>1. tx[c] \in AnswerTx
    BY <1>4, TxTypes DEF WriteAnswer, DatabaseInv
  <2>2. [status |-> "ANSWERED", answer |-> tx[c].answer] \in [status : {"ANSWERED"}, answer : Answers]
    BY <2>1 DEF AnswerTx
  <2>. QED BY <1>1, <1>4, <2>2 DEF WriteAnswer, AttentionType
<1>. QED BY <1>2, <1>3, <1>4, OnlyAnswersChangeAttentions

(* A call is on its way to write an answer only if it was before, or has   *)
(* just found the attention open.                                          *)
LEMMA OnlyOpenIsChecked ==
  ASSUME DatabaseInv, [Next]_vars, NEW d \in Connections, tx'[d].at = "checked"
  PROVE  \/ tx[d].at = "checked" /\ tx'[d].attention = tx[d].attention
         \/ attention[tx'[d].attention].status = "OPEN"
<1>1. /\ tx \in [Connections -> {NoTx} \union AnswerTx \union RecordTx]
      /\ tx[d].at = "read" => tx[d] \in RecordTx
  BY TxTypes DEF DatabaseInv, TypeOK, InTx
<1>2. CASE tx' = tx
  BY <1>2
<1>3. ASSUME NEW c \in Connections, tx' = AfterCommit(c)
      PROVE  tx[d].at = "checked" /\ tx'[d].attention = tx[d].attention
  <2>1. d # c /\ tx[d].at # "read"
    <3>1. d # c
      BY <1>3 DEF AfterCommit, NoTx
    <3>2. ASSUME tx[d].at = "read" PROVE FALSE
      <4>1. tx'[d] = [tx[d] EXCEPT !.stale = TRUE]
        BY <1>3, <3>1, <3>2 DEF AfterCommit
      <4>. QED BY <1>1, <3>2, <4>1 DEF RecordTx
    <3>. QED BY <3>1, <3>2
  <2>. QED BY <1>3, <2>1 DEF AfterCommit
<1>4. ASSUME NEW c \in Connections, NEW t, tx' = [tx EXCEPT ![c] = t], t.at # "checked"
      PROVE  tx[d].at = "checked" /\ tx'[d].attention = tx[d].attention
  <2>1. d # c
    BY <1>1, <1>4
  <2>. QED BY <1>1, <1>4, <2>1
<1>5. ASSUME NEW c \in Connections, NEW a \in Attentions, NEW answer \in Answers,
             CheckAnswer(c, a, answer)
      PROVE  \/ tx[d].at = "checked" /\ tx'[d].attention = tx[d].attention
             \/ attention[tx'[d].attention].status = "OPEN"
  BY <1>1, <1>5 DEF CheckAnswer, CanAnswer
<1>6. CASE Crash
  BY <1>6 DEF Crash, NoTx
<1>7. CASE UNCHANGED vars \/ \E p \in Readers, r \in Runs : ReadPage(p, r)
  BY <1>2, <1>7 DEF vars, ReadPage
<1>8. ASSUME NEW c \in Connections, NEW method \in Methods, NEW r \in Runs,
             NEW data \in Payloads, NEW n \in NamesOf(method), ReadLast(c, method, r, n, data)
      PROVE  tx[d].at = "checked" /\ tx'[d].attention = tx[d].attention
  <2> DEFINE t == [at |-> "read", method |-> method, run |-> r, name |-> n, data |-> data,
                   last |-> LastKey(Rows(method, r, n)), pointer |-> activeVersion[r],
                   stale |-> FALSE]
  <2>1. tx' = [tx EXCEPT ![c] = t] /\ t.at # "checked"
    BY <1>8 DEF ReadLast
  <2> HIDE DEF t
  <2>. QED BY <1>4, <2>1
<1>9. ASSUME NEW c \in Connections, InsertRow(c)
      PROVE  tx[d].at = "checked" /\ tx'[d].attention = tx[d].attention
  <2> DEFINE t == [tx[c] EXCEPT !.at = "inserted"]
  <2>1. tx[c] \in RecordTx
    BY <1>9, TxTypes DEF InsertRow, DatabaseInv, InTx
  <2>2. tx' = [tx EXCEPT ![c] = t] /\ t.at # "checked"
    BY <1>1, <1>9, <2>1 DEF InsertRow, RecordTx
  <2> HIDE DEF t
  <2>. QED BY <1>4, <2>2
<1>10. ASSUME NEW c \in Connections, Fail(c)
       PROVE  tx[d].at = "checked" /\ tx'[d].attention = tx[d].attention
  BY <1>4, <1>10 DEF Fail, NoTx
<1>11. ASSUME NEW c \in Connections,
              \/ Commit(c) \/ WriteAnswer(c) \/ OtherWrite(c)
              \/ \E a \in Attentions : CreateAttention(c, a)
       PROVE  tx' = AfterCommit(c)
  BY <1>11 DEF Commit, WriteAnswer, OtherWrite, CreateAttention, Autocommit
<1>. QED BY <1>3, <1>5, <1>6, <1>7, <1>8, <1>9, <1>10, <1>11 DEF Next, GoesOn

(* A call that finds its attention answered was under way before.          *)
LEMMA NobodyJoins ==
  ASSUME DatabaseInv, [Next]_vars, NEW a \in Attentions, attention[a].status = "ANSWERED"
  PROVE  Answering(a)' \subseteq Answering(a)
<1>1. ASSUME NEW d \in Connections, tx'[d].at = "checked", tx'[d].attention = a
      PROVE  d \in Answering(a)
  BY <1>1, OnlyOpenIsChecked DEF Answering
<1>. QED BY <1>1 DEF Answering

(* Whoever replaces the answer is done with the attention.                 *)
LEMMA WritersLeave ==
  ASSUME DatabaseInv, [Next]_vars, NEW a \in Attentions, attention[a].status = "ANSWERED"
  PROVE  /\ attention'[a].status = "ANSWERED"
         /\ attention'[a] # attention[a] => Answering(a)' # Answering(a)
<1>1. attention \in [Attentions ->
        {NoAttention, [status |-> "OPEN"]} \union [status : {"ANSWERED"}, answer : Answers]]
  BY DEF DatabaseInv, TypeOK
<1>2. CASE UNCHANGED attention
  BY <1>2
<1>3. ASSUME NEW c \in Connections, NEW b \in Attentions, CreateAttention(c, b)
      PROVE  attention'[a] = attention[a]
  BY <1>1, <1>3 DEF CreateAttention
<1>4. ASSUME NEW c \in Connections, WriteAnswer(c)
      PROVE  /\ attention'[a].status = "ANSWERED"
             /\ attention'[a] # attention[a] => Answering(a)' # Answering(a)
  <2> DEFINE b == tx[c].attention
             row == [status |-> "ANSWERED", answer |-> tx[c].answer]
  <2>1. /\ tx[c].at = "checked"
        /\ attention' = [attention EXCEPT ![b] = row]
        /\ tx' = AfterCommit(c)
    BY <1>4 DEF WriteAnswer, Autocommit
  <2>2. row.status = "ANSWERED"
    OBVIOUS
  <2> HIDE DEF b, row
  <2>3. CASE b # a
    BY <1>1, <2>1, <2>3
  <2>4. CASE b = a
    <3>1. attention'[a] = row
      BY <1>1, <2>1, <2>4
    <3>2. c \in Answering(a)
      BY <2>1, <2>4 DEF Answering, b
    <3>3. tx'[c].at # "checked"
      BY <2>1 DEF AfterCommit, NoTx
    <3>4. c \notin Answering(a)'
      BY <3>3 DEF Answering
    <3>. QED BY <2>2, <3>1, <3>2, <3>4
  <2>. QED BY <2>3, <2>4
<1>. QED BY <1>2, <1>3, <1>4, OnlyAnswersChangeAttentions

-----------------------------------------------------------------------------
(* The inductive invariant *)

LEMMA InitDatabaseInv == Init => DatabaseInv
<1>. SUFFICES ASSUME Init PROVE DatabaseInv
  OBVIOUS
<1>1. \A S : <<>> \in Seq(S) /\ Len(<<>>) = 0
  OBVIOUS
<1>2. TypeOK
  <2>1. events \in [Runs -> Seq([seq : Nat, prev : Nat, data : Payloads])]
    BY <1>1 DEF Init
  <2>2. clarifications \in [Runs -> Seq([seq : Nat, data : Payloads])]
    BY <1>1 DEF Init
  <2>3. artifacts \in [Runs -> [Names -> Seq([version : Nat, data : Payloads])]]
    BY <1>1 DEF Init
  <2>4. activeVersion \in [Runs -> [Names -> Nat]]
    BY DEF Init
  <2>5. attention \in [Attentions ->
          {NoAttention, [status |-> "OPEN"]} \union [status : {"ANSWERED"}, answer : Answers]]
    BY DEF Init
  <2>6. /\ writer \in Connections \union {NoConnection}
        /\ tx \in [Connections -> {NoTx} \union AnswerTx \union RecordTx]
        /\ cursor \in [Readers -> [Runs -> Nat]]
        /\ seen \in [Readers -> [Runs -> SUBSET Nat]]
    BY DEF Init
  <2>. QED BY <2>1, <2>2, <2>3, <2>4, <2>5, <2>6 DEF TypeOK
<1>3. \A c \in Connections : tx[c].at = "idle"
  BY DEF Init, NoTx
<1>4. NameFits /\ LockHeld /\ SnapshotFresh
  BY <1>3 DEF NameFits, LockHeld, SnapshotFresh, InTx
<1>5. EventsNumbered
  BY DEF Init, EventsNumbered
<1>6. ActiveIsLatest
  BY <1>1 DEF Init, ActiveIsLatest
<1>7. ReadersMissNothing
  <2>1. ASSUME NEW p \in Readers, NEW r \in Runs
        PROVE  seen[p][r] = 1 .. 0 /\ cursor[p][r] \in {0, 0}
    BY DEF Init
  <2>. QED BY <2>1 DEF ReadersMissNothing
<1>. QED BY <1>2, <1>4, <1>5, <1>6, <1>7 DEF DatabaseInv

LEMMA StepKeepsDatabaseInv == DatabaseInv /\ [Next]_vars => DatabaseInv'
<1>. SUFFICES ASSUME DatabaseInv, [Next]_vars PROVE DatabaseInv'
  OBVIOUS
<1>1. TxInv' /\ TablesInv' /\ ReadersInv' /\ AttentionType'
  BY StepKeepsTxInv, StepKeepsTables, StepKeepsReaders, StepKeepsAttentionType
<1>2. TypeOK'
  BY <1>1 DEF TypeOK, TxInv, TxType, TablesInv, TablesTyped, ReadersInv, AttentionType,
              EventRows, ClarificationRows, ArtifactRows
<1>. QED BY <1>1, <1>2 DEF DatabaseInv, TxInv, TablesInv, ReadersInv

LEMMA DatabaseInvInductive == Spec => []DatabaseInv
  BY InitDatabaseInv, StepKeepsDatabaseInv, PTL DEF Spec

-----------------------------------------------------------------------------
(* The theorems *)

(* The tables of internal/storage stay what the domain says they are, and  *)
(* every connection is at a place a repository method can be.              *)
THEOREM DatabaseTypeCorrect == Spec => []TypeOK
<1>1. DatabaseInv => TypeOK
  BY DEF DatabaseInv
<1>. QED BY <1>1, DatabaseInvInductive, PTL

(* runs.active_artifact_ver, which AddArtifact rewrites as a whole, always *)
(* names the latest version of every artifact of the run.                  *)
THEOREM PointersFollowVersions == Spec => []ActiveIsLatest
<1>1. DatabaseInv => ActiveIsLatest
  BY DEF DatabaseInv
<1>. QED BY <1>1, DatabaseInvInductive, PTL

(* A client of GET /v1/runs/{id}/events that goes on from latest_seq, 0    *)
(* after an empty page included, has every event up to its last one.       *)
THEOREM PagingMissesNothing == Spec => []ReadersMissNothing
<1>1. DatabaseInv => ReadersMissNothing
  BY DEF DatabaseInv
<1>. QED BY <1>1, DatabaseInvInductive, PTL

(* However many AnswerAttention calls have found an attention open, an     *)
(* answer is replaced only by those of them that have not written yet:     *)
(* overwriting runs out, and a call that comes later is refused.           *)
THEOREM AnswersRunOut == Spec => OverwritesRunOut
<1>1. DatabaseInv /\ [Next]_vars =>
        [\A a \in Attentions : attention[a].status = "ANSWERED" =>
           /\ attention'[a].status = "ANSWERED"
           /\ Answering(a)' \subseteq Answering(a)
           /\ attention'[a] # attention[a] => Answering(a)' # Answering(a)]_vars
  BY NobodyJoins, WritersLeave
<1>. QED BY <1>1, DatabaseInvInductive, PTL DEF Spec, OverwritesRunOut

(* A commit is one operation of RunRecords.                                *)
LEMMA CommitIsOneRecord ==
  ASSUME DatabaseInv, NEW c \in Connections, Commit(c)
  PROVE  Records!RNext
<1>1. PICK r \in Runs, d \in Payloads :
         \/ EventAppended(r, d)
         \/ ClarificationAppended(r, d)
         \/ \E n \in Names : ArtifactAdded(r, n, d)
  BY CommitAppends
<1>2. TablesTyped /\ EventsNumbered
  BY TablesInvOfDatabaseInv DEF TablesInv
<1>3. CASE EventAppended(r, d)
  <2>1. events \in [Runs -> Seq(EventRows)] /\ events[r] \in Seq(EventRows)
    BY <1>2 DEF TablesTyped
  <2>2. Len(events[r]) \in Nat
    BY <2>1, LenProperties
  <2>3. Len(events[r]) = (IF Len(events[r]) = 0 THEN 0 ELSE events[r][Len(events[r])].seq)
    BY <1>2, <2>2 DEF EventsNumbered
  <2>4. Records!AppendEvent(r, d)
    BY <1>3, <2>1, <2>3 DEF EventAppended, Records!AppendEvent
  <2>. QED BY <2>4 DEF Records!RNext
<1>4. CASE ClarificationAppended(r, d)
  <2>1. Records!AddClarification(r, d)
    BY <1>2, <1>4 DEF ClarificationAppended, Records!AddClarification, TablesTyped
  <2>. QED BY <2>1 DEF Records!RNext
<1>5. ASSUME NEW n \in Names, ArtifactAdded(r, n, d)
      PROVE  Records!RNext
  <2>1. Records!AddArtifact(r, n, d)
    BY <1>2, <1>5 DEF ArtifactAdded, Records!AddArtifact, TablesTyped
  <2>. QED BY <2>1 DEF Records!RNext
<1>. QED BY <1>1, <1>3, <1>4, <1>5

(* The repository implements the in-memory records of internal/domain: the *)
(* transactions are atomic however their statements interleave, fail or    *)
(* are cut off by a crash.                                                 *)
THEOREM RepositoryImplementsRecords == Spec => RecordsSpec
<1>1. Init => Records!RInit
  BY DEF Init, Records!RInit
<1>2. DatabaseInv /\ [Next]_vars => [Records!RNext]_(Records!recordVars)
  <2>. SUFFICES ASSUME DatabaseInv, [Next]_vars
                PROVE  [Records!RNext]_(Records!recordVars)
    OBVIOUS
  <2>1. CASE UNCHANGED tables
    BY <2>1 DEF tables, Records!recordVars
  <2>2. ASSUME NEW c \in Connections, Commit(c)
        PROVE  Records!RNext
    BY <2>2, CommitIsOneRecord
  <2>. QED BY <2>1, <2>2, OnlyCommitsChangeTables
<1>. QED BY <1>1, <1>2, DatabaseInvInductive, PTL DEF Spec, RecordsSpec, Records!RSpec

=============================================================================
