----------------------------- MODULE RunDatabase -----------------------------
(***************************************************************************)
(* The append-only records of internal/storage under concurrent callers.   *)
(* Each connection of the pool runs one repository method at a time:       *)
(* AppendEvent, AppendClarification and AddArtifact are deferred           *)
(* transactions that read a maximum, insert the next number and commit;    *)
(* AnswerAttention is a read and, later, an UPDATE of its own. The         *)
(* database is SQLite in WAL mode: a transaction reads from the snapshot   *)
(* of its first statement, there is one write lock, and a transaction that *)
(* has read may take it only if nobody has committed since. The row in     *)
(* runs that these tables refer to is there: the daemon deletes none.      *)
(***************************************************************************)
EXTENDS Naturals, Sequences

CONSTANTS
  Runs,         \* identifiers of workflow runs
  Names,        \* the kind and name of an artifact
  NoName,       \* what the records of the other tables have for a name
  Payloads,     \* what a record says
  Attentions,   \* identifiers of attentions
  Answers,      \* what clients answer
  Connections,  \* the connections of the pool
  NoConnection, \* nobody holds the write lock
  Readers,      \* clients that page through a run's events
  MaxRecords    \* bound on the records of a run in one table

ASSUME DatabaseAssumption ==
  /\ NoConnection \notin Connections
  /\ NoName \notin Names
  /\ MaxRecords \in Nat

VARIABLES
  events,          \* the rows of each run: a function of the primary key, seq
  clarifications,  \* the same
  artifacts,       \* the rows of each run and name: a function of version
  activeVersion,   \* runs.active_artifact_ver, one JSON object for each run
  attention,       \* the status and the answer of each attention
  writer,          \* the connection that holds the write lock
  tx,              \* what each connection is doing
  cursor,          \* the latest_seq of the last page each reader was given
  seen             \* the numbers of all the events it was ever given

tables == <<events, clarifications, artifacts, activeVersion>>
readerVars == <<cursor, seen>>
vars == <<tables, attention, writer, tx, readerVars>>

Methods == {"AppendEvent", "AppendClarification", "AddArtifact"}

NamesOf(method) == IF method = "AddArtifact" THEN Names ELSE {NoName}

(* A connection is between two calls, has decided to answer an attention   *)
(* that was open, has read the last number from its snapshot, or has       *)
(* inserted the next row.                                                  *)
NoTx == [at |-> "idle"]

AnswerTx == [at : {"checked"}, attention : Attentions, answer : Answers]

RecordTx ==
  [at : {"read", "inserted"}, method : Methods, run : Runs,
   name : Names \union {NoName}, data : Payloads,
   last : Nat,                  \* the maximum that was read
   pointer : [Names -> Nat],    \* the run's JSON object in the snapshot
   stale : BOOLEAN]             \* somebody has committed since the snapshot

NoAttention == [status |-> "ABSENT"]

Init ==
  /\ events = [r \in Runs |-> <<>>]
  /\ clarifications = [r \in Runs |-> <<>>]
  /\ artifacts = [r \in Runs |-> [n \in Names |-> <<>>]]
  /\ activeVersion = [r \in Runs |-> [n \in Names |-> 0]]
  /\ attention = [a \in Attentions |-> NoAttention]
  /\ writer = NoConnection
  /\ tx = [c \in Connections |-> NoTx]
  /\ cursor = [p \in Readers |-> [r \in Runs |-> 0]]
  /\ seen = [p \in Readers |-> [r \in Runs |-> {}]]

-----------------------------------------------------------------------------
(* SQLite *)

(* SELECT COALESCE(MAX(key), 0)                                            *)
LastKey(rows) ==
  CHOOSE k \in DOMAIN rows \union {0} : \A j \in DOMAIN rows : j <= k

Insert(rows, key, row) ==
  [k \in DOMAIN rows \union {key} |-> IF k = key THEN row ELSE rows[k]]

(* A commit of c makes the snapshots of the other transactions stale.      *)
AfterCommit(c) ==
  [d \in Connections |->
     IF d = c THEN NoTx
     ELSE IF tx[d].at = "read" THEN [tx[d] EXCEPT !.stale = TRUE] ELSE tx[d]]

(* A statement outside a transaction is one of its own. It waits for the   *)
(* lock, or fails, which is Fail below.                                    *)
Autocommit(c) ==
  /\ writer = NoConnection
  /\ tx' = AfterCommit(c)
  /\ UNCHANGED writer

-----------------------------------------------------------------------------
(* AppendEvent, AppendClarification and AddArtifact *)

(* The table rows that a method numbers.                                   *)
Rows(method, r, n) ==
  CASE method = "AppendEvent"         -> events[r]
    [] method = "AppendClarification" -> clarifications[r]
    [] method = "AddArtifact"         -> artifacts[r][n]

(* BEGIN takes nothing; the SELECT after it takes the snapshot, from which *)
(* AddArtifact also reads the run's JSON object later on.                  *)
ReadLast(c, method, r, n, data) ==
  /\ tx[c].at = "idle"
  /\ LastKey(Rows(method, r, n)) < MaxRecords
  /\ tx' = [tx EXCEPT ![c] =
       [at |-> "read", method |-> method, run |-> r, name |-> n, data |-> data,
        last |-> LastKey(Rows(method, r, n)), pointer |-> activeVersion[r],
        stale |-> FALSE]]
  /\ UNCHANGED <<tables, attention, writer, readerVars>>

(* Mutant: without transactions, a stale read is not noticed.              *)
MutantMayWrite(c) == writer = NoConnection

MayWrite(c) == writer = NoConnection /\ ~tx[c].stale

(* The INSERT takes the lock or fails at once. The primary key refuses a   *)
(* number that is taken. The row shows when the transaction commits.       *)
InsertRow(c) ==
  LET t == tx[c] IN
  /\ t.at = "read"
  /\ MayWrite(c)
  /\ t.last + 1 \notin DOMAIN Rows(t.method, t.run, t.name)
  /\ writer' = c
  /\ tx' = [tx EXCEPT ![c].at = "inserted"]
  /\ UNCHANGED <<tables, attention, readerVars>>

(* AddArtifact writes the JSON object back whole, with one entry changed.  *)
NewPointer(t) == [t.pointer EXCEPT ![t.name] = t.last + 1]

(* Mutants: prev_seq is one too small, or the row's own number.            *)
MutantEarlierRow(t) == [seq |-> t.last + 1, prev |-> t.last - 1, data |-> t.data]

MutantEventRow(t) == [seq |-> t.last + 1, prev |-> t.last + 1, data |-> t.data]

EventRow(t) == [seq |-> t.last + 1, prev |-> t.last, data |-> t.data]

(* What a transaction has inserted and updated by the time it commits.     *)
CommitRows(t) ==
  \/ /\ t.method = "AppendEvent"
     /\ events' = [events EXCEPT ![t.run] = Insert(@, t.last + 1, EventRow(t))]
     /\ UNCHANGED <<clarifications, artifacts, activeVersion>>
  \/ /\ t.method = "AppendClarification"
     /\ clarifications' = [clarifications EXCEPT ![t.run] =
          Insert(@, t.last + 1, [seq |-> t.last + 1, data |-> t.data])]
     /\ UNCHANGED <<events, artifacts, activeVersion>>
  \/ /\ t.method = "AddArtifact"
     /\ artifacts' = [artifacts EXCEPT ![t.run][t.name] =
          Insert(@, t.last + 1, [version |-> t.last + 1, data |-> t.data])]
     /\ activeVersion' = [activeVersion EXCEPT ![t.run] = NewPointer(t)]
     /\ UNCHANGED <<events, clarifications>>

Commit(c) ==
  /\ tx[c].at = "inserted"
  /\ CommitRows(tx[c])
  /\ writer' = NoConnection
  /\ tx' = AfterCommit(c)
  /\ UNCHANGED <<attention, readerVars>>

(* Mutant: an error returns without the deferred Rollback.                 *)
MutantFail(c) ==
  /\ tx[c].at # "idle"
  /\ tx' = [tx EXCEPT ![c] = NoTx]
  /\ UNCHANGED <<tables, attention, writer, readerVars>>

(* A statement fails: the lock is taken, the snapshot is stale, the        *)
(* caller's context is canceled. The deferred Rollback undoes the rest.    *)
Fail(c) ==
  /\ tx[c].at # "idle"
  /\ tx' = [tx EXCEPT ![c] = NoTx]
  /\ writer' = IF writer = c THEN NoConnection ELSE writer
  /\ UNCHANGED <<tables, attention, readerVars>>

-----------------------------------------------------------------------------
(* Attentions *)

CreateAttention(c, a) ==
  /\ tx[c].at = "idle"
  /\ attention[a].status = "ABSENT"
  /\ Autocommit(c)
  /\ attention' = [attention EXCEPT ![a] = [status |-> "OPEN"]]
  /\ UNCHANGED <<tables, readerVars>>

(* Mutant: the row is only looked up.                                      *)
MutantCanAnswer(status) == status # "ABSENT"

(* CanTransitionAttention to ANSWERED. Nothing cancels an attention.       *)
CanAnswer(status) == status = "OPEN"

(* AnswerAttention reads the row and decides ...                           *)
CheckAnswer(c, a, answer) ==
  /\ tx[c].at = "idle"
  /\ CanAnswer(attention[a].status)
  /\ tx' = [tx EXCEPT ![c] = [at |-> "checked", attention |-> a, answer |-> answer]]
  /\ UNCHANGED <<tables, attention, writer, readerVars>>

(* ... and updates it by id, whatever its status is by then.               *)
WriteAnswer(c) ==
  /\ tx[c].at = "checked"
  /\ Autocommit(c)
  /\ attention' = [attention EXCEPT ![tx[c].attention] =
       [status |-> "ANSWERED", answer |-> tx[c].answer]]
  /\ UNCHANGED <<tables, readerVars>>

-----------------------------------------------------------------------------
(* The other writers and the readers *)

(* UpdateRunState, IncrementIteration, AddFinding: a write to columns and  *)
(* tables that are not here.                                               *)
OtherWrite(c) ==
  /\ tx[c].at = "idle"
  /\ Autocommit(c)
  /\ UNCHANGED <<tables, attention, readerVars>>

(* Mutant: an off-by-one in the comparison with the cursor.                *)
MutantEventsAfter(r, after) == {k \in DOMAIN events[r] : k > after + 1}

EventsAfter(r, after) == {k \in DOMAIN events[r] : k > after}

(* What handleRunEvents answers as latest_seq: the highest number of the   *)
(* page, and 0 for a page without events.                                  *)
LatestSeq(page) == CHOOSE n \in page \union {0} : \A k \in page : k <= n

(* GET /v1/runs/{id}/events?after=...: one statement, hence one snapshot.  *)
(* The reader goes on from latest_seq, whatever that is.                   *)
ReadPage(p, r) ==
  LET page == EventsAfter(r, cursor[p][r]) IN
  /\ seen' = [seen EXCEPT ![p][r] = @ \union page]
  /\ cursor' = [cursor EXCEPT ![p][r] = LatestSeq(page)]
  /\ UNCHANGED <<tables, attention, writer, tx>>

-----------------------------------------------------------------------------
(* The daemon dies. The lock dies with it; nothing uncommitted is kept.    *)
Crash ==
  /\ tx' = [c \in Connections |-> NoTx]
  /\ writer' = NoConnection
  /\ UNCHANGED <<tables, attention, readerVars>>

(* What a connection does once its method has begun.                       *)
GoesOn(c) ==
  InsertRow(c) \/ Commit(c) \/ WriteAnswer(c) \/ Fail(c)

Next ==
  \/ \E c \in Connections :
       \/ \E method \in Methods, r \in Runs, data \in Payloads :
            \E n \in NamesOf(method) : ReadLast(c, method, r, n, data)
       \/ GoesOn(c)
       \/ \E a \in Attentions :
            \/ CreateAttention(c, a)
            \/ \E answer \in Answers : CheckAnswer(c, a, answer)
       \/ OtherWrite(c)
  \/ \E p \in Readers, r \in Runs : ReadPage(p, r)
  \/ Crash

Spec == Init /\ [][Next]_vars

(* A method that has begun returns: database/sql and SQLite neither hang.  *)
FairSpec == Spec /\ \A c \in Connections : WF_vars(GoesOn(c))

-----------------------------------------------------------------------------
(* Properties *)

TypeOK ==
  /\ events \in [Runs -> Seq([seq : Nat, prev : Nat, data : Payloads])]
  /\ clarifications \in [Runs -> Seq([seq : Nat, data : Payloads])]
  /\ artifacts \in [Runs -> [Names -> Seq([version : Nat, data : Payloads])]]
  /\ activeVersion \in [Runs -> [Names -> Nat]]
  /\ attention \in [Attentions ->
       {NoAttention, [status |-> "OPEN"]}
         \union [status : {"ANSWERED"}, answer : Answers]]
  /\ writer \in Connections \union {NoConnection}
  /\ tx \in [Connections -> {NoTx} \union AnswerTx \union RecordTx]
  /\ cursor \in [Readers -> [Runs -> Nat]]
  /\ seen \in [Readers -> [Runs -> SUBSET Nat]]

(* The repository keeps the promise of the domain's in-memory types: each  *)
(* commit is one atomic Append or Add, numbers and versions count up       *)
(* without gaps or repetitions, prev_seq names the event before, nothing   *)
(* written is ever changed, and rolled back or crashed transactions leave  *)
(* no trace, although the number is read long before it is inserted.       *)
Records == INSTANCE RunRecords WITH log <- events, history <- artifacts,
                                    active <- activeVersion
RecordsSpec == Records!RSpec

(* The active pointer of every artifact is its latest version: of two      *)
(* AddArtifact that rewrite the same JSON object, for different names,     *)
(* neither undoes what the other wrote.                                    *)
ActiveIsLatest ==
  \A r \in Runs, n \in Names : activeVersion[r][n] = Len(artifacts[r][n])

(* A client that pages through the events by cursor misses none: an event  *)
(* never becomes visible after one with a higher number has been read,     *)
(* though writers run at once and some of them fail, and what the client   *)
(* goes on from is the last event it has, or else the very beginning.      *)
ReadersMissNothing ==
  \A p \in Readers, r \in Runs :
    \E n \in DOMAIN events[r] \union {0} :
      seen[p][r] = 1 .. n /\ cursor[p][r] \in {0, n}

(* The calls that have found a open and have yet to write their answer.    *)
Answering(a) ==
  {c \in Connections : tx[c].at = "checked" /\ tx[c].attention = a}

(* An answered attention stays answered, and only the calls that were      *)
(* already under way when it was answered can still replace the answer,    *)
(* each of them once: nobody joins them, and whoever writes leaves them.   *)
OverwritesRunOut ==
  [][\A a \in Attentions : attention[a].status = "ANSWERED" =>
       /\ attention'[a].status = "ANSWERED"
       /\ Answering(a)' \subseteq Answering(a)
       /\ attention'[a] # attention[a] => Answering(a)' # Answering(a)]_vars

(* Whoever takes the write lock gives it back, so that writers that wait   *)
(* or retry are not locked out for ever: every way out of a transaction    *)
(* commits or rolls back.                                                  *)
LockReleased ==
  \A c \in Connections : writer = c ~> writer = NoConnection

-----------------------------------------------------------------------------
(* What the repository says and the code does not keep *)

(* ARCHITECTURE.md:104: AnswerAttention "rejects re-answer", so the first  *)
(* answer is final. The check and the UPDATE are two statements: of two    *)
(* calls that both found the attention open, the second one wins.          *)
AnswerIsFinal ==
  [][\A a \in Attentions :
       attention[a].status = "ANSWERED" => attention'[a] = attention[a]]_vars

(* protocol/api.go:103-105: the client passes latest_seq back "to skip     *)
(* already delivered events". The page after the last event says 0, and    *)
(* the poll after it starts over.                                          *)
PollsSkipDelivered ==
  \A p \in Readers, r \in Runs :
    EventsAfter(r, cursor[p][r]) \intersect seen[p][r] = {}

=============================================================================
