--------------------------- MODULE TuiWatchProofs ---------------------------
(***************************************************************************)
(* Proofs about TuiWatch, for any number of runs, events and connections:  *)
(* the variables keep their types, no connection stays open that the       *)
(* client cannot close, and the chain of reads of a watch is never broken. *)
(***************************************************************************)
EXTENDS TuiWatch, SequenceTheorems, TLAPS

ConnType ==
  [run : Runs, open : BOOLEAN, last : 0 .. MaxEvents, channel : Seq(1 .. MaxEvents)]

Tasks == Commands \union Messages

-----------------------------------------------------------------------------
(* The inductive invariant, in three parts *)

(* What is shown, and the daemon.                                          *)
ScreenInv ==
  /\ log \in [Runs -> 0 .. MaxEvents]
  /\ view \in Views
  /\ current \in Runs \union {NoRun}
  /\ runs \in [Runs -> 0 .. MaxEvents]
  /\ eventSeq \in 0 .. MaxEvents
  /\ backoff \in BOOLEAN

(* Who believes in a watch can close it and has its channel; and there is  *)
(* none where no run is shown, which is why q in the help may leave it     *)
(* alone on the way to the dashboard.                                      *)
WatchInv ==
  /\ conn \in Seq(ConnType)
  /\ Len(conn) <= MaxWatches
  /\ watch \in [cancel : 0 .. Len(conn), chan : 0 .. Len(conn), run : Runs \union {NoRun}]
  /\ watch.run # NoRun => watch.cancel # 0 /\ watch.chan # 0
  /\ current = NoRun => watch.cancel = 0
  /\ NoLeakedWatch

(* What keeps the chain of reads of the current watch going.               *)
Link(p) ==
  \/ p = ReadOne(watch.chan, watch.run)
  \/ \E seq \in 1 .. MaxEvents : p = EventMsg(watch.run, seq)
  \/ p = ClosedMsg(watch.run)

(* A read is from a channel that was made.                                 *)
PendingInv ==
  /\ IsABag(pending)
  /\ BagToSet(pending) \subseteq Tasks
  /\ \A c \in 0 .. MaxWatches, r \in Runs :
       ReadOne(c, r) \in BagToSet(pending) => c \in 1 .. Len(conn)
  /\ watch.run # NoRun => \E p \in BagToSet(pending) : Link(p)

ClientInv == ScreenInv /\ WatchInv /\ PendingInv

-----------------------------------------------------------------------------
(* The bag of what is pending *)

(* More commands join the bag.                                             *)
LEMMA PlusAdds ==
  ASSUME IsABag(pending), NEW S
  PROVE  IsABag(Plus(S)) /\ BagToSet(Plus(S)) = BagToSet(pending) \union S
<1> DEFINE P == {n \in Nat : n > 0}
           B == Plus(S)
<1>1. pending \in [DOMAIN pending -> P]
  BY DEF IsABag
<1>2. B = [e \in DOMAIN pending \union S |->
             (IF e \in DOMAIN pending THEN pending[e] ELSE 0) + (IF e \in S THEN 1 ELSE 0)]
  BY DEF Plus, (+), SetToBag
<1>3. DOMAIN B = DOMAIN pending \union S
  BY <1>2
<1>4. ASSUME NEW e \in DOMAIN pending \union S
      PROVE  B[e] \in P
  <2>1. B[e] = (IF e \in DOMAIN pending THEN pending[e] ELSE 0) + (IF e \in S THEN 1 ELSE 0)
    BY <1>2
  <2>2. e \in DOMAIN pending => pending[e] \in P
    BY <1>1
  <2>. QED BY <2>1, <2>2
<1>5. B \in [DOMAIN pending \union S -> P]
  <2> HIDE DEF P
  <2>. QED BY <1>2, <1>3, <1>4
<1>. QED BY <1>3, <1>5 DEF IsABag, BagToSet

(* One copy of p leaves the bag, more may be left; and others join.        *)
LEMMA DoneReplaces ==
  ASSUME IsABag(pending), NEW p, NEW S
  PROVE  /\ IsABag(Done(p, S))
         /\ BagToSet(Done(p, S)) \subseteq BagToSet(pending) \union S
         /\ (BagToSet(pending) \ {p}) \union S \subseteq BagToSet(Done(p, S))
<1> DEFINE P == {n \in Nat : n > 0}
           R == pending (-) SetToBag({p})
           B == Done(p, S)
<1>1. pending \in [DOMAIN pending -> P]
  BY DEF IsABag
<1> DEFINE Left == [e \in DOMAIN pending |-> IF e \in {p} THEN pending[e] - 1 ELSE pending[e]]
<1>2. R = [e \in {d \in DOMAIN Left : Left[d] > 0} |-> Left[e]]
  BY DEF (-), SetToBag
<1>3. /\ DOMAIN R \subseteq DOMAIN pending /\ DOMAIN pending \ {p} \subseteq DOMAIN R
      /\ \A e \in DOMAIN R : R[e] \in P
  <2>1. ASSUME NEW e \in DOMAIN R
        PROVE  e \in DOMAIN pending /\ R[e] \in P
    <3>1. e \in DOMAIN pending /\ Left[e] > 0 /\ R[e] = Left[e]
      BY <1>2
    <3>2. pending[e] \in P
      BY <1>1, <3>1
    <3>. QED BY <3>1, <3>2
  <2>2. ASSUME NEW e \in DOMAIN pending, e # p
        PROVE  e \in DOMAIN R
    <3>1. Left[e] = pending[e] /\ pending[e] \in P
      BY <1>1, <2>2
    <3>. QED BY <1>2, <3>1
  <2>. QED BY <2>1, <2>2
<1>4. B = [e \in DOMAIN R \union S |->
             (IF e \in DOMAIN R THEN R[e] ELSE 0) + (IF e \in S THEN 1 ELSE 0)]
  BY DEF Done, (+), SetToBag
<1> HIDE DEF R, Left
<1>5. DOMAIN B = DOMAIN R \union S
  BY <1>4
<1>6. ASSUME NEW e \in DOMAIN R \union S
      PROVE  B[e] \in P
  <2>1. B[e] = (IF e \in DOMAIN R THEN R[e] ELSE 0) + (IF e \in S THEN 1 ELSE 0)
    BY <1>4
  <2>. QED BY <1>3, <2>1
<1>7. B \in [DOMAIN R \union S -> P]
  <2> HIDE DEF P
  <2>. QED BY <1>4, <1>5, <1>6
<1>. QED BY <1>3, <1>5, <1>7 DEF IsABag, BagToSet

(* Commands are added: the invariant of the bag stays, if they are of the  *)
(* kinds there are, read from channels there are, and the watch, where     *)
(* there is a new one, is read by one of them.                             *)
LEMMA PlusKeepsPending ==
  ASSUME PendingInv, NEW S \in SUBSET Tasks, pending' = Plus(S),
         Len(conn) \in Nat, Len(conn') \in Nat, Len(conn) <= Len(conn'),
         \A c \in 0 .. MaxWatches, r \in Runs : ReadOne(c, r) \in S => c \in 1 .. Len(conn'),
         \/ watch' = watch
         \/ watch'.run = NoRun
         \/ ReadOne(watch'.chan, watch'.run) \in S
  PROVE  PendingInv'
<1>1. IsABag(pending') /\ BagToSet(pending') = BagToSet(pending) \union S
  BY PlusAdds DEF PendingInv
<1>2. BagToSet(pending') \subseteq Tasks
  BY <1>1 DEF PendingInv
<1>3. ASSUME NEW c \in 0 .. MaxWatches, NEW r \in Runs, ReadOne(c, r) \in BagToSet(pending')
      PROVE  c \in 1 .. Len(conn')
  <2>1. CASE ReadOne(c, r) \in S
    BY <2>1
  <2>2. CASE ReadOne(c, r) \in BagToSet(pending)
    <3>1. c \in 1 .. Len(conn)
      BY <2>2 DEF PendingInv
    <3>. QED BY <3>1
  <2>. QED BY <1>1, <1>3, <2>1, <2>2
<1>4. ASSUME watch'.run # NoRun
      PROVE  \E p \in BagToSet(pending') : Link(p)'
  <2>1. CASE watch' = watch
    <3>1. PICK p \in BagToSet(pending) : Link(p)
      BY <1>4, <2>1 DEF PendingInv
    <3>2. Link(p)'
      BY <2>1, <3>1 DEF Link
    <3>. QED BY <1>1, <3>1, <3>2
  <2>2. CASE ReadOne(watch'.chan, watch'.run) \in S
    BY <1>1, <2>2 DEF Link
  <2>. QED BY <1>4, <2>1, <2>2
<1>5. /\ IsABag(pending)' /\ (BagToSet(pending) \subseteq Tasks)'
      /\ (\A c \in 0 .. MaxWatches, r \in Runs :
            ReadOne(c, r) \in BagToSet(pending) => c \in 1 .. Len(conn))'
  BY <1>1, <1>2, <1>3 DEF IsABag, BagToSet, ReadOne
<1>. QED BY <1>4, <1>5 DEF PendingInv, BagToSet

(* p is done, and S comes of it: the chain of reads goes on if p was not a *)
(* link of it, or S brings another.                                        *)
LEMMA DoneKeepsPending ==
  ASSUME PendingInv, NEW p, NEW S \in SUBSET Tasks, pending' = Done(p, S),
         Len(conn') = Len(conn),
         \A c \in 0 .. MaxWatches, r \in Runs : ReadOne(c, r) \in S => c \in 1 .. Len(conn),
         \/ watch'.run = NoRun
         \/ watch' = watch /\ (Link(p) => \E q \in S : Link(q))
  PROVE  PendingInv'
<1>1. /\ IsABag(pending')
      /\ BagToSet(pending') \subseteq BagToSet(pending) \union S
      /\ (BagToSet(pending) \ {p}) \union S \subseteq BagToSet(pending')
  BY DoneReplaces DEF PendingInv
<1>2. BagToSet(pending') \subseteq Tasks
  BY <1>1 DEF PendingInv
<1>3. ASSUME NEW c \in 0 .. MaxWatches, NEW r \in Runs, ReadOne(c, r) \in BagToSet(pending')
      PROVE  c \in 1 .. Len(conn')
  <2>1. ReadOne(c, r) \in S \/ ReadOne(c, r) \in BagToSet(pending)
    BY <1>1, <1>3
  <2>. QED BY <2>1 DEF PendingInv
<1>4. ASSUME watch'.run # NoRun
      PROVE  \E q \in BagToSet(pending') : Link(q)'
  <2>1. watch' = watch /\ (Link(p) => \E q \in S : Link(q))
    BY <1>4
  <2>2. PICK q \in BagToSet(pending) : Link(q)
    BY <1>4, <2>1 DEF PendingInv
  <2>3. PICK l \in BagToSet(pending') : Link(l)
    <3>1. CASE q = p
      BY <1>1, <2>1, <2>2, <3>1
    <3>2. CASE q # p
      BY <1>1, <2>2, <3>2
    <3>. QED BY <3>1, <3>2
  <2>4. Link(l)'
    BY <2>1, <2>3 DEF Link
  <2>. QED BY <2>3, <2>4
<1>5. /\ IsABag(pending)' /\ (BagToSet(pending) \subseteq Tasks)'
      /\ (\A c \in 0 .. MaxWatches, r \in Runs :
            ReadOne(c, r) \in BagToSet(pending) => c \in 1 .. Len(conn))'
  BY <1>1, <1>2, <1>3 DEF IsABag, BagToSet, ReadOne
<1>. QED BY <1>4, <1>5 DEF PendingInv, BagToSet

-----------------------------------------------------------------------------
(* Commands and messages *)

(* What the constructors make is a command or a message.                   *)
LEMMA TasksTyped ==
  /\ FetchRuns \in Tasks
  /\ \A r \in Runs : FetchDetail(r) \in Tasks /\ ClosedMsg(r) \in Tasks
  /\ \A r \in Runs, n \in 0 .. MaxEvents : FetchEvents(r, n) \in Tasks
  /\ \A r \in Runs, c \in 0 .. MaxWatches : ReadOne(c, r) \in Tasks
  /\ \A r \in Runs, n \in 1 .. MaxEvents : EventMsg(r, n) \in Tasks
  /\ \A n \in 0 .. MaxEvents : EventsMsg(n) \in Tasks
  /\ \A list \in [Runs -> 0 .. MaxEvents] : RunsMsg(list) \in Tasks
<1>1. FetchRuns \in Tasks
  BY DEF Tasks, Commands
<1>2. \A r \in Runs : FetchDetail(r) \in Tasks /\ ClosedMsg(r) \in Tasks
  BY DEF Tasks, Commands, Messages, FetchDetail, ClosedMsg
<1>3. \A r \in Runs, n \in 0 .. MaxEvents : FetchEvents(r, n) \in Tasks
  BY DEF Tasks, Commands, FetchEvents
<1>4. \A r \in Runs, c \in 0 .. MaxWatches : ReadOne(c, r) \in Tasks
  BY DEF Tasks, Commands, ReadOne
<1>5. \A r \in Runs, n \in 1 .. MaxEvents : EventMsg(r, n) \in Tasks
  BY DEF Tasks, Messages, EventMsg
<1>6. \A n \in 0 .. MaxEvents : EventsMsg(n) \in Tasks
  BY DEF Tasks, Messages, EventsMsg
<1>7. \A list \in [Runs -> 0 .. MaxEvents] : RunsMsg(list) \in Tasks
  BY DEF Tasks, Messages, RunsMsg
<1>. QED BY <1>1, <1>2, <1>3, <1>4, <1>5, <1>6, <1>7

(* Only ReadOne makes a read from a channel.                               *)
LEMMA ReadsApart ==
  ASSUME NEW c, NEW r
  PROVE  /\ ReadOne(c, r) # FetchRuns
         /\ \A q : ReadOne(c, r) # FetchDetail(q) /\ ReadOne(c, r) # ClosedMsg(q)
         /\ \A q, n : ReadOne(c, r) # FetchEvents(q, n) /\ ReadOne(c, r) # EventMsg(q, n)
         /\ \A n : ReadOne(c, r) # EventsMsg(n) /\ ReadOne(c, r) # RunsMsg(n)
<1>1. ReadOne(c, r).do = "read" /\ "do" \in DOMAIN ReadOne(c, r)
  BY DEF ReadOne
<1>2. /\ FetchRuns.do # "read"
      /\ \A q : FetchDetail(q).do # "read"
      /\ \A q, n : FetchEvents(q, n).do # "read"
  BY DEF FetchRuns, FetchDetail, FetchEvents
<1>3. /\ \A q : "do" \notin DOMAIN ClosedMsg(q)
      /\ \A q, n : "do" \notin DOMAIN EventMsg(q, n)
      /\ \A n : "do" \notin DOMAIN EventsMsg(n) /\ "do" \notin DOMAIN RunsMsg(n)
  BY DEF ClosedMsg, EventMsg, EventsMsg, RunsMsg
<1>. QED BY <1>1, <1>2, <1>3

(* REST calls, and the answers to them, are no links of the chain of reads.*)
LEMMA RestIsNoLink ==
  ASSUME NEW p,
         \/ p \in Commands /\ p.do # "read"
         \/ p \in Messages /\ p.msg \in {"runs", "events"}
  PROVE  ~Link(p)
<1>1. CASE p \in Commands /\ p.do # "read"
  <2>1. "do" \in DOMAIN p
    BY <1>1 DEF Commands, FetchRuns
  <2>2. p # ReadOne(watch.chan, watch.run)
    BY <1>1 DEF ReadOne
  <2>3. \A seq : p # EventMsg(watch.run, seq)
    BY <2>1 DEF EventMsg
  <2>4. p # ClosedMsg(watch.run)
    BY <2>1 DEF ClosedMsg
  <2>. QED BY <2>2, <2>3, <2>4 DEF Link
<1>2. CASE p \in Messages /\ p.msg \in {"runs", "events"}
  <2>1. "msg" \in DOMAIN p
    BY <1>2 DEF Messages
  <2>2. p # ReadOne(watch.chan, watch.run)
    BY <2>1 DEF ReadOne
  <2>3. \A seq : p # EventMsg(watch.run, seq)
    BY <1>2 DEF EventMsg
  <2>4. p # ClosedMsg(watch.run)
    BY <1>2 DEF ClosedMsg
  <2>. QED BY <2>2, <2>3, <2>4 DEF Link
<1>. QED BY <1>1, <1>2

-----------------------------------------------------------------------------
(* The connections *)

(* wsCancel closes the only connection that may be open.                   *)
LEMMA CanceledClosesAll ==
  ASSUME WatchInv
  PROVE  /\ Canceled \in Seq(ConnType)
         /\ Len(Canceled) = Len(conn) /\ Len(conn) \in Nat
         /\ \A c \in DOMAIN Canceled : ~Canceled[c].open
<1>1. conn \in Seq(ConnType) /\ Len(conn) \in Nat /\ DOMAIN conn = 1 .. Len(conn)
  BY DEF WatchInv
<1>2. \A c \in DOMAIN conn : conn[c] \in ConnType
  BY <1>1
<1>3. CASE watch.cancel = 0
  <2>1. \A c \in DOMAIN conn : ~conn[c].open
    BY <1>1, <1>2, <1>3 DEF WatchInv, NoLeakedWatch, ConnType
  <2>. QED BY <1>1, <1>3, <2>1 DEF Canceled
<1>4. CASE watch.cancel # 0
  <2> DEFINE w == watch.cancel
             closed == [conn[w] EXCEPT !.open = FALSE]
  <2>1. w \in 1 .. Len(conn)
    BY <1>1, <1>4 DEF WatchInv
  <2>2. closed \in ConnType /\ ~closed.open
    BY <1>1, <1>2, <2>1 DEF ConnType
  <2>3. Canceled = [conn EXCEPT ![w] = closed]
    BY <1>4 DEF Canceled
  <2>4. Canceled \in Seq(ConnType) /\ Len(Canceled) = Len(conn) /\ DOMAIN Canceled = DOMAIN conn
    BY <1>1, <2>1, <2>2, <2>3
  <2>5. ASSUME NEW c \in DOMAIN conn
        PROVE  ~Canceled[c].open
    <3>1. CASE c = w
      BY <1>1, <2>2, <2>3, <3>1
    <3>2. CASE c # w
      <4>1. Canceled[c] = conn[c]
        BY <1>1, <2>3, <3>2
      <4>. QED BY <1>2, <3>2, <4>1 DEF WatchInv, NoLeakedWatch, ConnType
    <3>. QED BY <3>1, <3>2
  <2>. QED BY <1>1, <2>4, <2>5
<1>. QED BY <1>3, <1>4

(* Whatever view comes, stopping the watch leaves no connection open.      *)
LEMMA StopWatchKeepsWatch ==
  ASSUME WatchInv, conn' = Canceled, watch'.run = NoRun, watch'.cancel = 0,
         watch' \in [cancel : 0 .. Len(conn), chan : 0 .. Len(conn), run : Runs \union {NoRun}]
  PROVE  WatchInv' /\ Len(conn') = Len(conn)
<1>1. /\ conn' \in Seq(ConnType) /\ Len(conn') = Len(conn)
      /\ \A c \in DOMAIN conn' : ~conn'[c].open
  BY CanceledClosesAll
<1>2. NoLeakedWatch'
  BY <1>1 DEF NoLeakedWatch
<1>. QED BY <1>1, <1>2 DEF WatchInv

(* StopWatch, as in the keys that go to the dashboard or end the client.   *)
LEMMA StopWatchKeeps ==
  ASSUME WatchInv, StopWatch
  PROVE  WatchInv' /\ Len(conn') = Len(conn) /\ Len(conn) \in Nat /\ watch'.run = NoRun
<1>1. Len(conn) \in Nat
  BY CanceledClosesAll
<1>2. conn' = Canceled /\ watch' = NoWatch
  BY DEF StopWatch
<1>3. /\ watch'.run = NoRun /\ watch'.cancel = 0
      /\ watch' \in [cancel : 0 .. Len(conn), chan : 0 .. Len(conn), run : Runs \union {NoRun}]
  BY <1>1, <1>2 DEF NoWatch
<1>. QED BY <1>1, <1>2, <1>3, StopWatchKeepsWatch

(* startWatch for the run that is shown: the new connection is the only    *)
(* one that is open, and its first read is under way.                      *)
LEMMA StartWatchKeeps ==
  ASSUME WatchInv, PendingInv, NEW r \in Runs, NEW after \in 0 .. MaxEvents,
         StartWatch(r, after), current' # NoRun, view' \notin {"dashboard", "quit"}
  PROVE  WatchInv' /\ PendingInv'
<1>1. /\ Canceled \in Seq(ConnType) /\ Len(Canceled) = Len(conn) /\ Len(conn) \in Nat
      /\ \A c \in DOMAIN Canceled : ~Canceled[c].open
  BY CanceledClosesAll
<1>2. ASSUME Len(conn) < MaxWatches,
             conn' = Append(Canceled, [run |-> r, open |-> TRUE, last |-> after, channel |-> <<>>]),
             watch' = [cancel |-> Len(conn) + 1, chan |-> Len(conn) + 1, run |-> r],
             pending' = Plus({ReadOne(Len(conn) + 1, r)})
      PROVE  WatchInv' /\ PendingInv'
  <2> DEFINE new == [run |-> r, open |-> TRUE, last |-> after, channel |-> <<>>]
             n == Len(conn) + 1
  <2>1. new \in ConnType
    BY DEF ConnType
  <2>2. /\ conn' \in Seq(ConnType) /\ Len(conn') = n /\ DOMAIN conn' = 1 .. n
        /\ \A c \in 1 .. Len(conn) : conn'[c] = Canceled[c]
    BY <1>1, <1>2, <2>1
  <2>3. MaxWatches \in Nat /\ n \in 1 .. MaxWatches
    BY <1>1, <1>2, WatchAssumption
  <2>4. \A c \in DOMAIN conn' : conn'[c].open => c = n
    BY <1>1, <2>2
  <2>5. watch' \in [cancel : 0 .. Len(conn'), chan : 0 .. Len(conn'), run : Runs \union {NoRun}]
    BY <1>1, <1>2, <2>2
  <2>6. WatchInv'
    BY <1>1, <1>2, <2>2, <2>3, <2>4, <2>5 DEF WatchInv, NoLeakedWatch
  <2>7. {ReadOne(n, r)} \in SUBSET Tasks
    BY <2>3, TasksTyped
  <2>8. \A c \in 0 .. MaxWatches, q \in Runs :
          ReadOne(c, q) \in {ReadOne(n, r)} => c \in 1 .. Len(conn')
    BY <1>1, <2>2 DEF ReadOne
  <2>9. ReadOne(watch'.chan, watch'.run) \in {ReadOne(n, r)}
    BY <1>2
  <2>10. Len(conn') \in Nat /\ Len(conn) <= Len(conn')
    BY <1>1, <2>2
  <2>11. pending' = Plus({ReadOne(n, r)})
    BY <1>2
  <2>12. PendingInv'
    <3> HIDE DEF n
    <3>. QED BY <1>1, <2>7, <2>8, <2>9, <2>10, <2>11, PlusKeepsPending
  <2>. QED BY <2>6, <2>12
<1>3. ASSUME StopWatch, pending' = Plus({ClosedMsg(r)})
      PROVE  WatchInv' /\ PendingInv'
  <2>1. WatchInv' /\ Len(conn') = Len(conn) /\ watch'.run = NoRun
    BY <1>3, StopWatchKeeps
  <2>2. {ClosedMsg(r)} \in SUBSET Tasks
    BY TasksTyped
  <2>3. \A c \in 0 .. MaxWatches, q \in Runs : ReadOne(c, q) \notin {ClosedMsg(r)}
    BY ReadsApart
  <2>. QED BY <1>1, <1>3, <2>1, <2>2, <2>3, PlusKeepsPending
<1>. QED BY <1>2, <1>3 DEF StartWatch

-----------------------------------------------------------------------------
(* Keys *)

(* Nothing but what is shown changes, and not to a place where a watch is  *)
(* not allowed.                                                            *)
LEMMA WatchStays ==
  ASSUME WatchInv, UNCHANGED <<conn, watch>>,
         view' \in {"dashboard", "quit"} => watch.cancel = 0,
         current' = NoRun => watch.cancel = 0
  PROVE  WatchInv'
<1>1. NoLeakedWatch'
  BY DEF WatchInv, NoLeakedWatch
<1>. QED BY <1>1 DEF WatchInv

(* REST calls join what is pending, and the watch stays or ends.           *)
LEMMA RestCallsJoin ==
  ASSUME PendingInv, NEW S \in SUBSET Tasks, pending' = Plus(S),
         Len(conn) \in Nat, Len(conn') = Len(conn), watch' = watch \/ watch'.run = NoRun,
         \A c \in 0 .. MaxWatches, r \in Runs : ReadOne(c, r) \notin S
  PROVE  PendingInv'
  BY PlusKeepsPending

LEMMA PendingStays ==
  ASSUME PendingInv, pending' = pending, Len(conn') = Len(conn),
         watch' = watch \/ watch'.run = NoRun
  PROVE  PendingInv'
<1>1. ASSUME watch'.run # NoRun
      PROVE  \E p \in BagToSet(pending') : Link(p)'
  <2>1. PICK p \in BagToSet(pending) : Link(p)
    BY <1>1 DEF PendingInv
  <2>2. Link(p)'
    BY <1>1, <2>1 DEF Link
  <2>. QED BY <2>1, <2>2
<1>. QED BY <1>1 DEF PendingInv, BagToSet, ReadOne

LEMMA KeysKeep ==
  ASSUME ClientInv, Keys
  PROVE  ClientInv'
<1>1. ScreenInv /\ WatchInv /\ PendingInv /\ Len(conn) \in Nat
  BY CanceledClosesAll DEF ClientInv
<1>2. Key
  BY DEF Keys, KeyDashboard, KeyDetail, KeyEvents, KeyOther, KeyQuit, KeyOpen
<1>3. ASSUME KeyDashboard
      PROVE  ClientInv'
  <2>1. ScreenInv'
    BY <1>1, <1>2, <1>3 DEF ScreenInv, KeyDashboard, Key, Views
  <2>2. WatchInv' /\ Len(conn') = Len(conn) /\ watch'.run = NoRun
    BY <1>1, <1>3, StopWatchKeeps DEF KeyDashboard
  <2>3. PendingInv'
    <3>1. {FetchRuns} \in SUBSET Tasks
      BY TasksTyped
    <3>2. \A c \in 0 .. MaxWatches, r \in Runs : ReadOne(c, r) \notin {FetchRuns}
      BY ReadsApart
    <3>3. pending' = Plus({FetchRuns})
      BY <1>3 DEF KeyDashboard
    <3>. QED BY <1>1, <2>2, <3>1, <3>2, <3>3, RestCallsJoin
  <2>. QED BY <2>1, <2>2, <2>3 DEF ClientInv
<1>4. ASSUME KeyDetail
      PROVE  ClientInv'
  <2>1. current \in Runs /\ current' = current /\ current' # NoRun /\ view' = "detail"
    BY <1>1, <1>4, WatchAssumption DEF KeyDetail, Opened, ScreenInv
  <2>2. CASE view = "detail"
    <3>1. /\ StopWatch /\ pending' = Plus({FetchDetail(current)})
          /\ UNCHANGED <<log, runs, eventSeq, backoff>>
      BY <1>2, <1>4, <2>2 DEF KeyDetail, Key
    <3>2. ScreenInv'
      BY <1>1, <2>1, <3>1 DEF ScreenInv, Views
    <3>3. WatchInv' /\ Len(conn') = Len(conn) /\ watch'.run = NoRun
      BY <1>1, <3>1, StopWatchKeeps
    <3>4. {FetchDetail(current)} \in SUBSET Tasks
      BY <2>1, TasksTyped
    <3>5. \A c \in 0 .. MaxWatches, r \in Runs : ReadOne(c, r) \notin {FetchDetail(current)}
      BY ReadsApart
    <3>6. PendingInv'
      BY <1>1, <3>1, <3>3, <3>4, <3>5, RestCallsJoin
    <3>. QED BY <3>2, <3>3, <3>6 DEF ClientInv
  <2>3. CASE view # "detail"
    <3>1. StartWatch(current, eventSeq) /\ UNCHANGED <<log, runs, eventSeq>>
      BY <1>2, <1>4, <2>3 DEF KeyDetail, Key
    <3>2. backoff' \in BOOLEAN
      BY <1>1, <3>1 DEF StartWatch, ScreenInv
    <3>3. ScreenInv'
      BY <1>1, <2>1, <3>1, <3>2 DEF ScreenInv, Views
    <3>4. WatchInv' /\ PendingInv'
      BY <1>1, <2>1, <3>1, StartWatchKeeps DEF ScreenInv
    <3>. QED BY <3>3, <3>4 DEF ClientInv
  <2>. QED BY <2>2, <2>3
<1>5. ASSUME KeyEvents
      PROVE  ClientInv'
  <2>1. current \in Runs /\ current' = current /\ current' # NoRun /\ view' = "events"
    BY <1>1, <1>5, WatchAssumption DEF KeyEvents, Opened, ScreenInv
  <2>2. 0 \in 0 .. MaxEvents
    BY WatchAssumption
  <2>3. StartWatch(current, 0) /\ eventSeq' = 0 /\ UNCHANGED <<log, runs>>
    BY <1>2, <1>5 DEF KeyEvents, Key
  <2>4. backoff' \in BOOLEAN
    BY <1>1, <2>3 DEF StartWatch, ScreenInv
  <2>5. ScreenInv'
    BY <1>1, <2>1, <2>2, <2>3, <2>4 DEF ScreenInv, Views
  <2>6. WatchInv' /\ PendingInv'
    BY <1>1, <2>1, <2>2, <2>3, StartWatchKeeps
  <2>. QED BY <2>5, <2>6 DEF ClientInv
<1>6. ASSUME KeyOther
      PROVE  ClientInv'
  <2>1. /\ view' \in {"attentions", "interact", "help"}
        /\ UNCHANGED <<log, runs, conn, current, eventSeq, watch, backoff, pending>>
    BY <1>2, <1>6 DEF KeyOther, Key
  <2>2. ScreenInv'
    BY <1>1, <2>1 DEF ScreenInv, Views
  <2>3. WatchInv'
    BY <1>1, <2>1, WatchStays DEF WatchInv
  <2>4. PendingInv'
    BY <1>1, <2>1, PendingStays
  <2>. QED BY <2>2, <2>3, <2>4 DEF ClientInv
<1>7. ASSUME KeyQuit
      PROVE  ClientInv'
  <2>1. UNCHANGED <<log, runs, current, eventSeq, backoff, pending>>
    BY <1>2, <1>7 DEF KeyQuit, Key
  <2>2. CASE UNCHANGED <<conn, watch>> /\ view' = IF Opened THEN "detail" ELSE "dashboard"
    <3>1. ScreenInv'
      BY <1>1, <2>1, <2>2 DEF ScreenInv, Views
    <3>2. WatchInv'
      BY <1>1, <2>1, <2>2, WatchStays DEF WatchInv, Opened
    <3>3. PendingInv'
      BY <1>1, <2>1, <2>2, PendingStays
    <3>. QED BY <3>1, <3>2, <3>3 DEF ClientInv
  <2>3. CASE view' = "quit" /\ StopWatch
    <3>1. ScreenInv'
      BY <1>1, <2>1, <2>3 DEF ScreenInv, Views
    <3>2. WatchInv' /\ Len(conn') = Len(conn) /\ watch'.run = NoRun
      BY <1>1, <2>3, StopWatchKeeps
    <3>3. PendingInv'
      BY <1>1, <2>1, <3>2, PendingStays
    <3>. QED BY <3>1, <3>2, <3>3 DEF ClientInv
  <2>. QED BY <1>7, <2>2, <2>3 DEF KeyQuit
<1>8. ASSUME KeyOpen
      PROVE  ClientInv'
  <2>1. PICK r \in Runs : pending' = Plus({FetchDetail(r)})
    BY <1>8 DEF KeyOpen
  <2>2. /\ view = "dashboard" /\ view' = "detail" /\ current' = NoRun
        /\ UNCHANGED <<log, runs, conn, eventSeq, watch, backoff>>
    BY <1>2, <1>8 DEF KeyOpen, Key
  <2>3. ScreenInv'
    BY <1>1, <2>2 DEF ScreenInv, Views
  <2>4. WatchInv'
    BY <1>1, <2>2, WatchStays DEF WatchInv, NoLeakedWatch
  <2>5. {FetchDetail(r)} \in SUBSET Tasks
    BY TasksTyped
  <2>6. \A c \in 0 .. MaxWatches, q \in Runs : ReadOne(c, q) \notin {FetchDetail(r)}
    BY ReadsApart
  <2>7. PendingInv'
    BY <1>1, <2>1, <2>2, <2>5, <2>6, RestCallsJoin
  <2>. QED BY <2>3, <2>4, <2>7 DEF ClientInv
<1>. QED BY <1>3, <1>4, <1>5, <1>6, <1>7, <1>8 DEF Keys

-----------------------------------------------------------------------------
(* Ticks *)

(* refreshCurrent asks for what is shown, and never reads from a channel.  *)
LEMMA RefreshAsks ==
  ASSUME ScreenInv
  PROVE  /\ RefreshCurrent \in SUBSET Tasks
         /\ \A c \in 0 .. MaxWatches, r \in Runs : ReadOne(c, r) \notin RefreshCurrent
<1>1. \/ RefreshCurrent = {FetchRuns}
      \/ RefreshCurrent = {FetchDetail(current)} /\ current # NoRun
      \/ RefreshCurrent = {FetchEvents(current, eventSeq)} /\ current # NoRun
      \/ RefreshCurrent = {}
  BY DEF RefreshCurrent, Opened
<1>2. current # NoRun => current \in Runs
  BY DEF ScreenInv
<1>3. eventSeq \in 0 .. MaxEvents
  BY DEF ScreenInv
<1>. QED BY <1>1, <1>2, <1>3, TasksTyped, ReadsApart

LEMMA TicksKeep ==
  ASSUME ClientInv, Refresh \/ OnHealth \/ BackoffOver
  PROVE  ClientInv'
<1>1. ScreenInv /\ WatchInv /\ PendingInv /\ Len(conn) \in Nat
  BY CanceledClosesAll DEF ClientInv
<1>2. UNCHANGED <<log, conn, view, current, runs, eventSeq, watch>>
  BY DEF Refresh, OnHealth, BackoffOver
<1>3. backoff' \in BOOLEAN
  BY <1>1 DEF Refresh, OnHealth, BackoffOver, ScreenInv
<1>4. ScreenInv'
  BY <1>1, <1>2, <1>3 DEF ScreenInv
<1>5. WatchInv'
  BY <1>1, <1>2, WatchStays DEF WatchInv, NoLeakedWatch
<1>6. PendingInv'
  <2>1. CASE Refresh
    <3>1. pending' = Plus(RefreshCurrent)
      BY <2>1 DEF Refresh
    <3>. QED BY <1>1, <1>2, <3>1, RefreshAsks, RestCallsJoin
  <2>2. CASE OnHealth
    <3>1. pending' = Plus({FetchRuns}) /\ {FetchRuns} \in SUBSET Tasks
      BY <2>2, TasksTyped DEF OnHealth
    <3>2. \A c \in 0 .. MaxWatches, r \in Runs : ReadOne(c, r) \notin {FetchRuns}
      BY ReadsApart
    <3>. QED BY <1>1, <1>2, <3>1, <3>2, RestCallsJoin
  <2>3. CASE BackoffOver
    BY <1>1, <1>2, <2>3, PendingStays DEF BackoffOver
  <2>. QED BY <2>1, <2>2, <2>3
<1>. QED BY <1>4, <1>5, <1>6 DEF ClientInv

-----------------------------------------------------------------------------
(* The daemon, the connections and the commands *)

(* One connection gets other contents, or is closed.                       *)
LEMMA OneConnectionChanges ==
  ASSUME WatchInv, NEW c \in DOMAIN conn, NEW new \in ConnType,
         conn' = [conn EXCEPT ![c] = new], new.open => conn[c].open,
         UNCHANGED <<view, current, watch>>
  PROVE  WatchInv' /\ Len(conn') = Len(conn)
<1>1. conn \in Seq(ConnType) /\ Len(conn) \in Nat /\ DOMAIN conn = 1 .. Len(conn)
  BY DEF WatchInv
<1>2. /\ conn' \in Seq(ConnType) /\ Len(conn') = Len(conn) /\ DOMAIN conn' = DOMAIN conn
      /\ \A d \in DOMAIN conn : conn'[d] = IF d = c THEN new ELSE conn[d]
  BY <1>1
<1>3. NoLeakedWatch'
  BY <1>2 DEF WatchInv, NoLeakedWatch
<1>. QED BY <1>2, <1>3 DEF WatchInv

LEMMA ConnectionsKeep ==
  ASSUME ClientInv,
         \/ \E r \in Runs : DaemonAppends(r)
         \/ \E c \in DOMAIN conn : Receive(c) \/ Drop(c)
  PROVE  ClientInv'
<1>1. ScreenInv /\ WatchInv /\ PendingInv /\ Len(conn) \in Nat /\ MaxEvents \in Nat
  BY CanceledClosesAll, WatchAssumption DEF ClientInv
<1>2. ASSUME NEW r \in Runs, DaemonAppends(r)
      PROVE  ClientInv'
  <2>1. log[r] + 1 \in 0 .. MaxEvents
    BY <1>1, <1>2 DEF ScreenInv, DaemonAppends
  <2>2. UNCHANGED <<conn, view, current, runs, eventSeq, watch, backoff, pending>>
    BY <1>2 DEF DaemonAppends
  <2>3. ScreenInv'
    BY <1>1, <1>2, <2>1, <2>2 DEF ScreenInv, DaemonAppends
  <2>4. WatchInv'
    BY <1>1, <2>2, WatchStays DEF WatchInv, NoLeakedWatch
  <2>5. PendingInv'
    BY <1>1, <2>2, PendingStays
  <2>. QED BY <2>3, <2>4, <2>5 DEF ClientInv
<1>3. ASSUME NEW c \in DOMAIN conn, NEW new \in ConnType,
             conn' = [conn EXCEPT ![c] = new], new.open => conn[c].open,
             UNCHANGED <<log, view, current, runs, eventSeq, watch, backoff, pending>>
      PROVE  ClientInv'
  <2>1. WatchInv' /\ Len(conn') = Len(conn)
    BY <1>1, <1>3, OneConnectionChanges
  <2>2. ScreenInv'
    BY <1>1, <1>3 DEF ScreenInv
  <2>3. PendingInv'
    BY <1>1, <1>3, <2>1, PendingStays
  <2>. QED BY <2>1, <2>2, <2>3 DEF ClientInv
<1>4. ASSUME NEW c \in DOMAIN conn, Receive(c)
      PROVE  ClientInv'
  <2> DEFINE channel == Append(conn[c].channel, conn[c].last + 1)
             new == [conn[c] EXCEPT !.last = @ + 1, !.channel = channel]
  <2>1. conn[c] \in ConnType
    BY <1>1 DEF WatchInv
  <2>2. log[conn[c].run] \in 0 .. MaxEvents
    BY <1>1, <2>1 DEF ScreenInv, ConnType
  <2>3. conn[c].last + 1 \in 1 .. MaxEvents
    <3>1. conn[c].last \in 0 .. MaxEvents /\ conn[c].last < log[conn[c].run]
      BY <1>4, <2>1 DEF Receive, ConnType
    <3>. QED BY <1>1, <2>2, <3>1
  <2>4. channel \in Seq(1 .. MaxEvents)
    BY <2>1, <2>3 DEF ConnType
  <2>5. conn[c].last + 1 \in 0 .. MaxEvents
    BY <2>3
  <2>6. new \in ConnType /\ new.open = conn[c].open
    BY <2>1, <2>4, <2>5 DEF ConnType
  <2>7. /\ conn' = [conn EXCEPT ![c] = new]
        /\ UNCHANGED <<log, view, current, runs, eventSeq, watch, backoff, pending>>
    BY <1>1, <1>4, <2>1 DEF Receive, WatchInv, ConnType
  <2>. QED BY <1>3, <2>6, <2>7
<1>5. ASSUME NEW c \in DOMAIN conn, Drop(c)
      PROVE  ClientInv'
  <2> DEFINE new == [conn[c] EXCEPT !.open = FALSE]
  <2>1. conn[c] \in ConnType
    BY <1>1 DEF WatchInv
  <2>2. new \in ConnType /\ ~new.open
    BY <2>1 DEF ConnType
  <2>3. /\ conn' = [conn EXCEPT ![c] = new]
        /\ UNCHANGED <<log, view, current, runs, eventSeq, watch, backoff, pending>>
    BY <1>1, <1>5 DEF Drop
  <2>. QED BY <1>3, <2>2, <2>3
<1>. QED BY <1>2, <1>4, <1>5

(* A REST command is done: at most an answer is left.                      *)
LEMMA RestCallDone ==
  ASSUME PendingInv, NEW p, ~Link(p), NEW S \in SUBSET Tasks, pending' = Done(p, S),
         UNCHANGED <<conn, watch>>,
         \A c \in 0 .. MaxWatches, r \in Runs : ReadOne(c, r) \notin S
  PROVE  PendingInv'
  BY DoneKeepsPending

LEMMA CommandsKeep ==
  ASSUME ClientInv, NEW p \in BagToSet(pending), Run(p)
  PROVE  ClientInv'
<1>1. ScreenInv /\ WatchInv /\ PendingInv /\ Len(conn) \in Nat
  BY CanceledClosesAll DEF ClientInv
<1>2. p \in Commands
  BY DEF Run
<1>3. UNCHANGED <<log, view, current, runs, eventSeq, watch, backoff>>
  BY DEF Run, CallFails, ListRuns, EventsAfter, ReadChannel
<1>4. ScreenInv'
  BY <1>1, <1>3 DEF ScreenInv
<1>5. ASSUME UNCHANGED conn
      PROVE  WatchInv'
  BY <1>1, <1>3, <1>5, WatchStays DEF WatchInv, NoLeakedWatch
<1>6. ASSUME CallFails(p)
      PROVE  ClientInv'
  <2>1. ~Link(p) /\ pending' = Done(p, {}) /\ UNCHANGED conn
    BY <1>2, <1>6, RestIsNoLink DEF CallFails
  <2>2. PendingInv'
    BY <1>1, <1>3, <2>1, RestCallDone
  <2>. QED BY <1>4, <1>5, <2>1, <2>2 DEF ClientInv
<1>7. ASSUME ListRuns(p)
      PROVE  ClientInv'
  <2>1. p.do # "read"
    BY <1>7 DEF ListRuns, FetchRuns
  <2>2. ~Link(p) /\ pending' = Done(p, {RunsMsg(log)}) /\ UNCHANGED conn
    BY <1>2, <1>7, <2>1, RestIsNoLink DEF ListRuns
  <2>3. {RunsMsg(log)} \in SUBSET Tasks
    BY <1>1, TasksTyped DEF ScreenInv
  <2>4. \A c \in 0 .. MaxWatches, r \in Runs : ReadOne(c, r) \notin {RunsMsg(log)}
    BY ReadsApart
  <2>5. PendingInv'
    BY <1>1, <1>3, <2>2, <2>3, <2>4, RestCallDone
  <2>. QED BY <1>4, <1>5, <2>2, <2>5 DEF ClientInv
<1>8. ASSUME EventsAfter(p)
      PROVE  ClientInv'
  <2> DEFINE S == IF p.after = 0 THEN {EventsMsg(log[p.run])} ELSE {}
  <2>1. ~Link(p) /\ pending' = Done(p, S) /\ UNCHANGED conn
    BY <1>2, <1>8, RestIsNoLink DEF EventsAfter
  <2>2. p.run \in Runs
    BY <1>2, <1>8 DEF EventsAfter, Commands, FetchRuns
  <2>3. log[p.run] \in 0 .. MaxEvents
    BY <1>1, <2>2 DEF ScreenInv
  <2>4. S \in SUBSET Tasks
    BY <2>3, TasksTyped
  <2>5. \A c \in 0 .. MaxWatches, r \in Runs : ReadOne(c, r) \notin S
    BY ReadsApart
  <2>6. PendingInv'
    <3> HIDE DEF S
    <3>. QED BY <1>1, <1>3, <2>1, <2>4, <2>5, RestCallDone
  <2>. QED BY <1>4, <1>5, <2>1, <2>6 DEF ClientInv
<1>9. ASSUME ReadChannel(p)
      PROVE  ClientInv'
  <2>1. PICK c \in 0 .. MaxWatches, r \in Runs : p = ReadOne(c, r)
    BY <1>2, <1>9 DEF ReadChannel, Commands, FetchRuns, ReadOne
  <2>2. p.chan = c /\ p.run = r
    BY <2>1 DEF ReadOne
  <2>3. c \in DOMAIN conn
    BY <1>1, <2>1 DEF PendingInv, WatchInv
  <2>4. conn[c] \in ConnType
    BY <1>1, <2>3 DEF WatchInv
  <2>5. Link(p) => r = watch.run
    <3>1. \A n : p # EventMsg(watch.run, n) /\ p # ClosedMsg(watch.run)
      BY <2>1, ReadsApart
    <3>2. ASSUME p = ReadOne(watch.chan, watch.run)
          PROVE  r = watch.run
      BY <2>2, <3>2 DEF ReadOne
    <3>. QED BY <3>1, <3>2 DEF Link
  <2>6. CASE /\ conn[c].channel # <<>>
             /\ conn' = [conn EXCEPT ![c].channel = Tail(@)]
             /\ pending' = Done(p, {EventMsg(r, Head(conn[c].channel))})
    <3> DEFINE new == [conn[c] EXCEPT !.channel = Tail(@)]
               n == Head(conn[c].channel)
    <3>1. conn[c].channel \in Seq(1 .. MaxEvents)
      BY <2>4 DEF ConnType
    <3>2. n \in 1 .. MaxEvents /\ Tail(conn[c].channel) \in Seq(1 .. MaxEvents)
      BY <2>6, <3>1, HeadTailProperties
    <3>3. new \in ConnType /\ new.open = conn[c].open
      BY <2>4, <3>2 DEF ConnType
    <3>4. conn' = [conn EXCEPT ![c] = new]
      BY <2>6
    <3>5. WatchInv' /\ Len(conn') = Len(conn)
      BY <1>1, <1>3, <2>3, <3>3, <3>4, OneConnectionChanges
    <3>6. {EventMsg(r, n)} \in SUBSET Tasks
      BY <3>2, TasksTyped
    <3>7. \A d \in 0 .. MaxWatches, q \in Runs : ReadOne(d, q) \notin {EventMsg(r, n)}
      BY ReadsApart
    <3>8. Link(p) => \E q \in {EventMsg(r, n)} : Link(q)
      BY <2>5, <3>2 DEF Link
    <3>9. PendingInv'
      <4> HIDE DEF n
      <4>1. pending' = Done(p, {EventMsg(r, n)})
        BY <2>6 DEF n
      <4>. QED BY <1>1, <1>3, <3>5, <3>6, <3>7, <3>8, <4>1, DoneKeepsPending
    <3>. QED BY <1>4, <3>5, <3>9 DEF ClientInv
  <2>7. CASE pending' = Done(p, {ClosedMsg(r)}) /\ UNCHANGED conn
    <3>1. {ClosedMsg(r)} \in SUBSET Tasks
      BY TasksTyped
    <3>2. \A d \in 0 .. MaxWatches, q \in Runs : ReadOne(d, q) \notin {ClosedMsg(r)}
      BY ReadsApart
    <3>3. Link(p) => \E q \in {ClosedMsg(r)} : Link(q)
      BY <2>5 DEF Link
    <3>4. PendingInv'
      BY <1>1, <1>3, <2>7, <3>1, <3>2, <3>3, DoneKeepsPending
    <3>. QED BY <1>4, <1>5, <2>7, <3>4 DEF ClientInv
  <2>. QED BY <1>9, <2>2, <2>6, <2>7 DEF ReadChannel
<1>. QED BY <1>6, <1>7, <1>8, <1>9 DEF Run

-----------------------------------------------------------------------------
(* Messages *)

LEMMA MessagesKeep ==
  ASSUME ClientInv, NEW p \in BagToSet(pending), Update(p)
  PROVE  ClientInv'
<1>1. ScreenInv /\ WatchInv /\ PendingInv /\ Len(conn) \in Nat
  BY CanceledClosesAll DEF ClientInv
<1>2. ASSUME UNCHANGED <<conn, view, current, watch>>
      PROVE  WatchInv'
  BY <1>1, <1>2, WatchStays DEF WatchInv, NoLeakedWatch
<1>3. ASSUME OnRuns(p)
      PROVE  ClientInv'
  <2>1. p.list \in [Runs -> 0 .. MaxEvents]
    BY <1>3 DEF OnRuns, Messages
  <2>2. /\ runs' = p.list /\ pending' = Done(p, {})
        /\ UNCHANGED <<log, conn, view, current, eventSeq, watch, backoff>>
    BY <1>3 DEF OnRuns
  <2>3. ScreenInv'
    BY <1>1, <2>1, <2>2 DEF ScreenInv
  <2>4. ~Link(p)
    BY <1>3, RestIsNoLink DEF OnRuns
  <2>5. PendingInv'
    BY <1>1, <2>2, <2>4, RestCallDone
  <2>. QED BY <1>2, <2>2, <2>3, <2>5 DEF ClientInv
<1>4. ASSUME OnDetail(p)
      PROVE  ClientInv'
  <2>1. p.run \in Runs
    BY <1>4 DEF OnDetail, Commands, FetchRuns
  <2>2. /\ current' = p.run /\ pending' = Done(p, {})
        /\ UNCHANGED <<log, conn, view, runs, eventSeq, watch, backoff>>
    BY <1>4 DEF OnDetail
  <2>3. ScreenInv'
    BY <1>1, <2>1, <2>2 DEF ScreenInv
  <2>4. WatchInv'
    BY <1>1, <2>1, <2>2, WatchStays, WatchAssumption DEF WatchInv, NoLeakedWatch
  <2>5. ~Link(p)
    BY <1>4, RestIsNoLink DEF OnDetail
  <2>6. PendingInv'
    BY <1>1, <2>2, <2>5, RestCallDone
  <2>. QED BY <2>3, <2>4, <2>6 DEF ClientInv
<1>5. ASSUME OnEvents(p)
      PROVE  ClientInv'
  <2>1. p.latest \in 0 .. MaxEvents
    BY <1>5 DEF OnEvents, Messages
  <2>2. /\ eventSeq' = p.latest /\ pending' = Done(p, {})
        /\ UNCHANGED <<log, conn, view, current, runs, watch, backoff>>
    BY <1>5 DEF OnEvents
  <2>3. ScreenInv'
    BY <1>1, <2>1, <2>2 DEF ScreenInv
  <2>4. ~Link(p)
    BY <1>5, RestIsNoLink DEF OnEvents
  <2>5. PendingInv'
    BY <1>1, <2>2, <2>4, RestCallDone
  <2>. QED BY <1>2, <2>2, <2>3, <2>5 DEF ClientInv
<1>6. ASSUME OnEvent(p)
      PROVE  ClientInv'
  <2>1. p.run \in Runs /\ p.seq \in 1 .. MaxEvents /\ p.msg = "event" /\ p \in Messages
    BY <1>6 DEF OnEvent, Messages
  <2>2. UNCHANGED <<log, conn, view, current, runs, watch, backoff>>
    BY <1>6 DEF OnEvent
  <2>3. eventSeq' \in 0 .. MaxEvents
    <3>1. p.seq \in 0 .. MaxEvents
      BY <2>1
    <3>. QED BY <1>1, <1>6, <3>1 DEF OnEvent, ScreenInv
  <2>4. ScreenInv'
    BY <1>1, <2>2, <2>3 DEF ScreenInv
  <2>5. CASE p.run = watch.run
    <3>1. PICK stateEvent \in BOOLEAN : pending' = Done(p, NextRead(p.run, stateEvent))
      BY <1>6, <2>5 DEF OnEvent
    <3> DEFINE S == NextRead(p.run, stateEvent)
               next == ReadOne(watch.chan, p.run)
    <3>2. S = {next} \/ S = {next, FetchDetail(p.run)}
      BY DEF NextRead
    <3>3. watch.run # NoRun
      BY <2>1, <2>5, WatchAssumption
    <3>4. watch.chan \in 1 .. Len(conn) /\ watch.chan \in 0 .. MaxWatches
      BY <1>1, <3>3, WatchAssumption DEF WatchInv
    <3>5. next \in Tasks /\ FetchDetail(p.run) \in Tasks
      BY <2>1, <3>4, TasksTyped
    <3>6. ASSUME NEW c \in 0 .. MaxWatches, NEW r \in Runs, ReadOne(c, r) \in S
          PROVE  c \in 1 .. Len(conn)
      <4>1. ReadOne(c, r) = next
        BY <3>2, <3>6, ReadsApart
      <4>2. c = watch.chan
        BY <4>1 DEF ReadOne
      <4>. QED BY <3>4, <4>2
    <3>7. next \in S /\ Link(next)
      BY <2>5, <3>2 DEF Link
    <3>8. S \in SUBSET Tasks
      BY <3>2, <3>5
    <3>9. PendingInv'
      <4> HIDE DEF S, next
      <4>1. pending' = Done(p, S)
        BY <3>1 DEF S
      <4>. QED BY <1>1, <2>2, <3>6, <3>7, <3>8, <4>1, DoneKeepsPending
    <3>. QED BY <1>2, <2>2, <2>4, <3>9 DEF ClientInv
  <2>6. CASE p.run # watch.run
    <3>1. pending' = Done(p, {})
      BY <1>6, <2>6 DEF OnEvent
    <3>2. ~Link(p)
      <4>1. p # ReadOne(watch.chan, watch.run) /\ p # ClosedMsg(watch.run)
        BY <2>6 DEF ReadOne, ClosedMsg
      <4>2. \A n : p # EventMsg(watch.run, n)
        BY <2>6 DEF EventMsg
      <4>. QED BY <4>1, <4>2 DEF Link
    <3>3. PendingInv'
      BY <1>1, <2>2, <3>1, <3>2, RestCallDone
    <3>. QED BY <1>2, <2>2, <2>4, <3>3 DEF ClientInv
  <2>. QED BY <2>5, <2>6
<1>7. ASSUME OnClosed(p)
      PROVE  ClientInv'
  <2>1. p.run \in Runs /\ p.msg = "closed"
    BY <1>7 DEF OnClosed, Messages
  <2>2. /\ backoff' = TRUE /\ pending' = Done(p, {})
        /\ UNCHANGED <<log, view, current, runs, eventSeq>>
    BY <1>7 DEF OnClosed
  <2>3. ScreenInv'
    BY <1>1, <2>2 DEF ScreenInv
  <2>4. CASE watch.cancel # 0 /\ watch.run = p.run
    <3>1. conn' = Canceled /\ watch' = [watch EXCEPT !.cancel = 0, !.run = NoRun]
      BY <1>7, <2>4 DEF OnClosed
    <3>2. /\ watch'.run = NoRun /\ watch'.cancel = 0
          /\ watch' \in [cancel : 0 .. Len(conn), chan : 0 .. Len(conn), run : Runs \union {NoRun}]
      <4>1. watch \in [cancel : 0 .. Len(conn), chan : 0 .. Len(conn), run : Runs \union {NoRun}]
        BY <1>1 DEF WatchInv
      <4>2. 0 \in 0 .. Len(conn)
        BY <1>1
      <4>. QED BY <3>1, <4>1, <4>2
    <3>3. WatchInv' /\ Len(conn') = Len(conn)
      BY <1>1, <3>1, <3>2, StopWatchKeepsWatch
    <3>4. PendingInv'
      BY <1>1, <2>2, <3>2, <3>3, DoneKeepsPending
    <3>. QED BY <2>3, <3>3, <3>4 DEF ClientInv
  <2>5. CASE ~(watch.cancel # 0 /\ watch.run = p.run)
    <3>1. UNCHANGED <<conn, watch>>
      BY <1>7, <2>5 DEF OnClosed
    <3>2. watch.run # p.run
      BY <1>1, <2>1, <2>5, WatchAssumption DEF WatchInv
    <3>3. ~Link(p)
      <4>1. p # ReadOne(watch.chan, watch.run) /\ p # ClosedMsg(watch.run)
        BY <3>2 DEF ReadOne, ClosedMsg
      <4>2. \A n : p # EventMsg(watch.run, n)
        BY <3>2 DEF EventMsg
      <4>. QED BY <4>1, <4>2 DEF Link
    <3>4. PendingInv'
      BY <1>1, <2>2, <3>1, <3>3, RestCallDone
    <3>. QED BY <1>2, <2>2, <2>3, <3>1, <3>4 DEF ClientInv
  <2>. QED BY <2>4, <2>5
<1>. QED BY <1>3, <1>4, <1>5, <1>6, <1>7 DEF Update

-----------------------------------------------------------------------------
(* The inductive invariant *)

LEMMA InitClientInv == Init => ClientInv
<1>. SUFFICES ASSUME Init PROVE ClientInv
  OBVIOUS
<1>1. MaxEvents \in Nat /\ MaxWatches \in Nat
  BY WatchAssumption
<1>2. ScreenInv
  <2>1. 0 \in 0 .. MaxEvents
    BY <1>1
  <2>2. log \in [Runs -> 0 .. MaxEvents] /\ runs \in [Runs -> 0 .. MaxEvents]
    BY <2>1 DEF Init, NoList
  <2>. QED BY <2>1, <2>2 DEF Init, ScreenInv, Views
<1>3. conn \in Seq(ConnType) /\ Len(conn) = 0
  BY DEF Init
<1>4. WatchInv
  BY <1>1, <1>3 DEF Init, WatchInv, NoLeakedWatch, NoWatch
<1>5. PendingInv
  <2>1. pending = [e \in {} |-> 1]
    BY DEF Init, EmptyBag, SetToBag
  <2>2. IsABag(pending) /\ BagToSet(pending) = {}
    BY <2>1 DEF IsABag, BagToSet
  <2>3. watch.run = NoRun
    BY DEF Init, NoWatch
  <2>. QED BY <2>2, <2>3 DEF PendingInv
<1>. QED BY <1>2, <1>4, <1>5 DEF ClientInv

LEMMA StepKeepsClientInv == ClientInv /\ [Next]_vars => ClientInv'
<1>. SUFFICES ASSUME ClientInv, [Next]_vars PROVE ClientInv'
  OBVIOUS
<1>1. ScreenInv /\ WatchInv /\ PendingInv
  BY DEF ClientInv
<1>2. CASE UNCHANGED vars
  <2>1. UNCHANGED <<log, conn, view, current, runs, eventSeq, watch, backoff, pending>>
    BY <1>2 DEF vars
  <2>2. ScreenInv'
    BY <1>1, <2>1 DEF ScreenInv
  <2>3. WatchInv'
    BY <1>1, <2>1, WatchStays DEF WatchInv, NoLeakedWatch
  <2>4. PendingInv'
    BY <1>1, <2>1, PendingStays
  <2>. QED BY <2>2, <2>3, <2>4 DEF ClientInv
<1>3. CASE Next
  BY <1>3, KeysKeep, TicksKeep, CommandsKeep, MessagesKeep, ConnectionsKeep DEF Next
<1>. QED BY <1>2, <1>3

LEMMA ClientInvInductive == Spec => []ClientInv
  BY InitClientInv, StepKeepsClientInv, PTL DEF Spec

-----------------------------------------------------------------------------
(* The theorems *)

(* The fields of the bubbletea model keep their types, and what is pending *)
(* is one of the commands and messages that cmd/work9flow knows, whatever  *)
(* overtakes what.                                                         *)
THEOREM ClientTypeCorrect == Spec => []TypeOK
<1>1. ClientInv => TypeOK
  BY DEF ClientInv, ScreenInv, WatchInv, PendingInv, TypeOK, ConnType, Tasks
<1>. QED BY <1>1, ClientInvInductive, PTL

(* Through any sequence of keys, late messages and failures the only open  *)
(* WebSocket is the one that m.wsCancel closes, and the dashboard and the  *)
(* end of the program have none.                                           *)
THEOREM WatchesDoNotLeak == Spec => []NoLeakedWatch
<1>1. ClientInv => NoLeakedWatch
  BY DEF ClientInv, WatchInv
<1>. QED BY <1>1, ClientInvInductive, PTL

(* While m.wsRunID keeps the client from polling, a read of m.wsChan or a  *)
(* message that leads to the next one is under way; and no read waits on a *)
(* nil channel.                                                            *)
THEOREM WatchedChannelsAreRead == Spec => []LiveWatchIsRead
<1>1. ClientInv => LiveWatchIsRead
  <2>. SUFFICES ASSUME ClientInv PROVE LiveWatchIsRead
    OBVIOUS
  <2>1. ASSUME watch.run # NoRun
        PROVE  \/ BagIn(ReadOne(watch.chan, watch.run), pending)
               \/ \E seq \in 1 .. MaxEvents : BagIn(EventMsg(watch.run, seq), pending)
               \/ BagIn(ClosedMsg(watch.run), pending)
    <3>1. PICK p \in BagToSet(pending) : Link(p)
      BY <2>1 DEF ClientInv, PendingInv
    <3>. QED BY <3>1 DEF Link, BagIn
  <2>2. ASSUME NEW r \in Runs, BagIn(ReadOne(0, r), pending)
        PROVE  FALSE
    <3>1. 0 \in 0 .. MaxWatches
      BY WatchAssumption
    <3>2. 0 \in 1 .. Len(conn) /\ Len(conn) \in Nat
      BY <2>2, <3>1 DEF ClientInv, PendingInv, WatchInv, BagIn
    <3>. QED BY <3>2
  <2>. QED BY <2>1, <2>2 DEF LiveWatchIsRead
<1>. QED BY <1>1, ClientInvInductive, PTL

=============================================================================
