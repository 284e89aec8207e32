------------------------------ MODULE TuiWatch ------------------------------
(***************************************************************************)
(* The terminal client: the bubbletea model of cmd/work9flow, whose Update *)
(* handles one message at a time, and the commands it starts, which run    *)
(* beside it and come back with messages in any order. The model watches   *)
(* one run over a WebSocket and polls over REST when it has no watch. Of   *)
(* what it shows, the list of the runs and the number of the last event    *)
(* are kept: they are what the next request depends on.                    *)
(***************************************************************************)
EXTENDS Naturals, Sequences, Bags

CONSTANTS
  Runs,        \* identifiers of workflow runs
  NoRun,       \* no run
  MaxEvents,   \* bound on the events of a run
  MaxWatches,  \* bound on the connections the client opens
  MaxPending   \* bound on what is pending when a key is hit or the clock ticks

ASSUME WatchAssumption ==
  /\ NoRun \notin Runs
  /\ {MaxEvents, MaxWatches, MaxPending} \subseteq Nat

VARIABLES
  log,       \* the number of events of each run, in the daemon
  conn,      \* the connections of the client, each with its channel
  view,      \* m.view
  current,   \* m.current: the run whose detail is shown
  runs,      \* m.runs: what the list of the runs was when it was read
  eventSeq,  \* m.eventSeq
  watch,     \* m.wsCancel and m.wsChan (each a connection or 0) and m.wsRunID
  backoff,   \* m.wsBackoffUntil is still to come
  pending    \* the bag of the commands that run and the messages that wait

vars == <<log, conn, view, current, runs, eventSeq, watch, backoff, pending>>

Views == {"dashboard", "detail", "events", "attentions", "interact", "help", "quit"}

NoList == [r \in Runs |-> 0]
NoWatch == [cancel |-> 0, chan |-> 0, run |-> NoRun]

(* Commands: a REST call or a read from a channel. What detailMsg brings,  *)
(* the id of the run, is known before, so that GetRun and its answer are   *)
(* one; and the answers to health, to the actions and to the attentions    *)
(* leave nothing behind, so that they are not kept here at all.            *)
FetchRuns == [do |-> "runs"]
FetchDetail(r) == [do |-> "detail", run |-> r]
FetchEvents(r, after) == [do |-> "events", run |-> r, after |-> after]
ReadOne(c, r) == [do |-> "read", chan |-> c, run |-> r]

Commands ==
  {FetchRuns}
    \union [do : {"detail"}, run : Runs]
    \union [do : {"events"}, run : Runs, after : 0 .. MaxEvents]
    \union [do : {"read"}, chan : 0 .. MaxWatches, run : Runs]

(* Messages with their contents.                                           *)
RunsMsg(list) == [msg |-> "runs", list |-> list]
EventsMsg(latest) == [msg |-> "events", latest |-> latest]
EventMsg(r, seq) == [msg |-> "event", run |-> r, seq |-> seq]
ClosedMsg(r) == [msg |-> "closed", run |-> r]

Messages ==
  [msg : {"runs"}, list : [Runs -> 0 .. MaxEvents]]
    \union [msg : {"events"}, latest : 0 .. MaxEvents]
    \union [msg : {"event"}, run : Runs, seq : 1 .. MaxEvents]
    \union [msg : {"closed"}, run : Runs]

Init ==
  /\ log = [r \in Runs |-> 0]
  /\ conn = <<>>
  /\ view = "dashboard"
  /\ current = NoRun
  /\ runs = NoList
  /\ eventSeq = 0
  /\ watch = NoWatch
  /\ backoff = FALSE
  /\ pending = EmptyBag

Plus(cmds) == pending (+) SetToBag(cmds)
Done(p, cmds) == (pending (-) SetToBag({p})) (+) SetToBag(cmds)

-----------------------------------------------------------------------------
(* The daemon and the connections *)

DaemonAppends(r) ==
  /\ log[r] < MaxEvents
  /\ log' = [log EXCEPT ![r] = @ + 1]
  /\ UNCHANGED <<conn, view, current, runs, eventSeq, watch, backoff, pending>>

(* The goroutine of SubscribeEvents puts the next event into the channel.  *)
Receive(c) ==
  /\ conn[c].open
  /\ conn[c].last < log[conn[c].run]
  /\ conn' = [conn EXCEPT ![c].last = @ + 1, ![c].channel = Append(@, conn[c].last + 1)]
  /\ UNCHANGED <<log, view, current, runs, eventSeq, watch, backoff, pending>>

(* Nothing came for 30 seconds, or the daemon hung up: it closes the       *)
(* connection and the channel.                                             *)
Drop(c) ==
  /\ conn[c].open
  /\ conn' = [conn EXCEPT ![c].open = FALSE]
  /\ UNCHANGED <<log, view, current, runs, eventSeq, watch, backoff, pending>>

-----------------------------------------------------------------------------
(* Commands *)

(* A REST call that fails brings a message with an error, which Update     *)
(* only shows. Here the command is gone.                                   *)
CallFails(p) ==
  /\ p.do \in {"runs", "detail", "events"}
  /\ pending' = Done(p, {})
  /\ UNCHANGED <<log, conn, view, current, runs, eventSeq, watch, backoff>>

ListRuns(p) ==
  /\ p = FetchRuns
  /\ pending' = Done(p, {RunsMsg(log)})
  /\ UNCHANGED <<log, conn, view, current, runs, eventSeq, watch, backoff>>

(* EventsAfter puts "?after=" into the path, where Client.do escapes it:   *)
(* with a cursor the request names no route and the answer is 404. The     *)
(* last number of an empty page is 0.                                      *)
EventsAfter(p) ==
  /\ p \in Commands /\ p.do = "events"
  /\ pending' = Done(p, IF p.after = 0 THEN {EventsMsg(log[p.run])} ELSE {})
  /\ UNCHANGED <<log, conn, view, current, runs, eventSeq, watch, backoff>>

(* readOneWS: what is buffered comes before the end.                       *)
ReadChannel(p) ==
  /\ p.do = "read"
  /\ p.chan # 0
  /\ \/ /\ conn[p.chan].channel # <<>>
        /\ conn' = [conn EXCEPT ![p.chan].channel = Tail(@)]
        /\ pending' = Done(p, {EventMsg(p.run, Head(conn[p.chan].channel))})
     \/ /\ conn[p.chan].channel = <<>>
        /\ ~conn[p.chan].open
        /\ pending' = Done(p, {ClosedMsg(p.run)})
        /\ UNCHANGED conn
  /\ UNCHANGED <<log, view, current, runs, eventSeq, watch, backoff>>

-----------------------------------------------------------------------------
(* The watch *)

(* wsCancel closes the connection that it was made for.                    *)
Canceled ==
  IF watch.cancel = 0 THEN conn ELSE [conn EXCEPT ![watch.cancel].open = FALSE]

(* Mutant: only the fields are reset.                                      *)
MutantStopWatch ==
  /\ conn' = conn
  /\ watch' = NoWatch

StopWatch ==
  /\ conn' = Canceled
  /\ watch' = NoWatch

(* startWatch, where a watch was stopped before: the dial gets through, or *)
(* fails and the message tells Update of it.                               *)
StartWatch(r, after) ==
  \/ /\ Len(conn) < MaxWatches
     /\ conn' = Append(Canceled, [run |-> r, open |-> TRUE, last |-> after, channel |-> <<>>])
     /\ watch' = [cancel |-> Len(conn) + 1, chan |-> Len(conn) + 1, run |-> r]
     /\ pending' = Plus({ReadOne(Len(conn) + 1, r)})
     /\ UNCHANGED backoff
  \/ /\ StopWatch
     /\ pending' = Plus({ClosedMsg(r)})
     /\ backoff' = TRUE

-----------------------------------------------------------------------------
(* Keys *)

(* Bound: the user waits while much is pending.                            *)
Key ==
  /\ view # "quit"
  /\ BagCardinality(pending) < MaxPending
  /\ UNCHANGED <<log, runs>>

(* 1, and esc everywhere else.                                             *)
KeyDashboard ==
  /\ Key
  /\ StopWatch
  /\ view' = "dashboard"
  /\ pending' = Plus({FetchRuns})
  /\ UNCHANGED <<current, eventSeq, backoff>>

(* Mutant: a run of the list will do, opened or not.                       *)
MutantOpened == runs # NoList

(* m.current is set: GetRun has answered.                                  *)
Opened == current # NoRun

(* 2: from the detail view itself the detail is only read again.           *)
KeyDetail ==
  /\ Key
  /\ Opened
  /\ view' = "detail"
  /\ IF view = "detail"
     THEN StopWatch /\ pending' = Plus({FetchDetail(current)}) /\ UNCHANGED backoff
     ELSE StartWatch(current, eventSeq)
  /\ UNCHANGED <<current, eventSeq>>

(* 3 *)
KeyEvents ==
  /\ Key
  /\ Opened
  /\ view' = "events"
  /\ eventSeq' = 0
  /\ StartWatch(current, 0)
  /\ UNCHANGED current

(* 4, 5, n and ?: the watch goes on.                                       *)
KeyOther ==
  /\ Key
  /\ \E v \in {"attentions", "interact", "help"} :
       /\ v = "attentions" => Opened
       /\ v = "interact" => Opened \/ view = "dashboard"
       /\ view' = v
  /\ UNCHANGED <<conn, current, eventSeq, watch, backoff, pending>>

(* q and ctrl+c; q in the help goes back to the detail, or to the          *)
(* dashboard where there is none.                                          *)
KeyQuit ==
  /\ Key
  /\ \/ /\ view = "help"
        /\ view' = IF Opened THEN "detail" ELSE "dashboard"
        /\ UNCHANGED <<conn, watch>>
     \/ view' = "quit" /\ StopWatch
  /\ UNCHANGED <<current, eventSeq, backoff, pending>>

(* enter on the dashboard, for a run of the list.                          *)
KeyOpen ==
  /\ Key
  /\ view = "dashboard"
  /\ \E r \in Runs :
       /\ runs[r] > 0
       /\ pending' = Plus({FetchDetail(r)})
  /\ current' = NoRun
  /\ view' = "detail"
  /\ UNCHANGED <<conn, eventSeq, watch, backoff>>

-----------------------------------------------------------------------------
(* Update *)

(* Mutant: the dashboard is left to the answers to health.                 *)
MutantRefreshCurrent ==
  IF view = "events" /\ Opened /\ watch.run # current /\ ~backoff
  THEN {FetchEvents(current, eventSeq)} ELSE {}

(* refreshCurrent                                                          *)
RefreshCurrent ==
  CASE view = "dashboard" -> {FetchRuns}
    [] view = "detail" /\ Opened /\ watch.run # current /\ ~backoff
                          -> {FetchDetail(current)}
    [] view = "events" /\ Opened /\ watch.run # current /\ ~backoff
                          -> {FetchEvents(current, eventSeq)}
    [] OTHER              -> {}

(* A tick, of which there is always one to come, or the answer to an       *)
(* action: cancel, answer, steer, follow-up or create.                     *)
Refresh ==
  /\ view # "quit"
  /\ BagCardinality(pending) < MaxPending
  /\ pending' = Plus(RefreshCurrent)
  /\ UNCHANGED <<log, conn, view, current, runs, eventSeq, watch, backoff>>

(* The answer to the health call of each tick, before a run is opened.     *)
OnHealth ==
  /\ view = "dashboard"
  /\ current = NoRun
  /\ BagCardinality(pending) < MaxPending
  /\ pending' = Plus({FetchRuns})
  /\ UNCHANGED <<log, conn, view, current, runs, eventSeq, watch, backoff>>

BackoffOver ==
  /\ backoff
  /\ backoff' = FALSE
  /\ UNCHANGED <<log, conn, view, current, runs, eventSeq, watch, pending>>

OnRuns(p) ==
  /\ p \in Messages /\ p.msg = "runs"
  /\ runs' = p.list
  /\ pending' = Done(p, {})
  /\ UNCHANGED <<log, conn, view, current, eventSeq, watch, backoff>>

(* GetRun and its answer, whatever is shown by then.                       *)
OnDetail(p) ==
  /\ p \in Commands /\ p.do = "detail"
  /\ current' = p.run
  /\ pending' = Done(p, {})
  /\ UNCHANGED <<log, conn, view, runs, eventSeq, watch, backoff>>

OnEvents(p) ==
  /\ p \in Messages /\ p.msg = "events"
  /\ eventSeq' = p.latest
  /\ pending' = Done(p, {})
  /\ UNCHANGED <<log, conn, view, current, runs, watch, backoff>>

(* Mutant: the next read is forgotten when the detail is read again.       *)
MutantNextRead(r, stateEvent) ==
  IF stateEvent THEN {FetchDetail(r)} ELSE {ReadOne(watch.chan, r)}

(* The next read, from the channel of the current watch, and the detail    *)
(* after an event that isStateEvent.                                       *)
NextRead(r, stateEvent) ==
  {ReadOne(watch.chan, r)} \union IF stateEvent THEN {FetchDetail(r)} ELSE {}

(* wsEventMsg; one of a watch of another run, or of none, is dropped.      *)
OnEvent(p) ==
  /\ p \in Messages /\ p.msg = "event"
  /\ IF p.run = watch.run
     THEN /\ eventSeq' = IF p.seq > eventSeq THEN p.seq ELSE eventSeq
          /\ \E stateEvent \in BOOLEAN : pending' = Done(p, NextRead(p.run, stateEvent))
     ELSE pending' = Done(p, {}) /\ UNCHANGED eventSeq
  /\ UNCHANGED <<log, conn, view, current, runs, watch, backoff>>

(* wsClosedMsg, of the current watch or of one of the same run before it.  *)
(* wsChan stays as it is.                                                  *)
OnClosed(p) ==
  /\ p \in Messages /\ p.msg = "closed"
  /\ IF watch.cancel # 0 /\ watch.run = p.run
     THEN conn' = Canceled /\ watch' = [watch EXCEPT !.cancel = 0, !.run = NoRun]
     ELSE UNCHANGED <<conn, watch>>
  /\ backoff' = TRUE
  /\ pending' = Done(p, {})
  /\ UNCHANGED <<log, view, current, runs, eventSeq>>

Update(p) ==
  /\ view # "quit"
  /\ \/ OnRuns(p) \/ OnDetail(p) \/ OnEvents(p) \/ OnEvent(p) \/ OnClosed(p)

Run(p) ==
  p \in Commands /\ (CallFails(p) \/ ListRuns(p) \/ EventsAfter(p) \/ ReadChannel(p))

Keys ==
  KeyDashboard \/ KeyDetail \/ KeyEvents \/ KeyOther \/ KeyQuit \/ KeyOpen

Next ==
  \/ Keys
  \/ Refresh
  \/ OnHealth
  \/ BackoffOver
  \/ \E p \in BagToSet(pending) : Run(p) \/ Update(p)
  \/ \E r \in Runs : DaemonAppends(r)
  \/ \E c \in DOMAIN conn : Receive(c) \/ Drop(c)

Spec == Init /\ [][Next]_vars

(* Something that is pending happens to it.                                *)
Pending(A(_)) == \E p \in BagToSet(pending) : A(p)

(* The clock ticks, commands come back and messages are handled; of the    *)
(* calls that are made again and again, some get through. No key is ever   *)
(* hit, and no connection need bring anything.                             *)
FairSpec ==
  /\ Spec
  /\ WF_vars(Refresh) /\ WF_vars(BackoffOver)
  /\ WF_vars(Pending(Update)) /\ WF_vars(Pending(Run))
  /\ SF_vars(Pending(ListRuns)) /\ SF_vars(Pending(EventsAfter))

-----------------------------------------------------------------------------
(* Properties *)

TypeOK ==
  /\ log \in [Runs -> 0 .. MaxEvents]
  /\ conn \in Seq([run : Runs, open : BOOLEAN, last : 0 .. MaxEvents,
                  channel : Seq(1 .. MaxEvents)])
  /\ view \in Views
  /\ current \in Runs \union {NoRun}
  /\ runs \in [Runs -> 0 .. MaxEvents]
  /\ eventSeq \in 0 .. MaxEvents
  /\ watch \in [cancel : 0 .. Len(conn), chan : 0 .. Len(conn), run : Runs \union {NoRun}]
  /\ backoff \in BOOLEAN
  /\ IsABag(pending) /\ BagToSet(pending) \subseteq Commands \union Messages

(* A connection that is open is the one that the model can close, through  *)
(* any sequence of view changes, late messages and failures: no socket, its *)
(* goroutine and its subscriber in the daemon stay behind. On the          *)
(* dashboard, and after the end, none is open.                             *)
NoLeakedWatch ==
  /\ \A c \in DOMAIN conn : conn[c].open => watch.cancel = c
  /\ view \in {"dashboard", "quit"} => watch.cancel = 0

(* While the model believes in a watch of a run, and therefore does not    *)
(* poll, the chain of reads from its channel is not broken: a read of that *)
(* channel is under way, or a message is, whose handling starts the next   *)
(* read or gives the watch up. And no read waits on the nil channel.       *)
LiveWatchIsRead ==
  /\ watch.run # NoRun =>
       \/ BagIn(ReadOne(watch.chan, watch.run), pending)
       \/ \E seq \in 1 .. MaxEvents : BagIn(EventMsg(watch.run, seq), pending)
       \/ BagIn(ClosedMsg(watch.run), pending)
  /\ \A r \in Runs : ~BagIn(ReadOne(0, r), pending)

(* Who stays on the dashboard sees in the end what became of every run,    *)
(* although answers overtake each other and some calls fail.              *)
DashboardCatchesUp ==
  <>[](view = "dashboard") => <>[](runs = log)

(* "We still need REST polling to recover state when the broker closes our *)
(* socket" (model.go): in the events view, once the watch is gone and the  *)
(* backoff is over, polling brings the rest of the events.                 *)
PollingRecovers ==
  \A r \in Runs :
    <>[](view = "events" /\ current = r /\ watch.run = NoRun /\ ~backoff)
      => <>[](eventSeq = log[r])

=============================================================================
