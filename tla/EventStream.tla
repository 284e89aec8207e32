----------------------------- MODULE EventStream -----------------------------
(***************************************************************************)
(* One run's events on their way to the WebSocket clients that watch it:   *)
(* the handlers that append an event and publish it to the broker, the     *)
(* worker, which appends without publishing, and handleRunEventsStream,    *)
(* which subscribes, replays the history after the client's cursor and     *)
(* then forwards what is published. The broker is a map per run, so the    *)
(* streams of another run share nothing with these.                        *)
(*                                                                         *)
(* An event is its sequence number. A stream is one request: a client that *)
(* reconnects opens another, since the broker makes a new subscriber.      *)
(***************************************************************************)
EXTENDS Naturals, Sequences, Functions

CONSTANTS
  Handlers,    \* goroutines that serve create, cancel, answer, steer, followup
  Engine,      \* the worker's goroutine
  Streams,     \* the requests to the events/stream route
  BufferSize,  \* the capacity of a subscriber's channel, 64 in the code
  MaxEvents    \* bound on the length of the log

ASSUME StreamAssumption ==
  /\ Engine \notin Handlers
  /\ BufferSize \in Nat \ {0}
  /\ MaxEvents \in Nat

VARIABLES
  log,          \* who appended the event with each number
  handler,      \* where each handler is, with its locals
  subscribers,  \* the streams in the broker's map
  place,        \* where each stream's handler is
  after,        \* the cursor that each stream's client sent
  channel,      \* the events in each subscriber's buffer
  closed,       \* the streams whose channel is closed
  history,      \* what each stream still has to replay
  replayed,     \* what each stream has written to its connection: history ...
  forwarded,    \* ... and, after it, live events
  old,          \* history: the events published before the stream subscribed
  upto,         \* history: the last event when the stream read the log
  missed        \* history: the events that were skipped for the stream

streamVars == <<place, after, closed, history, replayed, forwarded, old, upto>>
vars == <<log, handler, subscribers, channel, missed, streamVars>>

HandlerPlaces == {"idle", "publish", "send"}

StreamPlaces ==
  {"new", "read", "replay", "live", "closing", "gone"}

Requests ==
  [place : HandlerPlaces, event : Nat, targets : SUBSET Streams]

Idle == [place |-> "idle", event |-> 0, targets |-> {}]

Init ==
  /\ log = <<>>
  /\ handler = [h \in Handlers |-> Idle]
  /\ subscribers = {}
  /\ place = [s \in Streams |-> "new"]
  /\ after = [s \in Streams |-> 0]
  /\ channel = [s \in Streams |-> <<>>]
  /\ closed = {}
  /\ history = [s \in Streams |-> <<>>]
  /\ replayed = [s \in Streams |-> <<>>]
  /\ forwarded = [s \in Streams |-> <<>>]
  /\ old = [s \in Streams |-> {}]
  /\ upto = [s \in Streams |-> 0]
  /\ missed = [s \in Streams |-> {}]

-----------------------------------------------------------------------------
(* Appends and publishers.                                                 *)

(* AppendEvent by the worker: nobody publishes it.                         *)
EngineAppends ==
  /\ Len(log) < MaxEvents
  /\ log' = Append(log, Engine)
  /\ UNCHANGED <<handler, subscribers, channel, missed, streamVars>>

(* Mutant: the event is published without the number that AppendEvent gave *)
(* it.                                                                     *)
MutantHandlerAppends(h) ==
  /\ handler[h].place = "idle"
  /\ Len(log) < MaxEvents
  /\ log' = Append(log, h)
  /\ handler' = [handler EXCEPT ![h] = [Idle EXCEPT !.place = "publish"]]
  /\ UNCHANGED <<subscribers, channel, missed, streamVars>>

(* AppendEvent by a handler. When it fails the handler answers 500 and     *)
(* publishes nothing, which changes nothing here.                          *)
HandlerAppends(h) ==
  /\ handler[h].place = "idle"
  /\ Len(log) < MaxEvents
  /\ log' = Append(log, h)
  /\ handler' = [handler EXCEPT ![h] =
       [place |-> "publish", event |-> Len(log) + 1, targets |-> {}]]
  /\ UNCHANGED <<subscribers, channel, missed, streamVars>>

(* The loop over subs goes on with what is left of the snapshot.           *)
Remaining(h, rest) ==
  IF rest = {} THEN Idle ELSE [handler[h] EXCEPT !.place = "send", !.targets = rest]

(* publish, under the lock: the snapshot of the subscribers.               *)
Publish(h) ==
  /\ handler[h].place = "publish"
  /\ handler' = [handler EXCEPT ![h] = Remaining(h, subscribers)]
  /\ UNCHANGED <<log, subscribers, channel, missed, streamVars>>

(* Mutant: the send without a select, which waits for a free place.        *)
MutantBlockingSend(h) ==
  \E s \in handler[h].targets \ closed :
    /\ handler[h].place = "send"
    /\ Len(channel[s]) < BufferSize
    /\ channel' = [channel EXCEPT ![s] = Append(@, handler[h].event)]
    /\ handler' = [handler EXCEPT ![h] = Remaining(h, @.targets \ {s})]
    /\ UNCHANGED <<log, subscribers, missed, streamVars>>

(* publish, without the lock: the select with a default. A full buffer     *)
(* loses the event and the subscriber stays. A map is ranged over in any   *)
(* order.                                                                  *)
Send(h) ==
  \E s \in handler[h].targets \ closed :
    /\ handler[h].place = "send"
    /\ IF Len(channel[s]) < BufferSize
       THEN /\ channel' = [channel EXCEPT ![s] = Append(@, handler[h].event)]
            /\ UNCHANGED missed
       ELSE /\ missed' = [missed EXCEPT ![s] = @ \union {handler[h].event}]
            /\ UNCHANGED channel
    /\ handler' = [handler EXCEPT ![h] = Remaining(h, @.targets \ {s})]
    /\ UNCHANGED <<log, subscribers, streamVars>>

(* A send on a closed channel panics, default or not. net/http recovers    *)
(* the panic and drops the request's connection: the subscribers that are  *)
(* left do not get the event, and the client no answer.                    *)
SendPanics(h) ==
  /\ handler[h].place = "send"
  /\ handler[h].targets \intersect closed # {}
  /\ missed' = [s \in Streams |-> missed[s] \union
                  IF s \in handler[h].targets \ closed
                  THEN {handler[h].event} ELSE {}]
  /\ handler' = [handler EXCEPT ![h] = Idle]
  /\ UNCHANGED <<log, subscribers, channel, streamVars>>

HandlerGoesOn(h) == Publish(h) \/ Send(h) \/ SendPanics(h)

-----------------------------------------------------------------------------
(* Streams.                                                                *)

(* The events whose handlers have taken their snapshot, and the worker's.  *)
Published ==
  {e \in DOMAIN log : \A h \in Handlers :
     handler[h].place = "publish" => handler[h].event # e}

(* The upgrade and subscribe. A client may have seen any part of the log.  *)
Connect(s) ==
  /\ place[s] = "new"
  /\ \E a \in 0 .. Len(log) : after' = [after EXCEPT ![s] = a]
  /\ subscribers' = subscribers \union {s}
  /\ place' = [place EXCEPT ![s] = "read"]
  /\ old' = [old EXCEPT ![s] = Published]
  /\ UNCHANGED <<log, handler, channel, closed, history, replayed, forwarded, upto,
                 missed>>

(* Mutants: seq >= ?, and ORDER BY seq DESC.                               *)
MutantInclusiveEventsAfter(a) ==
  LET from == IF a = 0 THEN 0 ELSE a - 1
  IN  [i \in 1 .. Len(log) - from |-> from + i]

MutantDescendingEventsAfter(a) == [i \in 1 .. Len(log) - a |-> Len(log) + 1 - i]

(* EventsAfter: seq > ? ORDER BY seq ASC.                                  *)
EventsAfter(a) == [i \in 1 .. Len(log) - a |-> a + i]

Replaying(s, rest) ==
  /\ history' = [history EXCEPT ![s] = rest]
  /\ place' = [place EXCEPT ![s] = IF rest = <<>> THEN "live" ELSE "replay"]

(* The read of the history. Its error is ignored: the stream goes live     *)
(* without any.                                                            *)
ReadHistory(s) ==
  /\ place[s] = "read"
  /\ upto' = [upto EXCEPT ![s] = Len(log)]
  /\ \/ /\ Replaying(s, EventsAfter(after[s]))
        /\ UNCHANGED missed
     \/ /\ Replaying(s, <<>>)
        /\ missed' = [missed EXCEPT ![s] = @ \union (after[s] + 1 .. Len(log))]
  /\ UNCHANGED <<log, handler, subscribers, channel, closed, after, replayed,
                 forwarded, old>>

ReplayOne(s) ==
  /\ place[s] = "replay"
  /\ history[s] # <<>>
  /\ replayed' = [replayed EXCEPT ![s] = Append(@, Head(history[s]))]
  /\ Replaying(s, Tail(history[s]))
  /\ UNCHANGED <<log, handler, subscribers, channel, closed, after, forwarded, old,
                 upto, missed>>

ForwardOne(s) ==
  /\ place[s] = "live"
  /\ channel[s] # <<>>
  /\ forwarded' = [forwarded EXCEPT ![s] = Append(@, Head(channel[s]))]
  /\ channel' = [channel EXCEPT ![s] = Tail(@)]
  /\ UNCHANGED <<log, handler, subscribers, place, closed, after, history, replayed,
                 old, upto, missed>>

(* Mutant: the run's entry is deleted without looking whether it is empty. *)
MutantStreamEnds(s) ==
  /\ place[s] \in {"replay", "live"}
  /\ subscribers' = {}
  /\ place' = [place EXCEPT ![s] = "closing"]
  /\ UNCHANGED <<log, handler, channel, closed, after, history, replayed, forwarded,
                 old, upto, missed>>

(* A write fails or times out, or the client closes the connection, which  *)
(* only the live loop looks at. unsub takes the stream out of the map      *)
(* under the lock ...                                                      *)
StreamEnds(s) ==
  /\ place[s] \in {"replay", "live"}
  /\ subscribers' = subscribers \ {s}
  /\ place' = [place EXCEPT ![s] = "closing"]
  /\ UNCHANGED <<log, handler, channel, closed, after, history, replayed, forwarded,
                 old, upto, missed>>

(* ... and closes the channel after it. Nothing else of the request is     *)
(* left.                                                                   *)
CloseChannel(s) ==
  /\ place[s] = "closing"
  /\ closed' = closed \union {s}
  /\ place' = [place EXCEPT ![s] = "gone"]
  /\ after' = [after EXCEPT ![s] = 0]
  /\ channel' = [channel EXCEPT ![s] = <<>>]
  /\ history' = [history EXCEPT ![s] = <<>>]
  /\ replayed' = [replayed EXCEPT ![s] = <<>>]
  /\ forwarded' = [forwarded EXCEPT ![s] = <<>>]
  /\ old' = [old EXCEPT ![s] = {}]
  /\ upto' = [upto EXCEPT ![s] = 0]
  /\ missed' = [missed EXCEPT ![s] = {}]
  /\ UNCHANGED <<log, handler, subscribers>>

StreamStep(s) ==
  \/ Connect(s) \/ ReadHistory(s) \/ ReplayOne(s) \/ ForwardOne(s)
  \/ StreamEnds(s) \/ CloseChannel(s)

Next ==
  \/ EngineAppends
  \/ \E h \in Handlers : HandlerAppends(h) \/ HandlerGoesOn(h)
  \/ \E s \in Streams : StreamStep(s)

Spec == Init /\ [][Next]_vars

(* Only the handlers that have something to publish are scheduled. Nothing *)
(* is asked of the streams, whose clients may be as slow as they like. Each *)
(* of these steps changes handler, so that it can be the subscript.        *)
FairSpec == Spec /\ \A h \in Handlers : WF_handler(HandlerGoesOn(h))
-----------------------------------------------------------------------------
(* Properties.                                                             *)

(* What a handler publishes and what a stream holds are numbers of stored  *)
(* events: an event is appended before it is published, and published with *)
(* the number it was stored under.                                         *)
Numbered ==
  /\ \A h \in Handlers : handler[h].place # "idle" => handler[h].event \in DOMAIN log
  /\ \A s \in Streams :
       \A q \in {channel[s], history[s], replayed[s], forwarded[s]} :
         Range(q) \subseteq DOMAIN log

(* The type invariant; a subscriber's buffer keeps its capacity.           *)
TypeOK ==
  /\ Numbered
  /\ log \in Seq(Handlers \union {Engine})
  /\ Len(log) <= MaxEvents
  /\ handler \in [Handlers -> Requests]
  /\ subscribers \subseteq Streams
  /\ place \in [Streams -> StreamPlaces]
  /\ after \in [Streams -> Nat]
  /\ channel \in [Streams -> Seq(Nat)]
  /\ \A s \in Streams : Len(channel[s]) <= BufferSize
  /\ closed \subseteq Streams
  /\ history \in [Streams -> Seq(Nat)]
  /\ replayed \in [Streams -> Seq(Nat)]
  /\ forwarded \in [Streams -> Seq(Nat)]
  /\ old \in [Streams -> SUBSET Nat]
  /\ upto \in [Streams -> Nat]
  /\ missed \in [Streams -> SUBSET Nat]

(* What the client of s has been sent.                                     *)
Received(s) == replayed[s] \o forwarded[s]

(* The handler of e has not come to s yet.                                 *)
OnItsWay(e, s) ==
  \E h \in Handlers :
    /\ handler[h].event = e
    /\ \/ handler[h].place = "publish"
       \/ handler[h].place = "send" /\ s \in handler[h].targets

(* subscribe comes before the read of the history, so that no event falls  *)
(* between the two: an open stream has delivered, or will deliver, every   *)
(* event after its client's cursor, but for those that the code skips (a   *)
(* full buffer, a history that could not be read, a publisher that         *)
(* panicked) and those that the worker has appended since the read, which  *)
(* nobody publishes.                                                       *)
NothingLost ==
  \A s \in Streams : place[s] \in {"replay", "live"} =>
    \A e \in after[s] + 1 .. Len(log) :
      \/ e \in Range(Received(s)) \union Range(history[s]) \union Range(channel[s])
      \/ OnItsWay(e, s)
      \/ e \in missed[s]
      \/ log[e] = Engine /\ e > upto[s]

(* What the client of a stream sees again, be it below its cursor or a     *)
(* second time, was still on its way when the stream subscribed, and there *)
(* is no third time: the price of subscribing first is bounded.            *)
RepeatsOnlyInFlight ==
  \A s \in Streams :
    LET r == Received(s)
    IN  \A i \in DOMAIN r :
          LET Others == {j \in DOMAIN r \ {i} : r[j] = r[i]}
          IN  /\ r[i] <= after[s] \/ Others # {} => r[i] \notin old[s]
              /\ \A j, k \in Others : j = k

(* Whoever appended two events, a client sees the first of them first:     *)
(* publishers overtake each other, but nobody overtakes himself, across    *)
(* the replay, the handover to the live events and the events skipped.     *)
AuthorOrder ==
  \A s \in Streams :
    LET r == Received(s)
    IN  \A i, j \in DOMAIN r :
          /\ i < j
          /\ log[r[i]] = log[r[j]]
          /\ after[s] < r[j]
          /\ r[j] < r[i]
          => \E k \in 1 .. i - 1 : r[k] = r[j]

(* No client, however slow, holds up a handler that publishes: the send    *)
(* does not wait.                                                          *)
HandlersReturn ==
  \A h \in Handlers :
    handler[h].place # "idle" ~> handler[h].place = "idle"
=============================================================================
