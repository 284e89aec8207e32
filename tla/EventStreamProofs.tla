-------------------------- MODULE EventStreamProofs --------------------------
(***************************************************************************)
(* Proofs about EventStream for every number of handlers and streams,      *)
(* every size of the buffers and every length of the log.                  *)
(***************************************************************************)
EXTENDS EventStream, SequenceTheorems, TLAPS

-----------------------------------------------------------------------------
(* What sequences hold *)

LEMMA RangeOfAppend ==
  ASSUME NEW S, NEW q \in Seq(S), NEW e \in S
  PROVE  \A x : x \in Range(Append(q, e)) <=> x \in Range(q) \/ x = e
<1>1. ASSUME NEW x, x \in Range(Append(q, e))
      PROVE  x \in Range(q) \/ x = e
  <2>1. PICK i \in DOMAIN Append(q, e) : x = Append(q, e)[i]
    BY <1>1, Zenon DEF Range
  <2>2. (i \in DOMAIN q /\ x = q[i]) \/ x = e
    BY <2>1
  <2>3. QED
    BY <2>2, Zenon DEF Range
<1>2. /\ \A i \in DOMAIN q : i \in DOMAIN Append(q, e) /\ Append(q, e)[i] = q[i]
      /\ Len(q) + 1 \in DOMAIN Append(q, e) /\ Append(q, e)[Len(q) + 1] = e
  OBVIOUS
<1>3. QED
  BY <1>1, <1>2, Zenon DEF Range

LEMMA RangeOfTail ==
  ASSUME NEW S, NEW q \in Seq(S), q # <<>>
  PROVE  \A x : x \in Range(q) <=> x \in Range(Tail(q)) \/ x = Head(q)
<1>1. ASSUME NEW x, x \in Range(q), x # Head(q)
      PROVE  x \in Range(Tail(q))
  <2>1. PICK i \in DOMAIN q : x = q[i]
    BY <1>1, Zenon DEF Range
  <2>2. i - 1 \in DOMAIN Tail(q) /\ Tail(q)[i - 1] = x
    BY <1>1, <2>1
  <2>3. QED
    BY <2>2, Zenon DEF Range
<1>2. ASSUME NEW x, x \in Range(Tail(q))
      PROVE  x \in Range(q)
  <2>1. PICK j \in DOMAIN Tail(q) : x = Tail(q)[j]
    BY <1>2, Zenon DEF Range
  <2>2. j + 1 \in DOMAIN q /\ q[j + 1] = x
    BY <2>1
  <2>3. QED
    BY <2>2, Zenon DEF Range
<1>3. 1 \in DOMAIN q /\ q[1] = Head(q)
  OBVIOUS
<1>4. QED
  BY <1>1, <1>2, <1>3, Zenon DEF Range

LEMMA RangeOfConcat ==
  ASSUME NEW S, NEW q \in Seq(S), NEW t \in Seq(S)
  PROVE  \A x : x \in Range(q \o t) <=> x \in Range(q) \/ x \in Range(t)
<1>1. ASSUME NEW x, x \in Range(q \o t)
      PROVE  x \in Range(q) \/ x \in Range(t)
  <2>1. PICK i \in DOMAIN (q \o t) : x = (q \o t)[i]
    BY <1>1, Zenon DEF Range
  <2>2. \/ i \in DOMAIN q /\ x = q[i]
        \/ i - Len(q) \in DOMAIN t /\ x = t[i - Len(q)]
    BY <2>1
  <2>3. QED
    BY <2>2, Zenon DEF Range
<1>2. /\ \A i \in DOMAIN q : i \in DOMAIN (q \o t) /\ (q \o t)[i] = q[i]
      /\ \A i \in DOMAIN t : /\ Len(q) + i \in DOMAIN (q \o t)
                             /\ (q \o t)[Len(q) + i] = t[i]
  OBVIOUS
<1>3. QED
  BY <1>1, <1>2, Zenon DEF Range

LEMMA ConcatLeft ==
  ASSUME NEW q \in Seq(Nat), NEW t \in Seq(Nat), NEW i \in DOMAIN q
  PROVE  (q \o t)[i] = q[i]
OBVIOUS

LEMMA ConcatRight ==
  ASSUME NEW q \in Seq(Nat), NEW t \in Seq(Nat), NEW i \in DOMAIN (q \o t),
         i \notin DOMAIN q
  PROVE  /\ i > Len(q)
         /\ i - Len(q) \in DOMAIN t
         /\ (q \o t)[i] = t[i - Len(q)]
OBVIOUS

LEMMA ConcatDomain ==
  ASSUME NEW q \in Seq(Nat), NEW t \in Seq(Nat)
  PROVE  DOMAIN (q \o t) \subseteq Nat \ {0}
OBVIOUS

LEMMA Difference ==
  ASSUME NEW a \in Nat, NEW b \in Nat, a < b
  PROVE  \E d \in Nat \ {0} : b = a + d
<1>1. b - a \in Nat \ {0} /\ b = a + (b - a)
  OBVIOUS
<1>2. QED
  BY <1>1, Zenon

-----------------------------------------------------------------------------
(* Types *)

LEMMA RemainingType ==
  ASSUME TypeOK, NEW h \in Handlers, NEW rest \in SUBSET Streams
  PROVE  Remaining(h, rest) \in Requests
BY DEF TypeOK, Remaining, Idle, Requests, HandlerPlaces

LEMMA EventsAfterType ==
  ASSUME TypeOK, NEW s \in Streams
  PROVE  EventsAfter(after[s]) \in Seq(Nat)
<1> DEFINE n == Len(log) - after[s]
           m == IF n \in Nat THEN n ELSE 0
<1>1. after[s] \in Nat /\ n \in Int /\ m \in Nat
  BY DEF TypeOK
<1>2. 1 .. n = 1 .. m
  BY <1>1
<1>3. EventsAfter(after[s]) \in [1 .. m -> Nat]
  BY <1>1, <1>2 DEF EventsAfter
<1>4. QED
  BY <1>1, <1>3, SeqDef

LEMMA ReplayingType ==
  ASSUME TypeOK, NEW s \in Streams, NEW rest \in Seq(Nat), Replaying(s, rest)
  PROVE  history' \in [Streams -> Seq(Nat)] /\ place' \in [Streams -> StreamPlaces]
BY DEF Replaying, TypeOK, StreamPlaces

LEMMA TypeInit == ASSUME Init PROVE TypeOK
<1>1. Numbered
  <2>1. Range(<<>>) = {}
    BY DEF Range
  <2>2. \A h \in Handlers : handler[h].place = "idle"
    BY DEF Init, Idle
  <2>3. \A s \in Streams : {channel[s], history[s], replayed[s], forwarded[s]} = {<<>>}
    BY DEF Init
  <2>4. QED
    BY <2>1, <2>2, <2>3 DEF Numbered
<1>2. QED
  BY <1>1, StreamAssumption
     DEF Init, TypeOK, Idle, Requests, HandlerPlaces, StreamPlaces

(* The events of the history are in the log.                               *)
LEMMA HistoryIsLogged ==
  ASSUME TypeOK, NEW s \in Streams
  PROVE  Range(EventsAfter(after[s])) \subseteq DOMAIN log
<1>1. Len(log) \in Nat /\ after[s] \in Nat /\ DOMAIN log = 1 .. Len(log)
  BY DEF TypeOK
<1>2. \A i \in 1 .. Len(log) - after[s] : after[s] + i \in 1 .. Len(log)
  BY <1>1
<1>3. ASSUME NEW x \in Range(EventsAfter(after[s]))
      PROVE  x \in DOMAIN log
  <2>1. PICK i \in 1 .. Len(log) - after[s] : x = after[s] + i
    BY <1>3, Zenon DEF Range, EventsAfter
  <2>2. QED
    BY <1>1, <1>2, <2>1
<1>4. QED
  BY <1>3

(* A step in which the log does not shrink and every sequence holds what   *)
(* was in one of the stream's sequences, or a stored event, keeps them     *)
(* numbered.                                                               *)
LEMMA NumberedFrame ==
  ASSUME TypeOK, DOMAIN log \subseteq DOMAIN log',
         \A h \in Handlers :
           \/ handler'[h].place = "idle"
           \/ handler'[h].event \in DOMAIN log'
           \/ handler[h].place # "idle" /\ handler'[h].event = handler[h].event,
         \A s \in Streams :
           \A q \in {channel'[s], history'[s], replayed'[s], forwarded'[s]} :
             \A x \in Range(q) :
               \/ x \in DOMAIN log
               \/ \E p \in {channel[s], history[s], replayed[s], forwarded[s]} : x \in Range(p)
  PROVE  Numbered'
<1>1. \A s \in Streams :
        \A p \in {channel[s], history[s], replayed[s], forwarded[s]} :
          Range(p) \subseteq DOMAIN log
  BY DEF TypeOK, Numbered
<1>2. \A s \in Streams :
        \A q \in {channel'[s], history'[s], replayed'[s], forwarded'[s]} :
          Range(q) \subseteq DOMAIN log'
  BY <1>1, Zenon
<1>3. \A h \in Handlers : handler[h].place # "idle" => handler[h].event \in DOMAIN log
  BY DEF TypeOK, Numbered
<1>4. \A h \in Handlers : handler'[h].place # "idle" => handler'[h].event \in DOMAIN log'
  BY <1>3, Zenon
<1>5. QED
  BY <1>2, <1>4, Zenon DEF Numbered

(* The log grows at its end.                                               *)
LEMMA LogGrows ==
  ASSUME TypeOK, NEW a \in Handlers \union {Engine}, log' = Append(log, a)
  PROVE  /\ Len(log') = Len(log) + 1
         /\ DOMAIN log' = DOMAIN log \union {Len(log) + 1}
         /\ Len(log) + 1 \notin DOMAIN log
         /\ log'[Len(log) + 1] = a
         /\ \A e \in DOMAIN log : log'[e] = log[e] /\ e < Len(log) + 1
BY DEF TypeOK

(* A handler that goes on touches no other's locals, keeps the event that  *)
(* it publishes, and has what is left of its snapshot, or a new one.       *)
LEMMA GoesOn ==
  ASSUME TypeOK, NEW h \in Handlers, HandlerGoesOn(h)
  PROVE  /\ log' = log
         /\ handler[h].place # "idle"
         /\ \A g \in Handlers : g # h => handler'[g] = handler[g]
         /\ handler'[h].place # "idle" => handler'[h].event = handler[h].event
         /\ handler'[h].place # "publish"
<1>1. ASSUME NEW rest, handler' = [handler EXCEPT ![h] = Remaining(h, rest)]
      PROVE  /\ handler'[h].place # "publish"
             /\ \A g \in Handlers : g # h => handler'[g] = handler[g]
             /\ handler'[h].place # "idle" => handler'[h].event = handler[h].event
  BY <1>1 DEF Remaining, Idle, TypeOK, Requests
<1>2. CASE Publish(h)
  BY <1>1, <1>2 DEF Publish
<1>3. CASE Send(h)
  <2>1. PICK rest :
          /\ handler' = [handler EXCEPT ![h] = Remaining(h, rest)]
          /\ log' = log
          /\ handler[h].place = "send"
    BY <1>3 DEF Send
  <2>2. QED
    BY <1>1, <2>1
<1>4. CASE SendPanics(h)
  BY <1>4 DEF SendPanics, Idle, TypeOK
<1>5. QED
  BY <1>2, <1>3, <1>4 DEF HandlerGoesOn

(* Every step keeps what is published and what is sent in the log.         *)
LEMMA NumberedStep ==
  ASSUME TypeOK, [Next]_vars
  PROVE  Numbered'
<1> USE StreamAssumption
<1>1. CASE EngineAppends
  <2>1. DOMAIN log \subseteq DOMAIN log'
    BY <1>1, LogGrows DEF EngineAppends
  <2>2. UNCHANGED <<handler, channel, history, replayed, forwarded>>
    BY <1>1 DEF EngineAppends, streamVars
  <2>3. QED
    BY <2>1, <2>2, NumberedFrame DEF TypeOK, Numbered
<1>2. ASSUME NEW h \in Handlers, HandlerAppends(h)
      PROVE  Numbered'
  <2>1. DOMAIN log \subseteq DOMAIN log' /\ Len(log) + 1 \in DOMAIN log'
    BY <1>2, LogGrows DEF HandlerAppends
  <2>2. UNCHANGED <<channel, history, replayed, forwarded>>
    BY <1>2 DEF HandlerAppends, streamVars
  <2>3. /\ handler'[h].event = Len(log) + 1
        /\ \A g \in Handlers : g # h => handler'[g] = handler[g]
    BY <1>2 DEF HandlerAppends, TypeOK
  <2>4. \A g \in Handlers :
          \/ handler'[g].place = "idle"
          \/ handler'[g].event \in DOMAIN log'
          \/ handler[g].place # "idle" /\ handler'[g].event = handler[g].event
    BY <2>1, <2>3
  <2>5. QED
    BY <2>1, <2>2, <2>4, NumberedFrame
<1>3. ASSUME NEW h \in Handlers, HandlerGoesOn(h)
      PROVE  Numbered'
  <2>1. /\ log' = log
        /\ \A g \in Handlers :
             \/ handler'[g].place = "idle"
             \/ handler[g].place # "idle" /\ handler'[g].event = handler[g].event
    BY <1>3, GoesOn, Zenon
  <2>2. UNCHANGED <<history, replayed, forwarded>>
    BY <1>3 DEF HandlerGoesOn, Publish, Send, SendPanics, streamVars
  <2>3. ASSUME NEW s \in Streams, NEW x \in Range(channel'[s])
        PROVE  x \in Range(channel[s]) \/ x \in DOMAIN log
    <3>1. CASE channel'[s] = channel[s]
      BY <2>3, <3>1
    <3>2. CASE channel'[s] # channel[s]
      <4>1. /\ channel'[s] = Append(channel[s], handler[h].event)
            /\ handler[h].place = "send"
        BY <1>3, <3>2 DEF HandlerGoesOn, Publish, Send, SendPanics, TypeOK
      <4>2. handler[h].event \in DOMAIN log /\ handler[h].event \in Nat
        BY <4>1 DEF TypeOK, Numbered, Requests
      <4>3. channel[s] \in Seq(Nat)
        BY DEF TypeOK
      <4>4. QED
        BY <2>3, <4>1, <4>2, <4>3, RangeOfAppend
    <3>3. QED
      BY <3>1, <3>2
  <2>4. QED
    BY <2>1, <2>2, <2>3, NumberedFrame
<1>4. ASSUME NEW s \in Streams, StreamStep(s)
      PROVE  Numbered'
  <2>1. log' = log /\ handler' = handler
    BY <1>4 DEF StreamStep, Connect, ReadHistory, ReplayOne, ForwardOne, StreamEnds,
                CloseChannel
  <2>2. ASSUME NEW t \in Streams, t # s
        PROVE  /\ channel'[t] = channel[t] /\ history'[t] = history[t]
               /\ replayed'[t] = replayed[t] /\ forwarded'[t] = forwarded[t]
    BY <1>4, <2>2 DEF StreamStep, Connect, ReadHistory, ReplayOne, ForwardOne, StreamEnds,
                      CloseChannel, Replaying, TypeOK
  <2>3. /\ channel[s] \in Seq(Nat) /\ history[s] \in Seq(Nat)
        /\ replayed[s] \in Seq(Nat) /\ forwarded[s] \in Seq(Nat)
    BY DEF TypeOK
  <2>4. ASSUME NEW q \in {channel'[s], history'[s], replayed'[s], forwarded'[s]},
               NEW x \in Range(q)
        PROVE  \/ x \in DOMAIN log
               \/ \E p \in {channel[s], history[s], replayed[s], forwarded[s]} : x \in Range(p)
    <3>1. Range(<<>>) = {}
      BY DEF Range
    <3>2. CASE Connect(s) \/ StreamEnds(s)
      BY <2>4, <3>2 DEF Connect, StreamEnds
    <3>3. CASE ReadHistory(s)
      <4>1. /\ history'[s] \in {EventsAfter(after[s]), <<>>}
            /\ UNCHANGED <<channel, replayed, forwarded>>
        BY <3>3 DEF ReadHistory, Replaying, TypeOK
      <4>2. QED
        BY <2>4, <3>1, <4>1, HistoryIsLogged
    <3>4. CASE ReplayOne(s)
      <4>1. /\ history[s] # <<>> /\ history'[s] = Tail(history[s])
            /\ replayed'[s] = Append(replayed[s], Head(history[s]))
            /\ UNCHANGED <<channel, forwarded>>
        BY <3>4 DEF ReplayOne, Replaying, TypeOK
      <4>2. Head(history[s]) \in Nat
        BY <2>3, <4>1
      <4>3. \A y : y \in Range(history[s]) <=>
                     y \in Range(Tail(history[s])) \/ y = Head(history[s])
        BY <2>3, <4>1, RangeOfTail
      <4>4. \A y : y \in Range(Append(replayed[s], Head(history[s]))) <=>
                     y \in Range(replayed[s]) \/ y = Head(history[s])
        BY <2>3, <4>2, RangeOfAppend
      <4>5. \/ x \in Range(channel[s]) \/ x \in Range(history[s])
            \/ x \in Range(replayed[s]) \/ x \in Range(forwarded[s])
        BY <2>4, <4>1, <4>3, <4>4, Zenon
      <4>6. QED
        BY <4>5, Zenon
    <3>5. CASE ForwardOne(s)
      <4>1. /\ channel[s] # <<>> /\ channel'[s] = Tail(channel[s])
            /\ forwarded'[s] = Append(forwarded[s], Head(channel[s]))
            /\ UNCHANGED <<history, replayed>>
        BY <3>5 DEF ForwardOne, TypeOK
      <4>2. Head(channel[s]) \in Nat
        BY <2>3, <4>1
      <4>3. \A y : y \in Range(channel[s]) <=>
                     y \in Range(Tail(channel[s])) \/ y = Head(channel[s])
        BY <2>3, <4>1, RangeOfTail
      <4>4. \A y : y \in Range(Append(forwarded[s], Head(channel[s]))) <=>
                     y \in Range(forwarded[s]) \/ y = Head(channel[s])
        BY <2>3, <4>2, RangeOfAppend
      <4>5. \/ x \in Range(channel[s]) \/ x \in Range(history[s])
            \/ x \in Range(replayed[s]) \/ x \in Range(forwarded[s])
        BY <2>4, <4>1, <4>3, <4>4, Zenon
      <4>6. QED
        BY <4>5, Zenon
    <3>6. CASE CloseChannel(s)
      <4>1. /\ channel'[s] = <<>> /\ history'[s] = <<>>
            /\ replayed'[s] = <<>> /\ forwarded'[s] = <<>>
        BY <3>6 DEF CloseChannel, TypeOK
      <4>2. QED
        BY <2>4, <3>1, <4>1
    <3>7. QED
      BY <1>4, <3>2, <3>3, <3>4, <3>5, <3>6 DEF StreamStep
  <2>5. \A t \in Streams :
          \A q \in {channel'[t], history'[t], replayed'[t], forwarded'[t]} :
            \A x \in Range(q) :
              \/ x \in DOMAIN log
              \/ \E p \in {channel[t], history[t], replayed[t], forwarded[t]} : x \in Range(p)
    <3> SUFFICES ASSUME NEW t \in Streams,
                        NEW q \in {channel'[t], history'[t], replayed'[t], forwarded'[t]},
                        NEW x \in Range(q)
                 PROVE  \/ x \in DOMAIN log
                        \/ \E p \in {channel[t], history[t], replayed[t], forwarded[t]} :
                             x \in Range(p)
      OBVIOUS
    <3>1. CASE t = s
      BY <2>4, <3>1
    <3>2. CASE t # s
      <4>1. q \in {channel[t], history[t], replayed[t], forwarded[t]}
        BY <2>2, <3>2
      <4>2. QED
        BY <4>1, Zenon
    <3>3. QED
      BY <3>1, <3>2
  <2>6. \A h \in Handlers :
          \/ handler'[h].place = "idle"
          \/ handler[h].place # "idle" /\ handler'[h].event = handler[h].event
    BY <2>1
  <2>7. QED
    BY <2>1, <2>5, <2>6, NumberedFrame
<1>5. CASE UNCHANGED vars
  BY <1>5 DEF vars, streamVars, TypeOK, Numbered
<1>6. QED
  BY <1>1, <1>2, <1>3, <1>4, <1>5 DEF Next

(* Nothing but its first actor's variables changes type in a step.         *)
LEMMA TypeStep ==
  ASSUME TypeOK, [Next]_vars
  PROVE  TypeOK'
<1> USE StreamAssumption
<1>0. Numbered'
  BY NumberedStep
<1> USE <1>0
<1>1. CASE EngineAppends
  BY <1>1 DEF EngineAppends, TypeOK, streamVars
<1>2. ASSUME NEW h \in Handlers, HandlerAppends(h)
      PROVE  TypeOK'
  <2>1. [place |-> "publish", event |-> Len(log) + 1, targets |-> {}] \in Requests
    BY DEF TypeOK, Requests, HandlerPlaces
  <2>2. QED
    BY <1>2, <2>1 DEF HandlerAppends, TypeOK, streamVars
<1>3. ASSUME NEW h \in Handlers, Publish(h)
      PROVE  TypeOK'
  <2>1. Remaining(h, subscribers) \in Requests
    BY RemainingType DEF TypeOK
  <2>2. QED
    BY <1>3, <2>1 DEF Publish, TypeOK, streamVars
<1>4. ASSUME NEW h \in Handlers, Send(h)
      PROVE  TypeOK'
  <2>1. PICK s \in handler[h].targets \ closed :
          /\ IF Len(channel[s]) < BufferSize
             THEN /\ channel' = [channel EXCEPT ![s] = Append(@, handler[h].event)]
                  /\ UNCHANGED missed
             ELSE /\ missed' = [missed EXCEPT ![s] = @ \union {handler[h].event}]
                  /\ UNCHANGED channel
          /\ handler' = [handler EXCEPT ![h] = Remaining(h, @.targets \ {s})]
          /\ UNCHANGED <<log, subscribers, streamVars>>
    BY <1>4 DEF Send
  <2>2. handler[h] \in Requests /\ s \in Streams /\ handler[h].event \in Nat
    BY DEF TypeOK, Requests
  <2>3. Remaining(h, handler[h].targets \ {s}) \in Requests
    BY <2>2, RemainingType DEF Requests
  <2>4. /\ channel' \in [Streams -> Seq(Nat)]
        /\ \A t \in Streams : Len(channel'[t]) <= BufferSize
        /\ missed' \in [Streams -> SUBSET Nat]
    <3>1. CASE Len(channel[s]) < BufferSize
      <4>1. Append(channel[s], handler[h].event) \in Seq(Nat)
        BY <2>2 DEF TypeOK
      <4>2. Len(Append(channel[s], handler[h].event)) <= BufferSize
        BY <2>2, <3>1 DEF TypeOK
      <4>3. channel' = [channel EXCEPT ![s] = Append(channel[s], handler[h].event)]
        BY <2>1, <3>1
      <4>4. QED
        BY <2>1, <2>2, <3>1, <4>1, <4>2, <4>3 DEF TypeOK
    <3>2. CASE ~(Len(channel[s]) < BufferSize)
      <4>1. /\ channel' = channel
            /\ missed' = [missed EXCEPT ![s] = missed[s] \union {handler[h].event}]
        BY <2>1, <3>2
      <4>2. QED
        BY <2>2, <4>1 DEF TypeOK
    <3>3. QED
      BY <3>1, <3>2
  <2>5. QED
    BY <2>1, <2>3, <2>4 DEF TypeOK, streamVars
<1>5. ASSUME NEW h \in Handlers, SendPanics(h)
      PROVE  TypeOK'
  <2>1. Idle \in Requests /\ handler[h].event \in Nat
    BY DEF TypeOK, Idle, Requests, HandlerPlaces
  <2>2. missed' \in [Streams -> SUBSET Nat]
    BY <1>5, <2>1 DEF SendPanics, TypeOK
  <2>3. QED
    BY <1>5, <2>1, <2>2 DEF SendPanics, TypeOK, streamVars
<1>6. ASSUME NEW s \in Streams, Connect(s)
      PROVE  TypeOK'
  <2>1. Published \in SUBSET Nat
    BY DEF Published, TypeOK
  <2>2. QED
    BY <1>6, <2>1 DEF Connect, TypeOK, StreamPlaces
<1>7. ASSUME NEW s \in Streams, ReadHistory(s)
      PROVE  TypeOK'
  <2>1. EventsAfter(after[s]) \in Seq(Nat) /\ <<>> \in Seq(Nat)
    BY EventsAfterType
  <2>2. Replaying(s, EventsAfter(after[s])) \/ Replaying(s, <<>>)
    BY <1>7 DEF ReadHistory
  <2>3. history' \in [Streams -> Seq(Nat)] /\ place' \in [Streams -> StreamPlaces]
    BY <2>1, <2>2, ReplayingType
  <2>4. after[s] + 1 .. Len(log) \in SUBSET Nat /\ Len(log) \in Nat
    BY DEF TypeOK
  <2>5. missed' \in [Streams -> SUBSET Nat] /\ upto' \in [Streams -> Nat]
    BY <1>7, <2>4 DEF ReadHistory, TypeOK
  <2>6. QED
    BY <1>7, <2>3, <2>5 DEF ReadHistory, TypeOK
<1>8. ASSUME NEW s \in Streams, ReplayOne(s)
      PROVE  TypeOK'
  <2>1. /\ Append(replayed[s], Head(history[s])) \in Seq(Nat)
        /\ Tail(history[s]) \in Seq(Nat)
    BY <1>8 DEF ReplayOne, TypeOK
  <2>2. QED
    BY <1>8, <2>1 DEF ReplayOne, Replaying, TypeOK, StreamPlaces
<1>9. ASSUME NEW s \in Streams, ForwardOne(s)
      PROVE  TypeOK'
  <2>1. /\ Append(forwarded[s], Head(channel[s])) \in Seq(Nat)
        /\ Tail(channel[s]) \in Seq(Nat)
        /\ Len(Tail(channel[s])) <= BufferSize
    BY <1>9 DEF ForwardOne, TypeOK
  <2>2. QED
    BY <1>9, <2>1 DEF ForwardOne, TypeOK
<1>10. ASSUME NEW s \in Streams, StreamEnds(s)
       PROVE  TypeOK'
  BY <1>10 DEF StreamEnds, TypeOK, StreamPlaces
<1>11. ASSUME NEW s \in Streams, CloseChannel(s)
       PROVE  TypeOK'
  BY <1>11 DEF CloseChannel, TypeOK, StreamPlaces
<1>12. CASE UNCHANGED vars
  BY <1>12 DEF vars, streamVars, TypeOK
<1>13. QED
  BY <1>1, <1>2, <1>3, <1>4, <1>5, <1>6, <1>7, <1>8, <1>9, <1>10, <1>11, <1>12
     DEF Next, HandlerGoesOn, StreamStep

(* The buffers keep their capacity and every variable its type.            *)
THEOREM TypeCorrect == Spec => []TypeOK
<1>1. Init => TypeOK
  BY TypeInit
<1>2. TypeOK /\ [Next]_vars => TypeOK'
  BY TypeStep
<1>3. QED
  BY <1>1, <1>2, PTL DEF Spec

-----------------------------------------------------------------------------
(* Handlers and places *)

(* A handler that is publishing carries the last event that it appended.   *)
HandlerInv ==
  \A h \in Handlers : handler[h].place # "idle" =>
    /\ handler[h].event \in DOMAIN log
    /\ log[handler[h].event] = h
    /\ \A e \in DOMAIN log : log[e] = h => e <= handler[h].event

(* The streams that are subscribed.                                        *)
Open(s) == place[s] \in {"read", "replay", "live"}

(* A stream is in the map while it is open, its channel is closed later,   *)
(* and before it has subscribed nobody knows it.                           *)
PlaceInv ==
  \A s \in Streams :
    /\ Open(s) => s \in subscribers /\ s \notin closed
    /\ place[s] = "new" =>
         /\ s \notin subscribers
         /\ s \notin closed
         /\ \A h \in Handlers : s \notin handler[h].targets
         /\ channel[s] = <<>>
    /\ place[s] \in {"new", "read"} =>
         history[s] = <<>> /\ replayed[s] = <<>> /\ forwarded[s] = <<>>
    /\ place[s] = "live" => history[s] = <<>>

LEMMA HandlerStep ==
  ASSUME TypeOK, HandlerInv, [Next]_vars
  PROVE  HandlerInv'
<1> USE StreamAssumption
<1>1. CASE EngineAppends
  <2>1. log' = Append(log, Engine) /\ handler' = handler
    BY <1>1 DEF EngineAppends
  <2>2. QED
    BY <2>1, LogGrows DEF HandlerInv
<1>2. ASSUME NEW h \in Handlers, HandlerAppends(h)
      PROVE  HandlerInv'
  <2>1. /\ log' = Append(log, h)
        /\ handler' = [handler EXCEPT ![h] =
             [place |-> "publish", event |-> Len(log) + 1, targets |-> {}]]
    BY <1>2 DEF HandlerAppends
  <2>2. handler'[h].event = Len(log) + 1
    BY <2>1 DEF TypeOK
  <2>3. \A g \in Handlers : g # h => handler'[g] = handler[g]
    BY <2>1 DEF TypeOK
  <2>4. Len(log) \in Nat /\ DOMAIN log \subseteq Nat
    BY DEF TypeOK
  <2>5. QED
    BY <2>1, <2>2, <2>3, <2>4, LogGrows DEF HandlerInv
<1>3. ASSUME NEW h \in Handlers, HandlerGoesOn(h)
      PROVE  HandlerInv'
  <2>1. /\ log' = log
        /\ handler[h].place # "idle"
        /\ \A g \in Handlers : g # h => handler'[g] = handler[g]
        /\ handler'[h].place # "idle" => handler'[h].event = handler[h].event
    BY <1>3, GoesOn
  <2>2. QED
    BY <2>1 DEF HandlerInv
<1>4. ASSUME NEW s \in Streams, StreamStep(s)
      PROVE  HandlerInv'
  BY <1>4 DEF StreamStep, Connect, ReadHistory, ReplayOne, ForwardOne, StreamEnds,
              CloseChannel, HandlerInv
<1>5. CASE UNCHANGED vars
  BY <1>5 DEF vars, HandlerInv
<1>6. QED
  BY <1>1, <1>2, <1>3, <1>4, <1>5 DEF Next

LEMMA PlaceStep ==
  ASSUME TypeOK, PlaceInv, [Next]_vars
  PROVE  PlaceInv'
<1> USE StreamAssumption
<1>1. CASE EngineAppends
  BY <1>1 DEF EngineAppends, streamVars, PlaceInv, Open
<1>2. ASSUME NEW h \in Handlers, HandlerAppends(h)
      PROVE  PlaceInv'
  <2>1. \A g \in Handlers : handler'[g].targets \subseteq handler[g].targets
    BY <1>2 DEF HandlerAppends, TypeOK
  <2>2. QED
    BY <1>2, <2>1 DEF HandlerAppends, streamVars, PlaceInv, Open
<1>3. ASSUME NEW h \in Handlers, Publish(h)
      PROVE  PlaceInv'
  <2>1. \A g \in Handlers : \/ handler'[g].targets \subseteq handler[g].targets
                            \/ handler'[g].targets \subseteq subscribers
    BY <1>3 DEF Publish, Remaining, Idle, TypeOK, Requests
  <2>2. QED
    BY <1>3, <2>1 DEF Publish, streamVars, PlaceInv, Open
<1>4. ASSUME NEW h \in Handlers, Send(h)
      PROVE  PlaceInv'
  <2>1. PICK t \in handler[h].targets :
          /\ \A s \in Streams : s # t => channel'[s] = channel[s]
          /\ UNCHANGED <<subscribers, place, closed, history, replayed, forwarded>>
    BY <1>4 DEF Send, streamVars, TypeOK, Requests
  <2>2. \A g \in Handlers : handler'[g].targets \subseteq handler[g].targets
    BY <1>4 DEF Send, Remaining, Idle, TypeOK, Requests
  <2>3. QED
    BY <2>1, <2>2 DEF PlaceInv, Open
<1>5. ASSUME NEW h \in Handlers, SendPanics(h)
      PROVE  PlaceInv'
  <2>1. \A g \in Handlers : handler'[g].targets \subseteq handler[g].targets
    BY <1>5 DEF SendPanics, Idle, TypeOK, Requests
  <2>2. QED
    BY <1>5, <2>1 DEF SendPanics, streamVars, PlaceInv, Open
<1>6. ASSUME NEW s \in Streams, Connect(s)
      PROVE  PlaceInv'
  BY <1>6 DEF Connect, PlaceInv, Open, TypeOK
<1>7. ASSUME NEW s \in Streams, ReadHistory(s)
      PROVE  PlaceInv'
  BY <1>7 DEF ReadHistory, Replaying, PlaceInv, Open, TypeOK
<1>8. ASSUME NEW s \in Streams, ReplayOne(s)
      PROVE  PlaceInv'
  BY <1>8 DEF ReplayOne, Replaying, PlaceInv, Open, TypeOK
<1>9. ASSUME NEW s \in Streams, ForwardOne(s)
      PROVE  PlaceInv'
  BY <1>9 DEF ForwardOne, PlaceInv, Open, TypeOK
<1>10. ASSUME NEW s \in Streams, StreamEnds(s)
       PROVE  PlaceInv'
  BY <1>10 DEF StreamEnds, PlaceInv, Open, TypeOK
<1>11. ASSUME NEW s \in Streams, CloseChannel(s)
       PROVE  PlaceInv'
  BY <1>11 DEF CloseChannel, PlaceInv, Open, TypeOK
<1>12. CASE UNCHANGED vars
  BY <1>12 DEF vars, streamVars, PlaceInv, Open
<1>13. QED
  BY <1>1, <1>2, <1>3, <1>4, <1>5, <1>6, <1>7, <1>8, <1>9, <1>10, <1>11, <1>12
     DEF Next, HandlerGoesOn, StreamStep

-----------------------------------------------------------------------------
(* Events on their way                                                     *)

(* No stream is forgotten by an append or by a snapshot ...                *)
LEMMA WayOfAppend ==
  ASSUME TypeOK, NEW h \in Handlers, HandlerAppends(h)
  PROVE  \A e, s : OnItsWay(e, s)' <=> OnItsWay(e, s) \/ e = Len(log) + 1
<1>1. /\ handler[h].place = "idle"
      /\ handler'[h] = [place |-> "publish", event |-> Len(log) + 1, targets |-> {}]
      /\ \A g \in Handlers : g # h => handler'[g] = handler[g]
  BY DEF HandlerAppends, TypeOK
<1>2. QED
  BY <1>1 DEF OnItsWay

LEMMA WayOfPublish ==
  ASSUME TypeOK, NEW h \in Handlers, Publish(h)
  PROVE  \A e, s : /\ OnItsWay(e, s)' => OnItsWay(e, s)
                   /\ OnItsWay(e, s) /\ s \in subscribers => OnItsWay(e, s)'
<1>1. \A g \in Handlers : g # h => handler'[g] = handler[g]
  BY DEF Publish, TypeOK
<1>2. /\ handler[h].place = "publish"
      /\ handler'[h] = Remaining(h, subscribers)
  BY DEF Publish, TypeOK
<1>3. CASE subscribers = {}
  <2>1. handler'[h].place = "idle"
    BY <1>2, <1>3 DEF Remaining, Idle
  <2>2. QED
    BY <1>1, <1>2, <1>3, <2>1 DEF OnItsWay
<1>4. CASE subscribers # {}
  <2>1. handler'[h] = [handler[h] EXCEPT !.place = "send", !.targets = subscribers]
    BY <1>2, <1>4 DEF Remaining
  <2>2. /\ handler'[h].place = "send"
        /\ handler'[h].event = handler[h].event
        /\ handler'[h].targets = subscribers
    BY <2>1 DEF TypeOK, Requests
  <2>3. QED
    BY <1>1, <1>2, <2>2 DEF OnItsWay
<1>5. QED
  BY <1>3, <1>4

(* ... a send serves one of them, with an event that is nobody else's ...  *)
LEMMA WayOfSend ==
  ASSUME TypeOK, HandlerInv, NEW h \in Handlers, NEW t \in handler[h].targets,
         handler[h].place = "send",
         handler' = [handler EXCEPT ![h] = Remaining(h, @.targets \ {t})]
  PROVE  \A e, s : OnItsWay(e, s)' <=>
                     OnItsWay(e, s) /\ ~(s = t /\ e = handler[h].event)
<1>1. \A g \in Handlers : g # h => handler'[g] = handler[g]
  BY DEF TypeOK
<1>2. handler'[h] = Remaining(h, handler[h].targets \ {t})
  BY DEF TypeOK
<1>3. /\ handler'[h].place = "idle" \/ handler'[h].event = handler[h].event
      /\ handler'[h].place \in {"idle", "send"}
      /\ \A s : handler'[h].place = "send" /\ s \in handler'[h].targets
               <=> s \in handler[h].targets \ {t}
  BY <1>2 DEF Remaining, Idle, TypeOK, Requests
<1>4. \A g \in Handlers : g # h /\ handler[g].place # "idle" =>
        handler[g].event # handler[h].event
  BY DEF HandlerInv
<1>5. QED
  BY <1>1, <1>3, <1>4 DEF OnItsWay

(* ... and a panic drops the rest of a snapshot.                           *)
LEMMA WayOfPanic ==
  ASSUME TypeOK, NEW h \in Handlers, SendPanics(h)
  PROVE  \A e, s : /\ OnItsWay(e, s)' => OnItsWay(e, s)
                   /\ OnItsWay(e, s) /\ ~OnItsWay(e, s)' =>
                        s \in handler[h].targets /\ e = handler[h].event
<1>1. /\ handler[h].place = "send"
      /\ handler'[h].place = "idle"
      /\ \A g \in Handlers : g # h => handler'[g] = handler[g]
  BY DEF SendPanics, Idle, TypeOK
<1>2. QED
  BY <1>1 DEF OnItsWay

-----------------------------------------------------------------------------
(* Live events *)

(* The events of one author are in the order of their numbers.             *)
Ordered(q, l) ==
  \A i, j \in DOMAIN q : i < j /\ l[q[i]] = l[q[j]] => q[i] < q[j]

LEMMA OrderedAppend ==
  ASSUME NEW q \in Seq(Nat), NEW e \in Nat, NEW l, Ordered(q, l),
         \A x \in Range(q) : l[x] = l[e] => x < e
  PROVE  Ordered(Append(q, e), l)
<1>1. \A i \in DOMAIN q : q[i] \in Range(q)
  BY DEF Range
<1>2. \A i \in DOMAIN Append(q, e) :
        \/ i \in DOMAIN q /\ Append(q, e)[i] = q[i]
        \/ i = Len(q) + 1 /\ Append(q, e)[i] = e
  OBVIOUS
<1>3. \A i \in DOMAIN q : i \in Nat /\ i <= Len(q)
  OBVIOUS
<1>4. Len(q) \in Nat
  OBVIOUS
<1>5. QED
  BY <1>1, <1>2, <1>3, <1>4 DEF Ordered

LEMMA OrderedTail ==
  ASSUME NEW q \in Seq(Nat), q # <<>>, NEW l, Ordered(q, l)
  PROVE  /\ Ordered(Tail(q), l)
         /\ \A x \in Range(Tail(q)) : l[Head(q)] = l[x] => Head(q) < x
<1>1. \A i \in DOMAIN Tail(q) : /\ i \in Nat /\ i >= 1
                                /\ i + 1 \in DOMAIN q
                                /\ Tail(q)[i] = q[i + 1]
  OBVIOUS
<1>2. 1 \in DOMAIN q /\ q[1] = Head(q)
  OBVIOUS
<1>3. Ordered(Tail(q), l)
  BY <1>1 DEF Ordered
<1>4. ASSUME NEW x \in Range(Tail(q)), l[Head(q)] = l[x]
      PROVE  Head(q) < x
  <2>1. PICK i \in DOMAIN Tail(q) : x = Tail(q)[i]
    BY DEF Range
  <2>2. 1 < i + 1
    BY <1>1, <2>1
  <2>3. QED
    BY <1>1, <1>2, <1>4, <2>1, <2>2 DEF Ordered
<1>5. QED
  BY <1>3, <1>4

LEMMA OrderedGrows ==
  ASSUME NEW q, NEW l, NEW k, Ordered(q, l), \A x \in Range(q) : k[x] = l[x]
  PROVE  Ordered(q, k)
BY DEF Ordered, Range

Live(s) == Range(forwarded[s]) \union Range(channel[s])

(* What is sent live was published after the stream has subscribed, each   *)
(* author's events in order, and is not on its way any more.               *)
SentInv(s) ==
  /\ old[s] \subseteq DOMAIN log
  /\ \A e \in old[s] : ~OnItsWay(e, s)
  /\ \A e \in Live(s) : /\ e \in DOMAIN log
                        /\ log[e] \in Handlers
                        /\ e \notin old[s]
                        /\ ~OnItsWay(e, s)
  /\ Ordered(forwarded[s], log)
  /\ Ordered(channel[s], log)
  /\ \A e \in Range(forwarded[s]), f \in Range(channel[s]) :
       log[e] = log[f] => e < f

LEMMA NothingLive ==
  ASSUME NEW l
  PROVE  Range(<<>>) = {} /\ Ordered(<<>>, l)
BY DEF Range, Ordered

(* An action that leaves a stream alone, except that the log may grow and  *)
(* events on their way may be dropped.                                     *)
LEMMA SentFrame ==
  ASSUME NEW s \in Streams, SentInv(s),
         \A e \in DOMAIN log : e \in DOMAIN log' /\ log'[e] = log[e],
         \A e \in DOMAIN log : OnItsWay(e, s)' => OnItsWay(e, s),
         forwarded'[s] = forwarded[s], channel'[s] = channel[s], old'[s] = old[s]
  PROVE  SentInv(s)'
<1>1. Live(s)' = Live(s)
  BY DEF Live
<1>2. \A e \in Live(s) : log'[e] = log[e]
  BY DEF SentInv
<1>3. Ordered(forwarded[s], log') /\ Ordered(channel[s], log')
  BY <1>2, OrderedGrows DEF SentInv, Live
<1>4. \A e \in Range(forwarded[s]), f \in Range(channel[s]) :
        log'[e] = log'[f] => e < f
  BY <1>2 DEF SentInv, Live
<1>5. \A e \in Live(s) : /\ e \in DOMAIN log'
                         /\ log'[e] \in Handlers
                         /\ e \notin old'[s]
                         /\ ~OnItsWay(e, s)'
  BY DEF SentInv
<1>6. /\ old'[s] \subseteq DOMAIN log'
      /\ \A e \in old'[s] : ~OnItsWay(e, s)'
  BY DEF SentInv
<1>7. QED
  BY <1>1, <1>3, <1>4, <1>5, <1>6 DEF SentInv

(* The send to t, which its event was on the way to.                       *)
LEMMA SentBySend ==
  ASSUME TypeOK, HandlerInv, NEW h \in Handlers, NEW t \in handler[h].targets,
         handler[h].place = "send", SentInv(t),
         handler' = [handler EXCEPT ![h] = Remaining(h, @.targets \ {t})],
         channel' = [channel EXCEPT ![t] = Append(@, handler[h].event)],
         UNCHANGED <<log, forwarded, old>>
  PROVE  SentInv(t)'
<1> DEFINE e == handler[h].event
<1>1. t \in Streams /\ e \in Nat /\ channel[t] \in Seq(Nat)
  BY DEF TypeOK, Requests
<1>2. OnItsWay(e, t)
  BY DEF OnItsWay
<1>3. e \in DOMAIN log /\ log[e] = h /\ \A x \in DOMAIN log : log[x] = h => x <= e
  BY DEF HandlerInv
<1>4. e \notin Live(t) /\ e \notin old[t]
  BY <1>2 DEF SentInv
<1>5. \A x \in Live(t) : log[x] = log[e] => x < e
  BY <1>1, <1>3, <1>4 DEF SentInv, TypeOK
<1>6. channel'[t] = Append(channel[t], e)
  BY <1>1 DEF TypeOK
<1>7. \A x : x \in Range(channel'[t]) <=> x \in Range(channel[t]) \/ x = e
  BY <1>1, <1>6, RangeOfAppend
<1>8. Ordered(channel'[t], log)
  <2>1. Ordered(channel[t], log) /\ \A x \in Range(channel[t]) : log[x] = log[e] => x < e
    BY <1>5 DEF SentInv, Live
  <2>2. QED
    BY <1>1, <1>6, <2>1, OrderedAppend
<1>9. \A x, s : OnItsWay(x, s)' <=> OnItsWay(x, s) /\ ~(s = t /\ x = e)
  BY WayOfSend
<1>10. \A x \in Range(forwarded[t]), f \in Range(channel'[t]) : log[x] = log[f] => x < f
  BY <1>5, <1>7 DEF SentInv, Live
<1>11. \A x \in Live(t)' : /\ x \in DOMAIN log
                           /\ log[x] \in Handlers
                           /\ x \notin old[t]
                           /\ ~OnItsWay(x, t)'
  BY <1>3, <1>4, <1>7, <1>9 DEF SentInv, Live
<1>12. \A x \in old[t] : ~OnItsWay(x, t)'
  BY <1>9 DEF SentInv
<1>13. QED
  BY <1>8, <1>10, <1>11, <1>12 DEF SentInv

LEMMA SentStep ==
  ASSUME TypeOK, HandlerInv, PlaceInv, [Next]_vars, NEW u \in Streams, SentInv(u)
  PROVE  SentInv(u)'
<1> USE StreamAssumption
<1>1. ASSUME log' = log, handler' = handler, forwarded'[u] = forwarded[u],
             channel'[u] = channel[u], old'[u] = old[u]
      PROVE  SentInv(u)'
  <2>1. \A e : OnItsWay(e, u)' <=> OnItsWay(e, u)
    BY <1>1 DEF OnItsWay
  <2>2. QED
    BY <1>1, <2>1, SentFrame
<1>2. CASE EngineAppends
  <2>1. /\ log' = Append(log, Engine)
        /\ UNCHANGED <<handler, forwarded, channel, old>>
    BY <1>2 DEF EngineAppends, streamVars
  <2>2. \A e : OnItsWay(e, u)' <=> OnItsWay(e, u)
    BY <2>1 DEF OnItsWay
  <2>3. QED
    BY <2>1, <2>2, LogGrows, SentFrame
<1>3. ASSUME NEW h \in Handlers, HandlerAppends(h)
      PROVE  SentInv(u)'
  <2>1. log' = Append(log, h) /\ UNCHANGED <<forwarded, channel, old>>
    BY <1>3 DEF HandlerAppends, streamVars
  <2>2. \A e \in DOMAIN log : OnItsWay(e, u)' => OnItsWay(e, u)
    BY <1>3, <2>1, WayOfAppend, LogGrows
  <2>3. QED
    BY <2>1, <2>2, LogGrows, SentFrame
<1>4. ASSUME NEW h \in Handlers, Publish(h)
      PROVE  SentInv(u)'
  <2>1. UNCHANGED <<log, forwarded, channel, old>>
    BY <1>4 DEF Publish, streamVars
  <2>2. \A e : OnItsWay(e, u)' => OnItsWay(e, u)
    BY <1>4, WayOfPublish, Zenon
  <2>3. QED
    BY <2>1, <2>2, SentFrame
<1>5. ASSUME NEW h \in Handlers, Send(h)
      PROVE  SentInv(u)'
  <2>1. PICK t \in handler[h].targets \ closed :
          /\ handler[h].place = "send"
          /\ IF Len(channel[t]) < BufferSize
             THEN /\ channel' = [channel EXCEPT ![t] = Append(@, handler[h].event)]
                  /\ UNCHANGED missed
             ELSE /\ missed' = [missed EXCEPT ![t] = @ \union {handler[h].event}]
                  /\ UNCHANGED channel
          /\ handler' = [handler EXCEPT ![h] = Remaining(h, @.targets \ {t})]
          /\ UNCHANGED <<log, subscribers, streamVars>>
    BY <1>5 DEF Send
  <2>2. UNCHANGED <<log, forwarded, old>>
    BY <2>1 DEF streamVars
  <2>3. \A e : OnItsWay(e, u)' => OnItsWay(e, u)
    BY <2>1, WayOfSend
  <2>4. CASE t = u /\ Len(channel[t]) < BufferSize
    BY <2>1, <2>2, <2>4, SentBySend
  <2>5. CASE ~(t = u /\ Len(channel[t]) < BufferSize)
    <3>1. channel'[u] = channel[u]
      BY <2>1, <2>5 DEF TypeOK
    <3>2. QED
      BY <2>2, <2>3, <3>1, SentFrame
  <2>6. QED
    BY <2>4, <2>5
<1>6. ASSUME NEW h \in Handlers, SendPanics(h)
      PROVE  SentInv(u)'
  <2>1. UNCHANGED <<log, forwarded, channel, old>>
    BY <1>6 DEF SendPanics, streamVars
  <2>2. \A e : OnItsWay(e, u)' => OnItsWay(e, u)
    BY <1>6, WayOfPanic, Zenon
  <2>3. QED
    BY <2>1, <2>2, SentFrame
<1>7. ASSUME NEW s \in Streams, Connect(s)
      PROVE  SentInv(u)'
  <2>1. CASE u # s
    BY <1>1, <1>7, <2>1 DEF Connect, TypeOK
  <2>2. CASE u = s
    <3>1. forwarded'[u] = <<>> /\ channel'[u] = <<>>
      BY <1>7, <2>2 DEF Connect, PlaceInv
    <3>2. old'[u] = Published /\ UNCHANGED <<log, handler>>
      BY <1>7, <2>2 DEF Connect, TypeOK
    <3>3. \A e \in Published : ~OnItsWay(e, u)'
      BY <1>7, <2>2, <3>2 DEF Connect, PlaceInv, Published, OnItsWay
    <3>4. Published \subseteq DOMAIN log
      BY DEF Published
    <3>5. QED
      BY <3>1, <3>2, <3>3, <3>4, NothingLive DEF SentInv, Live
  <2>3. QED
    BY <2>1, <2>2
<1>8. ASSUME NEW s \in Streams, ReadHistory(s) \/ ReplayOne(s) \/ StreamEnds(s)
      PROVE  SentInv(u)'
  BY <1>1, <1>8 DEF ReadHistory, ReplayOne, StreamEnds
<1>9. ASSUME NEW s \in Streams, ForwardOne(s)
      PROVE  SentInv(u)'
  <2>1. CASE u # s
    BY <1>1, <1>9, <2>1 DEF ForwardOne, TypeOK
  <2>2. CASE u = s
    <3> DEFINE e == Head(channel[s])
    <3>1. /\ channel[s] \in Seq(Nat) /\ channel[s] # <<>> /\ e \in Nat
          /\ forwarded[s] \in Seq(Nat) /\ Tail(channel[s]) \in Seq(Nat)
      <4>1. channel[s] \in Seq(Nat) /\ channel[s] # <<>> /\ forwarded[s] \in Seq(Nat)
        BY <1>9 DEF ForwardOne, TypeOK
      <4>2. QED
        BY <4>1
    <3>2. /\ forwarded'[s] = Append(forwarded[s], e)
          /\ channel'[s] = Tail(channel[s])
          /\ UNCHANGED <<log, handler, old>>
      BY <1>9 DEF ForwardOne, TypeOK
    <3>3. \A x : x \in Range(forwarded'[s]) <=> x \in Range(forwarded[s]) \/ x = e
      BY <3>1, <3>2, RangeOfAppend
    <3>4. \A x : x \in Range(channel[s]) <=> x \in Range(channel'[s]) \/ x = e
      BY <3>1, <3>2, RangeOfTail
    <3>5. \A x : OnItsWay(x, s)' <=> OnItsWay(x, s)
      BY <3>2 DEF OnItsWay
    <3>6. /\ Ordered(channel'[s], log)
          /\ \A x \in Range(channel'[s]) : log[e] = log[x] => e < x
      BY <2>2, <3>1, <3>2, OrderedTail DEF SentInv
    <3>7. Ordered(forwarded'[s], log)
      <4>1. /\ Ordered(forwarded[s], log)
            /\ \A x \in Range(forwarded[s]) : log[x] = log[e] => x < e
        BY <2>2, <3>4 DEF SentInv
      <4>2. QED
        BY <3>1, <3>2, <4>1, OrderedAppend
    <3>8. \A x \in Range(forwarded'[s]), y \in Range(channel'[s]) :
            log[x] = log[y] => x < y
      BY <2>2, <3>3, <3>4, <3>6 DEF SentInv
    <3>9. Live(s)' = Live(s)
      BY <3>3, <3>4 DEF Live
    <3>10. QED
      BY <2>2, <3>2, <3>5, <3>6, <3>7, <3>8, <3>9 DEF SentInv
  <2>3. QED
    BY <2>1, <2>2
<1>10. ASSUME NEW s \in Streams, CloseChannel(s)
       PROVE  SentInv(u)'
  <2>1. CASE u # s
    BY <1>1, <1>10, <2>1 DEF CloseChannel, TypeOK
  <2>2. CASE u = s
    <3>1. forwarded'[u] = <<>> /\ channel'[u] = <<>> /\ old'[u] = {}
      BY <1>10, <2>2 DEF CloseChannel, TypeOK
    <3>2. QED
      BY <3>1, NothingLive DEF SentInv, Live
  <2>3. QED
    BY <2>1, <2>2
<1>11. CASE UNCHANGED vars
  BY <1>1, <1>11 DEF vars, streamVars
<1>12. QED
  BY <1>2, <1>3, <1>4, <1>5, <1>6, <1>7, <1>8, <1>9, <1>10, <1>11
     DEF Next, HandlerGoesOn, StreamStep

-----------------------------------------------------------------------------
(* The replay *)

(* What is replayed is the log after the cursor, without a hole, up to     *)
(* where it was read, unless it could not be read.                         *)
ReplayInv(s) ==
  /\ \A i \in DOMAIN replayed[s] : replayed[s][i] = after[s] + i
  /\ \A i \in DOMAIN history[s] : history[s][i] = after[s] + Len(replayed[s]) + i
  /\ place[s] \in {"replay", "live"} =>
       /\ old[s] \subseteq 1 .. upto[s]
       /\ \/ after[s] + Len(replayed[s]) + Len(history[s]) >= upto[s]
          \/ after[s] + 1 .. upto[s] \subseteq missed[s]

LEMMA ReplayStep ==
  ASSUME TypeOK, PlaceInv, [Next]_vars,
         NEW u \in Streams, SentInv(u), ReplayInv(u)
  PROVE  ReplayInv(u)'
<1>1. ASSUME replayed'[u] = replayed[u], history'[u] = history[u],
             after'[u] = after[u], old'[u] = old[u], upto'[u] = upto[u],
             missed[u] \subseteq missed'[u],
             place'[u] \in {"replay", "live"} => place[u] \in {"replay", "live"}
      PROVE  ReplayInv(u)'
  BY <1>1 DEF ReplayInv
<1>2. CASE EngineAppends
  BY <1>1, <1>2 DEF EngineAppends, streamVars
<1>3. ASSUME NEW h \in Handlers, HandlerAppends(h) \/ HandlerGoesOn(h)
      PROVE  ReplayInv(u)'
  <2>1. UNCHANGED <<place, after, history, replayed, old, upto>>
    BY <1>3 DEF HandlerAppends, HandlerGoesOn, Publish, Send, SendPanics, streamVars
  <2>2. missed[u] \subseteq missed'[u]
    <3>1. CASE HandlerAppends(h) \/ Publish(h)
      BY <3>1 DEF HandlerAppends, Publish
    <3>2. CASE Send(h)
      <4>1. PICK t : \/ missed' = missed
                     \/ missed' = [missed EXCEPT ![t] = @ \union {handler[h].event}]
        BY <3>2 DEF Send
      <4>2. QED
        BY <4>1 DEF TypeOK
    <3>3. CASE SendPanics(h)
      BY <3>3 DEF SendPanics
    <3>4. QED
      BY <1>3, <3>1, <3>2, <3>3 DEF HandlerGoesOn
  <2>3. QED
    BY <1>1, <2>1, <2>2
<1>4. ASSUME NEW s \in Streams, Connect(s)
      PROVE  ReplayInv(u)'
  <2>1. CASE u # s
    BY <1>1, <1>4, <2>1 DEF Connect, TypeOK
  <2>2. CASE u = s
    <3>1. replayed'[u] = <<>> /\ history'[u] = <<>> /\ place'[u] = "read"
      BY <1>4, <2>2 DEF Connect, PlaceInv, TypeOK
    <3>2. QED
      BY <3>1 DEF ReplayInv
  <2>3. QED
    BY <2>1, <2>2
<1>5. ASSUME NEW s \in Streams, ReadHistory(s)
      PROVE  ReplayInv(u)'
  <2>1. CASE u # s
    BY <1>1, <1>5, <2>1 DEF ReadHistory, Replaying, TypeOK
  <2>2. CASE u = s
    <3> DEFINE n == Len(log)
               m == IF n - after[s] \in Nat THEN n - after[s] ELSE 0
    <3>1. /\ after' = after /\ replayed' = replayed /\ old' = old /\ log' = log
          /\ replayed[s] = <<>>
          /\ upto'[s] = n
      BY <1>5 DEF ReadHistory, PlaceInv, TypeOK
    <3>2. n \in Nat /\ after[s] \in Nat /\ m \in Nat /\ old[s] \subseteq 1 .. n
      BY <2>2 DEF SentInv, TypeOK
    <3>3. CASE Replaying(s, EventsAfter(after[s]))
      <4>1. history'[s] = [i \in 1 .. n - after[s] |-> after[s] + i]
        BY <3>3 DEF Replaying, EventsAfter, TypeOK
      <4>2. 1 .. n - after[s] = 1 .. m
        BY <3>2
      <4>3. /\ DOMAIN history'[s] = 1 .. m
            /\ \A i \in 1 .. m : history'[s][i] = after[s] + i
        BY <4>1, <4>2
      <4>4. history'[s] \in Seq(Nat)
        BY <3>3, EventsAfterType, ReplayingType
      <4>5. Len(history'[s]) = m
        BY <3>2, <4>3, <4>4
      <4>6. after[s] + m >= n
        BY <3>2
      <4>7. QED
        BY <2>2, <3>1, <3>2, <4>3, <4>5, <4>6 DEF ReplayInv
    <3>4. CASE /\ Replaying(s, <<>>)
               /\ missed' = [missed EXCEPT ![s] = @ \union (after[s] + 1 .. Len(log))]
      <4>1. history'[s] = <<>> /\ after[s] + 1 .. n \subseteq missed'[s]
        BY <3>4 DEF Replaying, TypeOK
      <4>2. QED
        BY <2>2, <3>1, <3>2, <4>1 DEF ReplayInv
    <3>5. QED
      BY <1>5, <3>3, <3>4 DEF ReadHistory
  <2>3. QED
    BY <2>1, <2>2
<1>6. ASSUME NEW s \in Streams, ReplayOne(s)
      PROVE  ReplayInv(u)'
  <2>1. CASE u # s
    BY <1>1, <1>6, <2>1 DEF ReplayOne, Replaying, TypeOK
  <2>2. CASE u = s
    <3>1. /\ history[s] \in Seq(Nat) /\ history[s] # <<>>
          /\ replayed[s] \in Seq(Nat) /\ after[s] \in Nat /\ upto[s] \in Nat
      BY <1>6 DEF ReplayOne, TypeOK
    <3>2. /\ replayed'[s] = Append(replayed[s], Head(history[s]))
          /\ history'[s] = Tail(history[s])
          /\ UNCHANGED <<after, old, upto, missed>>
      BY <1>6 DEF ReplayOne, Replaying, TypeOK
    <3>3. Head(history[s]) = after[s] + Len(replayed[s]) + 1
      BY <2>2, <3>1 DEF ReplayInv
    <3>4. \A i \in DOMAIN replayed'[s] : replayed'[s][i] = after[s] + i
      <4>1. \A i \in DOMAIN replayed'[s] :
              \/ i \in DOMAIN replayed[s] /\ replayed'[s][i] = replayed[s][i]
              \/ i = Len(replayed[s]) + 1 /\ replayed'[s][i] = Head(history[s])
        BY <3>1, <3>2
      <4>2. after[s] + Len(replayed[s]) + 1 = after[s] + (Len(replayed[s]) + 1)
        BY <3>1
      <4>3. QED
        BY <2>2, <3>3, <4>1, <4>2 DEF ReplayInv
    <3>5. \A i \in DOMAIN history'[s] :
            /\ i \in Nat
            /\ i + 1 \in DOMAIN history[s]
            /\ history'[s][i] = history[s][i + 1]
      BY <3>1, <3>2
    <3>6. /\ Len(replayed'[s]) = Len(replayed[s]) + 1
          /\ Len(history[s]) = Len(history'[s]) + 1
          /\ Len(replayed[s]) \in Nat
          /\ Len(history'[s]) \in Nat
      BY <3>1, <3>2
    <3>7. \A i \in DOMAIN history'[s] :
            history'[s][i] = after[s] + Len(replayed[s]) + (i + 1)
      BY <2>2, <3>5 DEF ReplayInv
    <3>8. \A i \in DOMAIN history'[s] :
            history'[s][i] = after[s] + Len(replayed'[s]) + i
      <4> DEFINE a == after[s]
                 n == Len(replayed[s])
      <4>1. a \in Nat /\ n \in Nat
        BY <3>1, <3>6
      <4>2. \A i \in Nat : a + n + (i + 1) = a + (n + 1) + i
        BY <4>1
      <4>3. QED
        BY <3>5, <3>6, <3>7, <4>2, Zenon
    <3>9. after[s] + Len(replayed'[s]) + Len(history'[s])
            = after[s] + Len(replayed[s]) + Len(history[s])
      <4> DEFINE a == after[s]
                 n == Len(replayed[s])
                 k == Len(history'[s])
      <4>1. a \in Nat /\ n \in Nat /\ k \in Nat
        BY <3>1, <3>6
      <4>2. a + (n + 1) + k = a + n + (k + 1)
        BY <4>1
      <4>3. QED
        BY <3>6, <4>2, Zenon
    <3>10. place[s] \in {"replay", "live"}
      BY <1>6 DEF ReplayOne
    <3>11. QED
      BY <2>2, <3>2, <3>4, <3>8, <3>9, <3>10 DEF ReplayInv
  <2>3. QED
    BY <2>1, <2>2
<1>7. ASSUME NEW s \in Streams, ForwardOne(s)
      PROVE  ReplayInv(u)'
  BY <1>1, <1>7 DEF ForwardOne
<1>8. ASSUME NEW s \in Streams, StreamEnds(s)
      PROVE  ReplayInv(u)'
  BY <1>1, <1>8 DEF StreamEnds, TypeOK
<1>9. ASSUME NEW s \in Streams, CloseChannel(s)
      PROVE  ReplayInv(u)'
  <2>1. CASE u # s
    BY <1>1, <1>9, <2>1 DEF CloseChannel, TypeOK
  <2>2. CASE u = s
    <3>1. replayed'[u] = <<>> /\ history'[u] = <<>> /\ place'[u] = "gone"
      BY <1>9, <2>2 DEF CloseChannel, TypeOK
    <3>2. QED
      BY <3>1 DEF ReplayInv
  <2>3. QED
    BY <2>1, <2>2
<1>10. CASE UNCHANGED vars
  BY <1>1, <1>10 DEF vars, streamVars
<1>11. QED
  BY <1>2, <1>3, <1>4, <1>5, <1>6, <1>7, <1>8, <1>9, <1>10 DEF Next, StreamStep

-----------------------------------------------------------------------------
(* Nothing is lost *)

(* What a handler has published since the stream has subscribed, and what  *)
(* it is about to publish, reaches the stream or is skipped.               *)
LostInv(s) ==
  Open(s) => \A e \in DOMAIN log :
    \/ log[e] = Engine
    \/ e \in old[s]
    \/ OnItsWay(e, s)
    \/ e \in missed[s]
    \/ e \in Live(s)

LEMMA LostStep ==
  ASSUME TypeOK, HandlerInv, PlaceInv, [Next]_vars, NEW u \in Streams, LostInv(u)
  PROVE  LostInv(u)'
<1>1. ASSUME log' = log, Open(u)' => Open(u),
             old[u] \subseteq old'[u], missed[u] \subseteq missed'[u],
             Live(u) \subseteq Live(u)',
             \A e \in DOMAIN log :
               OnItsWay(e, u) => OnItsWay(e, u)' \/ e \in missed'[u] \/ e \in Live(u)'
               \/ ~Open(u)'
      PROVE  LostInv(u)'
  BY <1>1 DEF LostInv
<1>2. CASE EngineAppends
  <2>1. /\ log' = Append(log, Engine)
        /\ UNCHANGED <<handler, place, old, missed, forwarded, channel>>
    BY <1>2 DEF EngineAppends, streamVars
  <2>2. \A e : OnItsWay(e, u)' <=> OnItsWay(e, u)
    BY <2>1 DEF OnItsWay
  <2>3. Live(u)' = Live(u) /\ (Open(u)' <=> Open(u))
    BY <2>1 DEF Live, Open
  <2>4. QED
    BY <2>1, <2>2, <2>3, LogGrows DEF LostInv
<1>3. ASSUME NEW h \in Handlers, HandlerAppends(h)
      PROVE  LostInv(u)'
  <2>1. /\ log' = Append(log, h)
        /\ UNCHANGED <<place, old, missed, forwarded, channel>>
    BY <1>3 DEF HandlerAppends, streamVars
  <2>2. \A e : OnItsWay(e, u)' <=> OnItsWay(e, u) \/ e = Len(log) + 1
    BY <1>3, WayOfAppend
  <2>3. Live(u)' = Live(u) /\ (Open(u)' <=> Open(u))
    BY <2>1 DEF Live, Open
  <2>4. QED
    BY <2>1, <2>2, <2>3, LogGrows DEF LostInv
<1>4. ASSUME NEW h \in Handlers, Publish(h)
      PROVE  LostInv(u)'
  <2>1. UNCHANGED <<log, subscribers, place, old, missed, forwarded, channel>>
    BY <1>4 DEF Publish, streamVars
  <2>2. Open(u) => \A e : OnItsWay(e, u) => OnItsWay(e, u)'
    BY <1>4, WayOfPublish DEF PlaceInv
  <2>3. Live(u)' = Live(u) /\ (Open(u)' <=> Open(u))
    BY <2>1 DEF Live, Open
  <2>4. QED
    BY <1>1, <2>1, <2>2, <2>3
<1>5. ASSUME NEW h \in Handlers, Send(h)
      PROVE  LostInv(u)'
  <2>1. PICK t \in handler[h].targets \ closed :
          /\ handler[h].place = "send"
          /\ IF Len(channel[t]) < BufferSize
             THEN /\ channel' = [channel EXCEPT ![t] = Append(@, handler[h].event)]
                  /\ UNCHANGED missed
             ELSE /\ missed' = [missed EXCEPT ![t] = @ \union {handler[h].event}]
                  /\ UNCHANGED channel
          /\ handler' = [handler EXCEPT ![h] = Remaining(h, @.targets \ {t})]
          /\ UNCHANGED <<log, subscribers, streamVars>>
    BY <1>5 DEF Send
  <2>2. UNCHANGED <<log, place, forwarded, old>>
    BY <2>1 DEF streamVars
  <2>3. \A e : OnItsWay(e, u)' <=> OnItsWay(e, u) /\ ~(u = t /\ e = handler[h].event)
    BY <2>1, WayOfSend
  <2>4. t \in Streams /\ handler[h].event \in Nat
    BY DEF TypeOK, Requests
  <2>5. /\ \A x : x \in Range(channel[u]) => x \in Range(channel'[u])
        /\ missed[u] \subseteq missed'[u]
        /\ u = t => handler[h].event \in Range(channel'[u]) \union missed'[u]
    <3>1. CASE u # t
      BY <2>1, <2>4, <3>1 DEF TypeOK
    <3>2. CASE u = t /\ Len(channel[t]) < BufferSize
      <4>1. channel'[u] = Append(channel[u], handler[h].event) /\ channel[u] \in Seq(Nat)
        BY <2>1, <3>2 DEF TypeOK
      <4>2. \A x : x \in Range(channel'[u])
                     <=> x \in Range(channel[u]) \/ x = handler[h].event
        BY <2>4, <4>1, RangeOfAppend
      <4>3. missed' = missed
        BY <2>1, <3>2
      <4>4. QED
        BY <4>2, <4>3
    <3>3. CASE u = t /\ ~(Len(channel[t]) < BufferSize)
      BY <2>1, <3>3 DEF TypeOK
    <3>4. QED
      BY <3>1, <3>2, <3>3
  <2>6. Live(u) \subseteq Live(u)' /\ (Open(u)' <=> Open(u))
    BY <2>2, <2>5 DEF Live, Open
  <2>7. u = t => handler[h].event \in Live(u)' \union missed'[u]
    BY <2>2, <2>5 DEF Live
  <2>8. QED
    BY <1>1, <2>2, <2>3, <2>5, <2>6, <2>7
<1>6. ASSUME NEW h \in Handlers, SendPanics(h)
      PROVE  LostInv(u)'
  <2>1. UNCHANGED <<log, place, old, forwarded, channel, closed>>
    BY <1>6 DEF SendPanics, streamVars
  <2>2. missed'[u] = missed[u] \union
          IF u \in handler[h].targets \ closed THEN {handler[h].event} ELSE {}
    BY <1>6 DEF SendPanics
  <2>3. \A e : OnItsWay(e, u) => \/ OnItsWay(e, u)'
                                 \/ u \in handler[h].targets /\ e = handler[h].event
    BY <1>6, WayOfPanic
  <2>4. Live(u)' = Live(u) /\ (Open(u)' <=> Open(u)) /\ (Open(u) => u \notin closed)
    BY <2>1 DEF Live, Open, PlaceInv
  <2>5. QED
    BY <1>1, <2>1, <2>2, <2>3, <2>4
<1>7. ASSUME NEW s \in Streams, Connect(s)
      PROVE  LostInv(u)'
  <2>1. /\ UNCHANGED <<log, handler, missed, forwarded, channel>>
        /\ place' = [place EXCEPT ![s] = "read"]
        /\ old' = [old EXCEPT ![s] = Published]
    BY <1>7 DEF Connect
  <2>2. \A e : OnItsWay(e, u)' <=> OnItsWay(e, u)
    BY <2>1 DEF OnItsWay
  <2>3. CASE u # s
    BY <1>1, <2>1, <2>2, <2>3 DEF Live, Open, TypeOK
  <2>4. CASE u = s
    <3>1. old'[u] = Published
      BY <2>1, <2>4 DEF TypeOK
    <3>2. \A e \in DOMAIN log : e \in Published \/ OnItsWay(e, u)
      BY DEF Published, OnItsWay
    <3>3. QED
      BY <2>1, <2>2, <3>1, <3>2 DEF LostInv
  <2>5. QED
    BY <2>3, <2>4
<1>8. ASSUME NEW s \in Streams, ReadHistory(s) \/ ReplayOne(s)
      PROVE  LostInv(u)'
  <2>1. UNCHANGED <<log, handler, old, forwarded, channel>>
    BY <1>8 DEF ReadHistory, ReplayOne
  <2>2. \A e : OnItsWay(e, u)' <=> OnItsWay(e, u)
    BY <2>1 DEF OnItsWay
  <2>3. missed[u] \subseteq missed'[u] /\ (Open(u)' => Open(u))
    <3>1. CASE ReadHistory(s)
      BY <3>1 DEF ReadHistory, Replaying, Open, TypeOK
    <3>2. CASE ReplayOne(s)
      BY <3>2 DEF ReplayOne, Replaying, Open, TypeOK
    <3>3. QED
      BY <1>8, <3>1, <3>2
  <2>4. QED
    BY <1>1, <2>1, <2>2, <2>3 DEF Live
<1>9. ASSUME NEW s \in Streams, ForwardOne(s)
      PROVE  LostInv(u)'
  <2>1. UNCHANGED <<log, handler, place, old, missed>>
    BY <1>9 DEF ForwardOne
  <2>2. \A e : OnItsWay(e, u)' <=> OnItsWay(e, u)
    BY <2>1 DEF OnItsWay
  <2>3. Live(u)' = Live(u)
    <3>1. CASE u # s
      BY <1>9, <3>1 DEF ForwardOne, Live, TypeOK
    <3>2. CASE u = s
      <4>1. channel[s] \in Seq(Nat) /\ channel[s] # <<>> /\ forwarded[s] \in Seq(Nat)
        BY <1>9 DEF ForwardOne, TypeOK
      <4>2. Head(channel[s]) \in Nat
        BY <4>1
      <4>3. /\ forwarded'[s] = Append(forwarded[s], Head(channel[s]))
            /\ channel'[s] = Tail(channel[s])
        BY <1>9 DEF ForwardOne, TypeOK
      <4>4. \A x : x \in Range(forwarded'[s])
                     <=> x \in Range(forwarded[s]) \/ x = Head(channel[s])
        BY <4>1, <4>2, <4>3, RangeOfAppend
      <4>5. \A x : x \in Range(channel[s])
                     <=> x \in Range(channel'[s]) \/ x = Head(channel[s])
        BY <4>1, <4>3, RangeOfTail
      <4>6. QED
        BY <3>2, <4>4, <4>5 DEF Live
    <3>3. QED
      BY <3>1, <3>2
  <2>4. QED
    BY <1>1, <2>1, <2>2, <2>3 DEF Open
<1>10. ASSUME NEW s \in Streams, StreamEnds(s) \/ CloseChannel(s)
       PROVE  LostInv(u)'
  <2>1. UNCHANGED <<log, handler>>
    BY <1>10 DEF StreamEnds, CloseChannel
  <2>2. \A e : OnItsWay(e, u)' <=> OnItsWay(e, u)
    BY <2>1 DEF OnItsWay
  <2>3. CASE u # s
    <3>1. /\ place'[u] = place[u] /\ old'[u] = old[u] /\ missed'[u] = missed[u]
          /\ forwarded'[u] = forwarded[u] /\ channel'[u] = channel[u]
      BY <1>10, <2>3 DEF StreamEnds, CloseChannel, TypeOK
    <3>2. QED
      BY <1>1, <2>1, <2>2, <3>1 DEF Live, Open
  <2>4. CASE u = s
    BY <1>10, <2>4 DEF StreamEnds, CloseChannel, Open, LostInv, TypeOK
  <2>5. QED
    BY <2>3, <2>4
<1>11. CASE UNCHANGED vars
  <2>1. UNCHANGED <<log, handler, place, old, missed, forwarded, channel>>
    BY <1>11 DEF vars, streamVars
  <2>2. \A e : OnItsWay(e, u)' <=> OnItsWay(e, u)
    BY <2>1 DEF OnItsWay
  <2>3. QED
    BY <1>1, <2>1, <2>2 DEF Live, Open
<1>12. QED
  BY <1>2, <1>3, <1>4, <1>5, <1>6, <1>7, <1>8, <1>9, <1>10, <1>11
     DEF Next, HandlerGoesOn, StreamStep

-----------------------------------------------------------------------------
(* The theorems *)

StreamInv ==
  /\ TypeOK
  /\ HandlerInv
  /\ PlaceInv
  /\ \A s \in Streams : SentInv(s) /\ ReplayInv(s) /\ LostInv(s)

(* The invariant that the theorems below rest on.                          *)
THEOREM StreamInvariant == Spec => []StreamInv
<1>1. Init => StreamInv
  <2> SUFFICES ASSUME Init PROVE StreamInv
    OBVIOUS
  <2>1. TypeOK
    BY TypeInit
  <2>2. HandlerInv
    BY DEF Init, HandlerInv, Idle
  <2>3. PlaceInv
    BY DEF Init, PlaceInv, Open, Idle
  <2>4. ASSUME NEW s \in Streams
        PROVE  SentInv(s) /\ ReplayInv(s) /\ LostInv(s)
    <3>1. /\ channel[s] = <<>> /\ forwarded[s] = <<>> /\ old[s] = {}
          /\ replayed[s] = <<>> /\ history[s] = <<>> /\ place[s] = "new"
      BY DEF Init
    <3>2. SentInv(s)
      BY <3>1, NothingLive DEF SentInv, Live
    <3>3. QED
      BY <3>1, <3>2 DEF ReplayInv, LostInv, Open
  <2>5. QED
    BY <2>1, <2>2, <2>3, <2>4 DEF StreamInv
<1>2. StreamInv /\ [Next]_vars => StreamInv'
  <2> SUFFICES ASSUME StreamInv, [Next]_vars PROVE StreamInv'
    OBVIOUS
  <2>1. TypeOK' /\ HandlerInv' /\ PlaceInv'
    BY TypeStep, HandlerStep, PlaceStep DEF StreamInv
  <2>2. ASSUME NEW s \in Streams
        PROVE  SentInv(s)' /\ ReplayInv(s)' /\ LostInv(s)'
    BY SentStep, ReplayStep, LostStep DEF StreamInv
  <2>3. QED
    BY <2>1, <2>2 DEF StreamInv
<1>3. QED
  BY <1>1, <1>2, PTL DEF Spec

(* An open stream misses only what the code skips and what nobody          *)
(* publishes.                                                              *)
THEOREM NothingLostHolds == Spec => []NothingLost
<1>1. ASSUME StreamInv, NEW s \in Streams, place[s] \in {"replay", "live"},
             NEW e \in after[s] + 1 .. Len(log)
      PROVE  \/ e \in Range(Received(s)) \union Range(history[s]) \union Range(channel[s])
             \/ OnItsWay(e, s)
             \/ e \in missed[s]
             \/ log[e] = Engine /\ e > upto[s]
  <2>1. /\ replayed[s] \in Seq(Nat) /\ forwarded[s] \in Seq(Nat)
        /\ history[s] \in Seq(Nat)
        /\ after[s] \in Nat /\ upto[s] \in Nat /\ e \in Nat /\ e > after[s]
        /\ e \in DOMAIN log
    BY <1>1 DEF StreamInv, TypeOK
  <2>2. \A x : x \in Range(Received(s))
                 <=> x \in Range(replayed[s]) \/ x \in Range(forwarded[s])
    BY <2>1, RangeOfConcat DEF Received
  <2>3. ReplayInv(s) /\ LostInv(s)
    BY <1>1 DEF StreamInv
  <2>4. CASE e > upto[s]
    <3>1. e \notin old[s]
      BY <1>1, <2>1, <2>3, <2>4 DEF ReplayInv
    <3>2. \/ log[e] = Engine
          \/ OnItsWay(e, s)
          \/ e \in missed[s]
          \/ e \in Live(s)
      BY <1>1, <2>1, <2>3, <3>1 DEF LostInv, Open
    <3>3. QED
      BY <2>2, <2>4, <3>2 DEF Live
  <2>5. CASE e <= upto[s]
    <3>1. CASE after[s] + 1 .. upto[s] \subseteq missed[s]
      BY <2>1, <2>5, <3>1
    <3>2. CASE after[s] + Len(replayed[s]) + Len(history[s]) >= upto[s]
      <4> DEFINE m == Len(replayed[s])
                 k == Len(history[s])
      <4>1. m \in Nat /\ k \in Nat
        BY <2>1
      <4>2. PICK d \in Nat \ {0} : e = after[s] + d
        BY <2>1, Difference
      <4>3. CASE d <= m
        <5>1. d \in DOMAIN replayed[s]
          BY <2>1, <4>2, <4>3
        <5>2. replayed[s][d] = e
          BY <2>3, <4>2, <5>1 DEF ReplayInv
        <5>3. QED
          BY <2>2, <5>1, <5>2, Zenon DEF Range
      <4>4. CASE d > m
        <5>1. PICK c \in Nat \ {0} : d = m + c
          <6> HIDE DEF m
          <6>1. d \in Nat /\ m < d
            BY <4>1, <4>2, <4>4
          <6>2. QED
            BY <4>1, <6>1, Difference
        <5>2. c <= k
          <6>1. /\ after[s] + m + k >= upto[s]
                /\ after[s] \in Nat /\ upto[s] \in Nat
            BY <2>1, <3>2
          <6> HIDE DEF m, k
          <6>2. QED
            BY <2>5, <4>1, <4>2, <5>1, <6>1
        <5>3. c \in DOMAIN history[s]
          BY <2>1, <5>2
        <5>4. history[s][c] = after[s] + m + c
          BY <2>3, <5>3 DEF ReplayInv
        <5>5. history[s][c] = e
          <6>1. after[s] \in Nat
            BY <2>1
          <6> HIDE DEF m
          <6>2. QED
            BY <4>1, <4>2, <5>1, <5>4, <6>1
        <5>6. QED
          BY <5>3, <5>5, Zenon DEF Range
      <4>5. QED
        BY <4>1, <4>2, <4>3, <4>4
    <3>3. QED
      BY <1>1, <2>3, <3>1, <3>2 DEF ReplayInv
  <2>6. QED
    BY <2>1, <2>4, <2>5
<1>2. StreamInv => NothingLost
  BY <1>1 DEF NothingLost
<1>3. QED
  BY <1>2, StreamInvariant, PTL

(* The two parts of what a client gets: the replay counts up from the      *)
(* cursor, the live part has each author's events in order, and none of    *)
(* those that were published before the stream subscribed.                 *)
LEMMA ReceivedParts ==
  ASSUME StreamInv, NEW s \in Streams, NEW i \in DOMAIN Received(s)
  PROVE  \/ /\ i \in DOMAIN replayed[s]
            /\ Received(s)[i] = after[s] + i
         \/ /\ i > Len(replayed[s])
            /\ i - Len(replayed[s]) \in DOMAIN forwarded[s]
            /\ Received(s)[i] = forwarded[s][i - Len(replayed[s])]
            /\ Received(s)[i] \in Nat
            /\ Received(s)[i] \notin old[s]
<1>1. replayed[s] \in Seq(Nat) /\ forwarded[s] \in Seq(Nat)
  BY DEF StreamInv, TypeOK
<1>2. CASE i \in DOMAIN replayed[s]
  <2>1. Received(s)[i] = replayed[s][i]
    BY <1>1, <1>2, ConcatLeft, Zenon DEF Received
  <2>2. QED
    BY <1>2, <2>1 DEF StreamInv, ReplayInv
<1>3. CASE i \notin DOMAIN replayed[s]
  <2>1. /\ i > Len(replayed[s])
        /\ i - Len(replayed[s]) \in DOMAIN forwarded[s]
        /\ Received(s)[i] = forwarded[s][i - Len(replayed[s])]
    BY <1>1, <1>3, ConcatRight, Zenon DEF Received
  <2>2. Received(s)[i] \in Nat /\ Received(s)[i] \in Live(s)
    BY <1>1, <2>1 DEF Live, Range
  <2>3. QED
    BY <2>1, <2>2 DEF StreamInv, SentInv
<1>4. QED
  BY <1>2, <1>3

(* What comes again was on its way when the stream subscribed, and comes   *)
(* no third time.                                                          *)
THEOREM RepeatsOnlyInFlightHolds == Spec => []RepeatsOnlyInFlight
<1>1. ASSUME StreamInv, NEW s \in Streams
      PROVE  LET r == Received(s)
             IN  \A i \in DOMAIN r :
                   LET Others == {j \in DOMAIN r \ {i} : r[j] = r[i]}
                   IN  /\ r[i] <= after[s] \/ Others # {} => r[i] \notin old[s]
                       /\ \A j, k \in Others : j = k
  <2> DEFINE r == Received(s)
             n == Len(replayed[s])
  <2>1. after[s] \in Nat /\ n \in Nat /\ DOMAIN replayed[s] = 1 .. n
    BY <1>1 DEF StreamInv, TypeOK
  <2>2. DOMAIN r \subseteq Nat \ {0}
    <3>1. replayed[s] \in Seq(Nat) /\ forwarded[s] \in Seq(Nat)
      BY <1>1 DEF StreamInv, TypeOK
    <3>2. QED
      BY <3>1, ConcatDomain, Zenon DEF Received
  <2>3. \A i \in DOMAIN r : \/ i <= n /\ r[i] = after[s] + i
                            \/ i > n /\ r[i] \notin old[s]
    BY <1>1, <2>1, ReceivedParts
  <2>4. ASSUME NEW i \in DOMAIN r, NEW j \in DOMAIN r, r[i] = r[j], i > n, j > n
        PROVE  i = j
    <3>1. i \notin DOMAIN replayed[s] /\ j \notin DOMAIN replayed[s]
      <4> HIDE DEF n
      <4>1. QED
        BY <2>1, <2>2, <2>4
    <3>2. /\ i - n \in DOMAIN forwarded[s] /\ r[i] = forwarded[s][i - n]
          /\ r[i] \in Nat
      BY <1>1, <3>1, ReceivedParts
    <3>3. /\ j - n \in DOMAIN forwarded[s] /\ r[j] = forwarded[s][j - n]
          /\ r[j] \in Nat
      BY <1>1, <3>1, ReceivedParts
    <3>4. i \in Nat /\ j \in Nat
      BY <2>2
    <3>5. Ordered(forwarded[s], log)
      BY <1>1 DEF StreamInv, SentInv
    <3>6. i - n = j - n
      <4> DEFINE a == i - n
                 b == j - n
      <4> HIDE DEF r, n, a, b
      <4>1. a \in DOMAIN forwarded[s] /\ b \in DOMAIN forwarded[s]
        BY <3>2, <3>3 DEF a, b
      <4>2. forwarded[s][a] = forwarded[s][b] /\ forwarded[s][a] \in Nat
        BY <2>4, <3>2, <3>3 DEF a, b
      <4>3. a \in Int /\ b \in Int
        BY <2>1, <3>4 DEF a, b
      <4>4. ~(a < b) /\ ~(b < a)
        BY <3>5, <4>1, <4>2 DEF Ordered
      <4>5. a = b
        BY <4>3, <4>4
      <4>6. QED
        BY <4>5 DEF a, b
    <3>7. QED
      <4> HIDE DEF n
      <4>1. QED
        BY <2>1, <3>4, <3>6
  <2>5. ASSUME NEW i \in DOMAIN r, NEW j \in DOMAIN r, r[i] = r[j], i <= n, j <= n
        PROVE  i = j
    <3> HIDE DEF r, n
    <3>1. r[i] = after[s] + i /\ r[j] = after[s] + j
      BY <2>1, <2>2, <2>3, <2>5
    <3>2. after[s] + i = after[s] + j /\ i \in Nat /\ j \in Nat
      BY <2>2, <2>5, <3>1
    <3>3. QED
      BY <2>1, <3>2
  <2>6. ASSUME NEW i \in DOMAIN r, r[i] <= after[s] \/ \E j \in DOMAIN r \ {i} : r[j] = r[i]
        PROVE  r[i] \notin old[s]
    <3> HIDE DEF r, n
    <3>1. i \in Nat /\ n \in Nat
      BY <2>1, <2>2
    <3>2. CASE i > n
      BY <2>3, <3>1, <3>2
    <3>3. CASE i <= n
      <4>1. i \in Nat \ {0} /\ r[i] = after[s] + i
        BY <2>3, <2>2, <3>1, <3>3
      <4>2. PICK j \in DOMAIN r \ {i} : r[j] = r[i]
        BY <2>1, <2>6, <4>1
      <4>3. j \in Nat /\ j > n
        BY <2>1, <2>2, <2>5, <3>3, <4>2
      <4>4. QED
        BY <2>3, <3>1, <4>2, <4>3
    <3>4. QED
      BY <3>1, <3>2, <3>3
  <2>7. ASSUME NEW i \in DOMAIN r,
               NEW j \in DOMAIN r \ {i}, NEW k \in DOMAIN r \ {i},
               r[j] = r[i], r[k] = r[i]
        PROVE  j = k
    <3> HIDE DEF r, n
    <3>1. i \in Nat /\ j \in Nat /\ k \in Nat /\ n \in Nat
      BY <2>1, <2>2
    <3>2. CASE i <= n
      BY <2>4, <2>5, <2>7, <3>1, <3>2
    <3>3. CASE i > n
      BY <2>4, <2>5, <2>7, <3>1, <3>3
    <3>4. QED
      BY <3>1, <3>2, <3>3
  <2>8. QED
    <3> HIDE DEF r, n
    <3>1. QED
      BY <2>6, <2>7 DEF r
<1>2. StreamInv => RepeatsOnlyInFlight
  BY <1>1 DEF RepeatsOnlyInFlight
<1>3. QED
  BY <1>2, StreamInvariant, PTL

(* Of two events of one author a client sees the first of them first.      *)
THEOREM AuthorOrderHolds == Spec => []AuthorOrder
<1>1. ASSUME StreamInv, NEW s \in Streams,
             NEW i \in DOMAIN Received(s), NEW j \in DOMAIN Received(s),
             i < j,
             log[Received(s)[i]] = log[Received(s)[j]],
             after[s] < Received(s)[j],
             Received(s)[j] < Received(s)[i]
      PROVE  \E k \in 1 .. i - 1 : Received(s)[k] = Received(s)[j]
  <2> DEFINE r == Received(s)
             n == Len(replayed[s])
  <2>1. /\ after[s] \in Nat /\ n \in Nat /\ DOMAIN replayed[s] = 1 .. n
        /\ replayed[s] \in Seq(Nat) /\ forwarded[s] \in Seq(Nat)
    BY <1>1 DEF StreamInv, TypeOK
  <2>2. i \in Nat /\ j \in Nat
    BY <1>1, <2>1 DEF Received
  <2>3. ~(i > n)
    <3> SUFFICES ASSUME i > n PROVE FALSE
      OBVIOUS
    <3>1. i \notin DOMAIN replayed[s] /\ j \notin DOMAIN replayed[s]
      <4> HIDE DEF n
      <4>1. j > n
        BY <1>1, <2>1, <2>2
      <4>2. QED
        BY <2>1, <2>2, <4>1
    <3>2. /\ i - n \in DOMAIN forwarded[s] /\ r[i] = forwarded[s][i - n]
          /\ r[i] \in Nat
      BY <1>1, <3>1, ReceivedParts
    <3>3. /\ j - n \in DOMAIN forwarded[s] /\ r[j] = forwarded[s][j - n]
          /\ r[j] \in Nat
      BY <1>1, <3>1, ReceivedParts
    <3>4. i - n < j - n
      BY <1>1, <2>1, <2>2
    <3>5. r[i] < r[j]
      BY <1>1, <3>2, <3>3, <3>4 DEF StreamInv, SentInv, Ordered
    <3>6. QED
      BY <1>1, <3>2, <3>3, <3>5
  <2>4. r[i] = after[s] + i /\ i \in DOMAIN replayed[s]
    BY <1>1, <2>1, <2>2, <2>3, ReceivedParts
  <2>5. r[j] \in Nat
    BY <1>1, <2>1, <2>2, ReceivedParts
  <2>6. PICK k \in Nat : r[j] = after[s] + k
    <3>1. r[j] - after[s] \in Nat /\ r[j] = after[s] + (r[j] - after[s])
      BY <1>1, <2>1, <2>5
    <3>2. QED
      BY <3>1
  <2>7. k \in 1 .. i - 1 /\ k \in DOMAIN replayed[s]
    BY <1>1, <2>1, <2>2, <2>4, <2>6
  <2>8. r[k] = after[s] + k
    <3>1. r[k] = replayed[s][k]
      BY <2>1, <2>7, ConcatLeft, Zenon DEF Received
    <3>2. QED
      BY <1>1, <2>7, <3>1 DEF StreamInv, ReplayInv
  <2>9. QED
    BY <2>6, <2>7, <2>8
<1>2. StreamInv => AuthorOrder
  BY <1>1 DEF AuthorOrder
<1>3. QED
  BY <1>2, StreamInvariant, PTL
=============================================================================
