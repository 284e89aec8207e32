------------------------- MODULE AgentSessionProofs -------------------------
(***************************************************************************)
(* Proofs about AgentSession, for any number of sessions, events and       *)
(* reports: the variables keep their types, the run's log tells its        *)
(* sessions in order, what the agent reported is stored before Run returns *)
(* a verdict, and a verdict of the inline model answers the instruction.   *)
(***************************************************************************)
EXTENDS AgentSession, SequenceTheorems, WellFoundedInduction, TLAPS

Polling == {"poll", "reading", "wait"}
BeforeVerdict == {"append started", "followup"} \union Polling
Storing == {"events", "artifacts", "findings", "finish"}

SessionType ==
  [message : Messages, canceled : BOOLEAN,
   completion : Seq(RawEvents), stream : Seq(RawEvents)]

RequestType ==
  {NoRequest, [at |-> "sent"]}
    \union [at : {"completing"}, prompt : Messages]
    \union [at : {"answered"}, raw : Seq(RawEvents)]

RunType(n) ==
  [at : BeforeVerdict \union Storing,
   session : 1 .. n, late : BOOLEAN, raw : Seq(RawEvents), next : Nat]

ResultType == {Pending, Error} \union [kind : Outcomes, event : RawEvents]

-----------------------------------------------------------------------------
(* The inductive invariant, in five parts *)

Instructed(message) == message # <<>> /\ message[1] = "instruction"

(* An event says that the model could not be asked only with the outcome   *)
(* "failed", and the inline server completes only what it was instructed   *)
(* to do.                                                                  *)
SoundEvent(e) ==
  /\ e.report.error => e.report.parses /\ e.report.outcome = "failed"
  /\ dsh = "inline" /\ e.kind = "agent.completed" => Instructed(e.message)

(* What may be read of a session: no more than the events of an external   *)
(* DSH, or the one line of the inline server.                              *)
SoundEvents(raw) ==
  /\ Len(raw) <= MaxEvents + 1
  /\ \A i \in DOMAIN raw : SoundEvent(raw[i])

(* DSH answers with sound events. The inline server is only asked for the  *)
(* events of a session that was instructed; guidance comes on top of the   *)
(* instruction, and what a stop forgets nobody asks for any more.          *)
DshInv ==
  /\ dsh \in {"inline", "external"}
  /\ session \in [Sessions -> SessionType]
  /\ request \in [Sessions -> RequestType]
  /\ \A s \in Sessions :
       /\ SoundEvents(session[s].completion)
       /\ SoundEvents(session[s].stream) /\ Len(session[s].stream) <= MaxEvents
       /\ request[s].at = "answered" => SoundEvents(request[s].raw)
       /\ dsh = "inline" =>
            /\ request[s].at = "sent" => Instructed(session[s].message)
            /\ request[s].at = "completing" => Instructed(request[s].prompt)
  /\ dsh = "inline" /\ run.at \in Polling => Instructed(session[run.session].message)

(* The item at hand is one of the items, if there are any.                 *)
InRange(items) == run.next # 0 /\ (run.next = 1 \/ run.next <= Len(items))

FinalReport == FinalEvent.report

(* Run works on the session that was created last, and stores only what    *)
(* has a completed event.                                                  *)
RunInv ==
  /\ created \in 0 .. MaxSessions
  /\ run \in {Idle} \union RunType(created)
  /\ run.at # "idle" => run.session = created /\ SoundEvents(run.raw)
  /\ run.at \in BeforeVerdict => run.next = 1
  /\ run.at \in Storing => IsCompleted(run.raw)
  /\ run.at = "events" => InRange(run.raw)
  /\ run.at = "artifacts" => InRange(ReportedArtifacts(FinalReport))
  /\ run.at = "findings" => InRange(ReportedFindings(FinalReport))

(* The least number that the next entry of the log can have.               *)
NextEntry ==
  IF run.at = "append started" THEN Started
  ELSE IF run.at \in {"followup"} \union Polling THEN Started + 1
  ELSE IF run.at = "events" THEN run.next
  ELSE Completed

LogType == [session : 1 .. created, event : Nat]

LogInv ==
  /\ log \in Seq(LogType)
  /\ LogInOrder
  /\ run.at # "idle" =>
       \A i \in DOMAIN log : log[i].session = created => log[i].event < NextEntry

(* The latest version of an artifact is of the session created last.       *)
Kept(name) ==
  artifact[name] # <<>> /\ artifact[name][Len(artifact[name])] = created

(* Of the artifacts, and of the findings, of a report, those before an     *)
(* item are stored.                                                        *)
ArtifactsKept(report, bound) ==
  \A i \in DOMAIN ReportedArtifacts(report) :
    i < bound /\ report.artifacts[i] # Blank => Kept(report.artifacts[i])

FindingsKept(report, bound) ==
  \A i \in DOMAIN ReportedFindings(report) :
    i < bound /\ report.findings[i] # Blank =>
      [session |-> created, class |-> report.findings[i]] \in finding

All(items) == Len(items) + 1

StoreInv ==
  /\ artifact \in [Names \ {Blank} -> Seq(1 .. created)]
  /\ finding \subseteq [session : 1 .. created, class : Classes \ {Blank}]
  /\ run.at = "artifacts" => ArtifactsKept(FinalReport, run.next)
  /\ run.at \in {"findings", "finish"} =>
       ArtifactsKept(FinalReport, All(ReportedArtifacts(FinalReport)))
  /\ run.at = "findings" => FindingsKept(FinalReport, run.next)
  /\ run.at = "finish" =>
       FindingsKept(FinalReport, All(ReportedFindings(FinalReport)))

VerdictInv ==
  /\ result \in [Sessions -> ResultType]
  /\ \A s \in Sessions : s > created => ~HasVerdict(s)
  /\ ReportBeforeVerdict
  /\ OwnAnswer

SessionInv == DshInv /\ RunInv /\ LogInv /\ StoreInv /\ VerdictInv

-----------------------------------------------------------------------------
(* Messages, events and reports *)

(* The messages that a session has: none, the instruction, and guidance    *)
(* after what there was.                                                   *)
LEMMA MessagesTyped ==
  /\ <<>> \in Messages
  /\ <<"instruction">> \in Messages /\ Instructed(<<"instruction">>)
  /\ \A m \in Messages :
       /\ Len(m) < MaxMessage => Steered(m) \in Messages
       /\ Instructed(m) => Instructed(Steered(m))
<1> DEFINE Words == {"instruction", "steer"}
<1>1. MaxMessage \in Nat \ {0}
  BY SessionAssumption
<1>2. <<>> \in Messages
  <2>1. <<>> \in [1 .. 0 -> Words] /\ 0 \in 0 .. MaxMessage
    BY <1>1
  <2>. QED BY <2>1 DEF Messages
<1>3. <<"instruction">> \in Messages /\ Instructed(<<"instruction">>)
  <2>1. <<"instruction">> \in [1 .. 1 -> Words] /\ 1 \in 0 .. MaxMessage
    BY <1>1
  <2>. QED BY <2>1 DEF Messages, Instructed
<1>4. ASSUME NEW m \in Messages
      PROVE  /\ Len(m) < MaxMessage => Steered(m) \in Messages
             /\ Instructed(m) => Instructed(Steered(m))
  <2>1. PICK n \in 0 .. MaxMessage : m \in [1 .. n -> Words]
    BY DEF Messages
  <2>2. n \in Nat
    BY <1>1
  <2>3. m \in Seq(Words) /\ Len(m) = n
    BY <2>1, <2>2
  <2>4. /\ Steered(m) \in Seq(Words) /\ Len(Steered(m)) = n + 1
        /\ \A i \in 1 .. n : Steered(m)[i] = m[i]
    BY <2>3, AppendProperties DEF Steered
  <2>5. Steered(m) \in [1 .. n + 1 -> Words]
    BY <2>4, LenProperties
  <2>6. ASSUME Len(m) < MaxMessage
        PROVE  Steered(m) \in Messages
    <3>1. n + 1 \in 0 .. MaxMessage
      BY <1>1, <2>2, <2>3, <2>6
    <3>. QED BY <2>5, <3>1 DEF Messages
  <2>7. ASSUME Instructed(m)
        PROVE  Instructed(Steered(m))
    <3>1. n # 0
      BY <2>3, <2>7, EmptySeq DEF Instructed
    <3>2. Steered(m)[1] = m[1] /\ Steered(m) # <<>>
      BY <2>2, <2>4, <3>1
    <3>. QED BY <2>7, <3>2 DEF Instructed
  <2>. QED BY <2>6, <2>7
<1>. QED BY <1>2, <1>3, <1>4

(* A set of places of a sequence has a last one.                           *)
LEMMA LastPlace ==
  ASSUME NEW n \in Nat, NEW T \in SUBSET (1 .. n), T # {}
  PROVE  \E i \in T : \A j \in T : j <= i
<1> DEFINE D == {n - i : i \in T}
<1>1. D \subseteq Nat /\ D # {}
  <2>1. \A i \in T : n - i \in Nat
    OBVIOUS
  <2>2. PICK i \in T : TRUE
    OBVIOUS
  <2>3. n - i \in D
    BY <2>2
  <2>. QED BY <2>1, <2>3
<1>2. PICK d \in D : \A e \in D : ~(<<e, d>> \in OpToRel(<, Nat))
  BY <1>1, NatLessThanWellFounded, WFMin
<1>3. \A e \in D : ~(e < d)
  BY <1>1, <1>2 DEF OpToRel
<1>4. PICK i \in T : d = n - i
  BY <1>2
<1>5. ASSUME NEW j \in T
      PROVE  j <= i
  <2>1. ~(n - j < n - i)
    BY <1>3, <1>4
  <2>. QED BY <2>1
<1>. QED BY <1>5

(* findCompleted finds a completed event where there is one.               *)
LEMMA FinalEventIsCompleted ==
  ASSUME run.raw \in Seq(RawEvents), IsCompleted(run.raw)
  PROVE  \E i \in DOMAIN run.raw :
           FinalEvent = run.raw[i] /\ run.raw[i].kind = "agent.completed"
<1> DEFINE T == {i \in DOMAIN run.raw : run.raw[i].kind = "agent.completed"}
           IsLast(i) == /\ run.raw[i].kind = "agent.completed"
                        /\ \A j \in DOMAIN run.raw :
                             run.raw[j].kind = "agent.completed" => j <= i
<1>1. DOMAIN run.raw = 1 .. Len(run.raw) /\ Len(run.raw) \in Nat
  BY LenProperties
<1>2. T \in SUBSET (1 .. Len(run.raw)) /\ T # {}
  BY <1>1 DEF IsCompleted
<1>3. \E i \in T : \A j \in T : j <= i
  BY <1>1, <1>2, LastPlace
<1>4. \E i \in DOMAIN run.raw : IsLast(i)
  BY <1>3
<1>5. FinalEvent = run.raw[CHOOSE i \in DOMAIN run.raw : IsLast(i)]
  BY DEF FinalEvent
<1>6. (CHOOSE i \in DOMAIN run.raw : IsLast(i)) \in DOMAIN run.raw
      /\ IsLast(CHOOSE i \in DOMAIN run.raw : IsLast(i))
  <2> HIDE DEF IsLast
  <2>. QED BY <1>4
<1>. QED BY <1>5, <1>6

(* What reduceOutcome makes of any data is an outcome with items of the    *)
(* reports.                                                                *)
LEMMA ReportsTyped ==
  ASSUME NEW r \in AllReports
  PROVE  /\ Kind(r) \in Outcomes
         /\ ReportedArtifacts(r) \in Seq(STRING) /\ ReportedFindings(r) \in Seq(STRING)
         /\ \A i \in DOMAIN ReportedArtifacts(r) :
              ReportedArtifacts(r)[i] = r.artifacts[i] /\ r.artifacts[i] \in Names
         /\ \A i \in DOMAIN ReportedFindings(r) :
              ReportedFindings(r)[i] = r.findings[i] /\ r.findings[i] \in Classes
<1>1. Kind(r) \in Outcomes
  BY DEF Kind, Outcomes
<1>2. CASE r \in Reports
  <2>1. r.artifacts \in Seq(STRING) /\ r.findings \in Seq(STRING)
    BY <1>2, SessionAssumption
  <2>2. /\ \A i \in DOMAIN r.artifacts : r.artifacts[i] \in Names
        /\ \A i \in DOMAIN r.findings : r.findings[i] \in Classes
    BY <1>2 DEF Names, Classes
  <2>3. CASE r.parses
    BY <1>1, <2>1, <2>2, <2>3 DEF ReportedArtifacts, ReportedFindings, Items
  <2>4. CASE ~r.parses
    BY <1>1, <2>4 DEF ReportedArtifacts, ReportedFindings, Items
  <2>. QED BY <2>3, <2>4
<1>3. CASE r \notin Reports
  <2>1. r.artifacts = <<>> /\ r.findings = <<>>
    BY <1>3 DEF AllReports
  <2>2. ReportedArtifacts(r) = <<>> /\ ReportedFindings(r) = <<>>
    BY <2>1 DEF ReportedArtifacts, ReportedFindings, Items
  <2>3. <<>> \in Seq(STRING) /\ DOMAIN <<>> = {}
    BY EmptySeq
  <2>4. /\ ReportedArtifacts(r) \in Seq(STRING) /\ ReportedFindings(r) \in Seq(STRING)
        /\ DOMAIN ReportedArtifacts(r) = {} /\ DOMAIN ReportedFindings(r) = {}
    BY <2>2, <2>3, Zenon
  <2>. QED BY <1>1, <2>4
<1>. QED BY <1>2, <1>3

(* A model that could not be asked has failed.                             *)
LEMMA ErrorsFail ==
  ASSUME NEW r, r.error => r.parses /\ r.outcome = "failed"
  PROVE  r.error => Kind(r) = "failed"
  BY DEF Kind, Outcomes

-----------------------------------------------------------------------------
(* What stays when its variables stay *)

LEMMA DshStays ==
  ASSUME DshInv, UNCHANGED <<dsh, session, request>>,
         run'.at \in Polling => run.at \in Polling /\ run'.session = run.session
  PROVE  DshInv'
  BY DEF DshInv, SoundEvents, SoundEvent

(* The next entry of the log has a number.                                 *)
LEMMA NextEntryTyped ==
  ASSUME RunInv, run.at # "idle"
  PROVE  NextEntry \in Nat
<1>1. run \in RunType(created)
  BY DEF RunInv, Idle
<1>2. run.next \in Nat /\ MaxEvents \in Nat
  BY <1>1, SessionAssumption DEF RunType
<1>3. Started \in Nat /\ Started + 1 \in Nat /\ Completed \in Nat
  BY <1>2 DEF Started, Completed
<1>4. NextEntry \in {Started, Started + 1, run.next, Completed}
  BY DEF NextEntry
<1>. QED BY <1>2, <1>3, <1>4

LEMMA LogStays ==
  ASSUME RunInv, LogInv, UNCHANGED <<log, created>>,
         \/ run'.at = "idle"
         \/ run.at # "idle" /\ NextEntry' \in Nat /\ NextEntry <= NextEntry'
  PROVE  LogInv'
<1>1. log' \in Seq(LogType') /\ LogInOrder'
  BY DEF LogInv, LogType, LogInOrder
<1>2. ASSUME run'.at # "idle", NEW i \in DOMAIN log, log[i].session = created
      PROVE  log[i].event < NextEntry'
  <2>1. log[i].event < NextEntry
    BY <1>2 DEF LogInv
  <2>2. log[i].event \in Nat
    <3>1. log[i] \in LogType
      BY LenProperties, ElementOfSeq DEF LogInv
    <3>. QED BY <3>1 DEF LogType
  <2>3. NextEntry \in Nat
    BY <1>2, NextEntryTyped
  <2>. QED BY <1>2, <2>1, <2>2, <2>3
<1>. QED BY <1>1, <1>2 DEF LogInv

(* An entry whose number is not below the next one joins the log, and the  *)
(* next number is above it.                                                *)
LEMMA LogGrows ==
  ASSUME RunInv, LogInv, run.at # "idle", UNCHANGED created,
         NEW n \in Nat, NextEntry <= n, log' = Append(log, Entry(n)),
         run'.at = "idle" \/ (NextEntry' \in Nat /\ n < NextEntry')
  PROVE  LogInv'
<1>1. run \in RunType(created) /\ run.session = created
  BY DEF RunInv, Idle
<1>2. Entry(n) \in LogType /\ Entry(n).session = created /\ Entry(n).event = n
  BY <1>1 DEF Entry, LogType, RunType
<1>3. log \in Seq(LogType) /\ Len(log) \in Nat /\ DOMAIN log = 1 .. Len(log)
  BY DEF LogInv
<1>4. /\ log' \in Seq(LogType) /\ Len(log') = Len(log) + 1 /\ DOMAIN log' = 1 .. Len(log) + 1
      /\ \A i \in 1 .. Len(log) : log'[i] = log[i]
      /\ log'[Len(log) + 1] = Entry(n)
  BY <1>2, <1>3, AppendProperties
<1>5. ASSUME NEW i \in 1 .. Len(log)
      PROVE  /\ log[i].session \in 1 .. created /\ log[i].event \in Nat
             /\ log[i].session < created \/ (log[i].session = created /\ log[i].event < n)
  <2>1. log[i].session \in 1 .. created /\ log[i].event \in Nat
    <3>1. log[i] \in LogType
      BY <1>3, ElementOfSeq
    <3>. QED BY <3>1 DEF LogType
  <2>2. created \in Nat /\ NextEntry \in Nat
    BY NextEntryTyped, SessionAssumption DEF RunInv
  <2>3. log[i].session = created => log[i].event < NextEntry
    BY <1>3 DEF LogInv
  <2>. QED BY <2>1, <2>2, <2>3
<1>6. LogInOrder'
  <2>1. ASSUME NEW i \in DOMAIN log', NEW j \in DOMAIN log', i < j
        PROVE  \/ log'[i].session < log'[j].session
               \/ log'[i].session = log'[j].session /\ log'[i].event < log'[j].event
    <3>1. i \in 1 .. Len(log)
      BY <1>3, <1>4, <2>1
    <3>2. CASE j \in 1 .. Len(log)
      BY <1>3, <1>4, <2>1, <3>1, <3>2 DEF LogInv, LogInOrder
    <3>3. CASE j = Len(log) + 1
      BY <1>2, <1>4, <1>5, <3>1, <3>3
    <3>. QED BY <1>3, <1>4, <3>2, <3>3
  <2>. QED BY <2>1 DEF LogInOrder
<1>7. ASSUME run'.at # "idle", NEW i \in DOMAIN log', log'[i].session = created
      PROVE  log'[i].event < NextEntry'
  <2>1. CASE i \in 1 .. Len(log)
    BY <1>4, <1>5, <1>7, <2>1
  <2>2. CASE i = Len(log) + 1
    BY <1>2, <1>4, <1>7, <2>2
  <2>. QED BY <1>3, <1>4, <2>1, <2>2
<1>. QED BY <1>4, <1>6, <1>7 DEF LogInv, LogType

LEMMA StoreStays ==
  ASSUME StoreInv, UNCHANGED <<created, artifact, finding>>,
         run'.at \notin {"artifacts", "findings", "finish"}
  PROVE  StoreInv'
  BY DEF StoreInv

LEMMA VerdictStays ==
  ASSUME VerdictInv, UNCHANGED <<dsh, created, result, artifact, finding>>
  PROVE  VerdictInv'
<1>1. \A s : HasVerdict(s)' <=> HasVerdict(s)
  BY DEF HasVerdict
<1>2. \A s, report : Stored(s, report)' <=> Stored(s, report)
  BY DEF Stored
<1>3. ReportBeforeVerdict'
  BY <1>1, <1>2 DEF VerdictInv, ReportBeforeVerdict
<1>4. OwnAnswer'
  BY <1>1 DEF VerdictInv, OwnAnswer
<1>. QED BY <1>1, <1>3, <1>4 DEF VerdictInv

(* An error takes no verdict's place that has to stay, and is none itself. *)
LEMMA ErrorIsNoVerdict ==
  ASSUME VerdictInv, UNCHANGED <<dsh, created, artifact, finding>>,
         NEW c \in Sessions, result' = [result EXCEPT ![c] = Error]
  PROVE  VerdictInv'
<1>1. result \in [Sessions -> ResultType] /\ Error \in ResultType /\ Error.kind = "error"
  BY DEF VerdictInv, ResultType, Error
<1>2. result' \in [Sessions -> ResultType]
  BY <1>1
<1>3. ASSUME NEW s \in Sessions, HasVerdict(s)'
      PROVE  HasVerdict(s) /\ result'[s] = result[s]
  BY <1>1, <1>3 DEF HasVerdict
<1>4. \A s, report : Stored(s, report)' <=> Stored(s, report)
  BY DEF Stored
<1>5. ReportBeforeVerdict'
  BY <1>3, <1>4 DEF VerdictInv, ReportBeforeVerdict
<1>6. OwnAnswer'
  BY <1>3 DEF VerdictInv, OwnAnswer
<1>7. \A s \in Sessions : s > created' => ~HasVerdict(s)'
  BY <1>3 DEF VerdictInv
<1>. QED BY <1>2, <1>5, <1>6, <1>7 DEF VerdictInv

(* Only DSH moves.                                                         *)
LEMMA RunnerStays ==
  ASSUME SessionInv, UNCHANGED <<dsh, created, run, result, stored>>, DshInv'
  PROVE  SessionInv'
<1>1. UNCHANGED <<dsh, created, run, result, log, artifact, finding>>
  BY DEF stored
<1>2. FinalEvent' = FinalEvent
  BY <1>1 DEF FinalEvent
<1>3. RunInv'
  BY <1>1, <1>2 DEF SessionInv, RunInv, SoundEvents, SoundEvent, IsCompleted, InRange, FinalReport
<1>4. LogInv'
  BY <1>1 DEF SessionInv, LogInv, LogType, LogInOrder, NextEntry
<1>5. StoreInv'
  BY <1>1, <1>2 DEF SessionInv, StoreInv, ArtifactsKept, FindingsKept, Kept, FinalReport
<1>6. VerdictInv'
  BY <1>1, VerdictStays DEF SessionInv
<1>. QED BY <1>3, <1>4, <1>5, <1>6 DEF SessionInv

(* Run returns an error.                                                   *)
LEMMA ErrorKeeps ==
  ASSUME SessionInv, run.at # "idle", ReturnError, UNCHANGED <<dsh, created, stored>>, DshInv'
  PROVE  SessionInv'
<1>1. RunInv /\ LogInv /\ StoreInv /\ VerdictInv
  BY DEF SessionInv
<1>2. /\ UNCHANGED <<dsh, created, log, artifact, finding>>
      /\ run' = Idle /\ result' = [result EXCEPT ![run.session] = Error]
  BY DEF ReturnError, stored
<1>3. run'.at = "idle"
  BY <1>2 DEF Idle
<1>4. run.session \in Sessions
  <2>1. run \in RunType(created) /\ run.session = created /\ created \in 0 .. MaxSessions
    BY <1>1 DEF RunInv, Idle
  <2>. QED BY <2>1, SessionAssumption DEF RunType, Sessions
<1>5. RunInv'
  BY <1>1, <1>2, <1>3 DEF RunInv, BeforeVerdict, Storing, Polling
<1>6. LogInv'
  BY <1>1, <1>2, <1>3, LogStays
<1>7. StoreInv'
  BY <1>1, <1>2, <1>3, StoreStays
<1>8. VerdictInv'
  BY <1>1, <1>2, <1>4, ErrorIsNoVerdict
<1>. QED BY <1>5, <1>6, <1>7, <1>8 DEF SessionInv

-----------------------------------------------------------------------------
(* DSH *)

(* What one session keeps changes, and the request for its events: the     *)
(* events stay sound, and who asks or is asked is instructed.              *)
LEMMA OneSessionChanges ==
  ASSUME DshInv, UNCHANGED dsh, NEW s \in Sessions,
         NEW new \in SessionType, session' = [session EXCEPT ![s] = new],
         NEW req \in RequestType, request' = [request EXCEPT ![s] = req],
         SoundEvents(new.completion),
         SoundEvents(new.stream), Len(new.stream) <= MaxEvents,
         req.at = "answered" => SoundEvents(req.raw),
         dsh = "inline" /\ req.at = "sent" => Instructed(new.message),
         dsh = "inline" /\ req.at = "completing" => Instructed(req.prompt),
         dsh = "inline" /\ run'.at \in Polling =>
           IF run'.session = s THEN Instructed(new.message)
                               ELSE run.at \in Polling /\ run'.session = run.session
  PROVE  DshInv'
<1>1. /\ session \in [Sessions -> SessionType] /\ request \in [Sessions -> RequestType]
      /\ dsh \in {"inline", "external"}
  BY DEF DshInv
<1>2. session' \in [Sessions -> SessionType] /\ request' \in [Sessions -> RequestType]
  BY <1>1
<1>3. \A raw : SoundEvents(raw)' <=> SoundEvents(raw)
  BY DEF SoundEvents, SoundEvent
<1>4. ASSUME NEW t \in Sessions
      PROVE  /\ SoundEvents(session'[t].completion)
             /\ SoundEvents(session'[t].stream) /\ Len(session'[t].stream) <= MaxEvents
             /\ request'[t].at = "answered" => SoundEvents(request'[t].raw)
             /\ dsh = "inline" =>
                  /\ request'[t].at = "sent" => Instructed(session'[t].message)
                  /\ request'[t].at = "completing" => Instructed(request'[t].prompt)
  <2>1. CASE t = s
    <3>1. session'[t] = new /\ request'[t] = req
      BY <1>1, <2>1
    <3>. QED BY <3>1
  <2>2. CASE t # s
    <3>1. session'[t] = session[t] /\ request'[t] = request[t]
      BY <1>1, <2>2
    <3>. QED BY <3>1 DEF DshInv
  <2>. QED BY <2>1, <2>2
<1>5. ASSUME dsh = "inline", run'.at \in Polling
      PROVE  Instructed(session'[run'.session].message)
  <2>1. CASE run'.session = s
    <3>1. session'[run'.session] = new
      BY <1>1, <2>1
    <3>. QED BY <1>5, <2>1, <3>1
  <2>2. CASE run'.session # s
    <3>1. session'[run'.session] = session[run.session]
      BY <1>1, <1>5, <2>2
    <3>. QED BY <1>5, <2>2, <3>1 DEF DshInv
  <2>. QED BY <2>1, <2>2
<1>. QED BY <1>1, <1>2, <1>3, <1>4, <1>5 DEF DshInv

(* What is known of one session and of the request for its events.         *)
LEMMA SessionTyped ==
  ASSUME DshInv, NEW s \in Sessions
  PROVE  /\ session[s] \in SessionType /\ request[s] \in RequestType
         /\ session[s].message \in Messages
         /\ session[s].completion \in Seq(RawEvents) /\ session[s].stream \in Seq(RawEvents)
         /\ request[s].at = "answered" => request[s].raw \in Seq(RawEvents)
         /\ request[s].at = "completing" => request[s].prompt \in Messages
         /\ request = [request EXCEPT ![s] = request[s]]
         /\ session = [session EXCEPT ![s] = session[s]]
<1>1. session \in [Sessions -> SessionType] /\ request \in [Sessions -> RequestType]
  BY DEF DshInv
<1>2. session[s] \in SessionType /\ request[s] \in RequestType
  BY <1>1
<1>3. /\ session[s].message \in Messages
      /\ session[s].completion \in Seq(RawEvents) /\ session[s].stream \in Seq(RawEvents)
  BY <1>2 DEF SessionType
<1>4. /\ request[s].at = "answered" => request[s].raw \in Seq(RawEvents)
      /\ request[s].at = "completing" => request[s].prompt \in Messages
  BY <1>2 DEF RequestType, NoRequest
<1>5. request = [request EXCEPT ![s] = request[s]] /\ session = [session EXCEPT ![s] = session[s]]
  BY <1>1
<1>. QED BY <1>2, <1>3, <1>4, <1>5

(* A single line is sound if its event is.                                 *)
LEMMA OneLine ==
  ASSUME NEW e \in RawEvents, SoundEvent(e)
  PROVE  <<e>> \in Seq(RawEvents) /\ SoundEvents(<<e>>)
<1>1. <<e>> \in Seq(RawEvents) /\ Len(<<e>>) = 1 /\ DOMAIN <<e>> = {1} /\ <<e>>[1] = e
  OBVIOUS
<1>2. MaxEvents \in Nat
  BY SessionAssumption
<1>. QED BY <1>1, <1>2 DEF SoundEvents

(* NoReport, and what the inline server writes, are reports.               *)
LEMMA InlineReportsTyped ==
  /\ NoReport \in AllReports /\ NoReport.error = FALSE
  /\ \A report \in {InlineReport(o, FALSE) : o \in Texts} \union {InlineReport("failed", TRUE)} :
       /\ report \in AllReports
       /\ report.error => report.parses /\ report.outcome = "failed"
<1>1. \A o \in Texts \union {"", "failed"} :
        \A e \in BOOLEAN :
          /\ InlineReport(o, e) \in AllReports /\ InlineReport(o, e).error = e
          /\ InlineReport(o, e).outcome = o /\ InlineReport(o, e).parses
  BY DEF InlineReport, AllReports
<1>2. NoReport \in AllReports /\ NoReport.error = FALSE
  BY <1>1 DEF NoReport
<1>. QED BY <1>1, <1>2

LEMMA DshKeeps ==
  ASSUME SessionInv, NEW s \in Sessions,
         \/ Steer(s) \/ CancelSession(s) \/ ReadSession(s) \/ RunCompletion(s)
         \/ Emit(s) \/ ServeStream(s)
  PROVE  SessionInv'
<1>1. DshInv /\ UNCHANGED <<dsh, created, run, result, stored>>
  BY DEF SessionInv, Steer, CancelSession, ReadSession, RunCompletion, Emit, ServeStream
<1>2. /\ session[s] \in SessionType /\ request[s] \in RequestType
      /\ session[s].message \in Messages
      /\ session[s].completion \in Seq(RawEvents) /\ session[s].stream \in Seq(RawEvents)
      /\ request[s].at = "answered" => request[s].raw \in Seq(RawEvents)
      /\ request[s].at = "completing" => request[s].prompt \in Messages
      /\ request = [request EXCEPT ![s] = request[s]]
      /\ session = [session EXCEPT ![s] = session[s]]
  BY <1>1, SessionTyped
<1>3. /\ SoundEvents(session[s].completion)
      /\ SoundEvents(session[s].stream) /\ Len(session[s].stream) <= MaxEvents
      /\ request[s].at = "answered" => SoundEvents(request[s].raw)
      /\ dsh = "inline" /\ request[s].at = "sent" => Instructed(session[s].message)
      /\ dsh = "inline" /\ request[s].at = "completing" => Instructed(request[s].prompt)
      /\ dsh = "inline" /\ run.at \in Polling => Instructed(session[run.session].message)
  BY <1>1 DEF DshInv
<1>4. ASSUME Steer(s)
      PROVE  DshInv'
  <2> DEFINE new == [session[s] EXCEPT !.message = Steered(session[s].message)]
  <2>1. Steered(session[s].message) \in Messages
    BY <1>2, <1>4, MessagesTyped DEF Steer
  <2>2. /\ new \in SessionType /\ new.message = Steered(session[s].message)
        /\ new.completion = session[s].completion /\ new.stream = session[s].stream
    BY <1>2, <2>1 DEF SessionType
  <2>3. Instructed(session[s].message) => Instructed(new.message)
    BY <1>2, <2>2, MessagesTyped
  <2>4. session' = [session EXCEPT ![s] = new] /\ request' = [request EXCEPT ![s] = request[s]]
    BY <1>2, <1>4 DEF Steer
  <2> HIDE DEF new
  <2>. QED BY <1>1, <1>2, <1>3, <2>2, <2>3, <2>4, OneSessionChanges
<1>5. ASSUME CancelSession(s)
      PROVE  DshInv'
  <2> DEFINE new == [session[s] EXCEPT !.canceled = TRUE]
  <2>1. /\ new \in SessionType /\ new.message = session[s].message
        /\ new.completion = session[s].completion /\ new.stream = session[s].stream
    BY <1>2 DEF SessionType
  <2>2. session' = [session EXCEPT ![s] = new] /\ request' = [request EXCEPT ![s] = request[s]]
    BY <1>2, <1>5 DEF CancelSession
  <2> HIDE DEF new
  <2>. QED BY <1>1, <1>2, <1>3, <2>1, <2>2, OneSessionChanges
<1>6. ASSUME NEW req \in RequestType, request' = [request EXCEPT ![s] = req],
             UNCHANGED session,
             req.at = "answered" => SoundEvents(req.raw),
             dsh = "inline" /\ req.at = "sent" => Instructed(session[s].message),
             dsh = "inline" /\ req.at = "completing" => Instructed(req.prompt)
      PROVE  DshInv'
  <2>1. session' = [session EXCEPT ![s] = session[s]]
    BY <1>2, <1>6
  <2>. QED BY <1>1, <1>2, <1>3, <1>6, <2>1, OneSessionChanges
<1>7. ASSUME NEW raw \in Seq(RawEvents), SoundEvents(raw), Answer(s, raw), UNCHANGED session
      PROVE  DshInv'
  <2> DEFINE req == [at |-> "answered", raw |-> raw]
  <2>1. req \in RequestType /\ req.at = "answered" /\ req.raw = raw
    BY DEF RequestType
  <2>2. request' = [request EXCEPT ![s] = req]
    BY <1>7 DEF Answer
  <2> HIDE DEF req
  <2>. QED BY <1>6, <1>7, <2>1, <2>2
<1>8. ASSUME ReadSession(s)
      PROVE  DshInv'
  <2>1. dsh = "inline" /\ request[s].at = "sent" /\ UNCHANGED session
    BY <1>8 DEF ReadSession
  <2>2. CASE Answer(s, <<Raw(UnknownKind, NoReport, <<>>)>>)
    <3> DEFINE e == Raw(UnknownKind, NoReport, <<>>)
    <3>1. e.report = NoReport /\ e.kind = UnknownKind /\ e \in RawEvents
      BY InlineReportsTyped, MessagesTyped DEF Raw, RawEvents
    <3>2. SoundEvent(e)
      BY <3>1, InlineReportsTyped DEF SoundEvent, UnknownKind
    <3>3. <<e>> \in Seq(RawEvents) /\ SoundEvents(<<e>>)
      BY <3>1, <3>2, OneLine
    <3> HIDE DEF e
    <3>4. Answer(s, <<e>>)
      BY <2>2 DEF e
    <3>. QED BY <1>7, <2>1, <3>3, <3>4
  <2>3. CASE Answer(s, session[s].completion)
    BY <1>2, <1>3, <1>7, <2>1, <2>3
  <2>4. CASE request' = [request EXCEPT ![s] =
                           [at |-> "completing", prompt |-> session[s].message]]
    <3> DEFINE req == [at |-> "completing", prompt |-> session[s].message]
    <3>1. req \in RequestType /\ req.at = "completing" /\ req.prompt = session[s].message
      BY <1>2 DEF RequestType
    <3>2. Instructed(session[s].message)
      BY <1>3, <2>1
    <3>3. request' = [request EXCEPT ![s] = req]
      BY <2>4
    <3> HIDE DEF req
    <3>. QED BY <1>6, <2>1, <3>1, <3>2, <3>3
  <2>. QED BY <1>8, <2>2, <2>3, <2>4 DEF ReadSession
<1>9. ASSUME RunCompletion(s)
      PROVE  DshInv'
  <2>1. request[s].at = "completing"
    BY <1>9 DEF RunCompletion
  <2>2. PICK report \in {InlineReport(o, FALSE) : o \in Texts} \union {InlineReport("failed", TRUE)} :
           LET line == <<Raw("agent.completed", report, request[s].prompt)>> IN
           /\ session' = [session EXCEPT ![s].completion = line]
           /\ Answer(s, line)
    BY <1>9 DEF RunCompletion
  <2> DEFINE e == Raw("agent.completed", report, request[s].prompt)
             line == <<e>>
             new == [session[s] EXCEPT !.completion = line]
             req == [at |-> "answered", raw |-> line]
  <2>3. report \in AllReports /\ (report.error => report.parses /\ report.outcome = "failed")
    BY InlineReportsTyped
  <2>4. e.report = report /\ e.message = request[s].prompt /\ e \in RawEvents
    BY <1>2, <2>1, <2>3 DEF Raw, RawEvents, KnownKinds
  <2>5. SoundEvent(e)
    BY <1>3, <2>1, <2>3, <2>4 DEF SoundEvent
  <2>6. line \in Seq(RawEvents) /\ SoundEvents(line)
    <3> HIDE DEF e
    <3>. QED BY <2>4, <2>5, OneLine
  <2>7. session' = [session EXCEPT ![s] = new] /\ request' = [request EXCEPT ![s] = req]
    BY <1>2, <2>2 DEF Answer
  <2> HIDE DEF e, line
  <2>8. /\ new \in SessionType /\ new.completion = line
        /\ new.message = session[s].message /\ new.stream = session[s].stream
    BY <1>2, <2>6 DEF SessionType
  <2>9. req \in RequestType /\ req.at = "answered" /\ req.raw = line
    BY <2>6 DEF RequestType
  <2> HIDE DEF new, req
  <2>. QED BY <1>1, <1>3, <2>6, <2>7, <2>8, <2>9, OneSessionChanges
<1>10. ASSUME Emit(s)
       PROVE  DshInv'
  <2>1. PICK kind \in KnownKinds \union {UnknownKind} :
          \E report \in IF kind = "agent.completed" THEN Reports ELSE {NoReport} :
            session' = [session EXCEPT ![s].stream =
                          Append(@, Raw(kind, report, session[s].message))]
    BY <1>10 DEF Emit
  <2>2. PICK report \in IF kind = "agent.completed" THEN Reports ELSE {NoReport} :
            session' = [session EXCEPT ![s].stream =
                          Append(@, Raw(kind, report, session[s].message))]
    BY <2>1
  <2> DEFINE e == Raw(kind, report, session[s].message)
             stream == Append(session[s].stream, e)
             new == [session[s] EXCEPT !.stream = stream]
  <2>3. report \in AllReports /\ report.error = FALSE
    BY <2>2, InlineReportsTyped, SessionAssumption DEF AllReports
  <2>4. e.report = report /\ e \in RawEvents
    BY <1>2, <2>3 DEF Raw, RawEvents
  <2>5. dsh # "inline" /\ Len(session[s].stream) < MaxEvents
    BY <1>10 DEF Emit
  <2>6. SoundEvent(e)
    BY <2>3, <2>4, <2>5 DEF SoundEvent
  <2> HIDE DEF e
  <2>7. /\ stream \in Seq(RawEvents) /\ Len(stream) = Len(session[s].stream) + 1
        /\ Len(session[s].stream) \in Nat /\ DOMAIN stream = 1 .. Len(session[s].stream) + 1
        /\ DOMAIN session[s].stream = 1 .. Len(session[s].stream)
        /\ \A i \in 1 .. Len(session[s].stream) : stream[i] = session[s].stream[i]
        /\ stream[Len(session[s].stream) + 1] = e
    BY <1>2, <2>4, AppendProperties, LenProperties
  <2>8. Len(stream) <= MaxEvents /\ SoundEvents(stream)
    <3>1. MaxEvents \in Nat
      BY SessionAssumption
    <3>2. Len(stream) <= MaxEvents /\ Len(stream) <= MaxEvents + 1
      BY <2>5, <2>7, <3>1
    <3>3. ASSUME NEW i \in DOMAIN stream
          PROVE  SoundEvent(stream[i])
      <4>1. CASE i \in 1 .. Len(session[s].stream)
        BY <1>3, <2>7, <4>1 DEF SoundEvents
      <4>2. CASE i = Len(session[s].stream) + 1
        BY <2>6, <2>7, <4>2
      <4>. QED BY <2>7, <4>1, <4>2
    <3>. QED BY <3>2, <3>3 DEF SoundEvents
  <2>9. /\ new \in SessionType /\ new.stream = stream
        /\ new.message = session[s].message /\ new.completion = session[s].completion
    <3> HIDE DEF stream
    <3>. QED BY <1>2, <2>7 DEF SessionType
  <2>10. session' = [session EXCEPT ![s] = new] /\ request' = [request EXCEPT ![s] = request[s]]
    BY <1>2, <1>10, <2>2 DEF Emit, e
  <2> HIDE DEF stream, new
  <2>. QED BY <1>1, <1>2, <1>3, <2>8, <2>9, <2>10, OneSessionChanges
<1>11. ASSUME ServeStream(s)
       PROVE  DshInv'
  BY <1>2, <1>3, <1>7, <1>11 DEF ServeStream
<1>. QED BY <1>1, <1>4, <1>5, <1>8, <1>9, <1>10, <1>11, RunnerStays

-----------------------------------------------------------------------------
(* Run up to the events of a completed session *)

(* What is known of a run that is under way.                               *)
LEMMA RunTyped ==
  ASSUME RunInv, run.at # "idle"
  PROVE  /\ run \in RunType(created) /\ run.session = created
         /\ created \in 1 .. MaxSessions /\ created \in Sessions
         /\ run.raw \in Seq(RawEvents) /\ SoundEvents(run.raw)
         /\ run.next \in Nat /\ run.late \in BOOLEAN
<1>1. run \in RunType(created) /\ run.session = created /\ SoundEvents(run.raw)
  BY DEF RunInv, Idle
<1>2. run.session \in 1 .. created /\ run.raw \in Seq(RawEvents) /\ run.next \in Nat
      /\ run.late \in BOOLEAN
  BY <1>1 DEF RunType
<1>3. created \in 0 .. MaxSessions /\ MaxSessions \in Nat
  BY SessionAssumption DEF RunInv
<1>. QED BY <1>1, <1>2, <1>3 DEF Sessions

(* Run goes from one place to another before it has a completed event.     *)
LEMMA RunMoves ==
  ASSUME SessionInv, run.at \in BeforeVerdict, NEW place \in BeforeVerdict,
         NEW late \in BOOLEAN, run' = [run EXCEPT !.at = place, !.late = late],
         UNCHANGED <<dsh, created, result, artifact, finding>>,
         DshInv', LogInv'
  PROVE  SessionInv'
<1>1. run.at # "idle"
  BY DEF BeforeVerdict, Polling
<1>2. RunInv /\ StoreInv /\ VerdictInv
  BY DEF SessionInv
<1>3. run \in RunType(created) /\ run.session = created /\ SoundEvents(run.raw) /\ run.next = 1
  BY <1>1, <1>2, RunTyped DEF RunInv
<1>4. /\ run' \in RunType(created) /\ run'.at = place /\ run'.session = created
      /\ run'.raw = run.raw /\ run'.next = 1
  BY <1>3 DEF RunType
<1>5. place \notin Storing /\ place # "idle"
  BY DEF BeforeVerdict, Polling, Storing
<1>6. SoundEvents(run.raw)'
  BY <1>3, <1>4 DEF SoundEvents, SoundEvent
<1>7. RunInv'
  BY <1>2, <1>4, <1>5, <1>6 DEF RunInv, Storing
<1>8. StoreInv'
  BY <1>2, <1>4, <1>5, StoreStays DEF Storing
<1>9. VerdictInv'
  BY <1>2, VerdictStays
<1>. QED BY <1>7, <1>8, <1>9 DEF SessionInv

LEMMA CreateSessionKeeps ==
  ASSUME SessionInv, CreateSession
  PROVE  SessionInv'
<1>1. DshInv /\ RunInv /\ LogInv /\ StoreInv /\ VerdictInv
  BY DEF SessionInv
<1>2. /\ run.at = "idle" /\ created < MaxSessions /\ created' = created + 1
      /\ UNCHANGED <<dsh, session, request, log, artifact, finding>>
  BY DEF CreateSession, dshVars, stored
<1>3. /\ created \in Nat /\ created' \in 1 .. MaxSessions /\ created' \in Sessions
      /\ 1 .. created \subseteq 1 .. created' /\ MaxSessions \in Nat
  BY <1>1, <1>2, SessionAssumption DEF RunInv, Sessions
<1>4. \/ /\ run' = [at |-> "append started", session |-> created + 1, late |-> FALSE,
                    raw |-> <<>>, next |-> 1]
         /\ result' = result
      \/ /\ run' = run
         /\ result' = [result EXCEPT ![created + 1] = Error]
  BY DEF CreateSession
<1>5. ASSUME NEW raw, raw = <<>>,
             run' = [at |-> "append started", session |-> created + 1, late |-> FALSE,
                     raw |-> raw, next |-> 1]
      PROVE  /\ run' \in RunType(created') /\ run'.at = "append started"
             /\ run'.session = created' /\ run'.raw = raw /\ run'.next = 1
  <2>1. raw \in Seq(RawEvents)
    BY <1>5, EmptySeq
  <2>2. run' = [at |-> "append started", session |-> created + 1, late |-> FALSE,
                raw |-> raw, next |-> 1]
    BY <1>5
  <2>3. "append started" \in BeforeVerdict \union Storing
    BY DEF BeforeVerdict
  <2>4. created + 1 \in 1 .. created' /\ created + 1 = created'
    BY <1>2, <1>3
  <2>. QED BY <2>1, <2>2, <2>3, <2>4 DEF RunType
<1>6. run'.at \in {"append started", "idle"}
  <2>1. ASSUME run' = run
        PROVE  run'.at = "idle"
    BY <1>2, <2>1
  <2>. QED BY <1>4, <1>5, <2>1
<1>7. RunInv'
  <2>1. CASE run' = [at |-> "append started", session |-> created + 1, late |-> FALSE,
                     raw |-> <<>>, next |-> 1]
    <3>1. /\ run' \in RunType(created') /\ run'.at = "append started"
          /\ run'.session = created' /\ run'.raw = <<>> /\ run'.next = 1
      BY <1>5, <2>1
    <3>2. SoundEvents(run.raw)'
      <4>1. Len(<<>>) = 0 /\ DOMAIN <<>> = {}
        BY EmptySeq
      <4>2. Len(run'.raw) = 0 /\ DOMAIN run'.raw = {}
        BY <3>1, <4>1, Zenon
      <4>3. MaxEvents \in Nat
        BY SessionAssumption
      <4>. QED BY <4>2, <4>3 DEF SoundEvents
    <3>3. created' \in 0 .. MaxSessions
      BY <1>3
    <3>. QED BY <3>1, <3>2, <3>3 DEF RunInv, Storing
  <2>2. CASE run' = run
    <3>1. run'.at = "idle" /\ run' = Idle
      <4>1. run.at \notin BeforeVerdict \union Storing
        BY <1>2 DEF BeforeVerdict, Storing, Polling
      <4>. QED BY <1>1, <1>2, <2>2, <4>1 DEF RunInv, RunType
    <3>. QED BY <1>3, <3>1 DEF RunInv, BeforeVerdict, Storing, Polling
  <2>. QED BY <1>4, <2>1, <2>2
<1>11. DshInv'
  BY <1>1, <1>2, <1>6, DshStays DEF Polling
<1>8. LogInv'
  <2>1. log \in Seq(LogType) /\ LogType \subseteq LogType'
    BY <1>1, <1>3 DEF LogInv, LogType
  <2>2. log' \in Seq(LogType')
    BY <1>2, <2>1, SeqMonotonic
  <2>3. LogInOrder'
    BY <1>1, <1>2 DEF LogInv, LogInOrder
  <2>4. \A i \in DOMAIN log : log[i].session # created'
    <3>1. ASSUME NEW i \in DOMAIN log
          PROVE  log[i].session \in 1 .. created
      <4>1. log[i] \in LogType
        BY <2>1, LenProperties, ElementOfSeq
      <4>. QED BY <4>1 DEF LogType
    <3>. QED BY <1>2, <1>3, <3>1
  <2>. QED BY <1>2, <2>2, <2>3, <2>4 DEF LogInv
<1>9. StoreInv'
  <2>1. /\ artifact \in [Names \ {Blank} -> Seq(1 .. created)]
        /\ finding \subseteq [session : 1 .. created, class : Classes \ {Blank}]
    BY <1>1 DEF StoreInv
  <2>2. artifact \in [Names \ {Blank} -> Seq(1 .. created')]
    <3>1. \A n \in Names \ {Blank} : artifact[n] \in Seq(1 .. created')
      BY <1>3, <2>1, SeqMonotonic
    <3>. QED BY <2>1, <3>1
  <2>3. finding \subseteq [session : 1 .. created', class : Classes \ {Blank}]
    BY <1>3, <2>1
  <2>. QED BY <1>2, <1>6, <2>2, <2>3 DEF StoreInv
<1>10. VerdictInv'
  <2>1. result \in [Sessions -> ResultType] /\ Error \in ResultType /\ Error.kind = "error"
    BY <1>1 DEF VerdictInv, ResultType, Error
  <2>2. result' \in [Sessions -> ResultType]
    BY <1>4, <2>1
  <2>3. ASSUME NEW s \in Sessions, HasVerdict(s)'
        PROVE  HasVerdict(s) /\ result'[s] = result[s] /\ s <= created
    <3>1. HasVerdict(s) /\ result'[s] = result[s]
      BY <1>4, <2>1, <2>3 DEF HasVerdict
    <3>2. ~(s > created) /\ s \in Nat
      BY <1>1, <3>1 DEF VerdictInv, Sessions
    <3>. QED BY <1>3, <3>1, <3>2
  <2>4. \A s \in Sessions : \A r : s <= created /\ Stored(s, r) => Stored(s, r)'
    BY <1>2, <1>3 DEF Stored, Sessions
  <2>5. ReportBeforeVerdict'
    BY <1>1, <2>3, <2>4 DEF VerdictInv, ReportBeforeVerdict
  <2>6. OwnAnswer'
    BY <1>1, <1>2, <2>3 DEF VerdictInv, OwnAnswer
  <2>7. \A s \in Sessions : s > created' => ~HasVerdict(s)'
    BY <1>2, <1>3, <2>3 DEF Sessions
  <2>. QED BY <2>2, <2>5, <2>6, <2>7 DEF VerdictInv
<1>. QED BY <1>7, <1>8, <1>9, <1>10, <1>11 DEF SessionInv

LEMMA AppendStartedKeeps ==
  ASSUME SessionInv, AppendStarted
  PROVE  SessionInv'
<1>1. run.at = "append started" /\ UNCHANGED <<created, dsh, session, request, artifact, finding>>
  BY DEF AppendStarted, dshVars
<1>2. RunInv /\ LogInv /\ DshInv
  BY DEF SessionInv
<1>3. run \in RunType(created) /\ run.late \in BOOLEAN
  BY <1>1, <1>2, RunTyped
<1>4. CASE log' = Append(log, Entry(Started)) /\ run' = At("followup") /\ UNCHANGED result
  <2>1. run' = [run EXCEPT !.at = "followup", !.late = run.late]
    BY <1>3, <1>4 DEF At, RunType
  <2>2. run'.at = "followup"
    BY <1>3, <1>4 DEF At, RunType
  <2>3. NextEntry = Started
    BY <1>1 DEF NextEntry, Started, Polling
  <2>4. NextEntry' = Started + 1
    <3>1. NextEntry' = Started' + 1
      BY <2>2 DEF NextEntry, Polling
    <3>. QED BY <3>1 DEF Started
  <2>5. LogInv'
    <3>1. Started \in Nat /\ Started + 1 \in Nat /\ Started <= Started /\ Started < Started + 1
      BY DEF Started
    <3>. QED BY <1>1, <1>2, <1>4, <2>3, <2>4, <3>1, LogGrows
  <2>6. DshInv'
    BY <1>1, <1>2, <2>2, DshStays DEF Polling
  <2>7. run.at \in BeforeVerdict /\ "followup" \in BeforeVerdict
    BY <1>1 DEF BeforeVerdict
  <2>. QED BY <1>1, <1>3, <1>4, <2>1, <2>5, <2>6, <2>7, RunMoves
<1>5. CASE ReturnError /\ UNCHANGED log
  <2>1. run'.at = "idle"
    BY <1>5 DEF ReturnError, Idle
  <2>2. DshInv'
    BY <1>1, <1>2, <2>1, DshStays DEF Polling
  <2>. QED BY <1>1, <1>5, <2>2, ErrorKeeps DEF stored
<1>. QED BY <1>4, <1>5 DEF AppendStarted

(* Between the follow-up and the completed event, the next entry of the    *)
(* log is the first event.                                                 *)
LEMMA PollingKeepsLog ==
  ASSUME RunInv, LogInv, run.at \in {"followup"} \union Polling,
         run'.at \in {"followup"} \union Polling, UNCHANGED <<log, created>>
  PROVE  LogInv'
<1>1. run.at # "append started" /\ run'.at # "append started" /\ run.at # "idle"
  BY DEF Polling
<1>2. NextEntry = Started + 1
  BY <1>1 DEF NextEntry, Started, Polling
<1>3. NextEntry' = Started + 1
  <2>1. NextEntry' = Started' + 1
    BY <1>1 DEF NextEntry, Started, Polling
  <2>. QED BY <2>1 DEF Started
<1>4. Started + 1 \in Nat /\ Started + 1 <= Started + 1
  BY DEF Started
<1>. QED BY <1>1, <1>2, <1>3, <1>4, LogStays

LEMMA SendFollowupKeeps ==
  ASSUME SessionInv, SendFollowup
  PROVE  SessionInv'
<1>1. /\ run.at = "followup" /\ Followup(run.session)
      /\ UNCHANGED <<dsh, created, request, log, artifact, finding>>
  BY DEF SendFollowup, stored
<1>2. RunInv /\ LogInv /\ DshInv
  BY DEF SessionInv
<1>3. run \in RunType(created) /\ run.late \in BOOLEAN /\ run.session \in Sessions
  BY <1>1, <1>2, RunTyped
<1> DEFINE s == run.session
           new == [session[s] EXCEPT !.message = <<"instruction">>, !.completion = <<>>]
<1>4. /\ session[s] \in SessionType /\ request[s] \in RequestType
      /\ request[s].at = "completing" => request[s].prompt \in Messages
      /\ request = [request EXCEPT ![s] = request[s]]
  BY <1>2, <1>3, SessionTyped
<1>5. /\ SoundEvents(session[s].stream) /\ Len(session[s].stream) <= MaxEvents
      /\ request[s].at = "answered" => SoundEvents(request[s].raw)
      /\ dsh = "inline" /\ request[s].at = "completing" => Instructed(request[s].prompt)
  BY <1>2, <1>3 DEF DshInv
<1>6. <<>> \in Seq(RawEvents) /\ SoundEvents(<<>>)
  <2>1. <<>> \in Seq(RawEvents) /\ Len(<<>>) = 0 /\ DOMAIN <<>> = {}
    BY EmptySeq
  <2>2. MaxEvents \in Nat
    BY SessionAssumption
  <2>. QED BY <2>1, <2>2 DEF SoundEvents
<1>7. /\ new \in SessionType /\ new.stream = session[s].stream
      /\ new.message = <<"instruction">> /\ new.completion = <<>>
  BY <1>4, <1>6, MessagesTyped DEF SessionType
<1>8. Instructed(new.message)
  BY <1>7, MessagesTyped
<1>9. session' = [session EXCEPT ![s] = new]
  <2>1. session \in [Sessions -> SessionType]
    BY <1>2 DEF DshInv
  <2>. QED BY <1>1, <1>3, <2>1 DEF Followup
<1>10. request' = [request EXCEPT ![s] = request[s]]
  BY <1>1, <1>4
<1>11. ASSUME run'.at \in Polling => run'.session = s
       PROVE  DshInv'
  <2> HIDE DEF new, s
  <2>1. s \in Sessions
    BY <1>3 DEF s
  <2>. QED BY <1>1, <1>2, <1>4, <1>5, <1>6, <1>7, <1>8, <1>9, <1>10, <1>11, <2>1, OneSessionChanges
<1>12. CASE run' = At("poll") /\ UNCHANGED result
  <2>1. run' = [run EXCEPT !.at = "poll", !.late = run.late]
    BY <1>3, <1>12 DEF At, RunType
  <2>2. run'.at = "poll" /\ run'.session = s
    BY <1>3, <1>12 DEF At, RunType
  <2>3. LogInv'
    BY <1>1, <1>2, <2>2, PollingKeepsLog DEF Polling
  <2>4. DshInv'
    BY <1>11, <2>2
  <2>5. run.at \in BeforeVerdict /\ "poll" \in BeforeVerdict
    BY <1>1 DEF BeforeVerdict, Polling
  <2>. QED BY <1>1, <1>3, <1>12, <2>1, <2>3, <2>4, <2>5, RunMoves
<1>13. CASE ReturnError
  <2>1. run'.at = "idle"
    BY <1>13 DEF ReturnError, Idle
  <2>2. DshInv'
    BY <1>11, <2>1 DEF Polling
  <2>. QED BY <1>1, <1>13, <2>2, ErrorKeeps DEF stored
<1>. QED BY <1>12, <1>13 DEF SendFollowup

LEMMA AskEventsKeeps ==
  ASSUME SessionInv, AskEvents
  PROVE  SessionInv'
<1>1. /\ run.at = "poll" /\ run' = At("reading")
      /\ request' = [request EXCEPT ![run.session] = [at |-> "sent"]]
      /\ UNCHANGED <<dsh, created, session, result, log, artifact, finding>>
  BY DEF AskEvents, stored
<1>2. RunInv /\ LogInv /\ DshInv
  BY DEF SessionInv
<1>3. run \in RunType(created) /\ run.late \in BOOLEAN /\ run.session \in Sessions
  BY <1>1, <1>2, RunTyped
<1>4. run' = [run EXCEPT !.at = "reading", !.late = run.late]
  BY <1>1, <1>3 DEF At, RunType
<1>5. run'.at = "reading" /\ run'.session = run.session
  BY <1>1, <1>3 DEF At, RunType
<1>6. LogInv'
  BY <1>1, <1>2, <1>5, PollingKeepsLog DEF Polling
<1>7. DshInv'
  <2> DEFINE s == run.session
  <2>1. /\ session[s] \in SessionType /\ session = [session EXCEPT ![s] = session[s]]
    BY <1>2, <1>3, SessionTyped
  <2>2. /\ SoundEvents(session[s].completion)
        /\ SoundEvents(session[s].stream) /\ Len(session[s].stream) <= MaxEvents
        /\ dsh = "inline" => Instructed(session[s].message)
    BY <1>1, <1>2, <1>3 DEF DshInv, Polling
  <2>3. [at |-> "sent"] \in RequestType /\ [at |-> "sent"].at = "sent"
    BY DEF RequestType
  <2>4. session' = [session EXCEPT ![s] = session[s]]
    BY <1>1, <2>1
  <2>. QED BY <1>1, <1>2, <1>3, <1>5, <2>1, <2>2, <2>3, <2>4, OneSessionChanges
<1>8. run.at \in BeforeVerdict /\ "reading" \in BeforeVerdict
  BY <1>1 DEF BeforeVerdict, Polling
<1>. QED BY <1>1, <1>3, <1>4, <1>6, <1>7, <1>8, RunMoves

LEMMA CallFailsKeeps ==
  ASSUME SessionInv, CallFails
  PROVE  SessionInv'
<1>1. /\ run.at # "idle" /\ ReturnError /\ UNCHANGED <<dsh, created, session, request, stored>>
  BY DEF CallFails, dshVars
<1>2. DshInv'
  BY <1>1, DshStays DEF SessionInv, ReturnError, Idle, Polling
<1>. QED BY <1>1, <1>2, ErrorKeeps

(* The ticker and the deadline change nothing but the place.               *)
LEMMA WaitingKeeps ==
  ASSUME SessionInv, Wait \/ BudgetSpent
  PROVE  SessionInv'
<1>1. /\ run.at \in Polling
      /\ UNCHANGED <<dsh, created, session, request, result, log, artifact, finding>>
  BY DEF Wait, BudgetSpent, dshVars, stored, Polling
<1>2. RunInv /\ LogInv /\ DshInv
  BY DEF SessionInv
<1>3. run \in RunType(created) /\ run.late \in BOOLEAN
  BY <1>1, <1>2, RunTyped DEF Polling
<1>4. PICK place \in Polling, late \in BOOLEAN : run' = [run EXCEPT !.at = place, !.late = late]
  <2>1. CASE Wait
    <3>1. run' = [run EXCEPT !.at = "poll", !.late = run.late]
      BY <1>3, <2>1 DEF Wait, At, RunType
    <3>. QED BY <1>3, <3>1 DEF Polling
  <2>2. CASE BudgetSpent
    <3>1. run' = [run EXCEPT !.at = run.at, !.late = TRUE]
      BY <1>3, <2>2 DEF BudgetSpent, RunType
    <3>. QED BY <1>1, <3>1
  <2>. QED BY <2>1, <2>2
<1>5. run'.at = place /\ run'.session = run.session
  BY <1>3, <1>4 DEF RunType
<1>6. LogInv'
  BY <1>1, <1>2, <1>5, PollingKeepsLog
<1>7. DshInv'
  BY <1>1, <1>2, <1>5, DshStays
<1>8. run.at \in BeforeVerdict /\ place \in BeforeVerdict
  BY <1>1 DEF BeforeVerdict
<1>. QED BY <1>1, <1>4, <1>6, <1>7, <1>8, RunMoves

LEMMA ReceiveEventsKeeps ==
  ASSUME SessionInv, ReceiveEvents
  PROVE  SessionInv'
<1> DEFINE s == run.session
           raw == request[s].raw
<1>1. /\ run.at = "reading" /\ request[s].at = "answered" /\ AfterPoll(raw)
      /\ request' = [request EXCEPT ![s] = NoRequest]
      /\ UNCHANGED <<dsh, created, session, log, artifact, finding>>
  BY DEF ReceiveEvents, AfterPoll
<1>2. RunInv /\ LogInv /\ DshInv /\ StoreInv /\ VerdictInv
  BY DEF SessionInv
<1>3. run \in RunType(created) /\ run.late \in BOOLEAN /\ s = created /\ s \in Sessions
  BY <1>1, <1>2, RunTyped
<1>4. raw \in Seq(RawEvents) /\ SoundEvents(raw)
  <2>1. raw \in Seq(RawEvents)
    BY <1>1, <1>2, <1>3, SessionTyped
  <2>. QED BY <1>1, <1>2, <1>3, <2>1 DEF DshInv
<1>5. ASSUME run'.at \in Polling => run'.session = s
      PROVE  DshInv'
  <2>1. /\ session[s] \in SessionType /\ session = [session EXCEPT ![s] = session[s]]
    BY <1>2, <1>3, SessionTyped
  <2>2. /\ SoundEvents(session[s].completion)
        /\ SoundEvents(session[s].stream) /\ Len(session[s].stream) <= MaxEvents
        /\ dsh = "inline" => Instructed(session[s].message)
    BY <1>1, <1>2, <1>3 DEF DshInv, Polling
  <2>3. NoRequest \in RequestType /\ NoRequest.at = "none"
    BY DEF RequestType, NoRequest
  <2>4. session' = [session EXCEPT ![s] = session[s]]
    BY <1>1, <2>1
  <2> HIDE DEF s
  <2>. QED BY <1>1, <1>2, <1>3, <1>5, <2>1, <2>2, <2>3, <2>4, OneSessionChanges
<1>6. ASSUME IsCompleted(raw), run' = [run EXCEPT !.at = "events", !.raw = raw], UNCHANGED result
      PROVE  SessionInv'
  <2>1. run.next = 1
    BY <1>1, <1>2 DEF RunInv, BeforeVerdict, Polling
  <2>2. /\ run' \in RunType(created) /\ run'.at = "events" /\ run'.session = created
        /\ run'.raw = raw /\ run'.next = 1
    BY <1>3, <1>4, <1>6, <2>1 DEF RunType, Storing
  <2>3. DshInv'
    BY <1>5, <2>2 DEF Polling
  <2>4. RunInv'
    <3>1. SoundEvents(run.raw)'
      BY <1>1, <1>4, <2>2 DEF SoundEvents, SoundEvent
    <3>2. IsCompleted(run'.raw) /\ InRange(run.raw)'
      BY <1>6, <2>2 DEF InRange
    <3>3. IsCompleted(run.raw)'
      BY <3>2 DEF IsCompleted
    <3>. QED BY <1>1, <1>2, <2>2, <3>1, <3>2, <3>3 DEF RunInv, BeforeVerdict, Storing, Polling
  <2>5. LogInv'
    <3>1. NextEntry = 1 /\ NextEntry' = 1
      BY <1>1, <2>2 DEF NextEntry, Started, Polling
    <3>. QED BY <1>1, <1>2, <3>1, LogStays
  <2>6. StoreInv'
    BY <1>1, <1>2, <2>2, StoreStays
  <2>7. VerdictInv'
    BY <1>1, <1>2, <1>6, VerdictStays
  <2>. QED BY <2>3, <2>4, <2>5, <2>6, <2>7 DEF SessionInv
<1>7. ASSUME ReturnError
      PROVE  SessionInv'
  <2>1. DshInv'
    BY <1>5, <1>7 DEF ReturnError, Idle, Polling
  <2>. QED BY <1>1, <1>7, <2>1, ErrorKeeps DEF stored
<1>8. ASSUME run' = At("wait"), UNCHANGED result
      PROVE  SessionInv'
  <2>1. run' = [run EXCEPT !.at = "wait", !.late = run.late]
    BY <1>3, <1>8 DEF At, RunType
  <2>2. run'.at = "wait" /\ run'.session = s
    BY <1>3, <1>8 DEF At, RunType
  <2>3. LogInv'
    BY <1>1, <1>2, <2>2, PollingKeepsLog DEF Polling
  <2>4. DshInv'
    BY <1>5, <2>2
  <2>5. run.at \in BeforeVerdict /\ "wait" \in BeforeVerdict
    BY <1>1 DEF BeforeVerdict, Polling
  <2>. QED BY <1>1, <1>3, <1>8, <2>1, <2>3, <2>4, <2>5, RunMoves
<1>. QED BY <1>1, <1>6, <1>7, <1>8 DEF AfterPoll

LEMMA StopKeeps ==
  ASSUME SessionInv, Stop
  PROVE  SessionInv'
<1>1. /\ run.at # "idle" /\ ReturnError /\ UNCHANGED <<dsh, created, stored>>
      /\ request' = [s \in Sessions |-> NoRequest]
      /\ session' = IF dsh = "inline" THEN [s \in Sessions |-> NewSession] ELSE session
  BY DEF Stop
<1>2. DshInv
  BY DEF SessionInv
<1>3. run'.at = "idle"
  BY <1>1 DEF ReturnError, Idle
<1>4. /\ NewSession \in SessionType /\ NewSession.completion = <<>> /\ NewSession.stream = <<>>
  BY MessagesTyped, EmptySeq DEF NewSession, SessionType
<1>5. SoundEvents(<<>>) /\ Len(<<>>) <= MaxEvents
  <2>1. Len(<<>>) = 0 /\ DOMAIN <<>> = {}
    BY EmptySeq
  <2>2. MaxEvents \in Nat
    BY SessionAssumption
  <2>. QED BY <2>1, <2>2 DEF SoundEvents
<1>6. \A raw : SoundEvents(raw)' <=> SoundEvents(raw)
  BY <1>1 DEF SoundEvents, SoundEvent
<1>7. session' \in [Sessions -> SessionType]
  BY <1>1, <1>2, <1>4 DEF DshInv
<1>8. \A s \in Sessions : /\ SoundEvents(session'[s].completion)
                          /\ SoundEvents(session'[s].stream) /\ Len(session'[s].stream) <= MaxEvents
  <2>1. CASE dsh = "inline"
    BY <1>1, <1>4, <1>5, <2>1
  <2>2. CASE dsh # "inline"
    BY <1>1, <1>2, <2>2 DEF DshInv
  <2>. QED BY <2>1, <2>2
<1>9. request' \in [Sessions -> RequestType] /\ \A s \in Sessions : request'[s].at = "none"
  BY <1>1 DEF RequestType, NoRequest
<1>10. DshInv'
  BY <1>1, <1>2, <1>3, <1>6, <1>7, <1>8, <1>9 DEF DshInv, Polling
<1>. QED BY <1>1, <1>10, ErrorKeeps

-----------------------------------------------------------------------------
(* What Run stores *)

(* What is known of the completed event and of what it reports.            *)
LEMMA FinalReportTyped ==
  ASSUME RunInv, run.at \in Storing
  PROVE  /\ FinalEvent \in RawEvents /\ SoundEvent(FinalEvent)
         /\ FinalEvent.kind = "agent.completed"
         /\ FinalReport \in AllReports /\ Len(run.raw) \in Nat /\ Len(run.raw) # 0
         /\ ReportedArtifacts(FinalReport) \in Seq(STRING)
         /\ ReportedFindings(FinalReport) \in Seq(STRING)
<1>1. run.at # "idle" /\ IsCompleted(run.raw)
  BY DEF RunInv, Storing
<1>2. run.raw \in Seq(RawEvents) /\ SoundEvents(run.raw)
  BY <1>1, RunTyped
<1>3. PICK i \in DOMAIN run.raw :
        FinalEvent = run.raw[i] /\ run.raw[i].kind = "agent.completed"
  BY <1>1, <1>2, FinalEventIsCompleted
<1>4. FinalEvent \in RawEvents
  BY <1>2, <1>3, LenProperties, ElementOfSeq
<1>5. SoundEvent(FinalEvent)
  BY <1>2, <1>3 DEF SoundEvents
<1>6. FinalReport \in AllReports
  BY <1>4 DEF RawEvents, FinalReport
<1>7. Len(run.raw) \in Nat /\ Len(run.raw) # 0
  BY <1>2, <1>3, LenProperties
<1>. QED BY <1>3, <1>4, <1>5, <1>6, <1>7, ReportsTyped

(* A loop goes on to the next item or, after the last one, to the next     *)
(* place.                                                                  *)
LEMMA NextItemMoves ==
  ASSUME RunInv, run.at \in Storing, NEW items, Len(items) \in Nat, InRange(items),
         NEW place \in Storing, run' = NextItem(items, place)
  PROVE  /\ run' \in RunType(created)
         /\ run'.session = run.session /\ run'.raw = run.raw
         /\ \/ run.next < Len(items) /\ run'.at = run.at /\ run'.next = run.next + 1
            \/ run.next >= Len(items) /\ run'.at = place /\ run'.next = 1
<1>1. run \in RunType(created) /\ run.next \in Nat
  BY RunTyped DEF Storing
<1>2. CASE run.next < Len(items)
  <2>1. run' = [run EXCEPT !.next = run.next + 1]
    BY <1>2 DEF NextItem
  <2>2. run.next + 1 \in Nat
    BY <1>1
  <2>3. run' \in RunType(created)
    BY <1>1, <2>1, <2>2 DEF RunType
  <2>4. /\ run'.session = run.session /\ run'.raw = run.raw
        /\ run'.at = run.at /\ run'.next = run.next + 1
    BY <1>1, <2>1 DEF RunType
  <2>. QED BY <1>2, <2>3, <2>4
<1>3. CASE ~(run.next < Len(items))
  <2>1. run' = [run EXCEPT !.at = place, !.next = 1]
    BY <1>3 DEF NextItem
  <2>2. run.next >= Len(items)
    BY <1>1, <1>3
  <2>3. run' \in RunType(created)
    <3>1. place \in BeforeVerdict \union Storing /\ 1 \in Nat
      OBVIOUS
    <3>. QED BY <1>1, <2>1, <3>1 DEF RunType
  <2>4. run'.session = run.session /\ run'.raw = run.raw /\ run'.at = place /\ run'.next = 1
    BY <1>1, <2>1 DEF RunType
  <2>. QED BY <2>2, <2>3, <2>4
<1>. QED BY <1>2, <1>3

(* Run goes on storing, with an item at hand that is one of the items.     *)
LEMMA StoringRun ==
  ASSUME SessionInv, run.at \in Storing, UNCHANGED <<dsh, created, session, request>>,
         run' \in RunType(created), run'.at \in Storing,
         run'.session = run.session, run'.raw = run.raw,
         \/ run'.next = 1
         \/ run'.at = "events" /\ run'.next # 0 /\ run'.next <= Len(run.raw)
         \/ run'.at = "artifacts" /\ run'.next # 0
              /\ run'.next <= Len(ReportedArtifacts(FinalReport))
         \/ run'.at = "findings" /\ run'.next # 0
              /\ run'.next <= Len(ReportedFindings(FinalReport))
  PROVE  DshInv' /\ RunInv' /\ FinalReport' = FinalReport
<1>1. FinalEvent' = FinalEvent
  BY DEF FinalEvent
<1>2. FinalReport' = FinalReport
  BY <1>1 DEF FinalReport
<1>3. DshInv'
  <2>1. run'.at \notin Polling
    BY DEF Storing, Polling
  <2>. QED BY <2>1, DshStays DEF SessionInv
<1>4. RunInv /\ run.at # "idle" /\ IsCompleted(run.raw)
  BY DEF SessionInv, RunInv, Storing
<1>5. run'.session = created' /\ SoundEvents(run.raw)' /\ IsCompleted(run.raw)'
  <2>1. run.session = created /\ SoundEvents(run.raw)
    BY <1>4, RunTyped
  <2>. QED BY <1>4, <2>1 DEF SoundEvents, SoundEvent, IsCompleted
<1>6. /\ run'.at = "events" => InRange(run.raw)'
      /\ run'.at = "artifacts" => InRange(ReportedArtifacts(FinalReport))'
      /\ run'.at = "findings" => InRange(ReportedFindings(FinalReport))'
  BY <1>2 DEF InRange
<1>7. run'.at \notin BeforeVerdict
  BY DEF BeforeVerdict, Polling, Storing
<1>8. RunInv'
  BY <1>4, <1>5, <1>6, <1>7 DEF RunInv
<1>. QED BY <1>2, <1>3, <1>8

LEMMA PersistEventKeeps ==
  ASSUME SessionInv, PersistEvent
  PROVE  SessionInv'
<1>1. /\ run.at = "events" /\ run' = NextItem(run.raw, "artifacts")
      /\ UNCHANGED <<dsh, created, session, request, result, artifact, finding>>
  BY DEF PersistEvent, dshVars
<1>2. RunInv /\ LogInv /\ StoreInv /\ VerdictInv
  BY DEF SessionInv
<1>3. run.at \in Storing /\ "artifacts" \in Storing /\ run.at # "idle"
  BY <1>1 DEF Storing
<1>4. /\ Len(run.raw) \in Nat /\ Len(run.raw) # 0 /\ run.next \in Nat
      /\ Len(run.raw) <= MaxEvents + 1 /\ MaxEvents \in Nat
  BY <1>2, <1>3, FinalReportTyped, RunTyped, SessionAssumption DEF SoundEvents
<1>5. InRange(run.raw)
  BY <1>1, <1>2 DEF RunInv
<1>6. run.next # 0 /\ run.next <= Len(run.raw)
  BY <1>4, <1>5 DEF InRange
<1>7. /\ run' \in RunType(created) /\ run'.session = run.session /\ run'.raw = run.raw
      /\ \/ run.next < Len(run.raw) /\ run'.at = "events" /\ run'.next = run.next + 1
         \/ run'.at = "artifacts" /\ run'.next = 1
  BY <1>1, <1>2, <1>3, <1>4, <1>5, NextItemMoves
<1>8. DshInv' /\ RunInv' /\ FinalReport' = FinalReport
  <2>1. run'.at \in Storing
    BY <1>7 DEF Storing
  <2>2. \/ run'.next = 1
        \/ run'.at = "events" /\ run'.next # 0 /\ run'.next <= Len(run.raw)
    BY <1>4, <1>6, <1>7
  <2>. QED BY <1>1, <1>3, <1>7, <2>1, <2>2, StoringRun
<1>9. LogInv'
  <2>1. NextEntry = run.next
    BY <1>1 DEF NextEntry, Polling
  <2>2. NextEntry' \in {run.next + 1, MaxEvents + 2}
    BY <1>7 DEF NextEntry, Polling, Completed
  <2>3. NextEntry' \in Nat /\ run.next < NextEntry' /\ run.next <= NextEntry'
        /\ NextEntry <= run.next
    BY <1>4, <1>6, <2>1, <2>2
  <2>4. CASE log' = Append(log, Entry(run.next))
    BY <1>1, <1>2, <1>3, <1>4, <2>3, <2>4, LogGrows
  <2>5. CASE log' = log
    BY <1>1, <1>2, <1>3, <2>1, <2>3, <2>5, LogStays
  <2>. QED BY <2>4, <2>5 DEF PersistEvent
<1>10. StoreInv'
  <2>1. CASE run'.at = "events"
    BY <1>1, <1>2, <2>1, StoreStays
  <2>2. CASE run'.at = "artifacts" /\ run'.next = 1
    <3>1. ReportedArtifacts(FinalReport) \in Seq(STRING)
      BY <1>2, <1>3, FinalReportTyped
    <3>2. \A i \in DOMAIN ReportedArtifacts(FinalReport) : ~(i < 1)
      BY <3>1, LenProperties
    <3>3. ArtifactsKept(FinalReport, run.next)'
      BY <1>8, <2>2, <3>2 DEF ArtifactsKept
    <3>. QED BY <1>1, <1>2, <2>2, <3>3 DEF StoreInv
  <2>. QED BY <1>7, <2>1, <2>2
<1>11. VerdictInv'
  BY <1>1, <1>2, VerdictStays
<1>. QED BY <1>8, <1>9, <1>10, <1>11 DEF SessionInv

(* A version that is added to an artifact takes nothing away, and is the   *)
(* latest of its artifact.                                                 *)
LEMMA VersionAdded ==
  ASSUME StoreInv, created \in Nat, created # 0, UNCHANGED created,
         NEW n \in Names \ {Blank},
         artifact' = [artifact EXCEPT ![n] = Append(@, created)]
  PROVE  /\ artifact' \in [Names \ {Blank} -> Seq(1 .. created)]
         /\ Kept(n)'
         /\ \A m \in Names \ {Blank} : Kept(m) => Kept(m)'
         /\ \A m \in Names \ {Blank} :
              /\ DOMAIN artifact[m] \subseteq DOMAIN artifact'[m]
              /\ \A k \in DOMAIN artifact[m] : artifact'[m][k] = artifact[m][k]
              /\ m = n \/ artifact'[m] = artifact[m]
<1>1. artifact \in [Names \ {Blank} -> Seq(1 .. created)]
  BY DEF StoreInv
<1>2. artifact[n] \in Seq(1 .. created) /\ created \in 1 .. created
  BY <1>1
<1> DEFINE new == Append(artifact[n], created)
<1>3. /\ new \in Seq(1 .. created) /\ Len(new) = Len(artifact[n]) + 1
      /\ Len(artifact[n]) \in Nat /\ new[Len(artifact[n]) + 1] = created
      /\ DOMAIN artifact[n] = 1 .. Len(artifact[n])
      /\ DOMAIN new = 1 .. Len(artifact[n]) + 1
      /\ \A k \in 1 .. Len(artifact[n]) : new[k] = artifact[n][k]
  BY <1>2, AppendProperties, LenProperties
<1>4. artifact' = [artifact EXCEPT ![n] = new]
  OBVIOUS
<1>5. new # <<>> /\ new[Len(new)] = created
  <2>1. Len(new) # 0
    BY <1>3
  <2>. QED BY <1>3, <2>1, EmptySeq
<1>6. /\ DOMAIN artifact[n] \subseteq DOMAIN new
      /\ \A k \in DOMAIN artifact[n] : new[k] = artifact[n][k]
  BY <1>3
<1> HIDE DEF new
<1>7. artifact'[n] = new /\ \A m \in Names \ {Blank} : m # n => artifact'[m] = artifact[m]
  BY <1>1, <1>4
<1>8. artifact' \in [Names \ {Blank} -> Seq(1 .. created)]
  BY <1>1, <1>3, <1>4
<1>9. Kept(n)'
  BY <1>5, <1>7 DEF Kept
<1>10. \A m \in Names \ {Blank} : Kept(m) => Kept(m)'
  BY <1>7, <1>9 DEF Kept
<1>11. \A m \in Names \ {Blank} :
         /\ DOMAIN artifact[m] \subseteq DOMAIN artifact'[m]
         /\ \A k \in DOMAIN artifact[m] : artifact'[m][k] = artifact[m][k]
         /\ m = n \/ artifact'[m] = artifact[m]
  BY <1>6, <1>7
<1>. QED BY <1>8, <1>9, <1>10, <1>11

(* What a verdict has stored stays stored when Run stores more.            *)
LEMMA VerdictKeepsStored ==
  ASSUME VerdictInv, UNCHANGED <<dsh, created, result>>,
         \A s \in Sessions : \A r \in AllReports : Stored(s, r) => Stored(s, r)'
  PROVE  VerdictInv'
<1>1. \A s : HasVerdict(s)' <=> HasVerdict(s)
  BY DEF HasVerdict
<1>2. ASSUME NEW s \in Sessions, HasVerdict(s)
      PROVE  result[s].event.report \in AllReports
  <2>1. result[s] \in ResultType
    BY DEF VerdictInv
  <2>2. result[s] \in [kind : Outcomes, event : RawEvents]
    BY <1>2, <2>1 DEF HasVerdict, ResultType, Pending, Error
  <2>. QED BY <2>2 DEF RawEvents
<1>3. ReportBeforeVerdict'
  BY <1>1, <1>2 DEF VerdictInv, ReportBeforeVerdict
<1>4. OwnAnswer'
  BY <1>1 DEF VerdictInv, OwnAnswer
<1>. QED BY <1>1, <1>3, <1>4 DEF VerdictInv

LEMMA PersistArtifactKeeps ==
  ASSUME SessionInv, PersistArtifact
  PROVE  SessionInv'
<1>1. run.at = "artifacts" /\ UNCHANGED <<dsh, created, session, request, log, finding>>
  BY DEF PersistArtifact, dshVars
<1>2. RunInv /\ LogInv /\ StoreInv /\ VerdictInv /\ DshInv
  BY DEF SessionInv
<1>3. run.at \in Storing /\ "findings" \in Storing /\ run.at # "idle"
  BY <1>1 DEF Storing
<1> PICK report : report = FinalReport
  OBVIOUS
<1> PICK next : next = run.next
  OBVIOUS
<1> DEFINE items == ReportedArtifacts(report)
           n == items[next]
<1>4. /\ report \in AllReports /\ items \in Seq(STRING)
      /\ ReportedFindings(report) \in Seq(STRING)
  BY <1>2, <1>3, FinalReportTyped
<1>5. /\ Len(items) \in Nat /\ DOMAIN items = 1 .. Len(items)
      /\ next \in Nat /\ next # 0
      /\ created \in Nat /\ created # 0 /\ created = run.session
  <2>1. InRange(items)
    BY <1>1, <1>2 DEF RunInv
  <2>2. MaxSessions \in Nat
    BY SessionAssumption
  <2>. QED BY <1>2, <1>3, <1>4, <2>1, <2>2, LenProperties, RunTyped DEF InRange
<1>6. \A i \in DOMAIN items : items[i] = report.artifacts[i] /\ items[i] \in Names
  BY <1>4, ReportsTyped
<1>7. InRange(items)
  BY <1>1, <1>2 DEF RunInv
<1>8. ArtifactsKept(report, next)
  BY <1>1, <1>2 DEF StoreInv
<1>9. ASSUME run' = NextItem(items, "findings"), UNCHANGED result,
             artifact' \in [Names \ {Blank} -> Seq(1 .. created)],
             ArtifactsKept(report, next + 1)',
             VerdictInv'
      PROVE  SessionInv'
  <2>1. /\ run' \in RunType(created) /\ run'.session = run.session /\ run'.raw = run.raw
        /\ \/ next < Len(items) /\ run'.at = "artifacts" /\ run'.next = next + 1
           \/ next >= Len(items) /\ run'.at = "findings" /\ run'.next = 1
    <3> HIDE DEF items
    <3>. QED BY <1>1, <1>2, <1>3, <1>5, <1>7, <1>9, NextItemMoves
  <2>2. DshInv' /\ RunInv' /\ FinalReport' = FinalReport
    <3>1. run'.at \in Storing
      BY <2>1 DEF Storing
    <3>2. \/ run'.next = 1
          \/ run'.at = "artifacts" /\ run'.next # 0 /\ run'.next <= Len(items)
      BY <1>5, <2>1
    <3>. QED BY <1>1, <1>3, <2>1, <3>1, <3>2, StoringRun
  <2>3. LogInv'
    <3>1. NextEntry = Completed /\ NextEntry' = Completed
      BY <1>1, <2>1 DEF NextEntry, Polling, Completed
    <3>2. Completed \in Nat /\ Completed <= Completed
      BY SessionAssumption DEF Completed
    <3>. QED BY <1>1, <1>2, <1>3, <3>1, <3>2, LogStays
  <2>4. StoreInv'
    <3>1. finding' \subseteq [session : 1 .. created', class : Classes \ {Blank}]
      BY <1>1, <1>2 DEF StoreInv
    <3>2. CASE run'.at = "artifacts" /\ run'.next = next + 1
      <4>1. ArtifactsKept(FinalReport, run.next)'
        BY <1>9, <2>2, <3>2 DEF ArtifactsKept
      <4>. QED BY <1>1, <1>9, <3>1, <3>2, <4>1 DEF StoreInv
    <3>3. CASE next >= Len(items) /\ run'.at = "findings" /\ run'.next = 1
      <4>1. \A i \in DOMAIN items : i < next + 1 /\ i < All(items)
        BY <1>5, <3>3 DEF All
      <4>2. ArtifactsKept(FinalReport, All(ReportedArtifacts(FinalReport)))'
        BY <1>9, <2>2, <4>1 DEF ArtifactsKept
      <4>3. \A i \in DOMAIN ReportedFindings(report) : ~(i < 1)
        BY <1>4, LenProperties
      <4>4. FindingsKept(FinalReport, run.next)'
        BY <2>2, <3>3, <4>3 DEF FindingsKept
      <4>. QED BY <1>1, <1>9, <3>1, <3>3, <4>2, <4>4 DEF StoreInv
    <3>. QED BY <2>1, <3>2, <3>3
  <2>. QED BY <1>9, <2>2, <2>3, <2>4 DEF SessionInv
<1>10. ASSUME ~HasItem(items), run' = NextItem(items, "findings"), UNCHANGED <<artifact, result>>
       PROVE  SessionInv'
  <2>1. artifact' \in [Names \ {Blank} -> Seq(1 .. created)]
    BY <1>2, <1>10 DEF StoreInv
  <2>2. VerdictInv'
    BY <1>1, <1>2, <1>10, VerdictStays
  <2>3. ASSUME NEW i \in DOMAIN items, i < next + 1, report.artifacts[i] # Blank
        PROVE  Kept(report.artifacts[i])'
    <3>1. i \in Nat /\ items # <<>>
      BY <1>4, <1>5, <2>3, EmptySeq
    <3>2. items[i] # Blank
      BY <1>6, <2>3
    <3>3. i # next
      BY <1>10, <3>1, <3>2 DEF HasItem
    <3>4. i < next
      BY <1>5, <2>3, <3>1, <3>3
    <3>5. Kept(report.artifacts[i])
      BY <1>8, <2>3, <3>4 DEF ArtifactsKept
    <3>. QED BY <1>1, <1>10, <3>5 DEF Kept
  <2>4. ArtifactsKept(report, next + 1)'
    BY <2>3 DEF ArtifactsKept
  <2>. QED BY <1>9, <1>10, <2>1, <2>2, <2>4
<1>11. ASSUME HasItem(items), artifact' = [artifact EXCEPT ![n] = Append(@, run.session)],
              run' = NextItem(items, "findings"), UNCHANGED result
       PROVE  SessionInv'
  <2>1. n \in Names \ {Blank} /\ next \in DOMAIN items
    <3>1. Len(items) # 0
      BY <1>4, <1>11, EmptySeq DEF HasItem
    <3>2. next \in DOMAIN items
      BY <1>5, <1>7, <3>1 DEF InRange
    <3>. QED BY <1>6, <1>11, <3>2 DEF HasItem
  <2>2. artifact' = [artifact EXCEPT ![n] = Append(@, created)]
    BY <1>5, <1>11
  <2>3. /\ artifact' \in [Names \ {Blank} -> Seq(1 .. created)]
        /\ Kept(n)'
        /\ \A m \in Names \ {Blank} : Kept(m) => Kept(m)'
        /\ \A m \in Names \ {Blank} :
             /\ DOMAIN artifact[m] \subseteq DOMAIN artifact'[m]
             /\ \A k \in DOMAIN artifact[m] : artifact'[m][k] = artifact[m][k]
             /\ m = n \/ artifact'[m] = artifact[m]
    <3> HIDE DEF n
    <3>. QED BY <1>1, <1>2, <1>5, <2>1, <2>2, VersionAdded
  <2>4. ASSUME NEW i \in DOMAIN items, i < next + 1, report.artifacts[i] # Blank
        PROVE  Kept(report.artifacts[i])'
    <3>1. i \in Nat /\ report.artifacts[i] \in Names \ {Blank}
      BY <1>5, <1>6, <2>4
    <3>2. CASE i = next
      BY <1>6, <2>3, <3>2
    <3>3. CASE i # next
      <4>1. i < next
        BY <1>5, <2>4, <3>1, <3>3
      <4>2. Kept(report.artifacts[i])
        BY <1>8, <2>4, <4>1 DEF ArtifactsKept
      <4>. QED BY <2>3, <3>1, <4>2
    <3>. QED BY <3>2, <3>3
  <2>5. ArtifactsKept(report, next + 1)'
    BY <2>4 DEF ArtifactsKept
  <2>6. VerdictInv'
    <3>1. ASSUME NEW s \in Sessions, NEW r \in AllReports, Stored(s, r),
                 NEW i \in DOMAIN ReportedArtifacts(r), r.artifacts[i] # Blank
          PROVE  /\ \E k \in DOMAIN artifact'[r.artifacts[i]] : artifact'[r.artifacts[i]][k] = s
                 /\ s = created => artifact'[r.artifacts[i]][Len(artifact'[r.artifacts[i]])] = s
      <4> DEFINE m == r.artifacts[i]
      <4>1. m \in Names \ {Blank}
        BY <3>1, ReportsTyped
      <4>2. /\ \E k \in DOMAIN artifact[m] : artifact[m][k] = s
            /\ s = created => artifact[m][Len(artifact[m])] = s
        BY <3>1 DEF Stored
      <4>3. \E k \in DOMAIN artifact'[m] : artifact'[m][k] = s
        <5> HIDE DEF m
        <5>. QED BY <2>3, <4>1, <4>2
      <4>4. s = created => artifact'[m][Len(artifact'[m])] = s
        <5>1. CASE m = n
          BY <1>1, <2>3, <5>1 DEF Kept
        <5>2. CASE m # n
          <6>1. artifact'[m] = artifact[m]
            BY <2>3, <4>1, <5>2
          <6>. QED BY <4>2, <6>1
        <5>. QED BY <5>1, <5>2
      <4>. QED BY <4>3, <4>4
    <3>2. \A s \in Sessions : \A r \in AllReports : Stored(s, r) => Stored(s, r)'
      BY <1>1, <3>1 DEF Stored
    <3>. QED BY <1>1, <1>2, <1>11, <3>2, VerdictKeepsStored
  <2>. QED BY <1>9, <1>11, <2>3, <2>5, <2>6
<1>12. ASSUME ReturnError, UNCHANGED artifact
       PROVE  SessionInv'
  <2>1. run'.at = "idle"
    BY <1>12 DEF ReturnError, Idle
  <2>2. DshInv'
    BY <1>1, <1>2, <2>1, DshStays DEF Polling
  <2>. QED BY <1>1, <1>3, <1>12, <2>2, ErrorKeeps DEF stored
<1>13. \/ ~HasItem(items) /\ run' = NextItem(items, "findings") /\ UNCHANGED <<artifact, result>>
       \/ /\ HasItem(items) /\ artifact' = [artifact EXCEPT ![n] = Append(@, run.session)]
          /\ run' = NextItem(items, "findings") /\ UNCHANGED result
       \/ ReturnError /\ UNCHANGED artifact
  BY DEF PersistArtifact, FinalReport
<1>. QED BY <1>10, <1>11, <1>12, <1>13

LEMMA PersistFindingKeeps ==
  ASSUME SessionInv, PersistFinding
  PROVE  SessionInv'
<1>1. run.at = "findings" /\ UNCHANGED <<dsh, created, session, request, log, artifact>>
  BY DEF PersistFinding, dshVars
<1>2. RunInv /\ LogInv /\ StoreInv /\ VerdictInv /\ DshInv
  BY DEF SessionInv
<1>3. run.at \in Storing /\ "finish" \in Storing /\ run.at # "idle"
  BY <1>1 DEF Storing
<1> PICK report : report = FinalReport
  OBVIOUS
<1> PICK next : next = run.next
  OBVIOUS
<1> DEFINE items == ReportedFindings(report)
<1>4. report \in AllReports /\ items \in Seq(STRING)
  BY <1>2, <1>3, FinalReportTyped
<1>5. InRange(items)
  BY <1>1, <1>2 DEF RunInv
<1>6. /\ Len(items) \in Nat /\ DOMAIN items = 1 .. Len(items)
      /\ next \in Nat /\ next # 0
      /\ created \in Nat /\ created # 0 /\ created = run.session
  <2>1. MaxSessions \in Nat
    BY SessionAssumption
  <2>. QED BY <1>2, <1>3, <1>4, <1>5, <2>1, LenProperties, RunTyped DEF InRange
<1>7. \A i \in DOMAIN items : items[i] = report.findings[i] /\ items[i] \in Classes
  BY <1>4, ReportsTyped
<1>8. /\ FindingsKept(report, next)
      /\ ArtifactsKept(report, All(ReportedArtifacts(report)))
      /\ finding \subseteq [session : 1 .. created, class : Classes \ {Blank}]
  BY <1>1, <1>2 DEF StoreInv
<1>9. ASSUME run' = NextItem(items, "finish"), UNCHANGED result,
             finding' \subseteq [session : 1 .. created, class : Classes \ {Blank}],
             finding \subseteq finding', FindingsKept(report, next + 1)'
      PROVE  SessionInv'
  <2>1. /\ run' \in RunType(created) /\ run'.session = run.session /\ run'.raw = run.raw
        /\ \/ next < Len(items) /\ run'.at = "findings" /\ run'.next = next + 1
           \/ next >= Len(items) /\ run'.at = "finish" /\ run'.next = 1
    <3> HIDE DEF items
    <3>. QED BY <1>1, <1>2, <1>3, <1>5, <1>6, <1>9, NextItemMoves
  <2>2. DshInv' /\ RunInv' /\ FinalReport' = FinalReport
    <3>1. run'.at \in Storing
      BY <2>1 DEF Storing
    <3>2. \/ run'.next = 1
          \/ run'.at = "findings" /\ run'.next # 0 /\ run'.next <= Len(items)
      BY <1>6, <2>1
    <3>. QED BY <1>1, <1>3, <2>1, <3>1, <3>2, StoringRun
  <2>3. LogInv'
    <3>1. NextEntry = Completed /\ NextEntry' = Completed
      BY <1>1, <2>1 DEF NextEntry, Polling, Completed
    <3>2. Completed \in Nat /\ Completed <= Completed
      BY SessionAssumption DEF Completed
    <3>. QED BY <1>1, <1>2, <1>3, <3>1, <3>2, LogStays
  <2>4. StoreInv'
    <3>1. /\ artifact' \in [Names \ {Blank} -> Seq(1 .. created')]
          /\ finding' \subseteq [session : 1 .. created', class : Classes \ {Blank}]
      BY <1>1, <1>2, <1>9 DEF StoreInv
    <3>2. ArtifactsKept(FinalReport, All(ReportedArtifacts(FinalReport)))'
      BY <1>1, <1>8, <2>2 DEF ArtifactsKept, Kept
    <3>3. CASE run'.at = "findings" /\ run'.next = next + 1
      <4>1. FindingsKept(FinalReport, run.next)'
        BY <1>9, <2>2, <3>3 DEF FindingsKept
      <4>. QED BY <3>1, <3>2, <3>3, <4>1 DEF StoreInv
    <3>4. CASE next >= Len(items) /\ run'.at = "finish" /\ run'.next = 1
      <4>1. \A i \in DOMAIN items : i < next + 1 /\ i < All(items)
        BY <1>6, <3>4 DEF All
      <4>2. FindingsKept(FinalReport, All(ReportedFindings(FinalReport)))'
        BY <1>9, <2>2, <4>1 DEF FindingsKept
      <4>. QED BY <3>1, <3>2, <3>4, <4>2 DEF StoreInv
    <3>. QED BY <2>1, <3>3, <3>4
  <2>5. VerdictInv'
    <3>1. \A s \in Sessions : \A r \in AllReports : Stored(s, r) => Stored(s, r)'
      BY <1>1, <1>9 DEF Stored
    <3>. QED BY <1>1, <1>2, <1>9, <3>1, VerdictKeepsStored
  <2>. QED BY <2>2, <2>3, <2>4, <2>5 DEF SessionInv
<1>10. ASSUME ~HasItem(items), run' = NextItem(items, "finish"), UNCHANGED <<finding, result>>
       PROVE  SessionInv'
  <2>1. ASSUME NEW i \in DOMAIN items, i < next + 1, report.findings[i] # Blank
        PROVE  [session |-> created, class |-> report.findings[i]] \in finding
    <3>1. i \in Nat /\ items # <<>>
      BY <1>4, <1>6, <2>1, EmptySeq
    <3>2. items[i] # Blank
      BY <1>7, <2>1
    <3>3. i # next
      BY <1>10, <3>1, <3>2 DEF HasItem
    <3>4. i < next
      BY <1>6, <2>1, <3>1, <3>3
    <3>. QED BY <1>8, <2>1, <3>4 DEF FindingsKept
  <2>2. FindingsKept(report, next + 1)'
    BY <1>1, <1>10, <2>1 DEF FindingsKept
  <2>. QED BY <1>8, <1>9, <1>10, <2>2
<1>11. ASSUME HasItem(items), run' = NextItem(items, "finish"), UNCHANGED result,
              finding' = finding \union {[session |-> run.session, class |-> items[next]]}
       PROVE  SessionInv'
  <2>1. items[next] \in Classes \ {Blank} /\ next \in DOMAIN items
    <3>1. Len(items) # 0
      BY <1>4, <1>11, EmptySeq DEF HasItem
    <3>2. next \in DOMAIN items
      BY <1>5, <1>6, <3>1 DEF InRange
    <3>. QED BY <1>7, <1>11, <3>2 DEF HasItem
  <2>2. finding' \subseteq [session : 1 .. created, class : Classes \ {Blank}]
    <3>1. created \in 1 .. created
      BY <1>6
    <3>2. [session |-> created, class |-> items[next]]
            \in [session : 1 .. created, class : Classes \ {Blank}]
      BY <2>1, <3>1
    <3>. QED BY <1>6, <1>8, <1>11, <3>2
  <2>3. ASSUME NEW i \in DOMAIN items, i < next + 1, report.findings[i] # Blank
        PROVE  [session |-> created, class |-> report.findings[i]] \in finding'
    <3>1. i \in Nat
      BY <1>6
    <3>2. CASE i = next
      BY <1>6, <1>7, <1>11, <3>2
    <3>3. CASE i # next
      <4>1. i < next
        BY <1>6, <2>3, <3>1, <3>3
      <4>2. [session |-> created, class |-> report.findings[i]] \in finding
        BY <1>8, <2>3, <4>1 DEF FindingsKept
      <4>. QED BY <1>11, <4>2
    <3>. QED BY <3>2, <3>3
  <2>4. FindingsKept(report, next + 1)'
    BY <1>1, <2>3 DEF FindingsKept
  <2>. QED BY <1>9, <1>11, <2>2, <2>4
<1>12. ASSUME ReturnError, UNCHANGED finding
       PROVE  SessionInv'
  <2>1. run'.at = "idle"
    BY <1>12 DEF ReturnError, Idle
  <2>2. DshInv'
    BY <1>1, <1>2, <2>1, DshStays DEF Polling
  <2>. QED BY <1>1, <1>3, <1>12, <2>2, ErrorKeeps DEF stored
<1>13. \/ ~HasItem(items) /\ run' = NextItem(items, "finish") /\ UNCHANGED <<finding, result>>
       \/ /\ HasItem(items) /\ run' = NextItem(items, "finish") /\ UNCHANGED result
          /\ finding' = finding \union {[session |-> run.session, class |-> items[next]]}
       \/ ReturnError /\ UNCHANGED finding
  BY DEF PersistFinding, FinalReport
<1>. QED BY <1>10, <1>11, <1>12, <1>13

(* Run returns its verdict when all that the agent reported is stored.     *)
LEMMA FinishKeeps ==
  ASSUME SessionInv, Finish
  PROVE  SessionInv'
<1> PICK c : c = created
  OBVIOUS
<1> PICK event : event = FinalEvent
  OBVIOUS
<1> DEFINE report == event.report
           verdict == [kind |-> Kind(report), event |-> event]
<1>1. RunInv /\ LogInv /\ StoreInv /\ VerdictInv /\ DshInv
  BY DEF SessionInv
<1>2. run.at = "finish" /\ run.at \in Storing /\ run.at # "idle"
  BY DEF Finish, Storing
<1>3. run.session = c /\ c \in Sessions
  BY <1>1, <1>2, RunTyped
<1>4. /\ UNCHANGED <<dsh, created, session, request, artifact, finding>>
      /\ run' = Idle /\ result' = [result EXCEPT ![c] = verdict]
      /\ log' = Append(log, Entry(Completed)) \/ log' = log
  BY <1>3 DEF Finish, dshVars
<1>5. /\ event \in RawEvents /\ SoundEvent(event) /\ event.kind = "agent.completed"
      /\ report \in AllReports /\ report = FinalReport
  BY <1>1, <1>2, FinalReportTyped DEF FinalReport
<1>6. run'.at = "idle"
  BY <1>4 DEF Idle
<1>7. DshInv'
  BY <1>1, <1>4, <1>6, DshStays DEF Polling
<1>8. RunInv'
  BY <1>1, <1>4, <1>6 DEF RunInv, BeforeVerdict, Storing, Polling
<1>9. LogInv'
  <2>1. NextEntry = Completed /\ Completed \in Nat /\ Completed <= Completed
    BY <1>2, SessionAssumption DEF NextEntry, Polling, Completed
  <2>2. CASE log' = Append(log, Entry(Completed))
    BY <1>1, <1>2, <1>4, <1>6, <2>1, <2>2, LogGrows
  <2>3. CASE log' = log
    BY <1>1, <1>4, <1>6, <2>3, LogStays
  <2>. QED BY <1>4, <2>2, <2>3
<1>10. StoreInv'
  BY <1>1, <1>4, <1>6, StoreStays
<1>11. Kind(report) \in Outcomes
  BY <1>5, ReportsTyped
<1>12. VerdictInv'
  <2>1. result \in [Sessions -> ResultType] /\ verdict \in ResultType
    BY <1>1, <1>5, <1>11 DEF VerdictInv, ResultType
  <2> HIDE DEF verdict
  <2>2. /\ result' \in [Sessions -> ResultType] /\ result'[c] = verdict
        /\ \A s \in Sessions : s # c => result'[s] = result[s]
    BY <1>3, <1>4, <2>1
  <2>3. verdict.kind = Kind(report) /\ verdict.event = event
    BY DEF verdict
  <2>4. \A s, r : Stored(s, r)' <=> Stored(s, r)
    BY <1>4 DEF Stored
  <2>5. \A s \in Sessions : s # c => (HasVerdict(s)' <=> HasVerdict(s))
    BY <2>2 DEF HasVerdict
  <2>6. Stored(c, report)
    <3>1. /\ ArtifactsKept(report, All(ReportedArtifacts(report)))
          /\ FindingsKept(report, All(ReportedFindings(report)))
      BY <1>1, <1>2, <1>5 DEF StoreInv
    <3>2. /\ ReportedArtifacts(report) \in Seq(STRING) /\ ReportedFindings(report) \in Seq(STRING)
          /\ \A i \in DOMAIN ReportedArtifacts(report) : report.artifacts[i] \in Names
      BY <1>5, ReportsTyped
    <3>3. /\ \A i \in DOMAIN ReportedArtifacts(report) : i < All(ReportedArtifacts(report))
          /\ \A i \in DOMAIN ReportedFindings(report) : i < All(ReportedFindings(report))
      BY <3>2, LenProperties DEF All
    <3>4. ASSUME NEW i \in DOMAIN ReportedArtifacts(report), report.artifacts[i] # Blank
          PROVE  /\ \E k \in DOMAIN artifact[report.artifacts[i]] :
                      artifact[report.artifacts[i]][k] = c
                 /\ artifact[report.artifacts[i]][Len(artifact[report.artifacts[i]])] = c
      <4> DEFINE versions == artifact[report.artifacts[i]]
      <4>1. versions # <<>> /\ versions[Len(versions)] = c
        BY <3>1, <3>3, <3>4 DEF ArtifactsKept, Kept
      <4>2. versions \in Seq(1 .. created)
        BY <1>1, <3>2, <3>4 DEF StoreInv
      <4> HIDE DEF versions
      <4>3. Len(versions) \in DOMAIN versions
        BY <4>1, <4>2, LenProperties, EmptySeq
      <4>4. \E k \in DOMAIN versions : versions[k] = c
        BY <4>1, <4>3
      <4>. QED BY <4>1, <4>4 DEF versions
    <3>5. ASSUME NEW i \in DOMAIN ReportedFindings(report), report.findings[i] # Blank
          PROVE  [session |-> c, class |-> report.findings[i]] \in finding
      BY <3>1, <3>3, <3>5 DEF FindingsKept
    <3>. QED BY <3>4, <3>5 DEF Stored
  <2>7. ReportBeforeVerdict'
    <3>1. ASSUME NEW s \in Sessions, HasVerdict(s)'
          PROVE  Stored(s, result'[s].event.report)
      <4>1. CASE s = c
        BY <2>2, <2>3, <2>6, <4>1
      <4>2. CASE s # c
        BY <1>1, <2>2, <2>5, <3>1, <4>2 DEF VerdictInv, ReportBeforeVerdict
      <4>. QED BY <4>1, <4>2
    <3>. QED BY <2>4, <3>1 DEF ReportBeforeVerdict
  <2>8. OwnAnswer'
    <3>1. ASSUME NEW s \in Sessions, HasVerdict(s)'
          PROVE  /\ dsh = "inline" =>
                      /\ result'[s].event.message # <<>>
                      /\ result'[s].event.message[1] = "instruction"
                 /\ result'[s].event.report.error => result'[s].kind = "failed"
      <4>1. CASE s = c
        <5>1. dsh = "inline" => Instructed(event.message)
          BY <1>5 DEF SoundEvent
        <5>2. report.error => Kind(report) = "failed"
          BY <1>5, ErrorsFail DEF SoundEvent
        <5>. QED BY <2>2, <2>3, <4>1, <5>1, <5>2 DEF Instructed
      <4>2. CASE s # c
        BY <1>1, <2>2, <2>5, <3>1, <4>2 DEF VerdictInv, OwnAnswer
      <4>. QED BY <4>1, <4>2
    <3>. QED BY <1>4, <3>1 DEF OwnAnswer
  <2>9. \A s \in Sessions : s > created' => ~HasVerdict(s)'
    <3>1. \A s \in Sessions : s > created' => s # c
      BY <1>3, <1>4 DEF Sessions
    <3>. QED BY <1>1, <1>4, <2>5, <3>1 DEF VerdictInv
  <2>. QED BY <2>2, <2>7, <2>8, <2>9 DEF VerdictInv
<1>. QED BY <1>7, <1>8, <1>9, <1>10, <1>12 DEF SessionInv

-----------------------------------------------------------------------------
(* The invariant and what follows from it *)

LEMMA InitSessionInv ==
  ASSUME Init
  PROVE  SessionInv
<1>1. /\ dsh \in {"inline", "external"} /\ created = 0 /\ run = Idle /\ run.at = "idle"
      /\ session = [s \in Sessions |-> NewSession]
      /\ request = [s \in Sessions |-> NoRequest]
      /\ result = [s \in Sessions |-> Pending]
      /\ log = <<>> /\ artifact = [n \in Names \ {Blank} |-> <<>>] /\ finding = {}
  BY DEF Init, Idle
<1>2. MaxSessions \in Nat /\ MaxEvents \in Nat
  BY SessionAssumption
<1>3. DshInv
  <2>1. /\ NewSession \in SessionType /\ NewSession.completion = <<>> /\ NewSession.stream = <<>>
    BY MessagesTyped, EmptySeq DEF NewSession, SessionType
  <2>2. Len(<<>>) = 0 /\ DOMAIN <<>> = {}
    BY EmptySeq
  <2>3. SoundEvents(<<>>) /\ Len(<<>>) <= MaxEvents
    BY <1>2, <2>2 DEF SoundEvents
  <2>4. session \in [Sessions -> SessionType]
    BY <1>1, <2>1
  <2>5. \A s \in Sessions : /\ SoundEvents(session[s].completion)
                            /\ SoundEvents(session[s].stream) /\ Len(session[s].stream) <= MaxEvents
    BY <1>1, <2>1, <2>3
  <2>6. request \in [Sessions -> RequestType] /\ \A s \in Sessions : request[s].at = "none"
    BY <1>1 DEF RequestType, NoRequest
  <2>. QED BY <1>1, <2>4, <2>5, <2>6 DEF DshInv, Polling
<1>4. RunInv
  BY <1>1, <1>2 DEF RunInv, BeforeVerdict, Storing, Polling
<1>5. LogInv
  <2>1. log \in Seq(LogType) /\ DOMAIN log = {}
    <3>1. <<>> \in Seq(LogType) /\ DOMAIN <<>> = {}
      BY EmptySeq
    <3>. QED BY <1>1, <3>1, Zenon
  <2>. QED BY <1>1, <2>1 DEF LogInv, LogInOrder
<1>6. StoreInv
  <2>1. <<>> \in Seq(1 .. created)
    BY EmptySeq
  <2>2. artifact \in [Names \ {Blank} -> Seq(1 .. created)]
    BY <1>1, <2>1
  <2>. QED BY <1>1, <2>2 DEF StoreInv
<1>7. VerdictInv
  <2>1. result \in [Sessions -> ResultType] /\ \A s \in Sessions : ~HasVerdict(s)
    BY <1>1 DEF ResultType, HasVerdict, Pending
  <2>. QED BY <2>1 DEF VerdictInv, ReportBeforeVerdict, OwnAnswer
<1>. QED BY <1>3, <1>4, <1>5, <1>6, <1>7 DEF SessionInv

LEMMA NextSessionInv ==
  ASSUME SessionInv, [Next]_vars
  PROVE  SessionInv'
<1>1. CASE CreateSession
  BY <1>1, CreateSessionKeeps
<1>2. CASE Runner
  <2>1. CASE AppendStarted
    BY <2>1, AppendStartedKeeps
  <2>2. CASE SendFollowup
    BY <2>2, SendFollowupKeeps
  <2>3. CASE AskEvents
    BY <2>3, AskEventsKeeps
  <2>4. CASE CallFails
    BY <2>4, CallFailsKeeps
  <2>5. CASE ReceiveEvents
    BY <2>5, ReceiveEventsKeeps
  <2>6. CASE Wait
    BY <2>6, WaitingKeeps
  <2>7. CASE PersistEvent
    BY <2>7, PersistEventKeeps
  <2>8. CASE PersistArtifact
    BY <2>8, PersistArtifactKeeps
  <2>9. CASE PersistFinding
    BY <2>9, PersistFindingKeeps
  <2>10. CASE Finish
    BY <2>10, FinishKeeps
  <2>. QED BY <1>2, <2>1, <2>2, <2>3, <2>4, <2>5, <2>6, <2>7, <2>8, <2>9, <2>10 DEF Runner
<1>3. CASE BudgetSpent
  BY <1>3, WaitingKeeps
<1>4. CASE Stop
  BY <1>4, StopKeeps
<1>5. ASSUME NEW s \in Sessions,
             \/ Steer(s) \/ CancelSession(s) \/ ReadSession(s) \/ RunCompletion(s)
             \/ Emit(s) \/ ServeStream(s)
      PROVE  SessionInv'
  BY <1>5, DshKeeps
<1>6. CASE UNCHANGED vars
  <2>1. UNCHANGED <<dsh, created, session, request, run, result, stored>>
    BY <1>6 DEF vars
  <2>2. DshInv'
    BY <2>1, DshStays DEF SessionInv
  <2>. QED BY <2>1, <2>2, RunnerStays
<1>. QED BY <1>1, <1>2, <1>3, <1>4, <1>5, <1>6 DEF Next

LEMMA SessionInvInductive == Spec => []SessionInv
<1>1. Init => SessionInv
  BY InitSessionInv
<1>2. SessionInv /\ [Next]_vars => SessionInv'
  BY NextSessionInv
<1>. QED BY <1>1, <1>2, PTL DEF Spec

(* Whatever DSH answers and wherever Run gives up, every variable keeps    *)
(* its type: Run only works on sessions that were created, and what it     *)
(* stores are items of the agents' reports.                                *)
THEOREM SessionTypeCorrect == Spec => []TypeOK
<1>1. SessionInv => TypeOK
  <2> SUFFICES ASSUME SessionInv PROVE TypeOK
    OBVIOUS
  <2>1. dsh \in {"inline", "external"} /\ session \in [Sessions -> SessionType]
        /\ request \in [Sessions -> RequestType]
    BY DEF SessionInv, DshInv
  <2>2. created \in 0 .. MaxSessions /\ run \in {Idle} \union RunType(created)
    BY DEF SessionInv, RunInv
  <2>3. log \in Seq(LogType)
    BY DEF SessionInv, LogInv
  <2>4. /\ artifact \in [Names \ {Blank} -> Seq(1 .. created)]
        /\ finding \subseteq [session : 1 .. created, class : Classes \ {Blank}]
    BY DEF SessionInv, StoreInv
  <2>5. result \in [Sessions -> ResultType]
    BY DEF SessionInv, VerdictInv
  <2>6. BeforeVerdict \union Storing =
          {"append started", "followup", "poll", "reading", "wait", "events",
           "artifacts", "findings", "finish"}
    BY DEF BeforeVerdict, Polling, Storing
  <2>7. run \in {Idle} \union
          [at : {"append started", "followup", "poll", "reading", "wait", "events",
                 "artifacts", "findings", "finish"},
           session : 1 .. created, late : BOOLEAN, raw : Seq(RawEvents), next : Nat]
    BY <2>2, <2>6, Zenon DEF RunType
  <2>. QED BY <2>1, <2>2, <2>3, <2>4, <2>5, <2>7, Zenon
           DEF TypeOK, SessionType, RequestType, LogType, ResultType
<1>. QED BY <1>1, SessionInvInductive, PTL

(* The run's history tells its sessions one after the other, and each of   *)
(* their events once and in order, although every poll reads the whole     *)
(* stream again and an abandoned agent goes on emitting.                   *)
THEOREM LogTellsSessionsInOrder == Spec => []LogInOrder
<1>1. SessionInv => LogInOrder
  BY DEF SessionInv, LogInv
<1>. QED BY <1>1, SessionInvInductive, PTL

(* When Run returns a verdict, the artifacts and findings that the agent   *)
(* reported are stored, and stay stored; and no attempt that failed half-  *)
(* way has the last word on an artifact of the last verdict.               *)
THEOREM ReportIsStoredBeforeVerdict == Spec => []ReportBeforeVerdict
<1>1. SessionInv => ReportBeforeVerdict
  BY DEF SessionInv, VerdictInv
<1>. QED BY <1>1, SessionInvInductive, PTL

(* A verdict of the inline model answers the instruction of its stage,     *)
(* whoever steers or cancels the session meanwhile; and a model that could *)
(* not be asked makes the session fail.                                    *)
THEOREM VerdictAnswersInstruction == Spec => []OwnAnswer
<1>1. SessionInv => OwnAnswer
  BY DEF SessionInv, VerdictInv
<1>. QED BY <1>1, SessionInvInductive, PTL

-----------------------------------------------------------------------------
(* Run implements the attempts of AgentAttempts *)

(* What the items of a sequence say.                                       *)
Said(items) == {items[i] : i \in DOMAIN items} \ {Blank}

SayingInv == IsStoring => Saying \in Attempts!Outcome

LEMMA OutcomeFields ==
  ASSUME NEW kind, NEW report
  PROVE  /\ OutcomeOf(kind, report).kind = kind
         /\ OutcomeOf(kind, report).artifacts = Said(ReportedArtifacts(report))
         /\ OutcomeOf(kind, report).findings = Said(ReportedFindings(report))
  BY DEF OutcomeOf, Said

LEMMA SayingTyped == SessionInv => SayingInv
<1> SUFFICES ASSUME SessionInv, IsStoring PROVE Saying \in Attempts!Outcome
  BY DEF SayingInv
<1>1. RunInv /\ run.at \in Storing
  BY DEF SessionInv, IsStoring, Storing
<1> PICK report : report = FinalReport
  OBVIOUS
<1>2. report \in AllReports
  BY <1>1, FinalReportTyped
<1>3. /\ Kind(report) \in Outcomes
      /\ \A i \in DOMAIN ReportedArtifacts(report) : ReportedArtifacts(report)[i] \in Names
      /\ \A i \in DOMAIN ReportedFindings(report) : ReportedFindings(report)[i] \in Classes
  BY <1>2, ReportsTyped
<1>4. /\ Said(ReportedArtifacts(report)) \in SUBSET (Names \ {Blank})
      /\ Said(ReportedFindings(report)) \in SUBSET (Classes \ {Blank})
  BY <1>3 DEF Said
<1>5. Saying = [kind |-> Kind(report), artifacts |-> Said(ReportedArtifacts(report)),
                findings |-> Said(ReportedFindings(report))]
  BY DEF Saying, FinalReport, OutcomeOf, Said
<1>. QED BY <1>3, <1>4, <1>5 DEF Attempts!Outcome

(* The runner's result of one session changes.                             *)
LEMMA ReturnedChanges ==
  ASSUME result \in [Sessions -> ResultType], NEW c \in Sessions, NEW what \in ResultType,
         result' = [result EXCEPT ![c] = what]
  PROVE  Returned' = [Returned EXCEPT ![c] =
           IF what.kind \notin {"pending", "error"}
           THEN OutcomeOf(what.kind, what.event.report) ELSE what]
<1> DEFINE value == IF what.kind \notin {"pending", "error"}
                    THEN OutcomeOf(what.kind, what.event.report) ELSE what
           Value(s) == IF HasVerdict(s) THEN OutcomeOf(result[s].kind, result[s].event.report)
                                        ELSE result[s]
           ValueNext(s) == IF HasVerdict(s)' THEN OutcomeOf(result'[s].kind, result'[s].event.report)
                                             ELSE result'[s]
<1>1. result'[c] = what /\ \A s \in Sessions : s # c => result'[s] = result[s]
  OBVIOUS
<1>2. ValueNext(c) = value /\ \A s \in Sessions : s # c => ValueNext(s) = Value(s)
  BY <1>1 DEF HasVerdict
<1>3. Returned = [s \in Sessions |-> Value(s)] /\ Returned' = [s \in Sessions |-> ValueNext(s)]
  BY DEF Returned
<1> HIDE DEF value, Value, ValueNext
<1>4. [s \in Sessions |-> ValueNext(s)] = [[s \in Sessions |-> Value(s)] EXCEPT ![c] = value]
  BY <1>2
<1>. QED BY <1>3, <1>4 DEF value

LEMMA ReturnedStays == ASSUME UNCHANGED result PROVE UNCHANGED Returned
  BY DEF Returned, HasVerdict

(* An error ends the attempt.                                              *)
LEMMA ErrorGivesUp ==
  ASSUME SessionInv, run.at # "idle", ReturnError, UNCHANGED <<created, artifact, finding>>
  PROVE  Attempts!GiveUp
<1>1. result \in [Sessions -> ResultType] /\ Error \in ResultType /\ created \in Sessions
      /\ run.session = created
  BY RunTyped DEF SessionInv, VerdictInv, ResultType
<1>2. run' = Idle /\ result' = [result EXCEPT ![created] = Error]
  BY <1>1 DEF ReturnError
<1>3. Returned' = [Returned EXCEPT ![created] = Error]
  BY <1>1, <1>2, ReturnedChanges DEF Error
<1>4. Doing # "idle" /\ Doing' = "idle" /\ Saying' = Pending
  BY <1>2 DEF Doing, Saying, IsStoring, Idle
<1>. QED BY <1>3, <1>4 DEF Attempts!GiveUp, Attempts!Ends, Attempts!Nothing, Attempts!Failure,
            Pending, Error

(* Nothing that the attempt is about changes.                              *)
LEMMA AttemptStutters ==
  ASSUME UNCHANGED <<created, result, artifact, finding>>,
         \/ UNCHANGED run
         \/ run.at \in BeforeVerdict /\ run'.at \in BeforeVerdict
         \/ run.at \in Storing /\ run'.at \in Storing /\ run'.raw = run.raw
  PROVE  UNCHANGED Attempts!attemptVars
<1>1. UNCHANGED Returned
  BY ReturnedStays
<1>2. UNCHANGED <<Doing, Saying>>
  <2>1. CASE UNCHANGED run
    BY <2>1 DEF Doing, Saying, IsStoring, FinalEvent
  <2>2. CASE run.at \in BeforeVerdict /\ run'.at \in BeforeVerdict
    BY <2>2 DEF Doing, Saying, IsStoring, BeforeVerdict, Polling
  <2>3. CASE run.at \in Storing /\ run'.at \in Storing /\ run'.raw = run.raw
    <3>1. FinalEvent' = FinalEvent
      BY <2>3 DEF FinalEvent
    <3>2. IsStoring /\ IsStoring' /\ run.at # "idle" /\ run'.at # "idle"
      BY <2>3 DEF IsStoring, Storing
    <3>. QED BY <3>1, <3>2 DEF Doing, Saying
  <2>. QED BY <2>1, <2>2, <2>3
<1>. QED BY <1>1, <1>2 DEF Attempts!attemptVars

LEMMA CreateSessionBegins ==
  ASSUME SessionInv, CreateSession
  PROVE  Attempts!Begin
<1>1. /\ run.at = "idle" /\ created < MaxSessions /\ created' = created + 1
      /\ UNCHANGED <<artifact, finding>>
  BY DEF CreateSession, stored
<1>2. Doing = "idle" /\ Saying = Pending
  BY <1>1 DEF Doing, Saying, IsStoring
<1>3. CASE /\ run' = [at |-> "append started", session |-> created + 1, late |-> FALSE,
                      raw |-> <<>>, next |-> 1]
           /\ UNCHANGED result
  <2>1. run'.at = "append started"
    <3>1. ASSUME NEW raw, raw = <<>>,
                 run' = [at |-> "append started", session |-> created + 1, late |-> FALSE,
                         raw |-> raw, next |-> 1]
          PROVE  run'.at = "append started"
      BY <3>1
    <3>. QED BY <1>3, <3>1
  <2>2. Doing' = "running" /\ Saying' = Pending
    BY <2>1 DEF Doing, Saying, IsStoring
  <2>3. UNCHANGED Returned
    BY <1>3, ReturnedStays
  <2>. QED BY <1>1, <1>2, <2>2, <2>3 DEF Attempts!Begin
<1>4. CASE result' = [result EXCEPT ![created + 1] = Error] /\ UNCHANGED run
  <2>1. result \in [Sessions -> ResultType] /\ Error \in ResultType /\ created + 1 \in Sessions
    BY <1>1, SessionAssumption DEF SessionInv, RunInv, VerdictInv, ResultType, Sessions
  <2>2. Returned' = [Returned EXCEPT ![created + 1] = Error]
    BY <1>4, <2>1, ReturnedChanges DEF Error
  <2>3. run'.at = "idle"
    BY <1>1, <1>4
  <2>4. Doing' = "idle" /\ Saying' = Pending
    BY <2>3 DEF Doing, Saying, IsStoring
  <2>. QED BY <1>1, <1>2, <2>2, <2>4
           DEF Attempts!Begin, Attempts!Ends, Attempts!Nothing, Attempts!Failure, Pending, Error
<1>. QED BY <1>3, <1>4 DEF CreateSession

(* Run waits for the agent, and the attempt completes with its event.      *)
LEMMA PollingStep ==
  ASSUME SessionInv, SayingInv',
         AppendStarted \/ SendFollowup \/ AskEvents \/ ReceiveEvents \/ Wait \/ BudgetSpent
  PROVE  [Attempts!ANext]_(Attempts!attemptVars)
<1>1. run.at \in BeforeVerdict /\ run.at # "idle" /\ UNCHANGED <<created, artifact, finding>>
  BY DEF AppendStarted, SendFollowup, AskEvents, ReceiveEvents, Wait, BudgetSpent, stored,
         BeforeVerdict, Polling
<1>2. run \in RunType(created)
  BY <1>1, RunTyped DEF SessionInv
<1>3. \/ ReturnError
      \/ run' = [run EXCEPT !.late = TRUE] /\ UNCHANGED result
      \/ (\E place \in {"followup", "poll", "reading", "wait"} : run' = At(place)) /\ UNCHANGED result
      \/ (\E raw : run' = [run EXCEPT !.at = "events", !.raw = raw]) /\ UNCHANGED result
  BY DEF AppendStarted, SendFollowup, AskEvents, ReceiveEvents, AfterPoll, Wait, BudgetSpent
<1>4. CASE ReturnError
  BY <1>1, <1>4, ErrorGivesUp DEF Attempts!ANext
<1>5. CASE run' = [run EXCEPT !.late = TRUE] /\ UNCHANGED result
  <2>1. run'.at \in BeforeVerdict
    BY <1>1, <1>2, <1>5 DEF RunType
  <2>. QED BY <1>1, <1>5, <2>1, AttemptStutters
<1>6. CASE (\E place \in {"followup", "poll", "reading", "wait"} : run' = At(place)) /\ UNCHANGED result
  <2>1. run'.at \in BeforeVerdict
    BY <1>2, <1>6 DEF RunType, At, BeforeVerdict, Polling
  <2>. QED BY <1>1, <1>6, <2>1, AttemptStutters
<1>7. CASE (\E raw : run' = [run EXCEPT !.at = "events", !.raw = raw]) /\ UNCHANGED result
  <2>1. run'.at = "events"
    BY <1>2, <1>7 DEF RunType
  <2>2. Doing = "running" /\ Doing' = "storing" /\ Saying' \in Attempts!Outcome'
    BY <1>1, <2>1 DEF Doing, IsStoring, SayingInv, BeforeVerdict, Polling
  <2>3. UNCHANGED Returned
    BY <1>7, ReturnedStays
  <2>4. Saying' \in Attempts!Outcome
    BY <2>2 DEF Attempts!Outcome
  <2>. QED BY <1>1, <2>2, <2>3, <2>4 DEF Attempts!ANext, Attempts!Complete
<1>. QED BY <1>3, <1>4, <1>5, <1>6, <1>7

(* What is known of the attempt while Run stores what was said.            *)
LEMMA StoringIsSaying ==
  ASSUME RunInv, run.at \in Storing
  PROVE  /\ IsStoring /\ Doing = "storing"
         /\ Saying = OutcomeOf(Kind(FinalReport), FinalReport)
         /\ Saying.kind = Kind(FinalReport)
         /\ Saying.artifacts = Said(ReportedArtifacts(FinalReport))
         /\ Saying.findings = Said(ReportedFindings(FinalReport))
<1>1. IsStoring /\ run.at # "idle"
  BY DEF IsStoring, Storing
<1>2. Saying = OutcomeOf(Kind(FinalReport), FinalReport)
  BY <1>1 DEF Saying, FinalReport
<1>. QED BY <1>1, <1>2, OutcomeFields DEF Doing

(* The item at hand, if it is worth storing, is one that was said.         *)
LEMMA ItemIsSaid ==
  ASSUME RunInv, run.at \in Storing, NEW items \in Seq(STRING), InRange(items), HasItem(items)
  PROVE  items[run.next] \in Said(items)
<1>1. run.next \in Nat
  BY RunTyped DEF Storing
<1>2. Len(items) \in Nat /\ Len(items) # 0 /\ DOMAIN items = 1 .. Len(items)
  BY LenProperties, EmptySeq DEF HasItem
<1>3. run.next \in DOMAIN items
  BY <1>1, <1>2 DEF InRange
<1>. QED BY <1>3 DEF HasItem, Said

LEMMA StoringStutters ==
  ASSUME SessionInv, run.at \in Storing, NEW items, Len(items) \in Nat, InRange(items),
         NEW place \in Storing, run' = NextItem(items, place)
  PROVE  UNCHANGED <<Doing, Saying>> /\ run'.at \in Storing /\ run'.raw = run.raw
<1>1. RunInv
  BY DEF SessionInv
<1>2. run'.raw = run.raw /\ run'.at \in Storing
  BY <1>1, NextItemMoves
<1>3. FinalEvent' = FinalEvent
  BY <1>2 DEF FinalEvent
<1>4. IsStoring /\ IsStoring' /\ run.at # "idle" /\ run'.at # "idle"
  BY <1>2 DEF IsStoring, Storing
<1>. QED BY <1>2, <1>3, <1>4 DEF Doing, Saying

LEMMA PersistEventStep ==
  ASSUME SessionInv, PersistEvent
  PROVE  [Attempts!ANext]_(Attempts!attemptVars)
<1>1. /\ run.at \in Storing /\ "artifacts" \in Storing /\ run' = NextItem(run.raw, "artifacts")
      /\ run.at = "events" /\ UNCHANGED <<created, result, artifact, finding>>
  BY DEF PersistEvent, Storing
<1>2. RunInv /\ Len(run.raw) \in Nat /\ InRange(run.raw)
  BY <1>1, FinalReportTyped DEF SessionInv, RunInv
<1>3. run'.at \in Storing /\ run'.raw = run.raw
  BY <1>1, <1>2, StoringStutters
<1>. QED BY <1>1, <1>3, AttemptStutters

LEMMA PersistArtifactStep ==
  ASSUME SessionInv, PersistArtifact
  PROVE  [Attempts!ANext]_(Attempts!attemptVars)
<1>1. /\ run.at = "artifacts" /\ run.at \in Storing /\ "findings" \in Storing /\ run.at # "idle"
      /\ UNCHANGED <<created, finding>>
  BY DEF PersistArtifact, Storing
<1> PICK items : items = ReportedArtifacts(FinalReport)
  OBVIOUS
<1>2. RunInv /\ items \in Seq(STRING) /\ Len(items) \in Nat /\ InRange(items) /\ run.session = created
  <2>1. RunInv
    BY DEF SessionInv
  <2>2. items \in Seq(STRING) /\ InRange(items) /\ run.session = created
    BY <1>1, <2>1, FinalReportTyped DEF RunInv
  <2>. QED BY <2>1, <2>2, LenProperties
<1>3. CASE run' = NextItem(items, "findings") /\ UNCHANGED <<artifact, result>>
  <2>1. run'.at \in Storing /\ run'.raw = run.raw
    BY <1>1, <1>2, <1>3, StoringStutters
  <2>. QED BY <1>1, <1>3, <2>1, AttemptStutters
<1>4. CASE /\ HasItem(items) /\ run' = NextItem(items, "findings") /\ UNCHANGED result
           /\ artifact' = [artifact EXCEPT ![items[run.next]] = Append(@, run.session)]
  <2>1. UNCHANGED <<Doing, Saying>>
    BY <1>1, <1>2, <1>4, StoringStutters
  <2>2. UNCHANGED Returned
    BY <1>4, ReturnedStays
  <2>3. Doing = "storing" /\ items[run.next] \in Saying.artifacts
    BY <1>1, <1>2, <1>4, StoringIsSaying, ItemIsSaid
  <2>4. artifact' = [artifact EXCEPT ![items[run.next]] = Append(@, created)]
    BY <1>2, <1>4
  <2>. QED BY <1>1, <2>1, <2>2, <2>3, <2>4 DEF Attempts!ANext, Attempts!StoreArtifact
<1>5. CASE ReturnError /\ UNCHANGED artifact
  BY <1>1, <1>5, ErrorGivesUp DEF Attempts!ANext
<1>. QED BY <1>3, <1>4, <1>5 DEF PersistArtifact, FinalReport

LEMMA PersistFindingStep ==
  ASSUME SessionInv, PersistFinding
  PROVE  [Attempts!ANext]_(Attempts!attemptVars)
<1>1. /\ run.at = "findings" /\ run.at \in Storing /\ "finish" \in Storing /\ run.at # "idle"
      /\ UNCHANGED <<created, artifact>>
  BY DEF PersistFinding, Storing
<1> PICK items : items = ReportedFindings(FinalReport)
  OBVIOUS
<1>2. RunInv /\ items \in Seq(STRING) /\ Len(items) \in Nat /\ InRange(items) /\ run.session = created
  <2>1. RunInv
    BY DEF SessionInv
  <2>2. items \in Seq(STRING) /\ InRange(items) /\ run.session = created
    BY <1>1, <2>1, FinalReportTyped DEF RunInv
  <2>. QED BY <2>1, <2>2, LenProperties
<1>3. CASE run' = NextItem(items, "finish") /\ UNCHANGED <<finding, result>>
  <2>1. run'.at \in Storing /\ run'.raw = run.raw
    BY <1>1, <1>2, <1>3, StoringStutters
  <2>. QED BY <1>1, <1>3, <2>1, AttemptStutters
<1>4. CASE /\ HasItem(items) /\ run' = NextItem(items, "finish") /\ UNCHANGED result
           /\ finding' = finding \union {[session |-> run.session, class |-> items[run.next]]}
  <2>1. UNCHANGED <<Doing, Saying>>
    BY <1>1, <1>2, <1>4, StoringStutters
  <2>2. UNCHANGED Returned
    BY <1>4, ReturnedStays
  <2>3. Doing = "storing" /\ items[run.next] \in Saying.findings
    BY <1>1, <1>2, <1>4, StoringIsSaying, ItemIsSaid
  <2>4. finding' = finding \union {[session |-> created, class |-> items[run.next]]}
    BY <1>2, <1>4
  <2>. QED BY <1>1, <2>1, <2>2, <2>3, <2>4 DEF Attempts!ANext, Attempts!StoreFinding
<1>5. CASE ReturnError /\ UNCHANGED finding
  BY <1>1, <1>5, ErrorGivesUp DEF Attempts!ANext
<1>. QED BY <1>3, <1>4, <1>5 DEF PersistFinding, FinalReport

LEMMA FinishReturns ==
  ASSUME SessionInv, Finish
  PROVE  Attempts!Return
<1>1. /\ run.at = "finish" /\ run.at \in Storing /\ run.at # "idle" /\ run' = Idle
      /\ UNCHANGED <<created, artifact, finding>>
  BY DEF Finish, Storing
<1>2. RunInv /\ StoreInv /\ VerdictInv
  BY DEF SessionInv
<1>3. run.session = created /\ created \in Sessions
  BY <1>1, <1>2, RunTyped
<1> PICK event : event = FinalEvent
  OBVIOUS
<1> DEFINE report == event.report
           verdict == [kind |-> Kind(report), event |-> event]
<1>4. event \in RawEvents /\ report \in AllReports /\ report = FinalReport
  BY <1>1, <1>2, FinalReportTyped DEF FinalReport
<1>5. Kind(report) \in Outcomes
  BY <1>4, ReportsTyped
<1>6. verdict \in ResultType /\ verdict.kind = Kind(report) /\ verdict.event = event
      /\ verdict.kind \notin {"pending", "error"}
  BY <1>4, <1>5 DEF ResultType, Outcomes
<1>7. Returned' = [Returned EXCEPT ![created] = Saying]
  <2>1. result' = [result EXCEPT ![created] = verdict] /\ result \in [Sessions -> ResultType]
    BY <1>2, <1>3 DEF Finish, VerdictInv
  <2>2. Saying = OutcomeOf(Kind(report), report)
    BY <1>1, <1>2, <1>4, StoringIsSaying
  <2> HIDE DEF verdict
  <2>3. Returned' = [Returned EXCEPT ![created] = OutcomeOf(verdict.kind, verdict.event.report)]
    BY <1>3, <1>6, <2>1, ReturnedChanges
  <2>. QED BY <1>6, <2>2, <2>3
<1>8. Doing = "storing" /\ Doing' = "idle" /\ Saying' = Pending
  BY <1>1, <1>2, StoringIsSaying DEF Doing, Saying, IsStoring, Idle
<1>9. /\ ArtifactsKept(report, All(ReportedArtifacts(report)))
      /\ FindingsKept(report, All(ReportedFindings(report)))
  BY <1>1, <1>2, <1>4 DEF StoreInv
<1>10. /\ \A i \in DOMAIN ReportedArtifacts(report) :
            i < All(ReportedArtifacts(report)) /\ ReportedArtifacts(report)[i] = report.artifacts[i]
       /\ \A i \in DOMAIN ReportedFindings(report) :
            i < All(ReportedFindings(report)) /\ ReportedFindings(report)[i] = report.findings[i]
  BY <1>4, ReportsTyped, LenProperties DEF All
<1>11. \A n \in Said(ReportedArtifacts(report)) : Attempts!IsLatest(n)
  BY <1>9, <1>10 DEF Said, ArtifactsKept, Kept, Attempts!IsLatest
<1>12. \A c \in Said(ReportedFindings(report)) : [session |-> created, class |-> c] \in finding
  BY <1>9, <1>10 DEF Said, FindingsKept
<1>13. /\ \A n \in Saying.artifacts : Attempts!IsLatest(n)
       /\ \A c \in Saying.findings : [session |-> created, class |-> c] \in finding
  BY <1>1, <1>2, <1>4, <1>11, <1>12, StoringIsSaying
<1>. QED BY <1>1, <1>7, <1>8, <1>13 DEF Attempts!Return, Attempts!Ends, Attempts!Nothing, Pending

LEMMA AttemptStep ==
  ASSUME SessionInv, SayingInv', [Next]_vars
  PROVE  [Attempts!ANext]_(Attempts!attemptVars)
<1>1. CASE CreateSession
  BY <1>1, CreateSessionBegins DEF Attempts!ANext
<1>2. CASE AppendStarted \/ SendFollowup \/ AskEvents \/ ReceiveEvents \/ Wait \/ BudgetSpent
  BY <1>2, PollingStep
<1>3. CASE CallFails \/ Stop
  <2>1. run.at # "idle" /\ ReturnError /\ UNCHANGED <<created, artifact, finding>>
    BY <1>3 DEF CallFails, Stop, stored
  <2>. QED BY <2>1, ErrorGivesUp DEF Attempts!ANext
<1>4. CASE PersistEvent
  BY <1>4, PersistEventStep
<1>5. CASE PersistArtifact
  BY <1>5, PersistArtifactStep
<1>6. CASE PersistFinding
  BY <1>6, PersistFindingStep
<1>7. CASE Finish
  BY <1>7, FinishReturns DEF Attempts!ANext
<1>8. ASSUME UNCHANGED <<created, run, result, stored>>
      PROVE  UNCHANGED Attempts!attemptVars
  BY <1>8, AttemptStutters DEF stored
<1>9. CASE \E s \in Sessions : \/ Steer(s) \/ CancelSession(s) \/ ReadSession(s)
                               \/ RunCompletion(s) \/ Emit(s) \/ ServeStream(s)
  <2>1. UNCHANGED <<created, run, result, stored>>
    BY <1>9 DEF Steer, CancelSession, ReadSession, RunCompletion, Emit, ServeStream
  <2>. QED BY <1>8, <2>1
<1>10. CASE UNCHANGED vars
  BY <1>8, <1>10 DEF vars
<1>. QED BY <1>1, <1>2, <1>3, <1>4, <1>5, <1>6, <1>7, <1>9, <1>10 DEF Next, Runner

(* Run implements AgentAttempts: one attempt at a time, which gives up or  *)
(* returns what its own agent's completed event says, and only when every  *)
(* artifact and finding in it is stored; polls, streams, steering,         *)
(* cancellation, lost answers and stops are steps that an attempt does not *)
(* see.                                                                    *)
THEOREM RunImplementsAttempts == Spec => AttemptsSpec
<1>1. Init => Attempts!AInit
  <2> SUFFICES ASSUME Init PROVE Attempts!AInit
    OBVIOUS
  <2>1. run.at = "idle" /\ \A s \in Sessions : result[s] = Pending /\ ~HasVerdict(s)
    BY DEF Init, Idle, HasVerdict, Pending
  <2>2. Doing = "idle" /\ Saying = Pending /\ Returned = [s \in Sessions |-> Pending]
    BY <2>1 DEF Doing, Saying, IsStoring, Returned
  <2>. QED BY <2>2 DEF Init, Attempts!AInit, Attempts!Nothing, Pending, Sessions
<1>2. SessionInv /\ SayingInv' /\ [Next]_vars => [Attempts!ANext]_(Attempts!attemptVars)
  BY AttemptStep
<1>. QED BY <1>1, <1>2, SayingTyped, SessionInvInductive, PTL
         DEF Spec, AttemptsSpec, Attempts!ASpec

=============================================================================
