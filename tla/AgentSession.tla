---------------------------- MODULE AgentSession ----------------------------
(***************************************************************************)
(* One run's agent sessions: agents.Runner, which opens a session in DSH,  *)
(* sends the instruction, polls the session's events until the agent has   *)
(* completed and stores what it reported; the DSH client between them; and *)
(* DSH itself, which is the daemon's inline server (localdsh) or, when an  *)
(* endpoint is configured, an external process of which only the client's  *)
(* view is known. The stage's runner calls Run again, with a new session,  *)
(* after an error and when the workflow comes back to the stage.           *)
(***************************************************************************)
EXTENDS Naturals, Sequences, FiniteSets

CONSTANTS
  MaxSessions,  \* bound on the calls of Run
  MaxEvents,    \* bound on the events of a session in an external DSH
  MaxMessage,   \* bound on the length of a session's message
  Reports,      \* what an agent may put in the data of agent.completed
  Texts         \* ... and the outcomes found in the text of the inline model

Sessions == 1 .. MaxSessions

(* The outcomes that reduceOutcome knows.                                  *)
Outcomes ==
  {"advance", "approve", "revise", "revise_plan", "wait_user", "done",
   "failed", "blocked_by_plan"}

(* A report has artifacts and findings, some of which say too little.      *)
Blank == "blank"

ASSUME SessionAssumption ==
  /\ MaxSessions \in Nat /\ MaxEvents \in Nat /\ MaxMessage \in Nat \ {0}
  /\ \A r \in Reports :
       /\ r.parses \in BOOLEAN /\ r.error = FALSE
       /\ r.outcome \in STRING
       /\ r.artifacts \in Seq(STRING) /\ r.findings \in Seq(STRING)
  /\ Texts \subseteq Outcomes

VARIABLES
  dsh,       \* which DSH the daemon was configured with
  created,   \* the number of sessions that were created
  session,   \* what DSH keeps of each session
  request,   \* the GET of each session's events that DSH is serving
  run,       \* where Run is, with its locals
  result,    \* what Run returned for each session
  log,       \* the run's events: of which session, and which of its events
  artifact,  \* for each artifact, the sessions that added its versions
  finding    \* the stored findings, each with its session

dshVars == <<dsh, session, request>>
stored == <<log, artifact, finding>>
vars == <<dsh, created, session, request, run, result, stored>>

(* The data of agent.completed when the model could not be asked: no       *)
(* artifacts and no findings, as in every answer of the inline server.     *)
InlineReport(outcome, error) ==
  [outcome |-> outcome, parses |-> TRUE, error |-> error,
   artifacts |-> <<>>, findings |-> <<>>]

NoReport == InlineReport("", FALSE)

AllReports ==
  Reports \union
    [outcome : Texts \union {"", "failed"}, parses : {TRUE}, error : BOOLEAN,
     artifacts : {<<>>}, findings : {<<>>}]

(* Of the kinds in rawKindMap, the one that ends the poll and one that     *)
(* does not; and one that is not in the map.                               *)
KnownKinds == {"agent.completed", "agent.failed"}
UnknownKind == "session.canceled"

Messages == UNION {[1 .. n -> {"instruction", "steer"}] : n \in 0 .. MaxMessage}

(* A raw event; the message that an agent.completed answers is what the    *)
(* prompt was made of.                                                     *)
Raw(kind, report, message) == [kind |-> kind, report |-> report, message |-> message]
RawEvents ==
  [kind : KnownKinds \union {UnknownKind}, report : AllReports, message : Messages]

Names == UNION {{r.artifacts[i] : i \in DOMAIN r.artifacts} : r \in Reports}
Classes == UNION {{r.findings[i] : i \in DOMAIN r.findings} : r \in Reports}

NewSession ==
  [message |-> <<>>, canceled |-> FALSE, completion |-> <<>>, stream |-> <<>>]

NoRequest == [at |-> "none"]
Idle == [at |-> "idle"]
Pending == [kind |-> "pending"]
Error == [kind |-> "error"]

Init ==
  /\ dsh \in {"inline", "external"}
  /\ created = 0
  /\ session = [s \in Sessions |-> NewSession]
  /\ request = [s \in Sessions |-> NoRequest]
  /\ run = Idle
  /\ result = [s \in Sessions |-> Pending]
  /\ log = <<>>
  /\ artifact = [n \in Names \ {Blank} |-> <<>>]
  /\ finding = {}

-----------------------------------------------------------------------------
(* The inline server. Each handler looks at the session under its lock and *)
(* lets go of it while the model is asked.                                 *)

(* Mutant: the guidance takes the place of the instruction.                *)
MutantSteered(message) == <<"steer">>

Steered(message) == Append(message, "steer")

(* Any client of the server may steer or cancel a session. Only the runner *)
(* sends follow-ups and reads events.                                      *)
Steer(s) ==
  /\ dsh = "inline"
  /\ s <= created
  /\ Len(session[s].message) < MaxMessage
  /\ session' = [session EXCEPT ![s].message = Steered(@)]
  /\ UNCHANGED <<dsh, created, request, run, result, stored>>

CancelSession(s) ==
  /\ dsh = "inline"
  /\ s <= created
  /\ ~session[s].canceled
  /\ session' = [session EXCEPT ![s].canceled = TRUE]
  /\ UNCHANGED <<dsh, created, request, run, result, stored>>

(* followup: a new message, whose completion is still to come.             *)
Followup(s) ==
  session' = [session EXCEPT ![s].message = <<"instruction">>, ![s].completion = <<>>]

Answer(s, raw) == request' = [request EXCEPT ![s] = [at |-> "answered", raw |-> raw]]

(* events, up to the call of runCompletion: the copies of canceled,        *)
(* lastMessage and completed.                                              *)
ReadSession(s) ==
  /\ dsh = "inline"
  /\ request[s].at = "sent"
  /\ IF session[s].canceled THEN Answer(s, <<Raw(UnknownKind, NoReport, <<>>)>>)
     ELSE IF session[s].completion # <<>> THEN Answer(s, session[s].completion)
     ELSE request' = [request EXCEPT ![s] =
                        [at |-> "completing", prompt |-> session[s].message]]
  /\ UNCHANGED <<dsh, created, session, run, result, stored>>

(* runCompletion and completeWithError, and the line that events writes:   *)
(* the outcome in the model's text, or "failed" when there is an error.    *)
RunCompletion(s) ==
  /\ request[s].at = "completing"
  /\ \E report \in {InlineReport(o, FALSE) : o \in Texts} \union {InlineReport("failed", TRUE)} :
       LET line == <<Raw("agent.completed", report, request[s].prompt)>> IN
       /\ session' = [session EXCEPT ![s].completion = line]
       /\ Answer(s, line)
  /\ UNCHANGED <<dsh, created, run, result, stored>>

-----------------------------------------------------------------------------
(* The external DSH *)

(* The agent emits events once it was instructed, whether or not anybody   *)
(* still waits for them.                                                   *)
Emit(s) ==
  /\ dsh = "external"
  /\ session[s].message # <<>>
  /\ Len(session[s].stream) < MaxEvents
  /\ \E kind \in KnownKinds \union {UnknownKind} :
       \E report \in IF kind = "agent.completed" THEN Reports ELSE {NoReport} :
         session' = [session EXCEPT ![s].stream =
                       Append(@, Raw(kind, report, session[s].message))]
  /\ UNCHANGED <<dsh, created, request, run, result, stored>>

(* The answer is the stream so far.                                        *)
ServeStream(s) ==
  /\ dsh = "external"
  /\ request[s].at = "sent"
  /\ Answer(s, session[s].stream)
  /\ UNCHANGED <<dsh, created, session, run, result, stored>>

-----------------------------------------------------------------------------
(* Runner.Run *)

At(place) == [run EXCEPT !.at = place]

(* Run returns an error; the engine leaves the run in its stage.           *)
ReturnError ==
  /\ run' = Idle
  /\ result' = [result EXCEPT ![run.session] = Error]

(* CreateSession; the answer may be lost.                                  *)
CreateSession ==
  /\ run.at = "idle"
  /\ created < MaxSessions
  /\ created' = created + 1
  /\ \/ /\ run' = [at |-> "append started", session |-> created + 1, late |-> FALSE,
                   raw |-> <<>>, next |-> 1]
        /\ UNCHANGED result
     \/ /\ result' = [result EXCEPT ![created + 1] = Error]
        /\ UNCHANGED run
  /\ UNCHANGED <<dshVars, stored>>

(* The number of an entry in the log: the runner's own agent.started, the  *)
(* session's raw events, the runner's own agent.completed.                 *)
Started == 0
Completed == MaxEvents + 2
Entry(n) == [session |-> run.session, event |-> n]

AppendStarted ==
  /\ run.at = "append started"
  /\ \/ /\ log' = Append(log, Entry(Started))
        /\ run' = At("followup")
        /\ UNCHANGED result
     \/ ReturnError /\ UNCHANGED log
  /\ UNCHANGED <<created, dshVars, artifact, finding>>

SendFollowup ==
  /\ run.at = "followup"
  /\ Followup(run.session)
  /\ \/ run' = At("poll") /\ UNCHANGED result
     \/ ReturnError
  /\ UNCHANGED <<dsh, created, request, stored>>

AskEvents ==
  /\ run.at = "poll"
  /\ run' = At("reading")
  /\ request' = [request EXCEPT ![run.session] = [at |-> "sent"]]
  /\ UNCHANGED <<dsh, created, session, result, stored>>

(* A call that did not get through, an answer with an error status, a line *)
(* that does not decode or is too long, a timeout of the client. DSH goes  *)
(* on with what it is doing.                                               *)
CallFails ==
  /\ run.at \in {"followup", "reading"}
  /\ ReturnError
  /\ UNCHANGED <<dshVars, created, stored>>

IsCompleted(raw) == \E i \in DOMAIN raw : raw[i].kind = "agent.completed"

(* Mutant: the budget is not looked at.                                    *)
MutantAfterPoll(raw) ==
  IF IsCompleted(raw)
  THEN run' = [run EXCEPT !.at = "events", !.raw = raw] /\ UNCHANGED <<result, log>>
  ELSE run' = At("wait") /\ UNCHANGED <<result, log>>

(* Mutant: every poll stores the events that it read.                      *)
MutantStoringPoll(raw) ==
  IF IsCompleted(raw)
  THEN run' = [run EXCEPT !.at = "events", !.raw = raw] /\ UNCHANGED <<result, log>>
  ELSE /\ IF run.late THEN ReturnError ELSE run' = At("wait") /\ UNCHANGED result
       /\ log' = log \o [i \in DOMAIN raw |-> Entry(i)]

(* What pollEvents does with the events that it read.                      *)
AfterPoll(raw) ==
  /\ IF IsCompleted(raw)
     THEN run' = [run EXCEPT !.at = "events", !.raw = raw] /\ UNCHANGED result
     ELSE IF run.late THEN ReturnError ELSE run' = At("wait") /\ UNCHANGED result
  /\ UNCHANGED log

ReceiveEvents ==
  /\ run.at = "reading"
  /\ request[run.session].at = "answered"
  /\ AfterPoll(request[run.session].raw)
  /\ request' = [request EXCEPT ![run.session] = NoRequest]
  /\ UNCHANGED <<dsh, created, session, artifact, finding>>

Wait ==
  /\ run.at = "wait"
  /\ run' = At("poll")
  /\ UNCHANGED <<dshVars, created, result, stored>>

(* The deadline passes.                                                    *)
BudgetSpent ==
  /\ run.at \in {"poll", "reading", "wait"}
  /\ ~run.late
  /\ run' = [run EXCEPT !.late = TRUE]
  /\ UNCHANGED <<dshVars, created, result, stored>>

-----------------------------------------------------------------------------
(* What Run stores of a completed session *)

(* Mutant: the loop ends before the last item.                             *)
MutantNextItem(items, place) ==
  IF run.next + 1 < Len(items) THEN [run EXCEPT !.next = @ + 1]
                               ELSE [run EXCEPT !.at = place, !.next = 1]

(* A loop over items that has come to its end goes on at the next place.   *)
NextItem(items, place) ==
  IF run.next < Len(items) THEN [run EXCEPT !.next = @ + 1]
                           ELSE [run EXCEPT !.at = place, !.next = 1]

(* Mutant: what an item says is not looked at.                             *)
MutantHasItem(items) == items # <<>>

(* There is an item at hand, and it says enough to be stored.              *)
HasItem(items) == items # <<>> /\ items[run.next] # Blank

(* findCompleted: the last one.                                            *)
FinalEvent ==
  LET last == CHOOSE i \in DOMAIN run.raw :
                /\ run.raw[i].kind = "agent.completed"
                /\ \A j \in DOMAIN run.raw : run.raw[j].kind = "agent.completed" => j <= i
  IN run.raw[last]

(* reduceOutcome: what does not parse is an "advance" that reports nothing.*)
Kind(report) ==
  IF report.parses /\ report.outcome \in Outcomes THEN report.outcome ELSE "advance"

Items(report, items) == IF report.parses THEN items ELSE <<>>
ReportedArtifacts(report) == Items(report, report.artifacts)
ReportedFindings(report) == Items(report, report.findings)

(* persistEvents: Normalize keeps the known kinds; an append that fails is *)
(* ignored.                                                                *)
PersistEvent ==
  /\ run.at = "events"
  /\ run' = NextItem(run.raw, "artifacts")
  /\ \/ /\ run.raw[run.next].kind \in KnownKinds
        /\ log' = Append(log, Entry(run.next))
     \/ UNCHANGED log
  /\ UNCHANGED <<dshVars, created, result, artifact, finding>>

(* Mutant: an artifact that cannot be stored is skipped.                   *)
MutantPersistArtifact ==
  LET items == ReportedArtifacts(FinalEvent.report) IN
  /\ run.at = "artifacts"
  /\ run' = NextItem(items, "findings")
  /\ \/ /\ HasItem(items)
        /\ artifact' = [artifact EXCEPT ![items[run.next]] = Append(@, run.session)]
     \/ UNCHANGED artifact
  /\ UNCHANGED <<dshVars, created, result, log, finding>>

(* persistArtifacts: an item without a name is skipped, one that cannot be *)
(* stored ends Run.                                                        *)
PersistArtifact ==
  LET items == ReportedArtifacts(FinalEvent.report) IN
  /\ run.at = "artifacts"
  /\ \/ /\ ~HasItem(items)
        /\ run' = NextItem(items, "findings")
        /\ UNCHANGED <<artifact, result>>
     \/ /\ HasItem(items)
        /\ \/ /\ artifact' = [artifact EXCEPT ![items[run.next]] = Append(@, run.session)]
              /\ run' = NextItem(items, "findings")
              /\ UNCHANGED result
           \/ ReturnError /\ UNCHANGED artifact
  /\ UNCHANGED <<dshVars, created, log, finding>>

(* persistFindings: an item without a statement is skipped.                *)
PersistFinding ==
  LET items == ReportedFindings(FinalEvent.report) IN
  /\ run.at = "findings"
  /\ \/ /\ ~HasItem(items)
        /\ run' = NextItem(items, "finish")
        /\ UNCHANGED <<finding, result>>
     \/ /\ HasItem(items)
        /\ \/ /\ finding' = finding \union {[session |-> run.session, class |-> items[run.next]]}
              /\ run' = NextItem(items, "finish")
              /\ UNCHANGED result
           \/ ReturnError /\ UNCHANGED finding
  /\ UNCHANGED <<dshVars, created, log, artifact>>

(* The runner's own agent.completed, which may fail unnoticed, and the     *)
(* outcome.                                                                *)
Finish ==
  /\ run.at = "finish"
  /\ \/ log' = Append(log, Entry(Completed))
     \/ UNCHANGED log
  /\ run' = Idle
  /\ result' = [result EXCEPT ![run.session] =
       [kind |-> Kind(FinalEvent.report), event |-> FinalEvent]]
  /\ UNCHANGED <<dshVars, created, artifact, finding>>

(* The daemon stops: Run returns the context's error, or dies. The inline  *)
(* server, its sessions and its requests are gone with it; an external one *)
(* only loses the connection.                                              *)
Stop ==
  /\ run.at # "idle"
  /\ ReturnError
  /\ request' = [s \in Sessions |-> NoRequest]
  /\ session' = IF dsh = "inline" THEN [s \in Sessions |-> NewSession] ELSE session
  /\ UNCHANGED <<dsh, created, stored>>

Runner ==
  \/ AppendStarted \/ SendFollowup \/ AskEvents \/ CallFails \/ ReceiveEvents \/ Wait
  \/ PersistEvent \/ PersistArtifact \/ PersistFinding \/ Finish

Next ==
  \/ CreateSession
  \/ Runner
  \/ BudgetSpent
  \/ Stop
  \/ \E s \in Sessions :
       \/ Steer(s) \/ CancelSession(s) \/ ReadSession(s) \/ RunCompletion(s)
       \/ Emit(s) \/ ServeStream(s)

Spec == Init /\ [][Next]_vars

(* Run does not stand still: its calls have a timeout of their own, and    *)
(* time goes by. DSH need not do anything.                                 *)
FairSpec == Spec /\ WF_vars(Runner) /\ WF_vars(BudgetSpent)

-----------------------------------------------------------------------------
(* Properties *)

TypeOK ==
  /\ dsh \in {"inline", "external"}
  /\ created \in 0 .. MaxSessions
  /\ session \in [Sessions ->
       [message : Messages, canceled : BOOLEAN,
        completion : Seq(RawEvents), stream : Seq(RawEvents)]]
  /\ request \in [Sessions ->
       {NoRequest, [at |-> "sent"]}
         \union [at : {"completing"}, prompt : Messages]
         \union [at : {"answered"}, raw : Seq(RawEvents)]]
  /\ run \in {Idle} \union
       [at : {"append started", "followup", "poll", "reading", "wait", "events",
              "artifacts", "findings", "finish"},
        session : 1 .. created, late : BOOLEAN, raw : Seq(RawEvents), next : Nat]
  /\ result \in [Sessions ->
       {Pending, Error} \union [kind : Outcomes, event : RawEvents]]
  /\ log \in Seq([session : 1 .. created, event : Nat])
  /\ artifact \in [Names \ {Blank} -> Seq(1 .. created)]
  /\ finding \subseteq [session : 1 .. created, class : Classes \ {Blank}]

HasVerdict(s) == result[s].kind \notin {"pending", "error"}

(* The run's history tells its sessions one after the other, and of each   *)
(* what happened once and in order: the start, the agent's events, the     *)
(* runner's own agent.completed. Polling reads the whole stream again and  *)
(* again, and an abandoned agent goes on, but neither shows in the log.    *)
LogInOrder ==
  \A i, j \in DOMAIN log : i < j =>
    \/ log[i].session < log[j].session
    \/ log[i].session = log[j].session /\ log[i].event < log[j].event

(* When Run has returned a verdict, on which the engine moves the run, all *)
(* that the agent reported is stored, and until another session begins the *)
(* last version of each artifact is this agent's, whatever attempts that   *)
(* failed half-way had added before.                                       *)
Stored(s, report) ==
  /\ \A i \in DOMAIN ReportedArtifacts(report) : LET n == report.artifacts[i] IN
       n # Blank => /\ \E k \in DOMAIN artifact[n] : artifact[n][k] = s
                    /\ s = created => artifact[n][Len(artifact[n])] = s
  /\ \A i \in DOMAIN ReportedFindings(report) :
       report.findings[i] # Blank =>
         [session |-> s, class |-> report.findings[i]] \in finding

ReportBeforeVerdict ==
  \A s \in Sessions : HasVerdict(s) => Stored(s, result[s].event.report)

(* The inline model's verdict answers the instruction of its stage, with   *)
(* the guidance given meanwhile, and never guidance alone; and a model     *)
(* that could not be asked is a failure, never a verdict of its own.       *)
OwnAnswer ==
  \A s \in Sessions : HasVerdict(s) =>
    LET event == result[s].event IN
    /\ dsh = "inline" => event.message # <<>> /\ event.message[1] = "instruction"
    /\ event.report.error => result[s].kind = "failed"

(* What AgentAttempts sees of Run.                                         *)
OutcomeOf(kind, report) ==
  LET Said(items) == {items[i] : i \in DOMAIN items} \ {Blank} IN
  [kind |-> kind, artifacts |-> Said(ReportedArtifacts(report)),
   findings |-> Said(ReportedFindings(report))]

IsStoring == run.at \in {"events", "artifacts", "findings", "finish"}

Doing == IF run.at = "idle" THEN "idle" ELSE IF IsStoring THEN "storing" ELSE "running"

Saying == IF IsStoring THEN OutcomeOf(Kind(FinalEvent.report), FinalEvent.report)
                       ELSE Pending

Returned ==
  [s \in Sessions |-> IF HasVerdict(s) THEN OutcomeOf(result[s].kind, result[s].event.report)
                                       ELSE result[s]]

(* Run implements AgentAttempts, whatever goes on between it and DSH: what *)
(* it stores is from the completed event of the session at hand, item by   *)
(* item, it returns that event's outcome, and no stop, lost answer or      *)
(* failure in between makes it return one that is not stored, or store for *)
(* a session that is over.                                                 *)
Attempts == INSTANCE AgentAttempts WITH
  MaxAttempts <- MaxSessions, Kinds <- Outcomes,
  Names <- Names \ {Blank}, Classes <- Classes \ {Blank},
  attempts <- created, step <- Doing, said <- Saying, returned <- Returned,
  versions <- artifact, found <- finding
AttemptsSpec == Attempts!ASpec

(* Run comes back to the engine, so that one silent, failed or canceled    *)
(* session does not hold up the worker and all the other runs with it.     *)
RunReturns == run.at # "idle" ~> run.at = "idle"

=============================================================================
