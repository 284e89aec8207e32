------------------------------ MODULE RunEngine ------------------------------
(***************************************************************************)
(* The daemon at work on its runs: the worker goroutine, which on every    *)
(* tick calls Engine.Step for each run that is not terminal; the HTTP      *)
(* handlers that create and cancel runs; and the store that they share.    *)
(*                                                                         *)
(* Every action ends where the code issues its next statement to SQLite or *)
(* its next call to an agent, so the handlers, other requests and a crash  *)
(* of the daemon can come between any two of them.                         *)
(***************************************************************************)
EXTENDS RunStore, FiniteSets

CONSTANTS
  Handlers,        \* goroutines that serve HTTP requests
  Cancellable,     \* the runs that some client may cancel
  FindingClasses,  \* the classes of findings that agents report
  FlakyStages,     \* the stages whose runner may return an error
  IterationLimit,  \* Options.IterationLimit of the engine
  MaxFaults        \* bound on crashes and on statements that SQLite fails

ASSUME EngineAssumption ==
  /\ Cancellable \subseteq Runs
  /\ FindingClasses \subseteq BlockingClasses
  /\ FlakyStages \subseteq AgentStages
  /\ IterationLimit \in Nat
  /\ MaxFaults \in Nat

VARIABLES
  pc,        \* where the worker is in Engine.Step, "idle" between two steps
  queue,     \* the runs of this tick's ListRuns that are still to step
  job,       \* the local variables of the Step under way
  request,   \* what each handler is doing
  faults,    \* how many faults have happened
  launches,  \* history: agent sessions created for each run and stage
  approved,  \* history: the reviews that let a run's present work go on
  late       \* history: sessions created for a run since its row is terminal

histVars == <<launches, approved, late>>
workerVars == <<pc, queue, job>>
vars == <<storeVars, workerVars, request, faults, histVars>>

(* pc: "check" and "write" are the two halves of UpdateRunState, made for  *)
(* the goal in job.goal; "increment" is IncrementIteration; "launch" calls *)
(* the stage's runner; "running" awaits the agent; "persist" stores what   *)
(* it reported; "attention" creates the attention; "append" appends        *)
(* job.event.                                                              *)
WorkerPoints ==
  {"idle", "check", "write", "increment", "launch", "running", "persist",
   "attention", "append"}

(* Why the Step updates the run's state: to enter the first stage, because *)
(* the stage's budget is spent, or to follow the stage's transition.       *)
Goals == {"enter", "limit", "route"}

Jobs ==
  [run : Runs \union {NoRun},     \* the run being stepped
   seen : RunStates,              \* run.State of the Step's own copy
   stage : Stages,                \* stageKey
   kind : ResultKinds,            \* result.Kind
   asks : BOOLEAN,                \* result.Attention # nil
   classes : SUBSET FindingClasses,   \* what the agent reported
   to : RunStates,                \* the state that UpdateRunState is to set
   goal : Goals,
   event : EventKinds]            \* the event to append next

NoJob ==
  [run |-> NoRun, seen |-> "NEW", stage |-> InitialStage, kind |-> "advance",
   asks |-> FALSE, classes |-> {}, to |-> "NEW", goal |-> "enter",
   event |-> "workflow.created"]

(* A handler is free, has inserted a run, has checked that a run may be    *)
(* canceled and read its stage, or has written CANCELED.                   *)
Requests ==
  [at : {"free", "created", "canceling", "canceled"},
   run : Runs \union {NoRun}, stage : Stages \union {""}]

NoRequest == [at |-> "free", run |-> NoRun, stage |-> ""]

Reviews == {"plan_review", "implementation_review"}

TypeOK ==
  /\ StoreTypeOK
  /\ pc \in WorkerPoints
  /\ queue \subseteq Runs
  /\ job \in Jobs
  /\ request \in [Handlers -> Requests]
  /\ faults \in 0..MaxFaults
  /\ launches \in [Runs -> [Stages -> Nat]]
  /\ approved \in [Runs -> SUBSET Reviews]
  /\ late \in [Runs -> Nat]

Init ==
  /\ StoreInit
  /\ pc = "idle"
  /\ queue = {}
  /\ job = NoJob
  /\ request = [h \in Handlers |-> NoRequest]
  /\ faults = 0
  /\ launches = [r \in Runs |-> [s \in Stages |-> 0]]
  /\ approved = [r \in Runs |-> {}]
  /\ late = [r \in Runs |-> 0]

-----------------------------------------------------------------------------
(* The worker *)

(* tickOnce lists the runs and keeps those that are not terminal; the list *)
(* is stepped in order of creation, which nothing below depends on.        *)
Tick ==
  /\ pc = "idle" /\ queue = {}
  /\ queue' = {r \in Runs : HasRow(r) /\ ~IsTerminal(state[r])}
  /\ UNCHANGED <<storeVars, pc, job, request, faults, histVars>>

(* Mutant: a run with an open question waits for its answer.               *)
MutantSteppable(r, st) ==
  /\ ~IsTerminal(state[r])
  /\ workflow[r] = FeatureDevelopment
  /\ attention # r

(* Step returns at once for a run that has become terminal since the list  *)
(* was made, for an unknown workflow, and for a stage that the run's state *)
(* does not allow it to enter.                                             *)
Steppable(r, st) ==
  /\ ~IsTerminal(state[r])
  /\ workflow[r] = FeatureDevelopment
  /\ \/ StageState(st) = state[r]
     \/ CanTransition(state[r], StageState(st))

(* Step reads the run and finds the stage to work on. From here on it      *)
(* trusts its copy of the run.                                             *)
StepLoad(r) ==
  LET st == IF stage[r] = "" THEN InitialStage ELSE stage[r] IN
  /\ pc = "idle" /\ r \in queue
  /\ queue' = queue \ {r}
  /\ IF Steppable(r, st)
       THEN /\ pc' = IF StageState(st) = state[r] THEN "increment" ELSE "check"
            /\ job' = [NoJob EXCEPT !.run = r, !.seen = state[r], !.stage = st,
                                    !.to = StageState(st)]
       ELSE UNCHANGED <<pc, job>>
  /\ UNCHANGED <<storeVars, request, faults, histVars>>

(* What Step does after an event is appended, whether or not the append    *)
(* went well.                                                              *)
AfterEvent ==
  CASE job.event = "agent.started"      -> "running"
    [] job.event = "agent.completed"    -> "persist"
    [] job.event = "attention.required" -> "check"
    [] OTHER                            -> "idle"

WorkerGoes(point) ==
  /\ pc' = point
  /\ job' = IF point = "idle" THEN NoJob ELSE job
  /\ UNCHANGED queue

(* Mutant: every terminal state is announced as a completion.              *)
MutantRouteEvent ==
  IF IsTerminal(job.to) THEN "workflow.completed" ELSE "stage.started"

(* The event that announces the write which follows the transition.        *)
RouteEvent ==
  CASE job.to = "DONE"       -> "workflow.completed"
    [] job.to = "FAILED"     -> "workflow.failed"
    [] job.to = "CANCELED"   -> "workflow.canceled"
    [] job.kind = "revise"   -> "stage.completed"
    [] OTHER                 -> "stage.started"

(* UpdateRunState reads the row and validates the move. A refusal ends the *)
(* Step, except that the error of the budget's update is discarded.        *)
WorkerCheck ==
  /\ pc = "check"
  /\ IF CanTransition(job.seen, job.to) /\ MayMove(job.run, job.to)
       THEN WorkerGoes("write")
       ELSE IF job.goal = "limit"
              THEN /\ pc' = "append"
                   /\ job' = [job EXCEPT !.event = "stage.failed"]
                   /\ UNCHANGED queue
              ELSE WorkerGoes("idle")
  /\ UNCHANGED <<storeVars, request, faults, histVars>>

(* UpdateRunState writes the row. Entering the stage leads to its budget;  *)
(* the other two writes are followed by an event.                          *)
WorkerWrite ==
  /\ pc = "write"
  /\ WriteState(job.run, job.to, StageOf(job.to, job.stage))
  /\ late' = [late EXCEPT ![job.run] = IF IsTerminal(job.to) THEN @ ELSE 0]
  /\ \/ /\ job.goal = "enter"
        /\ pc' = "increment"
        /\ job' = [job EXCEPT !.seen = job.to]
     \/ /\ job.goal = "limit"
        /\ pc' = "append"
        /\ job' = [job EXCEPT !.event = "stage.failed"]
     \/ /\ job.goal = "route"
        /\ pc' = "append"
        /\ job' = [job EXCEPT !.event = RouteEvent]
  /\ UNCHANGED <<queue, request, faults, launches, approved>>

(* Mutant: compares the count from before the increment.                   *)
MutantBudgetSpent(count) == count - 1 > IterationLimit

BudgetSpent(count) == count > IterationLimit

(* The iteration is counted before the stage runs; a count beyond the      *)
(* limit fails the run instead.                                            *)
SpendIteration ==
  /\ pc = "increment"
  /\ IncrementCounter(job.run, job.stage)
  /\ IF BudgetSpent(counters'[job.run][job.stage])
       THEN /\ pc' = "check"
            /\ job' = [job EXCEPT !.goal = "limit", !.to = "FAILED"]
       ELSE WorkerGoes("launch")
  /\ UNCHANGED <<queue, request, faults, histVars>>

(* The runner creates the agent's session; agent.started is appended next. *)
LaunchAgent ==
  /\ pc = "launch" /\ job.stage \in AgentStages
  /\ launches' = [launches EXCEPT ![job.run][job.stage] = @ + 1]
  /\ late' = [late EXCEPT ![job.run] = IF IsTerminal(state[job.run]) THEN @ + 1 ELSE @]
  /\ pc' = "append"
  /\ job' = [job EXCEPT !.event = "agent.started"]
  /\ UNCHANGED <<storeVars, queue, request, faults, approved>>

(* The stub of waiting_for_user: it asks nobody and advances.              *)
SkipWaiting ==
  /\ pc = "launch" /\ job.stage = "waiting_for_user"
  /\ pc' = "check"
  /\ job' = [job EXCEPT !.goal = "route", !.to = NextState(job.stage, "advance")]
  /\ UNCHANGED <<storeVars, queue, request, faults, histVars>>

(* The poll finds agent.completed. The runner appends the session's events *)
(* before it stores what the agent reported, and agent.completed once more *)
(* at its end, which the set of kinds does not tell from the first.        *)
AgentCompletes ==
  /\ pc = "running"
  /\ \E outcome \in OutcomeKinds, questions \in BOOLEAN,
        classes \in SUBSET FindingClasses :
       LET kind == ResultKind(job.stage, outcome) IN
       job' = [job EXCEPT !.kind = kind,
                          !.asks = Asks(job.stage, outcome, questions, classes),
                          !.classes = classes,
                          !.to = NextState(job.stage, kind),
                          !.goal = "route",
                          !.event = "agent.completed"]
  /\ pc' = "append"
  /\ UNCHANGED <<storeVars, queue, request, faults, histVars>>

(* The gatekeeper lets a plan that it has questions about go on as far as  *)
(* the user.                                                               *)
Approves(st, kind) ==
  \/ kind = "advance"
  \/ st = "plan_review" /\ kind = "wait_user"

(* The approvals of a run after a stage has returned a result: a new plan  *)
(* or a new implementation has yet to be reviewed, and a review lets the   *)
(* work go on or does not.                                                 *)
Approvals(given, st, kind) ==
  CASE st = "planning"     -> {}
    [] st = "implementing" -> given \ {"implementation_review"}
    [] st \in Reviews      -> IF Approves(st, kind) THEN given \union {st} ELSE given \ {st}
    [] OTHER               -> given

(* The findings are stored one by one, and the runner returns its result.  *)
StoreReport ==
  /\ pc = "persist"
  /\ AddFindings(job.run, job.classes)
  /\ approved' = [approved EXCEPT ![job.run] = Approvals(@, job.stage, job.kind)]
  /\ WorkerGoes(IF job.asks THEN "attention" ELSE "check")
  /\ UNCHANGED <<request, faults, launches, late>>

(* Mutant: a runner that goes back to the agent by itself after an error,  *)
(* within the same Step.                                                   *)
MutantRunnerFails ==
  /\ pc = "running" /\ job.stage \in FlakyStages
  /\ pc' = "launch"
  /\ UNCHANGED <<storeVars, queue, job, request, faults, histVars>>

(* The runner returns an error: no session can be created, or the agent    *)
(* never completes within the poll budget. A later tick tries again.       *)
RunnerFails ==
  /\ pc \in {"launch", "running"} /\ job.stage \in FlakyStages
  /\ WorkerGoes("idle")
  /\ UNCHANGED <<storeVars, request, faults, histVars>>

(* The question is recorded, or the insert violates the primary key, which *)
(* ends the Step before the transition is taken.                           *)
RaiseQuestion ==
  /\ pc = "attention"
  /\ \/ /\ InsertAttention(job.run)
        /\ pc' = "append"
        /\ job' = [job EXCEPT !.event = "attention.required"]
        /\ UNCHANGED queue
     \/ /\ attention # NoRun
        /\ WorkerGoes("idle")
        /\ UNCHANGED storeVars
  /\ UNCHANGED <<request, faults, histVars>>

WorkerAppend ==
  /\ pc = "append"
  /\ AppendEvent(job.run, job.event)
  /\ WorkerGoes(AfterEvent)
  /\ UNCHANGED <<request, faults, histVars>>

(* A statement of the worker fails. Step returns the error, except that it *)
(* discards the one of the budget's update and, but for agent.started, the *)
(* one of an append. A report may be stored in part.                       *)
WorkerStatementFails ==
  /\ faults < MaxFaults
  /\ faults' = faults + 1
  /\ \/ /\ pc \in {"check", "write"} /\ job.goal = "limit"
        /\ pc' = "append"
        /\ job' = [job EXCEPT !.event = "stage.failed"]
        /\ UNCHANGED <<storeVars, queue>>
     \/ /\ \/ pc \in {"check", "write"} /\ job.goal # "limit"
           \/ pc \in {"increment", "attention"}
        /\ WorkerGoes("idle")
        /\ UNCHANGED storeVars
     \/ /\ pc = "persist"
        /\ \E stored \in SUBSET job.classes : AddFindings(job.run, stored)
        /\ WorkerGoes("idle")
     \/ /\ pc = "append"
        /\ WorkerGoes(IF job.event = "agent.started" THEN "idle" ELSE AfterEvent)
        /\ UNCHANGED storeVars
  /\ UNCHANGED <<request, histVars>>

WorkerStep ==
  \/ Tick
  \/ \E r \in Runs : StepLoad(r)
  \/ WorkerCheck \/ WorkerWrite \/ SpendIteration
  \/ LaunchAgent \/ SkipWaiting \/ AgentCompletes \/ StoreReport
  \/ RunnerFails \/ RaiseQuestion \/ WorkerAppend \/ WorkerStatementFails

-----------------------------------------------------------------------------
(* The handlers *)

HandlerGoes(h, at, r, st) ==
  request' = [request EXCEPT ![h] = [at |-> at, run |-> r, stage |-> st]]

(* POST /v1/runs inserts the run; the workflow id is the client's word.    *)
HandleCreate(h, r) ==
  /\ request[h].at = "free"
  /\ \E wf \in WorkflowIds : InsertRun(r, wf)
  /\ HandlerGoes(h, "created", r, "")
  /\ UNCHANGED <<workerVars, faults, histVars>>

(* DELETE /v1/runs/{id}: UpdateRunState(CANCELED, "") reads the row; an    *)
(* empty stage means the one it read. A run that is terminal by then is    *)
(* answered with 409 and nothing changes.                                  *)
HandleCancel(h, r) ==
  /\ request[h].at = "free"
  /\ r \in Cancellable
  /\ MayMove(r, "CANCELED")
  /\ HandlerGoes(h, "canceling", r, stage[r])
  /\ UNCHANGED <<storeVars, workerVars, faults, histVars>>

CancelWrite(h) ==
  /\ request[h].at = "canceling"
  /\ WriteState(request[h].run, "CANCELED", request[h].stage)
  /\ HandlerGoes(h, "canceled", request[h].run, "")
  /\ UNCHANGED <<workerVars, faults, histVars>>

(* The handler's last step: it appends the event and answers 201 or 204.   *)
HandlerAppend(h) ==
  /\ \/ /\ request[h].at = "created"
        /\ AppendEvent(request[h].run, "workflow.created")
     \/ /\ request[h].at = "canceled"
        /\ AppendEvent(request[h].run, "workflow.canceled")
  /\ HandlerGoes(h, "free", NoRun, "")
  /\ UNCHANGED <<workerVars, faults, histVars>>

(* The client goes away, which cancels the request's context, or a         *)
(* statement fails: the handler ends where it is.                          *)
HandlerFails(h) ==
  /\ request[h].at # "free"
  /\ HandlerGoes(h, "free", NoRun, "")
  /\ UNCHANGED <<storeVars, workerVars, faults, histVars>>

HandlerStep ==
  \E h \in Handlers :
    \/ \E r \in Runs : HandleCreate(h, r) \/ HandleCancel(h, r)
    \/ CancelWrite(h) \/ HandlerAppend(h) \/ HandlerFails(h)

-----------------------------------------------------------------------------
(* The daemon stops, by a crash or by a shutdown that does not wait for    *)
(* the worker, and starts again on the same database.                      *)
Restart ==
  /\ faults < MaxFaults
  /\ faults' = faults + 1
  /\ pc' = "idle" /\ queue' = {} /\ job' = NoJob
  /\ request' = [h \in Handlers |-> NoRequest]
  /\ UNCHANGED <<storeVars, histVars>>

Next == WorkerStep \/ HandlerStep \/ Restart

Spec == Init /\ [][Next]_vars

(* The worker's ticker keeps firing and every call it makes returns: the   *)
(* poll of an agent and each HTTP request it sends have a deadline. What   *)
(* clients do is not fair.                                                 *)
FairSpec == Spec /\ WF_vars(WorkerStep)

-----------------------------------------------------------------------------
(* What makes the engine correct *)

(* A stage of a run starts at most IterationLimit agents, whatever crashes,*)
(* retries and cancellations come between: the count is stored before the  *)
(* agent is launched and a count beyond the limit launches nothing         *)
(* (engine.go, IncrementIteration before the runner).                      *)
LaunchBudget ==
  \A r \in Runs, s \in Stages : launches[r][s] <= IterationLimit

(* The reviews whose approval a run in a state must have.                  *)
ApprovalsNeeded(s) ==
  CASE s \in {"WAITING_FOR_USER", "IMPLEMENTING", "IMPLEMENTATION_REVIEW"}
                  -> {"plan_review"}
    [] s = "DONE" -> Reviews
    [] OTHER      -> {}

(* The reviews are heeded: a run is implemented only when the gatekeeper   *)
(* let its latest plan go on, and it is DONE only when besides the         *)
(* reviewer approved its latest implementation, even if a restart or a     *)
(* failed statement comes between the verdict and the write that follows   *)
(* it, a later verdict is different, or a cancellation is overwritten      *)
(* (gatekeeperTransition, reviewerTransition and BIR-62, "Completion").    *)
ReviewsAreHeeded ==
  \A r \in Runs : ApprovalsNeeded(state[r]) \subseteq approved[r]

(* A run is never stranded: the stage and the state of a row always agree, *)
(* so that Step finds the stage and may work on it, and no transition that *)
(* a stage returns is refused by the graph. The errors "cannot enter       *)
(* stage" and "returned invalid transition" of engine.go cannot happen,    *)
(* although cancel writes the row with a stage it read before.             *)
NeverStranded ==
  /\ \A r \in Runs :
       HasRow(r) /\ ~IsTerminal(state[r]) =>
         IF stage[r] = "" THEN state[r] = "NEW" ELSE StageState(stage[r]) = state[r]
  /\ pc = "check" => CanTransition(job.seen, job.to)

(* Canceling stops the agents soon: after a run has become terminal, the   *)
(* Step under way, which still trusts the copy it loaded, starts at most   *)
(* one more agent for it, and no later tick starts any.                    *)
AtMostOneLateLaunch == \A r \in Runs : late[r] <= 1

(* The log never announces an outcome that the run did not have: the       *)
(* closing events follow the write they announce, and nothing takes a run  *)
(* up again after it. All that may happen to such a row is that a cancel   *)
(* request which read it before marks it CANCELED.                         *)
EventsNeverLie ==
  \A r \in Runs :
    LET mayBe(outcome) ==
          state[r] = outcome \/ (r \in Cancellable /\ state[r] = "CANCELED")
    IN  /\ "workflow.completed" \in logged[r] => mayBe("DONE")
        /\ "workflow.failed" \in logged[r] => mayBe("FAILED")

(* Every run of the registered workflow comes to rest in a terminal state, *)
(* for good: retries are paid from the iteration budget, and a row that a  *)
(* racing write takes out of CANCELED is stepped until it ends again.      *)
EveryRunSettles ==
  \A r \in Runs :
    <>[](HasRow(r) /\ workflow[r] = FeatureDevelopment => IsTerminal(state[r]))

(* The engine implements the promised life cycle: check and write of a row *)
(* are two statements, and still every move follows an edge of the graph   *)
(* or is the race of a cancellation with the worker (RunLifecycle).        *)
Lifecycle == INSTANCE RunLifecycle
LifecycleSpec == Lifecycle!LSpec

-----------------------------------------------------------------------------
(* What the repository says of the engine and the engine does not keep *)

(* "Terminal states are absorbing" (domain.go, domain_test.go).            *)
TerminalAbsorbing ==
  [][\A r \in Runs :
       HasRow(r) /\ IsTerminal(state[r]) => state'[r] = state[r]]_vars

(* A blocking finding makes the controller "keep the run open until the    *)
(* finding is resolved" (FindingClass.IsBlocking).                         *)
DoneWithoutBlockingFindings ==
  \A r \in Runs : state[r] = "DONE" => findings[r] = {}

(* "Any non-advance outcome is treated as a stage failure that surfaces to *)
(* the engine" (scoutRunner), "e.g. blocked_by_plan" for routing           *)
(* (implementerRunner), and "the engine routes on Kind" (StageResult): a   *)
(* result by which a stage refuses to go on does not move its run where an *)
(* advance would.                                                          *)
RefusalsAreHeeded ==
  [][\A r \in Runs :
       ( /\ pc = "write" /\ job.run = r /\ job.goal = "route"
         /\ job.kind \in {"failed", "revise", "revise_plan"}
         /\ state'[r] # state[r] )
       => state'[r] # NextState(job.stage, "advance")]_vars

=============================================================================
