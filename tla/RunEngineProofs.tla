--------------------------- MODULE RunEngineProofs ---------------------------
(***************************************************************************)
(* Proofs about RunEngine for every set of runs and handlers, every budget *)
(* and any number of faults.                                               *)
(***************************************************************************)
EXTENDS RunEngine, TLAPS

-----------------------------------------------------------------------------
(* The tables of the workflow *)

(* Every stage has a state of its own, which no run begins or ends in.     *)
LEMMA StageStates ==
  ASSUME NEW st \in Stages
  PROVE  /\ StageState(st) \in RunStates
         /\ StageState(st) # "NEW"
         /\ ~IsTerminal(StageState(st))
BY DEF Stages, StageState, RunStates, IsTerminal

(* A runner's result is one that its stage's transition knows.             *)
LEMMA ResultKindType ==
  ASSUME NEW st, NEW outcome \in OutcomeKinds
  PROVE  ResultKind(st, outcome) \in ResultKinds
BY DEF OutcomeKinds, ResultKind, ResultKinds

(* Every transition that a stage returns is an edge of the graph, and does *)
(* not lead back to NEW or to CANCELED.                                    *)
LEMMA RoutesAreEdges ==
  ASSUME NEW st \in Stages, NEW kind \in ResultKinds
  PROVE  /\ NextState(st, kind) \in RunStates \ {"NEW", "CANCELED"}
         /\ CanTransition(StageState(st), NextState(st, kind))
<1> DEFINE to == NextState(st, kind)
<1>1. CASE st \in {"discovery", "planning", "waiting_for_user", "implementing"}
  BY <1>1 DEF NextState, StageState, RunStates, CanTransition, Successors, IsTerminal
<1>2. CASE st = "plan_review"
  BY <1>2 DEF NextState, PlanReviewRoute, StageState, RunStates, CanTransition,
              Successors, IsTerminal
<1>3. CASE st = "implementation_review"
  BY <1>3 DEF NextState, ReviewRoute, ResultKinds, StageState, RunStates, CanTransition,
              Successors, IsTerminal
<1>4. QED
  BY <1>1, <1>2, <1>3 DEF Stages

(* A route asks for no approval beyond those that the stage it leaves has  *)
(* needed, and the one that the stage itself gives with its result.        *)
LEMMA RoutesAreApproved ==
  ASSUME NEW st \in Stages, NEW kind \in ResultKinds
  PROVE  ApprovalsNeeded(NextState(st, kind)) \subseteq
           ApprovalsNeeded(StageState(st)) \union {s \in Reviews : s = st /\ Approves(st, kind)}
<1>1. CASE st \in {"discovery", "planning", "waiting_for_user", "implementing"}
  BY <1>1 DEF NextState, StageState, ApprovalsNeeded
<1>2. CASE st = "plan_review"
  BY <1>2 DEF NextState, PlanReviewRoute, StageState, ApprovalsNeeded, Approves, Reviews
<1>3. CASE st = "implementation_review"
  BY <1>3 DEF NextState, ReviewRoute, ResultKinds, StageState, ApprovalsNeeded, Approves, Reviews
<1>4. QED
  BY <1>1, <1>2, <1>3 DEF Stages

(* A result leaves the approvals that its stage has needed, and adds the   *)
(* one that the stage gives.                                               *)
LEMMA ResultsApprove ==
  ASSUME NEW st \in Stages, NEW kind, NEW given \in SUBSET Reviews,
         ApprovalsNeeded(StageState(st)) \subseteq given
  PROVE  /\ Approvals(given, st, kind) \in SUBSET Reviews
         /\ ApprovalsNeeded(StageState(st)) \subseteq Approvals(given, st, kind)
         /\ st \in Reviews /\ Approves(st, kind) => st \in Approvals(given, st, kind)
<1>1. CASE st \in {"discovery", "planning", "waiting_for_user", "implementing"}
  BY <1>1 DEF StageState, ApprovalsNeeded, Approvals, Reviews
<1>2. CASE st = "plan_review"
  BY <1>2 DEF StageState, ApprovalsNeeded, Approvals, Reviews
<1>3. CASE st = "implementation_review"
  BY <1>3 DEF StageState, ApprovalsNeeded, Approvals, Reviews
<1>4. QED
  BY <1>1, <1>2, <1>3 DEF Stages

(* The stage resolved for a state that is neither NEW nor terminal is the  *)
(* stage of that state.                                                    *)
LEMMA StageOfState ==
  ASSUME NEW to \in RunStates, NEW st \in Stages
  PROVE  /\ StageOf(to, st) \in Stages
         /\ ~IsTerminal(to) /\ to # "NEW" => StageState(StageOf(to, st)) = to
BY DEF RunStates, Stages, StageOf, StageState, IsTerminal

(* An edge leaves a state of the graph that is not terminal.               *)
LEMMA EdgeSource ==
  ASSUME NEW from, NEW to, CanTransition(from, to)
  PROVE  from \in RunStates /\ ~IsTerminal(from)
BY DEF CanTransition

-----------------------------------------------------------------------------
(* The inductive invariant that the theorems rest on *)

(* The worker's points before it has started the stage's runner.           *)
BeforeLaunch ==
  \/ pc \in {"increment", "launch"}
  \/ pc \in {"check", "write"} /\ job.goal = "enter"

(* The worker's points after the stage's runner has returned its result.   *)
AfterResult ==
  \/ pc = "attention"
  \/ pc \in {"check", "write"} /\ job.goal = "route"
  \/ pc = "append" /\ job.event = "attention.required"

(* The worker's points at which job.to is the state that the result routes *)
(* the run to.                                                             *)
Routed ==
  \/ AfterResult
  \/ pc = "persist"
  \/ pc = "append" /\ job.event = "agent.completed"

(* What a busy worker's local variables say: which run it steps, that its  *)
(* copy of the run agrees with the stage, and which edge it is about to    *)
(* follow.                                                                 *)
JobInv ==
  pc # "idle" =>
    /\ job.run \in Runs
    /\ IF pc \in {"check", "write"} /\ job.goal = "enter"
         THEN job.seen = "NEW" /\ job.stage = "discovery" /\ job.to = "DISCOVERY"
         ELSE job.seen = StageState(job.stage)
    /\ pc \in {"check", "write"} /\ job.goal = "limit" => job.to = "FAILED"
    /\ Routed => job.to = NextState(job.stage, job.kind) /\ job.goal = "route"

RequestInv ==
  \A h \in Handlers : request[h].at # "free" => request[h].run \in Runs

(* The rows: a stage is set exactly when the run has left NEW, and it is   *)
(* the stage of the run's state until the run ends.                        *)
RowInv ==
  \A r \in Runs :
    /\ ~HasRow(r) => stage[r] = ""
    /\ HasRow(r) /\ ~IsTerminal(state[r]) =>
         IF stage[r] = "" THEN state[r] = "NEW" ELSE StageState(stage[r]) = state[r]

Shape == TypeOK /\ JobInv /\ RequestInv /\ RowInv

(* The values that the variables are reset to have their types.            *)
LEMMA Resets ==
  /\ NoJob \in Jobs
  /\ NoRequest \in Requests
BY DEF NoJob, Jobs, NoRequest, Requests, RunStates, Stages, ResultKinds, Goals,
       EventKinds, InitialStage

(* The invariant holds in the empty database, before the first tick.       *)
LEMMA ShapeInit == Init => Shape
<1> SUFFICES ASSUME Init PROVE Shape
  OBVIOUS
<1>1. StoreTypeOK
  BY DEF Init, StoreInit, StoreTypeOK
<1>2. TypeOK
  <2>1. pc \in WorkerPoints /\ queue \subseteq Runs
    BY DEF Init, WorkerPoints
  <2>2. job \in Jobs /\ request \in [Handlers -> Requests]
    BY Resets DEF Init
  <2>3. faults \in 0..MaxFaults
    BY EngineAssumption DEF Init
  <2>4. launches \in [Runs -> [Stages -> Nat]] /\ approved \in [Runs -> SUBSET Reviews]
    BY DEF Init
  <2>5. late \in [Runs -> Nat]
    BY DEF Init
  <2>6. QED
    BY <1>1, <2>1, <2>2, <2>3, <2>4, <2>5 DEF TypeOK
<1>3. JobInv
  BY DEF Init, JobInv
<1>4. RequestInv
  BY DEF Init, RequestInv, NoRequest
<1>5. RowInv
  BY DEF Init, StoreInit, RowInv, HasRow
<1>6. QED
  BY <1>2, <1>3, <1>4, <1>5 DEF Shape

(* What the statements of the store leave of its tables' types and rows.   *)
LEMMA WriteStateRows ==
  ASSUME StoreTypeOK, RowInv,
         NEW r \in Runs, NEW to \in RunStates, NEW st \in Stages \union {""},
         ~IsTerminal(to) => StageState(st) = to /\ st # "",
         WriteState(r, to, st)
  PROVE  StoreTypeOK' /\ RowInv'
<1>1. StoreTypeOK'
  BY DEF StoreTypeOK, WriteState
<1>2. to # "ABSENT"
  BY DEF RunStates
<1>3. RowInv'
  BY <1>2 DEF RowInv, HasRow, StoreTypeOK, WriteState
<1>4. QED
  BY <1>1, <1>3

LEMMA InsertRunRows ==
  ASSUME StoreTypeOK, RowInv, NEW r \in Runs, NEW wf \in WorkflowIds, InsertRun(r, wf)
  PROVE  StoreTypeOK' /\ RowInv'
<1>1. StoreTypeOK'
  BY DEF StoreTypeOK, InsertRun, RunStates
<1>2. RowInv'
  BY DEF RowInv, HasRow, StoreTypeOK, InsertRun
<1>3. QED
  BY <1>1, <1>2

(* The other statements change neither the state nor the stage of a row.   *)
LEMMA OtherTablesRows ==
  ASSUME StoreTypeOK, RowInv, NEW r \in Runs,
         \/ \E st \in Stages : IncrementCounter(r, st)
         \/ \E classes \in SUBSET FindingClasses : AddFindings(r, classes)
         \/ InsertAttention(r)
         \/ \E kind \in EventKinds : AppendEvent(r, kind)
         \/ UNCHANGED storeVars
  PROVE  StoreTypeOK' /\ RowInv'
<1>1. StoreTypeOK' /\ UNCHANGED <<state, stage>>
  <2>1. CASE \E st \in Stages : IncrementCounter(r, st)
    <3>1. PICK st \in Stages : IncrementCounter(r, st)
      BY <2>1
    <3>2. counters' \in [Runs -> [Stages -> Nat]]
      <4> DEFINE one == [counters[r] EXCEPT ![st] = @ + 1]
      <4>1. counters[r] \in [Stages -> Nat]
        BY DEF StoreTypeOK
      <4>2. one \in [Stages -> Nat]
        BY <4>1
      <4>3. counters' = [counters EXCEPT ![r] = one]
        BY <3>1 DEF IncrementCounter
      <4> HIDE DEF one
      <4>4. QED
        BY <4>2, <4>3 DEF StoreTypeOK
    <3>3. UNCHANGED <<state, stage, workflow, findings, attention, logged>>
      BY <3>1 DEF IncrementCounter
    <3>4. QED
      BY <3>2, <3>3 DEF StoreTypeOK
  <2>2. CASE \E classes \in SUBSET FindingClasses : AddFindings(r, classes)
    <3>1. PICK classes \in SUBSET FindingClasses : AddFindings(r, classes)
      BY <2>2
    <3>2. findings[r] \union (classes \intersect BlockingClasses) \in SUBSET BlockingClasses
      BY DEF StoreTypeOK
    <3>3. findings' \in [Runs -> SUBSET BlockingClasses]
      BY <3>1, <3>2 DEF StoreTypeOK, AddFindings
    <3>4. QED
      BY <3>1, <3>3 DEF StoreTypeOK, AddFindings
  <2>3. CASE InsertAttention(r)
    BY <2>3 DEF StoreTypeOK, InsertAttention
  <2>4. CASE \E kind \in EventKinds : AppendEvent(r, kind)
    <3>1. PICK kind \in EventKinds : AppendEvent(r, kind)
      BY <2>4
    <3>2. logged[r] \union {kind} \in SUBSET EventKinds
      BY DEF StoreTypeOK
    <3>3. logged' \in [Runs -> SUBSET EventKinds]
      BY <3>1, <3>2 DEF StoreTypeOK, AppendEvent
    <3>4. QED
      BY <3>1, <3>3 DEF StoreTypeOK, AppendEvent
  <2>5. CASE UNCHANGED storeVars
    BY <2>5 DEF StoreTypeOK, storeVars
  <2>6. QED
    BY <2>1, <2>2, <2>3, <2>4, <2>5
<1>2. RowInv'
  BY <1>1 DEF RowInv, HasRow
<1>3. QED
  BY <1>1, <1>2

(* The values that the actions compute have the types of their variables.  *)
LEMMA ComputedTypes ==
  ASSUME job \in Jobs
  PROVE  /\ RouteEvent \in EventKinds
         /\ AfterEvent \in {"running", "persist", "check", "idle"}
         /\ \A outcome, questions, classes :
              Asks(job.stage, outcome, questions, classes) \in BOOLEAN
BY DEF RouteEvent, EventKinds, AfterEvent, Asks

(* A worker that goes on without touching the store keeps its types.       *)
LEMMA WorkerGoesType ==
  ASSUME TypeOK, NEW point \in WorkerPoints, WorkerGoes(point)
  PROVE  /\ pc' \in WorkerPoints
         /\ queue' \subseteq Runs
         /\ job' \in Jobs
BY Resets DEF TypeOK, WorkerGoes

(* The worker's steps up to the launch of an agent keep the types.         *)
LEMMA LoadType == ASSUME TypeOK, NEW r \in Runs, StepLoad(r) PROVE TypeOK'
<1> DEFINE st == IF stage[r] = "" THEN InitialStage ELSE stage[r]
<1>1. st \in Stages
  BY DEF TypeOK, StoreTypeOK, InitialStage, Stages
<1>2. StoreTypeOK'
  BY DEF TypeOK, StoreTypeOK, StepLoad, storeVars
<1>3. CASE Steppable(r, st)
  <2>1. state[r] \in RunStates
    BY <1>1, <1>3, StageStates, EdgeSource DEF Steppable
  <2>2. [NoJob EXCEPT !.run = r, !.seen = state[r], !.stage = st,
                      !.to = StageState(st)] \in Jobs
    BY <1>1, <2>1, Resets, StageStates DEF Jobs
  <2>3. job' \in Jobs /\ pc' \in WorkerPoints
    BY <1>3, <2>2 DEF StepLoad, WorkerPoints
  <2>4. QED
    BY <1>2, <2>3 DEF TypeOK, StepLoad, histVars
<1>4. CASE ~Steppable(r, st)
  BY <1>2, <1>4 DEF TypeOK, StepLoad, histVars
<1>5. QED
  BY <1>3, <1>4

LEMMA CheckType == ASSUME TypeOK, WorkerCheck PROVE TypeOK'
<1>1. StoreTypeOK'
  BY DEF TypeOK, StoreTypeOK, WorkerCheck, storeVars
<1>2. [job EXCEPT !.event = "stage.failed"] \in Jobs
  BY DEF TypeOK, Jobs, EventKinds
<1>3. pc' \in WorkerPoints /\ queue' \subseteq Runs /\ job' \in Jobs
  <2>1. CASE WorkerGoes("write") \/ WorkerGoes("idle")
    BY <2>1, WorkerGoesType DEF WorkerPoints
  <2>2. CASE ~(WorkerGoes("write") \/ WorkerGoes("idle"))
    BY <1>2, <2>2 DEF WorkerCheck, TypeOK, WorkerPoints
  <2>3. QED
    BY <2>1, <2>2
<1>4. QED
  BY <1>1, <1>3 DEF TypeOK, WorkerCheck, histVars

LEMMA WriteType ==
  ASSUME TypeOK, RowInv, JobInv, WorkerWrite
  PROVE  TypeOK' /\ RowInv'
<1>1. job.run \in Runs /\ job.to \in RunStates /\ job.stage \in Stages /\ pc = "write"
  BY DEF TypeOK, Jobs, JobInv, WorkerWrite
<1>2. job.to # "NEW"
  <2>1. CASE job.goal = "enter"
    BY <1>1, <2>1 DEF JobInv
  <2>2. CASE job.goal = "limit"
    BY <1>1, <2>2 DEF JobInv
  <2>3. CASE job.goal = "route"
    <3>1. job.to = NextState(job.stage, job.kind) /\ job.kind \in ResultKinds
      BY <1>1, <2>3 DEF JobInv, Routed, AfterResult, TypeOK, Jobs
    <3>2. QED
      BY <1>1, <3>1, RoutesAreEdges
  <2>4. QED
    BY <2>1, <2>2, <2>3 DEF TypeOK, Jobs, Goals
<1>3. /\ StageOf(job.to, job.stage) \in Stages
      /\ ~IsTerminal(job.to) => StageState(StageOf(job.to, job.stage)) = job.to
  BY <1>1, <1>2, StageOfState
<1>4. StageOf(job.to, job.stage) # ""
  BY <1>3 DEF Stages
<1>5. StoreTypeOK' /\ RowInv'
  BY <1>1, <1>3, <1>4, WriteStateRows DEF TypeOK, WorkerWrite
<1>6. job' \in Jobs /\ pc' \in WorkerPoints
  <2>1. [job EXCEPT !.seen = job.to] \in Jobs
    BY <1>1 DEF TypeOK, Jobs
  <2>2. /\ [job EXCEPT !.event = "stage.failed"] \in Jobs
        /\ [job EXCEPT !.event = RouteEvent] \in Jobs
    BY ComputedTypes DEF TypeOK, Jobs, EventKinds
  <2>3. QED
    BY <2>1, <2>2 DEF WorkerWrite, WorkerPoints
<1>7. late' \in [Runs -> Nat]
  BY <1>1 DEF TypeOK, WorkerWrite
<1>8. QED
  BY <1>5, <1>6, <1>7 DEF TypeOK, WorkerWrite

(* The remaining steps of the worker keep the types and the rows.          *)
LEMMA SpendType ==
  ASSUME TypeOK, RowInv, JobInv, SpendIteration
  PROVE  TypeOK' /\ RowInv'
<1>1. job.run \in Runs /\ job.stage \in Stages
  BY DEF TypeOK, Jobs, JobInv, SpendIteration
<1>2. StoreTypeOK' /\ RowInv'
  BY <1>1, OtherTablesRows DEF TypeOK, SpendIteration
<1>3. [job EXCEPT !.goal = "limit", !.to = "FAILED"] \in Jobs
  BY DEF TypeOK, Jobs, Goals, RunStates
<1>4. job' \in Jobs /\ pc' \in WorkerPoints
  BY <1>3, WorkerGoesType DEF SpendIteration, WorkerPoints
<1>5. QED
  BY <1>2, <1>4 DEF TypeOK, SpendIteration, histVars

LEMMA LaunchType == ASSUME TypeOK, RowInv, JobInv, LaunchAgent PROVE TypeOK' /\ RowInv'
<1>1. job.run \in Runs /\ job.stage \in Stages
  BY DEF TypeOK, Jobs, JobInv, LaunchAgent
<1>2. StoreTypeOK' /\ RowInv'
  BY <1>1, OtherTablesRows DEF TypeOK, LaunchAgent
<1>3. [job EXCEPT !.event = "agent.started"] \in Jobs
  BY DEF TypeOK, Jobs, EventKinds
<1>4. launches' \in [Runs -> [Stages -> Nat]]
  <2> DEFINE one == [launches[job.run] EXCEPT ![job.stage] = @ + 1]
  <2>1. launches[job.run] \in [Stages -> Nat]
    BY <1>1 DEF TypeOK
  <2>2. one \in [Stages -> Nat]
    BY <1>1, <2>1
  <2>3. launches' = [launches EXCEPT ![job.run] = one]
    BY DEF LaunchAgent
  <2> HIDE DEF one
  <2>4. QED
    BY <1>1, <2>2, <2>3 DEF TypeOK
<1>5. late' \in [Runs -> Nat]
  BY <1>1 DEF TypeOK, LaunchAgent
<1>6. pc' \in WorkerPoints /\ job' \in Jobs /\ UNCHANGED <<queue, request, faults, approved>>
  BY <1>3 DEF LaunchAgent, WorkerPoints
<1>7. QED
  BY <1>2, <1>4, <1>5, <1>6 DEF TypeOK

LEMMA SkipType == ASSUME TypeOK, RowInv, JobInv, SkipWaiting PROVE TypeOK' /\ RowInv'
<1>1. job.run \in Runs /\ job.stage \in Stages
  BY DEF TypeOK, Jobs, JobInv, SkipWaiting
<1>2. StoreTypeOK' /\ RowInv'
  BY <1>1, OtherTablesRows DEF TypeOK, SkipWaiting
<1>3. NextState(job.stage, "advance") \in RunStates
  BY <1>1, RoutesAreEdges DEF ResultKinds
<1>4. [job EXCEPT !.goal = "route", !.to = NextState(job.stage, "advance")] \in Jobs
  BY <1>3 DEF TypeOK, Jobs, Goals
<1>5. QED
  BY <1>2, <1>4 DEF TypeOK, SkipWaiting, WorkerPoints, histVars

LEMMA CompleteType ==
  ASSUME TypeOK, RowInv, JobInv, AgentCompletes
  PROVE  TypeOK' /\ RowInv'
<1>1. job.run \in Runs /\ job.stage \in Stages
  BY DEF TypeOK, Jobs, JobInv, AgentCompletes
<1>2. StoreTypeOK' /\ RowInv'
  BY <1>1, OtherTablesRows DEF TypeOK, AgentCompletes
<1>3. job' \in Jobs
  <2>1. PICK outcome \in OutcomeKinds, questions \in BOOLEAN,
             classes \in SUBSET FindingClasses :
          job' = [job EXCEPT !.kind = ResultKind(job.stage, outcome),
                             !.asks = Asks(job.stage, outcome, questions, classes),
                             !.classes = classes,
                             !.to = NextState(job.stage, ResultKind(job.stage, outcome)),
                             !.goal = "route",
                             !.event = "agent.completed"]
    BY DEF AgentCompletes
  <2>2. ResultKind(job.stage, outcome) \in ResultKinds
    BY ResultKindType
  <2>3. NextState(job.stage, ResultKind(job.stage, outcome)) \in RunStates
    BY <1>1, <2>2, RoutesAreEdges
  <2>4. Asks(job.stage, outcome, questions, classes) \in BOOLEAN
    BY ComputedTypes DEF TypeOK
  <2>5. QED
    BY <2>1, <2>2, <2>3, <2>4 DEF TypeOK, Jobs, Goals, EventKinds
<1>4. pc' \in WorkerPoints /\ UNCHANGED <<queue, request, faults, histVars>>
  BY DEF AgentCompletes, WorkerPoints
<1>5. QED
  BY <1>2, <1>3, <1>4 DEF TypeOK, histVars

LEMMA ReportType == ASSUME TypeOK, RowInv, JobInv, StoreReport PROVE TypeOK' /\ RowInv'
<1>1. job.run \in Runs /\ job.stage \in Stages /\ job.classes \in SUBSET FindingClasses
  BY DEF TypeOK, Jobs, JobInv, StoreReport
<1>2. StoreTypeOK' /\ RowInv'
  BY <1>1, OtherTablesRows DEF TypeOK, StoreReport
<1>3. pc' \in WorkerPoints /\ queue' \subseteq Runs /\ job' \in Jobs
  BY WorkerGoesType DEF StoreReport, WorkerPoints
<1>4. approved' \in [Runs -> SUBSET Reviews]
  <2>1. Approvals(approved[job.run], job.stage, job.kind) \in SUBSET Reviews
    BY <1>1 DEF TypeOK, Approvals
  <2>2. QED
    BY <1>1, <2>1 DEF TypeOK, StoreReport
<1>5. QED
  BY <1>2, <1>3, <1>4 DEF TypeOK, StoreReport

LEMMA FailType == ASSUME TypeOK, RowInv, JobInv, RunnerFails PROVE TypeOK' /\ RowInv'
<1>1. job.run \in Runs
  BY DEF JobInv, RunnerFails
<1>2. StoreTypeOK' /\ RowInv'
  BY <1>1, OtherTablesRows DEF TypeOK, RunnerFails
<1>3. pc' \in WorkerPoints /\ queue' \subseteq Runs /\ job' \in Jobs
  BY WorkerGoesType DEF RunnerFails, WorkerPoints
<1>4. QED
  BY <1>2, <1>3 DEF TypeOK, RunnerFails, histVars

LEMMA RaiseType == ASSUME TypeOK, RowInv, JobInv, RaiseQuestion PROVE TypeOK' /\ RowInv'
<1>1. job.run \in Runs
  BY DEF JobInv, RaiseQuestion
<1>2. StoreTypeOK' /\ RowInv'
  BY <1>1, OtherTablesRows DEF TypeOK, RaiseQuestion
<1>3. [job EXCEPT !.event = "attention.required"] \in Jobs
  BY DEF TypeOK, Jobs, EventKinds
<1>4. pc' \in WorkerPoints /\ queue' \subseteq Runs /\ job' \in Jobs
  <2>1. CASE WorkerGoes("idle")
    BY <2>1, WorkerGoesType DEF WorkerPoints
  <2>2. CASE ~WorkerGoes("idle")
    BY <1>3, <2>2 DEF RaiseQuestion, WorkerPoints, TypeOK
  <2>3. QED
    BY <2>1, <2>2
<1>5. QED
  BY <1>2, <1>4 DEF TypeOK, RaiseQuestion, histVars

LEMMA AppendType == ASSUME TypeOK, RowInv, JobInv, WorkerAppend PROVE TypeOK' /\ RowInv'
<1>1. job.run \in Runs /\ job.event \in EventKinds
  BY DEF TypeOK, Jobs, JobInv, WorkerAppend
<1>2. StoreTypeOK' /\ RowInv'
  BY <1>1, OtherTablesRows DEF TypeOK, WorkerAppend
<1>3. AfterEvent \in WorkerPoints
  BY ComputedTypes DEF TypeOK, WorkerPoints
<1>4. pc' \in WorkerPoints /\ queue' \subseteq Runs /\ job' \in Jobs
  BY <1>3, WorkerGoesType DEF WorkerAppend
<1>5. QED
  BY <1>2, <1>4 DEF TypeOK, WorkerAppend, histVars

LEMMA StatementFailsType ==
  ASSUME TypeOK, RowInv, JobInv, WorkerStatementFails
  PROVE  TypeOK' /\ RowInv'
<1>1. job.run \in Runs
  BY DEF JobInv, WorkerStatementFails
<1>2. job.classes \in SUBSET FindingClasses
  BY DEF TypeOK, Jobs
<1>3. StoreTypeOK' /\ RowInv'
  <2>1. \/ UNCHANGED storeVars
        \/ \E classes \in SUBSET FindingClasses : AddFindings(job.run, classes)
    BY <1>2 DEF WorkerStatementFails
  <2>2. QED
    BY <1>1, <2>1, OtherTablesRows DEF TypeOK
<1>4. AfterEvent \in WorkerPoints
  BY ComputedTypes DEF TypeOK, WorkerPoints
<1>5. [job EXCEPT !.event = "stage.failed"] \in Jobs
  BY DEF TypeOK, Jobs, EventKinds
<1>6. pc' \in WorkerPoints /\ queue' \subseteq Runs /\ job' \in Jobs
  <2>1. CASE \E point \in WorkerPoints : WorkerGoes(point)
    BY <2>1, WorkerGoesType
  <2>2. CASE ~\E point \in WorkerPoints : WorkerGoes(point)
    <3>1. ~WorkerGoes("idle") /\ ~WorkerGoes(AfterEvent)
      BY <1>4, <2>2 DEF WorkerPoints
    <3>2. /\ pc' = "append"
          /\ job' = [job EXCEPT !.event = "stage.failed"]
          /\ UNCHANGED queue
      BY <3>1 DEF WorkerStatementFails
    <3>3. QED
      BY <1>5, <3>2 DEF TypeOK, WorkerPoints
  <2>3. QED
    BY <2>1, <2>2
<1>7. faults' \in 0..MaxFaults
  BY EngineAssumption DEF TypeOK, WorkerStatementFails
<1>8. QED
  BY <1>3, <1>6, <1>7 DEF TypeOK, WorkerStatementFails, histVars

(* The handlers and a restart keep the types and the rows.                 *)
LEMMA HandlerType ==
  ASSUME TypeOK, RowInv, RequestInv, HandlerStep
  PROVE  TypeOK' /\ RowInv' /\ RequestInv'
<1>1. PICK h \in Handlers :
        \/ \E r \in Runs : HandleCreate(h, r) \/ HandleCancel(h, r)
        \/ CancelWrite(h) \/ HandlerAppend(h) \/ HandlerFails(h)
  BY DEF HandlerStep
<1>2. request[h] \in Requests
  BY DEF TypeOK
<1>3. \E at \in {"free", "created", "canceling", "canceled"},
         r \in Runs \union {NoRun}, st \in Stages \union {""} :
        HandlerGoes(h, at, r, st) /\ (at # "free" => r \in Runs)
  <2>1. \A r \in Runs : stage[r] \in Stages \union {""}
    BY DEF TypeOK, StoreTypeOK
  <2>2. request[h].at # "free" => request[h].run \in Runs
    BY DEF RequestInv
  <2>3. QED
    BY <1>1, <2>1, <2>2 DEF HandleCreate, HandleCancel, CancelWrite, HandlerAppend,
       HandlerFails
<1>4. request' \in [Handlers -> Requests] /\ RequestInv'
  <2>1. PICK at \in {"free", "created", "canceling", "canceled"},
             r \in Runs \union {NoRun}, st \in Stages \union {""} :
          /\ request' = [request EXCEPT ![h] = [at |-> at, run |-> r, stage |-> st]]
          /\ at # "free" => r \in Runs
    BY <1>3 DEF HandlerGoes
  <2>2. [at |-> at, run |-> r, stage |-> st] \in Requests
    BY DEF Requests
  <2>3. QED
    BY <2>1, <2>2 DEF TypeOK, RequestInv
<1>5. StoreTypeOK' /\ RowInv'
  <2>1. ASSUME NEW r \in Runs, HandleCreate(h, r) PROVE StoreTypeOK' /\ RowInv'
    BY <2>1, InsertRunRows DEF TypeOK, HandleCreate
  <2>2. ASSUME NEW r \in Runs, HandleCancel(h, r) PROVE StoreTypeOK' /\ RowInv'
    BY <2>2, OtherTablesRows DEF TypeOK, HandleCancel
  <2>3. CASE CancelWrite(h)
    <3>1. request[h].run \in Runs /\ request[h].stage \in Stages \union {""}
      BY <1>2, <2>3 DEF RequestInv, Requests, CancelWrite
    <3>2. "CANCELED" \in RunStates /\ IsTerminal("CANCELED")
      BY DEF RunStates, IsTerminal
    <3>3. QED
      BY <2>3, <3>1, <3>2, WriteStateRows DEF TypeOK, CancelWrite
  <2>4. CASE HandlerAppend(h)
    <3>1. request[h].run \in Runs
      BY <2>4 DEF RequestInv, HandlerAppend
    <3>2. \E kind \in EventKinds : AppendEvent(request[h].run, kind)
      BY <2>4 DEF HandlerAppend, EventKinds
    <3>3. QED
      BY <3>1, <3>2, OtherTablesRows DEF TypeOK
  <2>5. CASE HandlerFails(h)
    BY <2>5 DEF TypeOK, StoreTypeOK, RowInv, HasRow, HandlerFails, storeVars
  <2>6. QED
    BY <1>1, <2>1, <2>2, <2>3, <2>4, <2>5
<1>6. UNCHANGED <<workerVars, faults, histVars>>
  BY <1>1 DEF HandleCreate, HandleCancel, CancelWrite, HandlerAppend, HandlerFails
<1>7. QED
  BY <1>4, <1>5, <1>6 DEF TypeOK, workerVars, histVars

LEMMA RestartType ==
  ASSUME TypeOK, RowInv, Restart
  PROVE  TypeOK' /\ RowInv' /\ RequestInv' /\ JobInv'
<1>1. StoreTypeOK' /\ RowInv'
  BY DEF TypeOK, StoreTypeOK, RowInv, HasRow, Restart, storeVars
<1>2. request' \in [Handlers -> Requests] /\ RequestInv'
  BY Resets DEF Restart, RequestInv, NoRequest
<1>3. faults' \in 0..MaxFaults
  BY EngineAssumption DEF TypeOK, Restart
<1>4. pc' \in WorkerPoints /\ job' \in Jobs /\ JobInv'
  BY Resets DEF Restart, WorkerPoints, JobInv
<1>5. QED
  BY <1>1, <1>2, <1>3, <1>4 DEF TypeOK, Restart, histVars

(* The worker's locals, action by action.                                  *)
LEMMA WorkerJob ==
  ASSUME Shape, WorkerStep
  PROVE  JobInv'
<1> USE DEF Shape
<1>1. CASE Tick
  BY <1>1 DEF Tick, JobInv
<1>2. ASSUME NEW r \in Runs, StepLoad(r) PROVE JobInv'
  <2> DEFINE st == IF stage[r] = "" THEN InitialStage ELSE stage[r]
  <2>1. CASE ~Steppable(r, st)
    BY <1>2, <2>1 DEF StepLoad, JobInv
  <2>2. CASE Steppable(r, st)
    <3>1. st \in Stages
      BY DEF TypeOK, StoreTypeOK, InitialStage, Stages
    <3>2. HasRow(r) /\ ~IsTerminal(state[r])
      BY <2>2, <3>1, StageStates, EdgeSource DEF Steppable, HasRow, RunStates
    <3>3. /\ pc' = IF StageState(st) = state[r] THEN "increment" ELSE "check"
          /\ job' = [NoJob EXCEPT !.run = r, !.seen = state[r], !.stage = st,
                                  !.to = StageState(st)]
      BY <1>2, <2>2 DEF StepLoad
    <3>4. /\ job'.run = r /\ job'.seen = state[r] /\ job'.stage = st
          /\ job'.to = StageState(st) /\ job'.goal = "enter"
      BY <3>3 DEF NoJob
    <3>5. IF StageState(st) = state[r]
            THEN job'.seen = StageState(job'.stage)
            ELSE st = "discovery" /\ state[r] = "NEW" /\ job'.to = "DISCOVERY"
      BY <3>2, <3>4 DEF RowInv, InitialStage, StageState
    <3>6. QED
      BY <3>3, <3>4, <3>5 DEF JobInv, Routed, AfterResult
  <2>3. QED
    BY <2>1, <2>2
<1>3. CASE WorkerCheck
  BY <1>3 DEF WorkerCheck, WorkerGoes, JobInv, Routed, AfterResult, TypeOK, Jobs
<1>4. CASE WorkerWrite
  <2>1. job.goal \in Goals /\ job \in Jobs
    BY DEF TypeOK, Jobs
  <2>2. StageState("discovery") = "DISCOVERY"
    BY DEF StageState
  <2>3. CASE job.goal = "enter"
    BY <1>4, <2>1, <2>2, <2>3 DEF WorkerWrite, JobInv, Routed, AfterResult, Jobs
  <2>4. CASE job.goal # "enter"
    <3>1. RouteEvent \notin {"agent.completed", "attention.required"}
      BY DEF RouteEvent
    <3>2. /\ pc' = "append"
          /\ \/ job' = [job EXCEPT !.event = "stage.failed"]
             \/ job' = [job EXCEPT !.event = RouteEvent]
      BY <1>4, <2>4 DEF WorkerWrite
    <3>3. QED
      BY <1>4, <2>1, <2>4, <3>1, <3>2 DEF WorkerWrite, JobInv, Routed, AfterResult, Jobs
  <2>5. QED
    BY <2>3, <2>4
<1>5. CASE SpendIteration
  BY <1>5 DEF SpendIteration, WorkerGoes, JobInv, Routed, AfterResult, TypeOK, Jobs
<1>6. CASE LaunchAgent
  BY <1>6 DEF LaunchAgent, JobInv, Routed, AfterResult, TypeOK, Jobs
<1>7. CASE SkipWaiting
  <2>1. NextState(job.stage, job.kind) = NextState(job.stage, "advance")
    BY <1>7 DEF SkipWaiting, NextState
  <2>2. QED
    BY <1>7, <2>1 DEF SkipWaiting, JobInv, Routed, AfterResult, TypeOK, Jobs
<1>8. CASE AgentCompletes
  <2>1. /\ job'.run = job.run /\ job'.seen = job.seen /\ job'.stage = job.stage
        /\ job'.to = NextState(job'.stage, job'.kind)
        /\ job'.goal = "route"
    BY <1>8 DEF AgentCompletes, TypeOK, Jobs
  <2>2. QED
    BY <1>8, <2>1 DEF AgentCompletes, JobInv, Routed, AfterResult
<1>9. CASE StoreReport
  BY <1>9 DEF StoreReport, WorkerGoes, JobInv, Routed, AfterResult
<1>10. CASE RunnerFails
  BY <1>10 DEF RunnerFails, WorkerGoes, JobInv
<1>11. CASE RaiseQuestion
  BY <1>11 DEF RaiseQuestion, WorkerGoes, JobInv, Routed, AfterResult, TypeOK, Jobs
<1>12. CASE WorkerAppend
  BY <1>12 DEF WorkerAppend, WorkerGoes, AfterEvent, JobInv, Routed, AfterResult
<1>13. CASE WorkerStatementFails
  BY <1>13 DEF WorkerStatementFails, WorkerGoes, AfterEvent, JobInv, Routed, AfterResult,
               TypeOK, Jobs
<1>14. QED
  BY <1>1, <1>2, <1>3, <1>4, <1>5, <1>6, <1>7, <1>8, <1>9, <1>10, <1>11, <1>12, <1>13
  DEF WorkerStep

(* A step of the handlers leaves the worker where it is.                   *)
LEMMA HandlerLeavesWorker ==
  ASSUME HandlerStep
  PROVE  UNCHANGED <<pc, queue, job, faults, launches, approved, late>>
BY DEF HandlerStep, HandleCreate, HandleCancel, CancelWrite, HandlerAppend, HandlerFails,
       workerVars, histVars

(* A step of the worker leaves the requests where they are.                *)
LEMMA WorkerLeavesRequests == ASSUME WorkerStep PROVE UNCHANGED request
BY DEF WorkerStep, Tick, StepLoad, WorkerCheck, WorkerWrite, SpendIteration, LaunchAgent,
       SkipWaiting, AgentCompletes, StoreReport, RunnerFails, RaiseQuestion, WorkerAppend,
       WorkerStatementFails

LEMMA WorkerType ==
  ASSUME Shape, WorkerStep
  PROVE  TypeOK' /\ RowInv'
<1> USE DEF Shape
<1>1. CASE Tick
  BY <1>1 DEF Tick, TypeOK, StoreTypeOK, RowInv, HasRow, storeVars, histVars
<1>2. ASSUME NEW r \in Runs, StepLoad(r) PROVE TypeOK' /\ RowInv'
  <2>1. TypeOK'
    BY <1>2, LoadType
  <2>2. QED
    BY <1>2, <2>1 DEF StepLoad, RowInv, HasRow, storeVars
<1>3. CASE WorkerCheck
  <2>1. TypeOK'
    BY <1>3, CheckType
  <2>2. QED
    BY <1>3, <2>1 DEF WorkerCheck, RowInv, HasRow, storeVars
<1>4. CASE WorkerWrite
  BY <1>4, WriteType
<1>5. CASE SpendIteration
  BY <1>5, SpendType
<1>6. CASE LaunchAgent
  BY <1>6, LaunchType
<1>7. CASE SkipWaiting
  BY <1>7, SkipType
<1>8. CASE AgentCompletes
  BY <1>8, CompleteType
<1>9. CASE StoreReport
  BY <1>9, ReportType
<1>10. CASE RunnerFails
  BY <1>10, FailType
<1>11. CASE RaiseQuestion
  BY <1>11, RaiseType
<1>12. CASE WorkerAppend
  BY <1>12, AppendType
<1>13. CASE WorkerStatementFails
  BY <1>13, StatementFailsType
<1>14. QED
  BY <1>1, <1>2, <1>3, <1>4, <1>5, <1>6, <1>7, <1>8, <1>9, <1>10, <1>11, <1>12, <1>13
  DEF WorkerStep

(* Every step keeps the invariant.                                         *)
LEMMA ShapeStep == Shape /\ [Next]_vars => Shape'
<1> SUFFICES ASSUME Shape, [Next]_vars PROVE Shape'
  OBVIOUS
<1>1. CASE WorkerStep
  <2>1. TypeOK' /\ RowInv' /\ JobInv'
    BY <1>1, WorkerType, WorkerJob
  <2>2. RequestInv'
    BY <1>1, WorkerLeavesRequests DEF Shape, RequestInv
  <2>3. QED
    BY <2>1, <2>2 DEF Shape
<1>2. CASE HandlerStep
  <2>1. TypeOK' /\ RowInv' /\ RequestInv'
    BY <1>2, HandlerType DEF Shape
  <2>2. JobInv'
    BY <1>2, HandlerLeavesWorker DEF Shape, JobInv, Routed, AfterResult
  <2>3. QED
    BY <2>1, <2>2 DEF Shape
<1>3. CASE Restart
  BY <1>3, RestartType DEF Shape
<1>4. CASE UNCHANGED vars
  <2>1. TypeOK'
    BY <1>4 DEF Shape, TypeOK, StoreTypeOK, vars, storeVars, workerVars, histVars
  <2>2. JobInv' /\ RequestInv' /\ RowInv'
    BY <1>4 DEF Shape, JobInv, Routed, AfterResult, RequestInv, RowInv, HasRow, vars,
       storeVars, workerVars, histVars
  <2>3. QED
    BY <2>1, <2>2 DEF Shape
<1>5. QED
  BY <1>1, <1>2, <1>3, <1>4 DEF Next

-----------------------------------------------------------------------------
(* The theorems *)

(* Every variable keeps its type, and the worker's locals, the requests    *)
(* and the rows keep the invariant above.                                  *)
THEOREM ShapeInvariant == Spec => []Shape
BY ShapeInit, ShapeStep, PTL DEF Spec

(* Every variable keeps its type, with any number of crashes and races.    *)
THEOREM TypeCorrect == Spec => []TypeOK
<1>1. Shape => TypeOK
  BY DEF Shape
<1>2. QED
  BY <1>1, ShapeInvariant, PTL

(* No run is ever stranded between its stage and its state: Step's errors  *)
(* "cannot enter stage" and "returned invalid transition" are unreachable. *)
THEOREM NeverStrandedHolds == Spec => []NeverStranded
<1>1. Shape => NeverStranded
  <2> SUFFICES ASSUME Shape PROVE NeverStranded
    OBVIOUS
  <2>1. pc = "check" => CanTransition(job.seen, job.to)
    <3> SUFFICES ASSUME pc = "check" PROVE CanTransition(job.seen, job.to)
      OBVIOUS
    <3>1. job.stage \in Stages /\ job.kind \in ResultKinds /\ job.goal \in Goals
      BY DEF Shape, TypeOK, Jobs
    <3>2. CASE job.goal = "enter"
      BY <3>2 DEF Shape, JobInv, CanTransition, IsTerminal, RunStates, Successors
    <3>3. CASE job.goal = "limit"
      BY <3>1, <3>3, StageStates DEF Shape, JobInv, CanTransition
    <3>4. CASE job.goal = "route"
      BY <3>1, <3>4, RoutesAreEdges DEF Shape, JobInv, Routed, AfterResult
    <3>5. QED
      BY <3>1, <3>2, <3>3, <3>4 DEF Goals
  <2>2. QED
    BY <2>1 DEF Shape, RowInv, NeverStranded
<1>2. QED
  BY <1>1, ShapeInvariant, PTL

-----------------------------------------------------------------------------
(* The launch budget *)

(* The launches of a stage are paid from its counter, which is stored      *)
(* before the launch: a worker at "launch" has paid and not yet launched.  *)
BudgetInv ==
  /\ \A r \in Runs, s \in Stages :
       launches[r][s] <= counters[r][s] /\ launches[r][s] <= IterationLimit
  /\ pc = "launch" =>
       /\ launches[job.run][job.stage] < counters[job.run][job.stage]
       /\ counters[job.run][job.stage] <= IterationLimit

(* Only SpendIteration changes a counter, and only LaunchAgent a launch.   *)
LEMMA CountersChange ==
  ASSUME Shape, [Next]_vars, ~SpendIteration
  PROVE  UNCHANGED counters
<1>1. CASE WorkerStep
  BY <1>1 DEF WorkerStep, Tick, StepLoad, WorkerCheck, WorkerWrite, LaunchAgent,
     SkipWaiting, AgentCompletes, StoreReport, RunnerFails, RaiseQuestion, WorkerAppend,
     WorkerStatementFails, AddFindings, InsertAttention, AppendEvent, WriteState, storeVars
<1>2. CASE HandlerStep
  BY <1>2 DEF HandlerStep, HandleCreate, HandleCancel, CancelWrite, HandlerAppend,
     HandlerFails, InsertRun, WriteState, AppendEvent, storeVars
<1>3. CASE Restart \/ UNCHANGED vars
  BY <1>3 DEF Restart, vars, storeVars
<1>4. QED
  BY <1>1, <1>2, <1>3 DEF Next

LEMMA LaunchesChange ==
  ASSUME [Next]_vars, ~LaunchAgent
  PROVE  UNCHANGED launches
<1>1. CASE WorkerStep
  BY <1>1 DEF WorkerStep, Tick, StepLoad, WorkerCheck, WorkerWrite, SpendIteration,
     SkipWaiting, AgentCompletes, StoreReport, RunnerFails, RaiseQuestion, WorkerAppend,
     WorkerStatementFails, histVars
<1>2. CASE HandlerStep
  BY <1>2, HandlerLeavesWorker
<1>3. CASE Restart \/ UNCHANGED vars
  BY <1>3 DEF Restart, vars, histVars
<1>4. QED
  BY <1>1, <1>2, <1>3 DEF Next

(* Only SpendIteration brings the worker to "launch".                      *)
LEMMA LaunchIsPaid ==
  ASSUME Shape, [Next]_vars, ~SpendIteration, pc' = "launch"
  PROVE  pc = "launch" /\ UNCHANGED job
<1>1. CASE WorkerStep
  BY <1>1 DEF WorkerStep, Tick, StepLoad, WorkerCheck, WorkerWrite, WorkerGoes, AfterEvent,
     LaunchAgent, SkipWaiting, AgentCompletes, StoreReport, RunnerFails, RaiseQuestion,
     WorkerAppend, WorkerStatementFails
<1>2. CASE HandlerStep
  BY <1>2, HandlerLeavesWorker
<1>3. CASE Restart \/ UNCHANGED vars
  BY <1>3 DEF Restart, vars, workerVars
<1>4. QED
  BY <1>1, <1>2, <1>3 DEF Next

LEMMA BudgetStep == Shape /\ BudgetInv /\ [Next]_vars => BudgetInv'
<1> SUFFICES ASSUME Shape, BudgetInv, [Next]_vars PROVE BudgetInv'
  OBVIOUS
<1>1. /\ counters \in [Runs -> [Stages -> Nat]]
      /\ launches \in [Runs -> [Stages -> Nat]]
      /\ job.stage \in Stages
      /\ IterationLimit \in Nat
  BY EngineAssumption DEF Shape, TypeOK, StoreTypeOK, Jobs
<1>2. CASE SpendIteration
  <2>1. /\ job.run \in Runs
        /\ counters' = [counters EXCEPT ![job.run][job.stage] = @ + 1]
        /\ UNCHANGED launches
    BY <1>2 DEF SpendIteration, IncrementCounter, Shape, JobInv, histVars
  <2>2. /\ counters'[job.run][job.stage] = counters[job.run][job.stage] + 1
        /\ \A r \in Runs, s \in Stages : counters[r][s] <= counters'[r][s]
    BY <1>1, <2>1
  <2>3. \A r \in Runs, s \in Stages :
          launches'[r][s] <= counters'[r][s] /\ launches'[r][s] <= IterationLimit
    <3> SUFFICES ASSUME NEW r \in Runs, NEW s \in Stages
                 PROVE  launches'[r][s] <= counters'[r][s] /\ launches'[r][s] <= IterationLimit
      OBVIOUS
    <3>1. launches[r][s] <= counters[r][s] /\ launches[r][s] <= IterationLimit
      BY DEF BudgetInv
    <3>2. launches[r][s] \in Nat /\ counters[r][s] \in Nat /\ counters'[r][s] \in Nat
      BY <1>1, <2>1
    <3>3. QED
      BY <2>1, <2>2, <3>1, <3>2
  <2>4. pc' = "launch" =>
          /\ launches'[job'.run][job'.stage] < counters'[job'.run][job'.stage]
          /\ counters'[job'.run][job'.stage] <= IterationLimit
    <3> SUFFICES ASSUME pc' = "launch"
                 PROVE  /\ launches'[job'.run][job'.stage] < counters'[job'.run][job'.stage]
                        /\ counters'[job'.run][job'.stage] <= IterationLimit
      OBVIOUS
    <3>1. job' = job /\ ~BudgetSpent(counters'[job.run][job.stage])
      BY <1>2 DEF SpendIteration, WorkerGoes
    <3>2. launches[job.run][job.stage] <= counters[job.run][job.stage]
      BY <1>1, <2>1 DEF BudgetInv
    <3>3. launches[job.run][job.stage] \in Nat /\ counters[job.run][job.stage] \in Nat
      BY <1>1, <2>1
    <3>4. QED
      BY <1>1, <2>1, <2>2, <3>1, <3>2, <3>3 DEF BudgetSpent
  <2>5. QED
    BY <2>3, <2>4 DEF BudgetInv
<1>3. CASE LaunchAgent
  <2>1. /\ job.run \in Runs /\ pc = "launch" /\ pc' = "append"
        /\ launches' = [launches EXCEPT ![job.run][job.stage] = @ + 1]
    BY <1>3 DEF LaunchAgent, Shape, JobInv
  <2>2. UNCHANGED counters
    BY <1>3 DEF LaunchAgent, storeVars
  <2>3. ASSUME NEW r \in Runs, NEW s \in Stages
        PROVE  launches'[r][s] <= counters'[r][s] /\ launches'[r][s] <= IterationLimit
    <3>1. launches[r][s] \in Nat /\ counters[r][s] \in Nat
      BY <1>1
    <3>2. CASE r = job.run /\ s = job.stage
      <4>1. launches'[r][s] = launches[r][s] + 1
        BY <1>1, <2>1, <3>2
      <4>2. launches[r][s] < counters[r][s] /\ counters[r][s] <= IterationLimit
        BY <2>1, <3>2 DEF BudgetInv
      <4>3. QED
        BY <1>1, <2>2, <3>1, <4>1, <4>2
    <3>3. CASE ~(r = job.run /\ s = job.stage)
      <4>1. launches'[r][s] = launches[r][s]
        BY <1>1, <2>1, <3>3
      <4>2. QED
        BY <2>2, <4>1 DEF BudgetInv
    <3>4. QED
      BY <3>2, <3>3
  <2>4. QED
    BY <2>1, <2>3 DEF BudgetInv
<1>4. CASE ~SpendIteration /\ ~LaunchAgent
  BY <1>4, CountersChange, LaunchesChange, LaunchIsPaid DEF BudgetInv
<1>5. QED
  BY <1>2, <1>3, <1>4

(* No stage of a run ever starts more than IterationLimit agents, however  *)
(* often the daemon crashes, the runner fails, a cancellation races or the *)
(* review sends the run back.                                              *)
THEOREM LaunchBudgetHolds == Spec => []LaunchBudget
<1>1. Init => BudgetInv
  <2> SUFFICES ASSUME Init PROVE BudgetInv
    OBVIOUS
  <2>1. \A r \in Runs, s \in Stages : launches[r][s] = 0 /\ counters[r][s] = 0
    BY DEF Init, StoreInit
  <2>2. pc # "launch"
    BY DEF Init
  <2>3. QED
    BY <2>1, <2>2, EngineAssumption DEF BudgetInv
<1>2. BudgetInv => LaunchBudget
  BY DEF BudgetInv, LaunchBudget
<1>3. QED
  BY <1>1, <1>2, BudgetStep, ShapeInvariant, PTL DEF Spec

-----------------------------------------------------------------------------
(* The reviews *)

(* The worker's points at which it is on a stage and has not yet moved the *)
(* run on: an event that follows such a move is none of the three.         *)
OnStage ==
  /\ pc # "idle"
  /\ pc = "append" =>
       job.event \in {"agent.started", "agent.completed", "attention.required"}

(* While the worker is on a stage, the row is in the state of its copy, or *)
(* canceled, and the approvals that this state needs are there; once the   *)
(* runner of a review has returned, the approval that it gives is, too.    *)
ReviewInv ==
  /\ ReviewsAreHeeded
  /\ OnStage =>
       /\ state[job.run] \in {job.seen, "CANCELED"}
       /\ ApprovalsNeeded(job.seen) \subseteq approved[job.run]
  /\ AfterResult /\ job.stage \in Reviews /\ Approves(job.stage, job.kind) =>
       job.stage \in approved[job.run]

(* Only a stored report changes what is approved.                          *)
LEMMA ApprovedChanges ==
  ASSUME [Next]_vars, ~StoreReport
  PROVE  UNCHANGED approved
<1>1. CASE WorkerStep
  BY <1>1 DEF WorkerStep, Tick, StepLoad, WorkerCheck, WorkerWrite, SpendIteration,
     LaunchAgent, SkipWaiting, AgentCompletes, RunnerFails, RaiseQuestion, WorkerAppend,
     WorkerStatementFails, histVars
<1>2. CASE HandlerStep
  BY <1>2, HandlerLeavesWorker
<1>3. CASE Restart \/ UNCHANGED vars
  BY <1>3 DEF Restart, vars, histVars
<1>4. QED
  BY <1>1, <1>2, <1>3 DEF Next

(* The report of the run under way keeps what its row and its copy need.   *)
LEMMA ReportApproves ==
  ASSUME Shape, ReviewInv, StoreReport
  PROVE  /\ job.run \in Runs /\ OnStage /\ UNCHANGED state
         /\ job'.run = job.run /\ job'.seen = job.seen
         /\ job'.stage = job.stage /\ job'.kind = job.kind
         /\ \A r \in Runs : r # job.run => approved'[r] = approved[r]
         /\ ApprovalsNeeded(job.seen) \subseteq approved'[job.run]
         /\ job.stage \in Reviews /\ Approves(job.stage, job.kind) =>
              job.stage \in approved'[job.run]
<1>1. /\ pc = "persist" /\ job.run \in Runs /\ job.stage \in Stages
      /\ approved \in [Runs -> SUBSET Reviews]
  BY DEF StoreReport, Shape, TypeOK, Jobs, JobInv
<1>2. OnStage /\ job.seen = StageState(job.stage)
  BY <1>1 DEF OnStage, Shape, JobInv
<1>3. approved' = [approved EXCEPT ![job.run] = Approvals(@, job.stage, job.kind)]
  BY DEF StoreReport
<1>4. UNCHANGED state
  BY DEF StoreReport, AddFindings
<1>5. job' = job
  BY DEF StoreReport, WorkerGoes
<1>6. approved'[job.run] = Approvals(approved[job.run], job.stage, job.kind)
  BY <1>1, <1>3
<1>7. ApprovalsNeeded(StageState(job.stage)) \subseteq approved[job.run]
  BY <1>2 DEF ReviewInv
<1>8. approved[job.run] \in SUBSET Reviews
  BY <1>1
<1>9. QED
  BY <1>1, <1>2, <1>3, <1>4, <1>5, <1>6, <1>7, <1>8, ResultsApprove

(* A row's state changes by an insert, a cancellation or the worker.       *)
LEMMA StateChanges ==
  ASSUME Shape, [Next]_vars, NEW r \in Runs
  PROVE  \/ state'[r] = state[r]
         \/ state[r] = "ABSENT" /\ state'[r] = "NEW"
         \/ /\ state'[r] = "CANCELED"
            /\ \E h \in Handlers : request[h].at = "canceling" /\ request[h].run = r
         \/ WorkerWrite /\ r = job.run /\ state'[r] = job.to
<1>1. state \in [Runs -> RunStates \union {"ABSENT"}]
  BY DEF Shape, TypeOK, StoreTypeOK
<1>2. CASE WorkerWrite
  <2>1. state' = [state EXCEPT ![job.run] = job.to]
    BY <1>2 DEF WorkerWrite, WriteState
  <2>2. QED
    BY <1>1, <1>2, <2>1
<1>3. CASE WorkerStep /\ ~WorkerWrite
  BY <1>3 DEF WorkerStep, Tick, StepLoad, WorkerCheck, SpendIteration, LaunchAgent,
     SkipWaiting, AgentCompletes, StoreReport, RunnerFails, RaiseQuestion, WorkerAppend,
     WorkerStatementFails, AddFindings, InsertAttention, AppendEvent, IncrementCounter,
     storeVars
<1>4. CASE HandlerStep
  <2>1. PICK h \in Handlers :
          \/ \E q \in Runs : HandleCreate(h, q) \/ HandleCancel(h, q)
          \/ CancelWrite(h) \/ HandlerAppend(h) \/ HandlerFails(h)
    BY <1>4 DEF HandlerStep
  <2>2. ASSUME NEW q \in Runs, HandleCreate(h, q)
        PROVE  state'[r] = state[r] \/ (state[r] = "ABSENT" /\ state'[r] = "NEW")
    BY <1>1, <2>2 DEF HandleCreate, InsertRun, HasRow
  <2>3. ASSUME NEW q \in Runs, HandleCancel(h, q) PROVE state'[r] = state[r]
    BY <2>3 DEF HandleCancel, storeVars
  <2>4. CASE CancelWrite(h)
    BY <1>1, <2>4 DEF CancelWrite, WriteState
  <2>5. CASE HandlerAppend(h) \/ HandlerFails(h)
    BY <2>5 DEF HandlerAppend, HandlerFails, AppendEvent, storeVars
  <2>6. QED
    BY <2>1, <2>2, <2>3, <2>4, <2>5
<1>5. CASE Restart \/ UNCHANGED vars
  BY <1>5 DEF Restart, vars, storeVars
<1>6. QED
  BY <1>2, <1>3, <1>4, <1>5 DEF Next

(* A worker that is on a stage came to it by loading the run or by         *)
(* entering its first stage; otherwise it is still there.                  *)
LEMMA OnStageBegins ==
  ASSUME Shape, [Next]_vars, OnStage', ~WorkerWrite, ~\E r \in Runs : StepLoad(r)
  PROVE  /\ OnStage
         /\ job'.run = job.run /\ job'.seen = job.seen /\ job'.stage = job.stage
<1>1. CASE WorkerStep
  BY <1>1 DEF WorkerStep, Tick, WorkerCheck, SpendIteration, LaunchAgent,
     SkipWaiting, AgentCompletes, StoreReport, RunnerFails, RaiseQuestion, WorkerAppend,
     WorkerStatementFails, WorkerGoes, AfterEvent, OnStage, Shape, TypeOK, Jobs
<1>2. CASE HandlerStep
  BY <1>2, HandlerLeavesWorker DEF OnStage
<1>3. CASE Restart \/ UNCHANGED vars
  BY <1>3 DEF Restart, vars, workerVars, OnStage
<1>4. QED
  BY <1>1, <1>2, <1>3 DEF Next

(* The worker never writes NEW.                                            *)
LEMMA WriteNotNew ==
  ASSUME Shape, WorkerWrite
  PROVE  job.to \in RunStates \ {"NEW"}
<1>1. /\ pc = "write" /\ job.goal \in Goals /\ job.to \in RunStates
      /\ job.stage \in Stages /\ job.kind \in ResultKinds
  BY DEF WorkerWrite, Shape, TypeOK, Jobs
<1>2. CASE job.goal \in {"enter", "limit"}
  BY <1>1, <1>2 DEF Shape, JobInv
<1>3. CASE job.goal = "route"
  <2>1. job.to = NextState(job.stage, job.kind)
    BY <1>1, <1>3 DEF Shape, JobInv, Routed, AfterResult
  <2>2. QED
    BY <1>1, <2>1, RoutesAreEdges
<1>4. QED
  BY <1>1, <1>2, <1>3 DEF Goals

(* What the worker's write leads to has the approvals it needs.            *)
LEMMA WriteIsApproved ==
  ASSUME Shape, ReviewInv, WorkerWrite
  PROVE  ApprovalsNeeded(job.to) \subseteq approved[job.run]
<1>1. /\ pc = "write" /\ OnStage /\ job.goal \in Goals
      /\ job.stage \in Stages /\ job.kind \in ResultKinds
  BY DEF WorkerWrite, OnStage, Shape, TypeOK, Jobs
<1>2. CASE job.goal \in {"enter", "limit"}
  <2>1. job.to \in {"DISCOVERY", "FAILED"}
    BY <1>1, <1>2 DEF Shape, JobInv
  <2>2. QED
    BY <2>1 DEF ApprovalsNeeded
<1>3. CASE job.goal = "route"
  <2>1. job.to = NextState(job.stage, job.kind) /\ job.seen = StageState(job.stage)
    BY <1>1, <1>3 DEF Shape, JobInv, Routed, AfterResult
  <2>2. ApprovalsNeeded(job.seen) \subseteq approved[job.run]
    BY <1>1 DEF ReviewInv
  <2>3. job.stage \in Reviews /\ Approves(job.stage, job.kind) =>
          job.stage \in approved[job.run]
    BY <1>1, <1>3 DEF ReviewInv, AfterResult
  <2>4. ApprovalsNeeded(NextState(job.stage, job.kind)) \subseteq
          ApprovalsNeeded(StageState(job.stage))
            \union {s \in Reviews : s = job.stage /\ Approves(job.stage, job.kind)}
    BY <1>1, RoutesAreApproved
  <2>5. QED
    BY <2>1, <2>2, <2>3, <2>4
<1>4. QED
  BY <1>1, <1>2, <1>3 DEF Goals

(* Only a stored report and the stub bring the worker behind a result.     *)
LEMMA AfterResultBegins ==
  ASSUME Shape, [Next]_vars, AfterResult', ~StoreReport, ~SkipWaiting
  PROVE  /\ AfterResult
         /\ job'.run = job.run /\ job'.stage = job.stage /\ job'.kind = job.kind
<1>1. CASE \E r \in Runs : StepLoad(r)
  BY <1>1 DEF StepLoad, NoJob, AfterResult, Shape
<1>2. CASE WorkerWrite
  BY <1>2 DEF WorkerWrite, RouteEvent, AfterResult, Shape, TypeOK, Jobs
<1>3. CASE WorkerStep /\ ~(\E r \in Runs : StepLoad(r)) /\ ~WorkerWrite
  BY <1>3 DEF WorkerStep, Tick, WorkerCheck, SpendIteration, LaunchAgent,
     AgentCompletes, RunnerFails, RaiseQuestion, WorkerAppend,
     WorkerStatementFails, WorkerGoes, AfterEvent, AfterResult, Shape, JobInv, Routed,
     TypeOK, Jobs
<1>4. CASE HandlerStep
  BY <1>4, HandlerLeavesWorker DEF AfterResult
<1>5. CASE Restart \/ UNCHANGED vars
  BY <1>5 DEF Restart, vars, workerVars, AfterResult
<1>6. QED
  BY <1>1, <1>2, <1>3, <1>4, <1>5 DEF Next

LEMMA ReviewStep == Shape /\ ReviewInv /\ [Next]_vars => ReviewInv'
<1> SUFFICES ASSUME Shape, ReviewInv, [Next]_vars PROVE ReviewInv'
  OBVIOUS
<1>1. ASSUME NEW r \in Runs PROVE ApprovalsNeeded(state'[r]) \subseteq approved'[r]
  <2>1. CASE StoreReport
    <3>1. CASE r = job.run
      <4>1. state'[r] \in {job.seen, "CANCELED"}
        BY <2>1, <3>1, ReportApproves DEF ReviewInv
      <4>2. ApprovalsNeeded("CANCELED") = {}
        BY DEF ApprovalsNeeded
      <4>3. ApprovalsNeeded(job.seen) \subseteq approved'[r]
        BY <2>1, <3>1, ReportApproves
      <4>4. QED
        BY <4>1, <4>2, <4>3
    <3>2. CASE r # job.run
      BY <2>1, <3>2, ReportApproves DEF ReviewInv, ReviewsAreHeeded
    <3>3. QED
      BY <3>1, <3>2
  <2>2. CASE ~StoreReport
    <3>1. UNCHANGED approved
      BY <2>2, ApprovedChanges
    <3>2. CASE state'[r] = state[r]
      BY <3>1, <3>2 DEF ReviewInv, ReviewsAreHeeded
    <3>3. CASE state'[r] \in {"NEW", "CANCELED"}
      BY <3>3 DEF ApprovalsNeeded
    <3>4. CASE WorkerWrite /\ r = job.run /\ state'[r] = job.to
      BY <3>1, <3>4, WriteIsApproved
    <3>5. QED
      BY <3>2, <3>3, <3>4, StateChanges
  <2>3. QED
    BY <2>1, <2>2
<1>2. ASSUME OnStage'
      PROVE  /\ state'[job'.run] \in {job'.seen, "CANCELED"}
             /\ ApprovalsNeeded(job'.seen) \subseteq approved'[job'.run]
  <2>1. CASE \E r \in Runs : StepLoad(r)
    <3>1. PICK r \in Runs : StepLoad(r)
      BY <2>1
    <3>2. job'.run = r /\ job'.seen = state[r]
      BY <1>2, <3>1 DEF StepLoad, NoJob, OnStage
    <3>3. UNCHANGED <<state, approved>>
      BY <3>1 DEF StepLoad, storeVars, histVars
    <3>4. QED
      BY <3>2, <3>3 DEF ReviewInv, ReviewsAreHeeded
  <2>2. CASE WorkerWrite
    <3>1. CASE job.goal = "enter"
      <4>1. /\ job.run \in Runs /\ job'.run = job.run /\ job'.seen = job.to
            /\ job.to = "DISCOVERY" /\ state' = [state EXCEPT ![job.run] = job.to]
        BY <2>2, <3>1 DEF WorkerWrite, WriteState, Shape, JobInv, TypeOK, Jobs
      <4>2. state'[job.run] = job.to
        BY <4>1 DEF Shape, TypeOK, StoreTypeOK
      <4>3. ApprovalsNeeded(job.to) = {}
        BY <4>1 DEF ApprovalsNeeded
      <4>4. QED
        BY <4>1, <4>2, <4>3
    <3>2. CASE job.goal # "enter"
      <4>1. RouteEvent \notin {"agent.started", "agent.completed", "attention.required"}
        BY DEF RouteEvent
      <4>2. pc' = "append" /\ job'.event \in {"stage.failed", RouteEvent}
        BY <2>2, <3>2 DEF WorkerWrite, Shape, TypeOK, Jobs
      <4>3. QED
        BY <1>2, <4>1, <4>2 DEF OnStage
    <3>3. QED
      BY <3>1, <3>2
  <2>3. CASE ~WorkerWrite /\ ~\E r \in Runs : StepLoad(r)
    <3>1. OnStage /\ job'.run = job.run /\ job'.seen = job.seen
      BY <1>2, <2>3, OnStageBegins
    <3>2. job.run \in Runs /\ job.seen \in RunStates /\ state[job.run] \in {job.seen, "CANCELED"}
      BY <3>1 DEF OnStage, ReviewInv, Shape, JobInv, TypeOK, Jobs
    <3>3. state[job.run] # "ABSENT"
      BY <3>2 DEF RunStates
    <3>4. state'[job.run] \in {state[job.run], "CANCELED"}
      BY <2>3, <3>2, <3>3, StateChanges
    <3>5. ApprovalsNeeded(job.seen) \subseteq approved'[job.run]
      BY <3>1, ReportApproves, ApprovedChanges DEF ReviewInv
    <3>6. QED
      BY <3>1, <3>2, <3>4, <3>5
  <2>4. QED
    BY <2>1, <2>2, <2>3
<1>3. ASSUME AfterResult', job'.stage \in Reviews, Approves(job'.stage, job'.kind)
      PROVE  job'.stage \in approved'[job'.run]
  <2>1. CASE StoreReport
    BY <1>3, <2>1, ReportApproves
  <2>2. CASE SkipWaiting
    <3>1. job'.stage = "waiting_for_user"
      BY <2>2 DEF SkipWaiting, Shape, TypeOK, Jobs
    <3>2. QED
      BY <1>3, <3>1 DEF Reviews
  <2>3. CASE ~StoreReport /\ ~SkipWaiting
    <3>1. /\ AfterResult /\ job'.run = job.run /\ job'.stage = job.stage
          /\ job'.kind = job.kind
      BY <1>3, <2>3, AfterResultBegins
    <3>2. UNCHANGED approved
      BY <2>3, ApprovedChanges
    <3>3. QED
      BY <1>3, <3>1, <3>2 DEF ReviewInv
  <2>4. QED
    BY <2>1, <2>2, <2>3
<1>4. QED
  BY <1>1, <1>2, <1>3 DEF ReviewInv, ReviewsAreHeeded

(* A run is implemented only on a plan that the gatekeeper let go on, and  *)
(* DONE means that besides the reviewer approved its latest implementation,*)
(* even if the run was canceled, overwritten and resumed in between.       *)
THEOREM ReviewsAreHeededHolds == Spec => []ReviewsAreHeeded
<1>1. Init => ReviewInv
  BY DEF Init, StoreInit, ReviewInv, ReviewsAreHeeded, ApprovalsNeeded, OnStage, AfterResult
<1>2. ReviewInv => ReviewsAreHeeded
  BY DEF ReviewInv
<1>3. QED
  BY <1>1, <1>2, ReviewStep, ShapeInvariant, PTL DEF Spec

-----------------------------------------------------------------------------
(* Launches after the end of a run *)

(* A late launch has happened only to a run that is terminal, and a worker *)
(* that still is on its way to a launch has not made one.                  *)
LateInv ==
  \A r \in Runs :
    /\ late[r] <= 1
    /\ ~IsTerminal(state[r]) => late[r] = 0
    /\ pc # "idle" /\ job.run = r /\ BeforeLaunch => late[r] = 0

(* Only LaunchAgent and WorkerWrite change the count of late launches.     *)
LEMMA LateChanges ==
  ASSUME [Next]_vars, ~LaunchAgent, ~WorkerWrite
  PROVE  UNCHANGED late
<1>1. CASE WorkerStep
  BY <1>1 DEF WorkerStep, Tick, StepLoad, WorkerCheck, SpendIteration, SkipWaiting,
     AgentCompletes, StoreReport, RunnerFails, RaiseQuestion, WorkerAppend,
     WorkerStatementFails, histVars
<1>2. CASE HandlerStep
  BY <1>2, HandlerLeavesWorker
<1>3. CASE Restart \/ UNCHANGED vars
  BY <1>3 DEF Restart, vars, histVars
<1>4. QED
  BY <1>1, <1>2, <1>3 DEF Next

(* Only StepLoad puts the worker on the way to a launch; a worker that is  *)
(* on its way stays with its run.                                          *)
LEMMA BeforeLaunchBegins ==
  ASSUME Shape, [Next]_vars, BeforeLaunch', ~\E r \in Runs : StepLoad(r)
  PROVE  BeforeLaunch /\ job'.run = job.run
<1>1. CASE WorkerStep
  BY <1>1 DEF WorkerStep, Tick, WorkerCheck, WorkerWrite, SpendIteration, LaunchAgent,
     SkipWaiting, AgentCompletes, StoreReport, RunnerFails, RaiseQuestion, WorkerAppend,
     WorkerStatementFails, WorkerGoes, AfterEvent, BeforeLaunch, Shape, JobInv, Routed,
     AfterResult, TypeOK, Jobs
<1>2. CASE HandlerStep
  BY <1>2, HandlerLeavesWorker DEF BeforeLaunch
<1>3. CASE Restart \/ UNCHANGED vars
  BY <1>3 DEF Restart, vars, workerVars, BeforeLaunch
<1>4. QED
  BY <1>1, <1>2, <1>3 DEF Next

LEMMA LateStep == Shape /\ LateInv /\ [Next]_vars => LateInv'
<1> SUFFICES ASSUME Shape, LateInv, [Next]_vars, NEW r \in Runs
             PROVE  /\ late'[r] <= 1
                    /\ ~IsTerminal(state'[r]) => late'[r] = 0
                    /\ pc' # "idle" /\ job'.run = r /\ BeforeLaunch' => late'[r] = 0
  BY DEF LateInv
<1>1. late \in [Runs -> Nat] /\ late[r] \in Nat
  BY DEF Shape, TypeOK
<1>2. CASE \E q \in Runs : StepLoad(q)
  <2>1. PICK q \in Runs : StepLoad(q)
    BY <1>2
  <2>2. UNCHANGED <<state, late>>
    BY <2>1 DEF StepLoad, storeVars, histVars
  <2>3. pc' # "idle" => job'.run = q /\ ~IsTerminal(state[q])
    BY <2>1 DEF StepLoad, Steppable, NoJob
  <2>4. QED
    BY <2>2, <2>3 DEF LateInv
<1>3. CASE LaunchAgent
  <2>1. /\ pc = "launch" /\ pc' = "append" /\ job.run \in Runs
        /\ late' = [late EXCEPT ![job.run] = IF IsTerminal(state[job.run]) THEN @ + 1 ELSE @]
        /\ UNCHANGED state
    BY <1>3 DEF LaunchAgent, storeVars, Shape, JobInv
  <2>2. late[job.run] = 0
    BY <2>1 DEF LateInv, BeforeLaunch
  <2>3. late'[r] <= 1 /\ (~IsTerminal(state'[r]) => late'[r] = 0)
    <3>1. CASE r = job.run
      BY <1>1, <2>1, <2>2, <3>1
    <3>2. CASE r # job.run
      BY <1>1, <2>1, <3>2 DEF LateInv
    <3>3. QED
      BY <3>1, <3>2
  <2>4. QED
    BY <2>1, <2>3 DEF BeforeLaunch
<1>4. CASE WorkerWrite
  <2>1. /\ pc = "write" /\ job.run \in Runs
        /\ late' = [late EXCEPT ![job.run] = IF IsTerminal(job.to) THEN @ ELSE 0]
        /\ state' = [state EXCEPT ![job.run] = job.to]
    BY <1>4 DEF WorkerWrite, WriteState, Shape, JobInv
  <2>2. state \in [Runs -> RunStates \union {"ABSENT"}]
    BY DEF Shape, TypeOK, StoreTypeOK
  <2>3. late'[r] <= 1 /\ (~IsTerminal(state'[r]) => late'[r] = 0)
    BY <1>1, <2>1, <2>2 DEF LateInv
  <2>4. ASSUME BeforeLaunch', job'.run = r PROVE late'[r] = 0
    <3>1. job.goal = "enter" /\ r = job.run
      BY <1>4, <2>4 DEF WorkerWrite, BeforeLaunch, Shape, TypeOK, Jobs
    <3>2. job.to = "DISCOVERY"
      BY <2>1, <3>1 DEF Shape, JobInv
    <3>3. QED
      BY <1>1, <2>1, <3>1, <3>2 DEF IsTerminal
  <2>5. QED
    BY <2>3, <2>4
<1>5. CASE ~(\E q \in Runs : StepLoad(q)) /\ ~LaunchAgent /\ ~WorkerWrite
  <2>1. UNCHANGED late
    BY <1>5, LateChanges
  <2>2. ~IsTerminal(state'[r]) => ~IsTerminal(state[r])
    BY <1>5, StateChanges DEF IsTerminal
  <2>3. BeforeLaunch' => BeforeLaunch /\ job'.run = job.run
    BY <1>5, BeforeLaunchBegins
  <2>4. BeforeLaunch => pc # "idle"
    BY DEF BeforeLaunch
  <2>5. QED
    BY <2>1, <2>2, <2>3, <2>4 DEF LateInv
<1>6. QED
  BY <1>2, <1>3, <1>4, <1>5

(* After a run has become terminal, by a cancellation in the middle of a   *)
(* step too, at most one more agent is started for it.                     *)
THEOREM AtMostOneLateLaunchHolds == Spec => []AtMostOneLateLaunch
<1>1. Init => LateInv
  BY DEF Init, LateInv
<1>2. LateInv => AtMostOneLateLaunch
  BY DEF LateInv, AtMostOneLateLaunch
<1>3. QED
  BY <1>1, <1>2, LateStep, ShapeInvariant, PTL DEF Spec

-----------------------------------------------------------------------------
(* The engine implements the life cycle *)

(* A request that is about to cancel has found the row of a run that may   *)
(* be canceled; a worker that is about to write follows an edge from the   *)
(* state the row still has, or a cancellation has come between its check   *)
(* and its write.                                                          *)
RaceInv ==
  /\ \A h \in Handlers :
       request[h].at = "canceling" =>
         request[h].run \in Cancellable /\ HasRow(request[h].run)
  /\ pc = "write" =>
       \/ CanTransition(state[job.run], job.to)
       \/ job.run \in Cancellable /\ state[job.run] = "CANCELED"

(* The life cycle has the domain's states and edges.                       *)
LEMMA SameGraph ==
  ASSUME NEW from, NEW to, CanTransition(from, to)
  PROVE  Lifecycle!CanTransition(from, to) /\ to \in Lifecycle!RunStates
<1>1. Successors(from) = Lifecycle!Successors(from)
  BY DEF Successors, Lifecycle!Successors
<1>2. Lifecycle!CanTransition(from, to)
  BY <1>1 DEF CanTransition, Lifecycle!CanTransition, IsTerminal, Lifecycle!IsTerminal,
     RunStates, Lifecycle!RunStates
<1>3. to \in Lifecycle!RunStates
  BY DEF CanTransition, Successors, Lifecycle!RunStates
<1>4. QED
  BY <1>2, <1>3

LEMMA RaceInit == Init => RaceInv
<1> SUFFICES ASSUME Init PROVE RaceInv
  OBVIOUS
<1>1. \A h \in Handlers : request[h].at = "free"
  BY DEF Init, NoRequest
<1>2. pc = "idle"
  BY DEF Init
<1>3. QED
  BY <1>1, <1>2 DEF RaceInv

(* What a step writes into the rows: nothing, a new row, a cancellation of *)
(* a run that may be canceled, or the state that the worker has checked.   *)
LEMMA RowWrites ==
  ASSUME Shape, RaceInv, [Next]_vars
  PROVE  \/ UNCHANGED state
         \/ \E r \in Runs : state[r] = "ABSENT" /\ state' = [state EXCEPT ![r] = "NEW"]
         \/ \E r \in Cancellable :
              HasRow(r) /\ state' = [state EXCEPT ![r] = "CANCELED"]
         \/ WorkerWrite /\ state' = [state EXCEPT ![job.run] = job.to]
<1>1. CASE WorkerWrite
  BY <1>1 DEF WorkerWrite, WriteState
<1>2. CASE WorkerStep /\ ~WorkerWrite
  BY <1>2 DEF WorkerStep, Tick, StepLoad, WorkerCheck, SpendIteration, LaunchAgent,
     SkipWaiting, AgentCompletes, StoreReport, RunnerFails, RaiseQuestion, WorkerAppend,
     WorkerStatementFails, AddFindings, InsertAttention, AppendEvent, IncrementCounter,
     storeVars
<1>3. CASE HandlerStep
  <2>1. PICK h \in Handlers :
          \/ \E r \in Runs : HandleCreate(h, r) \/ HandleCancel(h, r)
          \/ CancelWrite(h) \/ HandlerAppend(h) \/ HandlerFails(h)
    BY <1>3 DEF HandlerStep
  <2>2. ASSUME NEW r \in Runs, HandleCreate(h, r)
        PROVE  state[r] = "ABSENT" /\ state' = [state EXCEPT ![r] = "NEW"]
    BY <2>2 DEF HandleCreate, InsertRun, HasRow
  <2>3. ASSUME CancelWrite(h)
        PROVE  \E r \in Cancellable :
                 HasRow(r) /\ state' = [state EXCEPT ![r] = "CANCELED"]
    BY <2>3 DEF CancelWrite, WriteState, RaceInv
  <2>4. CASE (\E r \in Runs : HandleCancel(h, r)) \/ HandlerAppend(h) \/ HandlerFails(h)
    BY <2>4 DEF HandleCancel, HandlerAppend, HandlerFails, AppendEvent, storeVars
  <2>5. QED
    BY <2>1, <2>2, <2>3, <2>4
<1>4. CASE Restart \/ UNCHANGED vars
  BY <1>4 DEF Restart, vars, storeVars
<1>5. QED
  BY <1>1, <1>2, <1>3, <1>4 DEF Next

(* A row that is there stays there.                                        *)
LEMMA RowsStay ==
  ASSUME Shape, [Next]_vars, NEW r \in Runs, HasRow(r)
  PROVE  HasRow(r)'
<1>1. WorkerWrite => job.to # "ABSENT"
  BY DEF WorkerWrite, Shape, TypeOK, Jobs, RunStates
<1>2. QED
  BY <1>1, StateChanges DEF HasRow

(* The requests part of the invariant.                                     *)
LEMMA CancelRequests ==
  ASSUME Shape, RaceInv, [Next]_vars, NEW h \in Handlers, request'[h].at = "canceling"
  PROVE  request'[h].run \in Cancellable /\ state'[request'[h].run] # "ABSENT"
<1>1. CASE request'[h] = request[h]
  <2>1. request[h].run \in Cancellable /\ HasRow(request[h].run)
    BY <1>1 DEF RaceInv
  <2>2. request[h].run \in Runs
    BY <1>1 DEF Shape, RequestInv
  <2>3. PICK r \in Runs : r = request[h].run
    BY <2>2
  <2>4. state'[r] # "ABSENT"
    BY <2>1, <2>3, RowsStay DEF HasRow
  <2>5. QED
    BY <1>1, <2>1, <2>3, <2>4
<1>2. CASE request'[h] # request[h]
  <2>1. request \in [Handlers -> Requests]
    BY DEF Shape, TypeOK
  <2>2. HandlerStep
    <3>1. ASSUME Restart PROVE FALSE
      <4>1. request'[h] = NoRequest
        BY <3>1 DEF Restart
      <4>2. NoRequest.at = "free"
        BY DEF NoRequest
      <4>3. QED
        BY <4>1, <4>2
    <3>2. ~WorkerStep /\ ~UNCHANGED vars
      BY <1>2, WorkerLeavesRequests DEF vars
    <3>3. QED
      BY <3>1, <3>2 DEF Next
  <2>3. PICK g \in Handlers :
          \/ \E r \in Runs : HandleCreate(g, r) \/ HandleCancel(g, r)
          \/ CancelWrite(g) \/ HandlerAppend(g) \/ HandlerFails(g)
    BY <2>2 DEF HandlerStep
  <2>4. CASE (\E r \in Runs : HandleCreate(g, r)) \/ CancelWrite(g) \/ HandlerAppend(g)
             \/ HandlerFails(g)
    <3>1. \E r, st : \E at \in {"created", "canceled", "free"} : HandlerGoes(g, at, r, st)
      BY <2>4 DEF HandleCreate, CancelWrite, HandlerAppend, HandlerFails
    <3>2. QED
      BY <1>2, <2>1, <3>1 DEF HandlerGoes
  <2>5. ASSUME NEW r \in Runs, HandleCancel(g, r)
        PROVE  request'[h].run \in Cancellable /\ state'[request'[h].run] # "ABSENT"
    <3>1. /\ request' = [request EXCEPT ![g] = [at |-> "canceling", run |-> r,
                                                stage |-> stage[r]]]
          /\ r \in Cancellable /\ HasRow(r)
      BY <2>5 DEF HandleCancel, HandlerGoes, MayMove
    <3>2. request'[h].run = r
      BY <1>2, <2>1, <3>1
    <3>3. state'[r] # "ABSENT"
      BY <3>1, RowsStay DEF HasRow
    <3>4. QED
      BY <3>1, <3>2, <3>3
  <2>6. QED
    BY <2>3, <2>4, <2>5
<1>3. QED
  BY <1>1, <1>2

(* Only a check brings the worker to its write.                            *)
LEMMA WriteIsChecked ==
  ASSUME Shape, [Next]_vars, pc' = "write", ~WorkerCheck
  PROVE  pc = "write" /\ UNCHANGED job /\ ~WorkerWrite
<1>1. CASE WorkerStep
  BY <1>1 DEF WorkerStep, Tick, StepLoad, WorkerWrite, SpendIteration,
     LaunchAgent, SkipWaiting, AgentCompletes, StoreReport, RunnerFails,
     RaiseQuestion, WorkerAppend, WorkerStatementFails, WorkerGoes, AfterEvent
<1>2. CASE HandlerStep
  BY <1>2, HandlerLeavesWorker DEF WorkerWrite
<1>3. CASE Restart \/ UNCHANGED vars
  BY <1>3 DEF Restart, vars, workerVars, WorkerWrite
<1>4. QED
  BY <1>1, <1>2, <1>3 DEF Next

LEMMA RaceStep == Shape /\ RaceInv /\ [Next]_vars => RaceInv'
<1> SUFFICES ASSUME Shape, RaceInv, [Next]_vars PROVE RaceInv'
  OBVIOUS
<1>1. ASSUME pc' = "write"
      PROVE  \/ CanTransition(state'[job'.run], job'.to)
             \/ job'.run \in Cancellable /\ state'[job'.run] = "CANCELED"
  <2>1. CASE WorkerCheck
    BY <1>1, <2>1 DEF WorkerCheck, WorkerGoes, MayMove, storeVars
  <2>2. CASE ~WorkerCheck
    <3>1. pc = "write" /\ UNCHANGED job /\ ~WorkerWrite
      BY <1>1, <2>2, WriteIsChecked
    <3>2. \/ CanTransition(state[job.run], job.to)
          \/ job.run \in Cancellable /\ state[job.run] = "CANCELED"
      BY <3>1 DEF RaceInv
    <3>3. state[job.run] # "ABSENT"
      BY <3>2, EdgeSource DEF RunStates
    <3>4. state \in [Runs -> RunStates \union {"ABSENT"}] /\ job.run \in Runs
      BY <3>1 DEF Shape, TypeOK, StoreTypeOK, JobInv
    <3>5. \/ state'[job.run] = state[job.run]
          \/ job.run \in Cancellable /\ state'[job.run] = "CANCELED"
      BY <3>1, <3>3, <3>4, RowWrites
    <3>6. QED
      BY <3>1, <3>2, <3>5
  <2>3. QED
    BY <2>1, <2>2
<1>2. QED
  BY <1>1, CancelRequests DEF RaceInv, HasRow

(* Every step of the engine is a step of the life cycle or leaves it alone.*)
LEMMA LifecycleStep == Shape /\ RaceInv /\ [Next]_vars => [Lifecycle!LNext]_state
<1> SUFFICES ASSUME Shape, RaceInv, [Next]_vars, state' # state PROVE Lifecycle!LNext
  OBVIOUS
<1>1. CASE \E r \in Runs : state[r] = "ABSENT" /\ state' = [state EXCEPT ![r] = "NEW"]
  BY <1>1 DEF Lifecycle!LNext, Lifecycle!LCreate
<1>2. CASE \E r \in Cancellable : HasRow(r) /\ state' = [state EXCEPT ![r] = "CANCELED"]
  <2>1. PICK r \in Cancellable : HasRow(r) /\ state' = [state EXCEPT ![r] = "CANCELED"]
    BY <1>2
  <2>2. r \in Runs /\ state[r] \in RunStates
    BY <2>1, EngineAssumption DEF Shape, TypeOK, StoreTypeOK, HasRow
  <2>3. CASE IsTerminal(state[r])
    <3>1. Lifecycle!IsTerminal(state[r])
      BY <2>3 DEF IsTerminal, Lifecycle!IsTerminal
    <3>2. "CANCELED" \in Lifecycle!RunStates \ {"NEW"}
      BY DEF Lifecycle!RunStates
    <3>3. Lifecycle!LRace(r)
      BY <2>1, <3>1, <3>2 DEF Lifecycle!LRace
    <3>4. QED
      BY <2>2, <3>3 DEF Lifecycle!LNext
  <2>4. CASE ~IsTerminal(state[r])
    <3>1. CanTransition(state[r], "CANCELED")
      BY <2>2, <2>4 DEF CanTransition
    <3>2. Lifecycle!CanTransition(state[r], "CANCELED") /\ "CANCELED" \in Lifecycle!RunStates
      BY <3>1, SameGraph
    <3>3. QED
      BY <2>1, <2>2, <3>2 DEF Lifecycle!LNext, Lifecycle!LMove
  <2>5. QED
    BY <2>3, <2>4
<1>3. CASE WorkerWrite /\ state' = [state EXCEPT ![job.run] = job.to]
  <2>1. pc = "write" /\ job.run \in Runs
    BY <1>3 DEF WorkerWrite, Shape, JobInv
  <2>2. CASE CanTransition(state[job.run], job.to)
    <3>1. Lifecycle!CanTransition(state[job.run], job.to) /\ job.to \in Lifecycle!RunStates
      BY <2>2, SameGraph
    <3>2. QED
      BY <1>3, <2>1, <3>1 DEF Lifecycle!LNext, Lifecycle!LMove
  <2>3. CASE job.run \in Cancellable /\ state[job.run] = "CANCELED"
    <3>1. job.to \in Lifecycle!RunStates \ {"NEW"}
      BY <1>3, WriteNotNew DEF Lifecycle!RunStates, RunStates
    <3>2. Lifecycle!IsTerminal(state[job.run])
      BY <2>3 DEF Lifecycle!IsTerminal
    <3>3. Lifecycle!LRace(job.run)
      BY <1>3, <2>3, <3>1, <3>2 DEF Lifecycle!LRace
    <3>4. QED
      BY <2>1, <3>3 DEF Lifecycle!LNext
  <2>4. QED
    BY <2>1, <2>2, <2>3 DEF RaceInv
<1>4. QED
  BY <1>1, <1>2, <1>3, RowWrites

(* The engine implements the life cycle, with crashes, restarts, failing   *)
(* statements, failing agents and cancellations at any moment: every move  *)
(* of a row follows an edge, and only a race with a cancellation overwrites*)
(* a terminal state, which then is, or becomes, CANCELED.                  *)
THEOREM LifecycleHolds == Spec => LifecycleSpec
<1>1. Init => Lifecycle!LInit
  BY DEF Init, StoreInit, Lifecycle!LInit
<1>2. QED
  BY <1>1, RaceInit, RaceStep, LifecycleStep, ShapeInvariant, PTL
  DEF Spec, LifecycleSpec, Lifecycle!LSpec

(* As long as no client cancels, terminal states are absorbing, as         *)
(* domain.go says.                                                         *)
THEOREM AbsorbingWithoutCancellation ==
  ASSUME Cancellable = {}
  PROVE  Spec => TerminalAbsorbing
<1>1. ASSUME Shape, RaceInv, [Next]_vars, NEW r \in Runs, HasRow(r), IsTerminal(state[r])
      PROVE  state'[r] = state[r]
  <2>1. state \in [Runs -> RunStates \union {"ABSENT"}]
    BY <1>1 DEF Shape, TypeOK, StoreTypeOK
  <2>2. CASE \E q \in Runs : state[q] = "ABSENT" /\ state' = [state EXCEPT ![q] = "NEW"]
    BY <1>1, <2>1, <2>2 DEF HasRow
  <2>3. CASE WorkerWrite /\ state' = [state EXCEPT ![job.run] = job.to]
    <3>1. CanTransition(state[job.run], job.to)
      BY <1>1, <2>3 DEF WorkerWrite, RaceInv
    <3>2. ~IsTerminal(state[job.run])
      BY <3>1, EdgeSource
    <3>. QED BY <1>1, <2>1, <2>3, <3>2
  <2>. QED BY <1>1, <2>2, <2>3, RowWrites
<1>2. Shape /\ RaceInv /\ [Next]_vars
        => [\A r \in Runs : HasRow(r) /\ IsTerminal(state[r]) => state'[r] = state[r]]_vars
  BY <1>1
<1>. QED BY <1>2, RaceInit, RaceStep, ShapeInvariant, PTL DEF Spec, TerminalAbsorbing

-----------------------------------------------------------------------------
(* The closing events *)

(* The closing event of a run: the one that says how it ended.             *)
Closes(event, to) ==
  \/ event = "workflow.completed" /\ to = "DONE"
  \/ event = "workflow.failed" /\ to = "FAILED"

ClosingEvents == {"workflow.completed", "workflow.failed"}

(* The row of a run bears a closing event out: it is in the state that the *)
(* event announces, or a cancellation has come after that.                 *)
BornOut(event, r) ==
  Closes(event, state[r]) \/ (r \in Cancellable /\ state[r] = "CANCELED")

(* A closing event that is logged, or that the worker is about to log, is  *)
(* borne out by the row, and the worker is not about to write this row.    *)
EventsInv ==
  /\ \A r \in Runs : \A event \in ClosingEvents :
       event \in logged[r] => BornOut(event, r) /\ ~(OnStage /\ job.run = r)
  /\ pc = "append" /\ job.event \in ClosingEvents => BornOut(job.event, job.run)

(* What bears an event out is left alone, except by a cancellation, unless *)
(* the worker is about to write the row.                                   *)
LEMMA BornOutStays ==
  ASSUME Shape, RaceInv, [Next]_vars, NEW r \in Runs, NEW event,
         BornOut(event, r), ~WorkerWrite \/ job.run # r
  PROVE  BornOut(event, r)'
<1>1. state \in [Runs -> RunStates \union {"ABSENT"}]
  BY DEF Shape, TypeOK, StoreTypeOK
<1>2. state[r] # "ABSENT"
  BY DEF BornOut, Closes
<1>3. \/ state'[r] = state[r]
      \/ r \in Cancellable /\ state'[r] = "CANCELED"
  BY <1>1, <1>2, RowWrites
<1>4. QED
  BY <1>3 DEF BornOut, Closes

(* Only appends change the log; the worker appends job.event, and a        *)
(* handler no closing event.                                               *)
LEMMA LogChanges ==
  ASSUME Shape, [Next]_vars, NEW r \in Runs,
         NEW event \in {"workflow.completed", "workflow.failed"}, event \in logged'[r]
  PROVE  event \in logged[r] \/ (pc = "append" /\ job.event = event /\ job.run = r)
<1>1. logged \in [Runs -> SUBSET EventKinds]
  BY DEF Shape, TypeOK, StoreTypeOK
<1>2. CASE WorkerAppend
  <2>1. logged' = [logged EXCEPT ![job.run] = @ \union {job.event}] /\ pc = "append"
    BY <1>2 DEF WorkerAppend, AppendEvent
  <2>2. QED
    BY <1>1, <2>1
<1>3. CASE WorkerStep /\ ~WorkerAppend
  BY <1>3 DEF WorkerStep, Tick, StepLoad, WorkerCheck, WorkerWrite, SpendIteration,
     LaunchAgent, SkipWaiting, AgentCompletes, StoreReport, RunnerFails, RaiseQuestion,
     WorkerStatementFails, AddFindings, InsertAttention, IncrementCounter, WriteState,
     storeVars
<1>4. CASE HandlerStep
  <2>1. PICK h \in Handlers :
          \/ \E q \in Runs : HandleCreate(h, q) \/ HandleCancel(h, q)
          \/ CancelWrite(h) \/ HandlerAppend(h) \/ HandlerFails(h)
    BY <1>4 DEF HandlerStep
  <2>2. CASE HandlerAppend(h)
    <3>1. \E kind \in {"workflow.created", "workflow.canceled"} :
            logged' = [logged EXCEPT ![request[h].run] = @ \union {kind}]
      BY <2>2 DEF HandlerAppend, AppendEvent
    <3>2. QED
      BY <1>1, <3>1
  <2>3. CASE ~HandlerAppend(h)
    BY <2>1, <2>3 DEF HandleCreate, HandleCancel, CancelWrite, HandlerFails, InsertRun,
       WriteState, storeVars
  <2>4. QED
    BY <2>2, <2>3
<1>5. CASE Restart \/ UNCHANGED vars
  BY <1>5 DEF Restart, vars, storeVars
<1>6. QED
  BY <1>2, <1>3, <1>4, <1>5 DEF Next

(* The worker comes to a closing event by its write only.                  *)
LEMMA ClosingEventBegins ==
  ASSUME Shape, [Next]_vars, ~WorkerWrite, pc' = "append",
         job'.event \in {"workflow.completed", "workflow.failed"}
  PROVE  pc = "append" /\ UNCHANGED job
<1>1. CASE WorkerStep
  BY <1>1 DEF WorkerStep, Tick, StepLoad, WorkerCheck, SpendIteration, LaunchAgent,
     SkipWaiting, AgentCompletes, StoreReport, RunnerFails, RaiseQuestion, WorkerAppend,
     WorkerStatementFails, WorkerGoes, AfterEvent, Shape, TypeOK, Jobs
<1>2. CASE HandlerStep
  BY <1>2, HandlerLeavesWorker
<1>3. CASE Restart \/ UNCHANGED vars
  BY <1>3 DEF Restart, vars, workerVars
<1>4. QED
  BY <1>1, <1>2, <1>3 DEF Next

(* A worker that is on a stage of a run whose row bears a closing event    *)
(* out: it has been there before, as Step does not take up such a run.     *)
LEMMA ClosedIsLeft ==
  ASSUME Shape, [Next]_vars, NEW r \in Runs, NEW event, BornOut(event, r),
         ~(OnStage /\ job.run = r)
  PROVE  ~(OnStage /\ job.run = r)'
<1>1. IsTerminal(state[r])
  BY DEF BornOut, Closes, IsTerminal
<1>2. CASE \E q \in Runs : StepLoad(q)
  <2>1. PICK q \in Runs : StepLoad(q)
    BY <1>2
  <2>2. CASE pc' = "idle"
    BY <2>2 DEF OnStage
  <2>3. CASE pc' # "idle"
    BY <1>1, <2>1, <2>3 DEF StepLoad, Steppable, NoJob
  <2>4. QED
    BY <2>2, <2>3
<1>3. CASE WorkerWrite
  <2>1. OnStage /\ job'.run = job.run
    BY <1>3 DEF WorkerWrite, OnStage, Shape, TypeOK, Jobs
  <2>2. QED
    BY <2>1
<1>4. CASE ~WorkerWrite /\ ~\E q \in Runs : StepLoad(q)
  BY <1>4, OnStageBegins
<1>5. QED
  BY <1>2, <1>3, <1>4

(* The write that a closing event announces, and the event, agree.         *)
LEMMA WriteBearsOut ==
  ASSUME Shape, WorkerWrite, pc' = "append", job'.event \in ClosingEvents
  PROVE  Closes(job'.event, state'[job'.run])
<1>1. /\ job.run \in Runs /\ job \in Jobs
      /\ state' = [state EXCEPT ![job.run] = job.to]
      /\ job' = [job EXCEPT !.event = RouteEvent]
  BY DEF WorkerWrite, WriteState, Shape, JobInv, TypeOK, Jobs, ClosingEvents
<1>2. state'[job.run] = job.to /\ job'.run = job.run /\ job'.event = RouteEvent
  BY <1>1 DEF Shape, TypeOK, StoreTypeOK, Jobs
<1>3. QED
  BY <1>2 DEF RouteEvent, Closes, ClosingEvents

LEMMA EventsStep == Shape /\ RaceInv /\ EventsInv /\ [Next]_vars => EventsInv'
<1> SUFFICES ASSUME Shape, RaceInv, EventsInv, [Next]_vars PROVE EventsInv'
  OBVIOUS
<1>1. ASSUME NEW r \in Runs, NEW event \in ClosingEvents, event \in logged'[r]
      PROVE  BornOut(event, r)' /\ ~(OnStage /\ job.run = r)'
  <2>1. event \in logged[r] \/ (pc = "append" /\ job.event = event /\ job.run = r)
    BY <1>1, LogChanges DEF ClosingEvents
  <2>2. BornOut(event, r) /\ ~(OnStage /\ job.run = r)
    BY <2>1 DEF EventsInv, OnStage, ClosingEvents
  <2>3. ~WorkerWrite \/ job.run # r
    BY <2>2 DEF WorkerWrite, OnStage
  <2>4. QED
    BY <2>2, <2>3, BornOutStays, ClosedIsLeft
<1>2. ASSUME pc' = "append", job'.event \in ClosingEvents
      PROVE  BornOut(job.event, job.run)'
  <2>1. CASE WorkerWrite
    BY <1>2, <2>1, WriteBearsOut DEF BornOut
  <2>2. CASE ~WorkerWrite
    <3>1. pc = "append" /\ UNCHANGED job
      BY <1>2, <2>2, ClosingEventBegins DEF ClosingEvents
    <3>2. PICK r \in Runs, event \in ClosingEvents : r = job.run /\ event = job.event
      BY <1>2, <3>1 DEF Shape, JobInv
    <3>3. BornOut(event, r)
      BY <1>2, <3>1, <3>2 DEF EventsInv
    <3>4. BornOut(event, r)'
      BY <2>2, <3>3, BornOutStays
    <3>5. QED
      BY <3>1, <3>2, <3>4
  <2>3. QED
    BY <2>1, <2>2
<1>3. QED
  BY <1>1, <1>2 DEF EventsInv

(* A run whose log says that the workflow completed, or that it failed, is *)
(* in that state, or a cancel request that read it before has marked it    *)
(* CANCELED since: nothing ever takes it up again.                         *)
THEOREM EventsNeverLieHolds == Spec => []EventsNeverLie
<1>1. Init => EventsInv
  BY DEF Init, StoreInit, EventsInv
<1>2. EventsInv => EventsNeverLie
  BY DEF EventsInv, EventsNeverLie, BornOut, Closes, ClosingEvents
<1>3. QED
  BY <1>1, <1>2, RaceInit, RaceStep, EventsStep, ShapeInvariant, PTL DEF Spec

=============================================================================
