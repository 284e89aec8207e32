------------------------------ MODULE RunStore ------------------------------
(***************************************************************************)
(* The tables of internal/storage that a run's life goes through, and the  *)
(* statements that change them. Every operator is one statement or one     *)
(* transaction of the repository, which SQLite makes atomic; a repository  *)
(* method that issues two of them (UpdateRunState reads the row, then      *)
(* updates it) is two operators, and the modules that EXTEND this one let  *)
(* other writers in between.                                               *)
(***************************************************************************)
EXTENDS FeatureDev, Naturals

CONSTANTS
  Runs,         \* identifiers of workflow runs
  NoRun,        \* not a run: the absence of one
  WorkflowIds   \* the workflow ids that clients ask for

FeatureDevelopment == "feature-development"  \* the id main registers

ASSUME RunsAssumption == NoRun \notin Runs

VARIABLES
  state,        \* runs.state, "ABSENT" while the row does not exist
  stage,        \* runs.stage, "" until a stage is entered
  workflow,     \* runs.workflow_id
  counters,     \* runs.iteration_counters
  findings,     \* the classes of the run's unresolved findings
  attention,    \* the run that owns the attention with id "", or NoRun
  logged        \* the kinds of the events in each run's log

storeVars ==
  <<state, stage, workflow, counters, findings, attention, logged>>

StoreTypeOK ==
  /\ state \in [Runs -> RunStates \union {"ABSENT"}]
  /\ stage \in [Runs -> Stages \union {""}]
  /\ workflow \in [Runs -> WorkflowIds \union {""}]
  /\ counters \in [Runs -> [Stages -> Nat]]
  /\ findings \in [Runs -> SUBSET BlockingClasses]
  /\ attention \in Runs \union {NoRun}
  /\ logged \in [Runs -> SUBSET EventKinds]

StoreInit ==
  /\ state = [r \in Runs |-> "ABSENT"]
  /\ stage = [r \in Runs |-> ""]
  /\ workflow = [r \in Runs |-> ""]
  /\ counters = [r \in Runs |-> [s \in Stages |-> 0]]
  /\ findings = [r \in Runs |-> {}]
  /\ attention = NoRun
  /\ logged = [r \in Runs |-> {}]

HasRow(r) == state[r] # "ABSENT"

(* Mutant: INSERT OR REPLACE.                                              *)
MutantInsertRun(r, wf) ==
  /\ state' = [state EXCEPT ![r] = "NEW"]
  /\ workflow' = [workflow EXCEPT ![r] = wf]
  /\ UNCHANGED <<stage, counters, findings, attention, logged>>

(* CreateRun: the row is inserted in NEW, with no stage and no counters.   *)
InsertRun(r, wf) ==
  /\ ~HasRow(r)
  /\ state' = [state EXCEPT ![r] = "NEW"]
  /\ workflow' = [workflow EXCEPT ![r] = wf]
  /\ UNCHANGED <<stage, counters, findings, attention, logged>>

(* The first half of UpdateRunState: the row, read afresh, allows the      *)
(* move.                                                                   *)
MayMove(r, to) == HasRow(r) /\ CanTransition(state[r], to)

(* The second half: an UPDATE by id that does not look at the state it     *)
(* overwrites.                                                             *)
WriteState(r, to, st) ==
  /\ state' = [state EXCEPT ![r] = to]
  /\ stage' = [stage EXCEPT ![r] = st]
  /\ UNCHANGED <<workflow, counters, findings, attention, logged>>

(* Mutant: the counter counts the remaining iterations down.               *)
MutantIncrementCounter(r, st) ==
  /\ counters' = [counters EXCEPT ![r][st] = @ - 1]
  /\ UNCHANGED <<state, stage, workflow, findings, attention, logged>>

(* IncrementIteration: only the worker writes this column, so its read and *)
(* its update are one step.                                                *)
IncrementCounter(r, st) ==
  /\ counters' = [counters EXCEPT ![r][st] = @ + 1]
  /\ UNCHANGED <<state, stage, workflow, findings, attention, logged>>

(* AddFinding for each reported finding whose class blocks. Nothing in the *)
(* daemon resolves a finding.                                              *)
AddFindings(r, classes) ==
  /\ findings' = [findings EXCEPT ![r] = @ \union (classes \intersect BlockingClasses)]
  /\ UNCHANGED <<state, stage, workflow, counters, attention, logged>>

(* CreateAttention as the engine calls it, without an ID: "" is the        *)
(* primary key of the table, which takes one such row and no second.       *)
InsertAttention(r) ==
  /\ attention = NoRun
  /\ attention' = r
  /\ UNCHANGED <<state, stage, workflow, counters, findings, logged>>

(* AppendEvent: the next sequence number and the insert are one            *)
(* transaction.                                                            *)
AppendEvent(r, kind) ==
  /\ logged' = [logged EXCEPT ![r] = @ \union {kind}]
  /\ UNCHANGED <<state, stage, workflow, counters, findings, attention>>

=============================================================================
