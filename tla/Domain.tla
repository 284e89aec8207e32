------------------------------- MODULE Domain -------------------------------
(***************************************************************************)
(* The pure vocabulary of internal/domain: the states of a workflow run,   *)
(* the moves between them, the classes of findings and the kinds of the    *)
(* events that a run's log records.                                        *)
(***************************************************************************)

RunStates ==
  {"NEW", "DISCOVERY", "PLANNING", "PLAN_REVIEW", "WAITING_FOR_USER",
   "IMPLEMENTING", "IMPLEMENTATION_REVIEW", "DONE", "FAILED", "CANCELED"}

IsTerminal(s) == s \in {"DONE", "FAILED", "CANCELED"}

(* The moves of the MVP state model, apart from FAILED and CANCELED, which *)
(* every state that is not terminal may reach.                             *)
Successors(s) ==
  CASE s = "NEW"                   -> {"DISCOVERY"}
    [] s = "DISCOVERY"             -> {"PLANNING"}
    [] s = "PLANNING"              -> {"PLAN_REVIEW"}
    [] s = "PLAN_REVIEW"           -> {"PLANNING", "WAITING_FOR_USER",
                                       "IMPLEMENTING"}
    [] s = "WAITING_FOR_USER"      -> {"IMPLEMENTING", "PLANNING",
                                       "PLAN_REVIEW"}
    [] s = "IMPLEMENTING"          -> {"IMPLEMENTATION_REVIEW"}
    [] s = "IMPLEMENTATION_REVIEW" -> {"IMPLEMENTING", "PLANNING",
                                       "PLAN_REVIEW", "WAITING_FOR_USER",
                                       "DONE"}
    [] OTHER                       -> {}

CanTransition(from, to) ==
  /\ ~IsTerminal(from)
  /\ from \in RunStates
  /\ to \in Successors(from) \union {"FAILED", "CANCELED"}

(* FindingClass.IsBlocking: the classes that keep a run open.              *)
BlockingClasses ==
  {"IMPLEMENTATION_BUG", "PLAN_DEFECT", "REQUIREMENT_AMBIGUITY",
   "OUT_OF_SCOPE"}

(* The event kinds that the engine, the agent runner and the handlers of   *)
(* create and cancel append; the agent's own progress events are left out. *)
EventKinds ==
  {"workflow.created", "workflow.completed", "workflow.failed",
   "workflow.canceled", "stage.started", "stage.completed", "stage.failed",
   "agent.started", "agent.completed", "attention.required"}

=============================================================================
