----------------------------- MODULE FeatureDev -----------------------------
(***************************************************************************)
(* The feature-development workflow of internal/engine/featuredev: which   *)
(* state each stage stands for, how a stage's runner reduces the agent's   *)
(* outcome to a stage result, and where the stage's transition routes it.  *)
(***************************************************************************)
EXTENDS Domain

Stages ==
  {"discovery", "planning", "plan_review", "waiting_for_user",
   "implementing", "implementation_review"}

(* The stages whose runner starts an agent; the runner of waiting_for_user *)
(* is a stub that answers "advance" at once.                               *)
AgentStages == Stages \ {"waiting_for_user"}

InitialStage == "discovery"

StageState(stage) ==
  CASE stage = "discovery"             -> "DISCOVERY"
    [] stage = "planning"              -> "PLANNING"
    [] stage = "plan_review"           -> "PLAN_REVIEW"
    [] stage = "waiting_for_user"      -> "WAITING_FOR_USER"
    [] stage = "implementing"          -> "IMPLEMENTING"
    [] stage = "implementation_review" -> "IMPLEMENTATION_REVIEW"

(* Mutant: the run moves on without its stage.                             *)
MutantStageOf(next, stage) == stage

(* resolveNextStage: the stage whose state is the next state; no two       *)
(* stages of this workflow have the same one. A terminal state has none    *)
(* and the run keeps the stage it was in.                                  *)
StageOf(next, stage) ==
  CASE next = "DISCOVERY"             -> "discovery"
    [] next = "PLANNING"              -> "planning"
    [] next = "PLAN_REVIEW"           -> "plan_review"
    [] next = "WAITING_FOR_USER"      -> "waiting_for_user"
    [] next = "IMPLEMENTING"          -> "implementing"
    [] next = "IMPLEMENTATION_REVIEW" -> "implementation_review"
    [] OTHER                          -> stage

(* The outcomes that reduceOutcome lets through to the stage runners.      *)
OutcomeKinds ==
  {"advance", "approve", "revise", "revise_plan", "wait_user", "done",
   "failed", "blocked_by_plan"}

ResultKinds == {"advance", "revise", "revise_plan", "wait_user", "failed"}

(* The stage result that a runner makes of an agent's outcome. An outcome  *)
(* that a stage does not know, "done" among them, is a failure.            *)
ResultKind(stage, outcome) ==
  LET review == stage \in {"plan_review", "implementation_review"} IN
  CASE outcome = "advance"                                   -> "advance"
    [] outcome = "approve" /\ review                         -> "advance"
    [] outcome \in {"revise", "wait_user"} /\ review         -> outcome
    [] outcome = "revise_plan" /\ stage = "implementation_review"
                                                             -> outcome
    [] outcome = "blocked_by_plan" /\ stage = "implementing" -> "revise"
    [] OTHER                                                 -> "failed"

(* Whether the runner attaches a question to its result: the gatekeeper    *)
(* when the agent asks questions, the reviewer when it reports ambiguous   *)
(* requirements.                                                           *)
Asks(stage, outcome, questions, classes) ==
  /\ ResultKind(stage, outcome) = "wait_user"
  /\ \/ stage = "plan_review" /\ questions
     \/ stage = "implementation_review" /\ "REQUIREMENT_AMBIGUITY" \in classes

(* Mutant: a transition that ignores the verdict, as those of the stages   *)
(* without a review do.                                                    *)
MutantPlanReviewRoute(kind) == "WAITING_FOR_USER"

(* gatekeeperTransition and reviewerTransition.                            *)
PlanReviewRoute(kind) ==
  CASE kind = "advance"     -> "WAITING_FOR_USER"
    [] kind = "wait_user"   -> "WAITING_FOR_USER"
    [] kind = "failed"      -> "FAILED"
    [] OTHER                -> "PLANNING"

ReviewRoute(kind) ==
  CASE kind = "advance"     -> "DONE"
    [] kind = "revise_plan" -> "PLAN_REVIEW"
    [] kind = "wait_user"   -> "WAITING_FOR_USER"
    [] kind = "failed"      -> "FAILED"
    [] OTHER                -> "IMPLEMENTING"

(* The state that a stage's Transition returns for a stage result. Four of *)
(* the six transitions ignore the result: a failed scout, planner or       *)
(* implementer moves its run forward all the same.                         *)
NextState(stage, kind) ==
  CASE stage = "discovery"             -> "PLANNING"
    [] stage = "planning"              -> "PLAN_REVIEW"
    [] stage = "plan_review"           -> PlanReviewRoute(kind)
    [] stage = "waiting_for_user"      -> "IMPLEMENTING"
    [] stage = "implementing"          -> "IMPLEMENTATION_REVIEW"
    [] stage = "implementation_review" -> ReviewRoute(kind)

=============================================================================
