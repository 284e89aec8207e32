\* One run whose runner may fail in every stage, under a fair worker.
SPECIFICATION FairSpec
CONSTANTS
  Runs = {r1}
  NoRun = NoRun
  WorkflowIds <- TwoWorkflows
  Handlers = {h1}
  Cancellable = {r1}
  FindingClasses = {"REQUIREMENT_AMBIGUITY"}
  FlakyStages <- AgentStages
  IterationLimit = 1
  MaxFaults = 1
PROPERTIES
  EveryRunSettles
