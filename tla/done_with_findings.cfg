SPECIFICATION Spec
CONSTANTS
  Runs = {r1}
  NoRun = NoRun
  WorkflowIds <- OneWorkflow
  Handlers = {h1}
  Cancellable = {}
  FindingClasses = {"IMPLEMENTATION_BUG"}
  FlakyStages = {}
  IterationLimit = 1
  MaxFaults = 0
INVARIANTS
  DoneWithoutBlockingFindings
