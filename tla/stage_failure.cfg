SPECIFICATION Spec
CONSTANTS
  Runs = {r1}
  NoRun = NoRun
  WorkflowIds <- OneWorkflow
  Handlers = {h1}
  Cancellable = {}
  FindingClasses = {}
  FlakyStages = {}
  IterationLimit = 1
  MaxFaults = 0
PROPERTIES
  RefusalsAreHeeded
