SPECIFICATION Spec
CONSTANTS
  Runs = {r1}
  NoRun = NoRun
  WorkflowIds <- OneWorkflow
  Handlers = {h1}
  Cancellable = {r1}
  FindingClasses = {"IMPLEMENTATION_BUG"}
  FlakyStages = {}
  IterationLimit = 1
  MaxFaults = 0
PROPERTIES
  TerminalAbsorbing
