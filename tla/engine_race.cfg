\* One run, revisited stages, one fault, a client that cancels at any time.
SPECIFICATION Spec
CONSTANTS
  Runs = {r1}
  NoRun = NoRun
  WorkflowIds <- OneWorkflow
  Handlers = {h1}
  Cancellable = {r1}
  FindingClasses = {}
  FlakyStages = {"plan_review"}
  IterationLimit = 2
  MaxFaults = 1
INVARIANTS
  TypeOK
  LaunchBudget
  ReviewsAreHeeded
  NeverStranded
  AtMostOneLateLaunch
  EventsNeverLie
PROPERTIES
  LifecycleSpec
