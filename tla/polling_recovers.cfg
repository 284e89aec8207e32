\* One run of two events, one watch.
SPECIFICATION FairSpec
CONSTANTS
  Runs = {r1}
  NoRun = NoRun
  MaxEvents = 2
  MaxWatches = 1
  MaxPending = 2
CHECK_DEADLOCK FALSE
PROPERTIES
  PollingRecovers
