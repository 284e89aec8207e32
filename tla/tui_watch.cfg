\* Two runs, two watches.
SPECIFICATION FairSpec
CONSTANTS
  Runs = {r1, r2}
  NoRun = NoRun
  MaxEvents = 1
  MaxWatches = 2
  MaxPending = 2
CHECK_DEADLOCK FALSE
INVARIANTS
  TypeOK
  NoLeakedWatch
  LiveWatchIsRead
PROPERTIES
  DashboardCatchesUp
