\* Two sessions of a run, three events or three polls of each.
SPECIFICATION FairSpec
CONSTANTS
  MaxSessions = 2
  MaxEvents = 2
  MaxMessage = 2
  Reports <- MCReports
  Texts = {"advance", "failed"}
CHECK_DEADLOCK FALSE
INVARIANTS
  TypeOK
  LogInOrder
  ReportBeforeVerdict
  OwnAnswer
PROPERTIES
  RunReturns
  AttemptsSpec
