\* Two runs; a tick is about five seconds.
SPECIFICATION FairSpec
CONSTANTS
  Requests = {r1, r2}
  Attempts = 2
  HeaderTimeout = 1
  ReadTimeout = 1
  WriteTimeout = 5
  CountTimeout = 1
  InsertTimeout = 1
  SendTimeout = 1
  EventTimeout = 1
  Grace = 3
  CloseTimeout = 3
  Cap = 8
INVARIANTS
  RunsHaveTheirGrace
  CleanExitIsClean
  StopsInTime
  LostOnlyAfterSlowBody
PROPERTIES
  EndsAfterSignal
CHECK_DEADLOCK FALSE
