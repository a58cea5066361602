\* Three runs of two releases on direct connections, every fault.
SPECIFICATION FairSpec
CONSTANTS
  Runs = {r1, r2, r3}
  Files <- ThreeRuns
  r1 = r1
  r2 = r2
  r3 = r3
  Pooled = FALSE
  Sessions = {s1, s2}
  NoSession = NoSession
  Faults = {"statement", "lost", "kill"}
INVARIANTS
  AppliedInOrder
  CheckNotStale
PROPERTIES
  ImplementsSchema
  EveryRunEnds
CHECK_DEADLOCK FALSE
