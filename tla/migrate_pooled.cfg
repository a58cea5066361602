\* Two releases through a transaction pooler.
SPECIFICATION Spec
CONSTANTS
  Runs = {r1, r2}
  Files <- TwoReleases
  r1 = r1
  r2 = r2
  r3 = r3
  Pooled = TRUE
  Sessions = {s1, s2}
  NoSession = NoSession
  Faults = {"statement", "lost", "kill"}
INVARIANTS
  AppliedOnce
  ClaimsTruthful
PROPERTIES
  ImplementsSchema
CHECK_DEADLOCK FALSE
