\* Two runs, every fault.
SPECIFICATION Spec
CONSTANTS
  Requests = {r1, r2}
  Submissions <- CleanAndTrapped
  Refs = {n1, n2}
  NoRef = NoRef
  Attempts = 3
  Limit = 1
  Window = 1
  Horizon = 1
  Faults = {"count", "insert", "timeout", "email", "lost_ack", "event", "render", "kill"}
  Addrs = {"ip1"}
  OwnOrigins = {"https://own"}
  AllowedOrigins = {"https://partner"}
  ForeignOrigins = {"https://foreign"}
  TrustProxy = FALSE
INVARIANTS
  OneLeadPerSubmission
  AnsweredReferenceStored
  AnnouncedOnlyIfSaved
  EventsTruthful
  RefusedNeverAnnounced
PROPERTIES
  ImplementsLedger
CHECK_DEADLOCK FALSE
