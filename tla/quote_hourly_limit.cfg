\* Two forms of one address and no fault at all.
SPECIFICATION Spec
CONSTANTS
  Requests = {r1, r2}
  Submissions <- CleanForms
  Refs = {n1, n2}
  NoRef = NoRef
  Attempts = 3
  Limit = 1
  Window = 1
  Horizon = 0
  Faults = {}
  Addrs = {"ip1"}
  OwnOrigins = {"https://own"}
  AllowedOrigins = {"https://partner"}
  ForeignOrigins = {"https://foreign"}
  TrustProxy = FALSE
INVARIANTS
  HourlyLimitHolds
CHECK_DEADLOCK FALSE
