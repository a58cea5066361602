\* One run whose insert times out.
SPECIFICATION Spec
CONSTANTS
  Requests = {r1}
  Submissions <- CleanForms
  Refs = {n1, n2}
  NoRef = NoRef
  Attempts = 3
  Limit = 1
  Window = 1
  Horizon = 0
  Faults = {"timeout"}
  Addrs = {"ip1"}
  OwnOrigins = {"https://own"}
  AllowedOrigins = {"https://partner"}
  ForeignOrigins = {"https://foreign"}
  TrustProxy = FALSE
INVARIANTS
  UnavailableNotStored
CHECK_DEADLOCK FALSE
