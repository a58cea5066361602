\* Three forms of one address, with the clock moving past the window.
SPECIFICATION RateSpec
CONSTANTS
  Requests = {r1, r2, r3}
  Submissions <- CleanForms
  Refs = {n1, n2, n3}
  NoRef = NoRef
  Attempts = 3
  Limit = 2
  Window = 1
  Horizon = 2
  Faults = {"count", "timeout"}
  Addrs = {"ip1"}
  OwnOrigins = {"https://own"}
  AllowedOrigins = {"https://partner"}
  ForeignOrigins = {"https://foreign"}
  TrustProxy = FALSE
SYMMETRY Symmetry
INVARIANTS
  RateBound
CHECK_DEADLOCK FALSE
