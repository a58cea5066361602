\* A visitor who may send the form again and one who sends it once; two
\* references; counts and mails fail.
SPECIFICATION SessionSpec
CONSTANTS
  Visitors = {"v1", "v2"}
  Sends <- TwoAndOne
  Requests = {"r1", "r2", "r3"}
  Submissions <- CleanForms
  Refs = {n1, n2}
  NoRef = NoRef
  Attempts = 3
  Limit = 2
  Window = 1
  Horizon = 0
  Faults = {"count", "email"}
  Addrs = {"ip1"}
  OwnOrigins = {"https://own"}
  AllowedOrigins = {"https://partner"}
  ForeignOrigins = {"https://foreign"}
  TrustProxy = FALSE
INVARIANTS
  DuplicatesOnlyAfterBadNews
PROPERTIES
  AllOrNothing
  PageSettles
CHECK_DEADLOCK FALSE
