\* One run on every submission the guards tell apart, and on every form the
\* rules tell apart; the provider may fail.
SPECIFICATION TableSpec
CONSTANTS
  Requests = {r1}
  Submissions <- Submission
  Inputs <- TheInputs
  RefRunes = 17
  Refs = {n1}
  NoRef = NoRef
  Attempts = 3
  Limit = 1
  Window = 1
  Horizon = 0
  Faults = {"insert", "email", "event"}
  Addrs = {"ip1", "ip2"}
  OwnOrigins = {"https://own"}
  AllowedOrigins = {"https://partner"}
  ForeignOrigins = {"https://foreign"}
  TrustProxy = FALSE
INVARIANTS
  OnlyCleanFormsStored
  DirectRowsCountAgainstPeer
  UnavailableOnlyForBadData
  StoredLeadsComplete
  PhonesCanonical
  OutcomesLogged
  MailsNameTheLead
CHECK_DEADLOCK FALSE
