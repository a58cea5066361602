\* Retry-After as a date.
SPECIFICATION Spec
CONSTANTS
  MaxAttempts = 2
  Sec = 2
  Backoff = 1
  Timeout = 16
  Headers <- DateHeaders
  Bound = 64
  Horizon = 18
INVARIANTS
  RetryNotEarly
CHECK_DEADLOCK FALSE
