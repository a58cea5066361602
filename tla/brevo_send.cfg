\* Eight seconds, two attempts, every answer.
SPECIFICATION Spec
CONSTANTS
  MaxAttempts = 2
  Sec = 2
  Backoff = 1
  Timeout = 16
  Headers <- PlainHeaders
  Bound = 64
  Horizon = 18
INVARIANTS
  RefusalIsFinal
  RetryHasRoom
  RetryNotEarly
  EndsByDeadline
PROPERTIES
  ImplementsContract
CHECK_DEADLOCK FALSE
