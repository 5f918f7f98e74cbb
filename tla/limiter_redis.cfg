SPECIFICATION Spec
CONSTANTS
  Requests = {q1, q2, q3, q4}
  Threads = 2
  Backend = "redis"
  Faulty = {q1, q2, q3, q4}
  Limit = 2
  Second = 2
  Window = 3
  Grace = 1
  MaxDelay = 1
  MaxClock = 5
INVARIANTS
  TypeOK
  RedisWindow
  MemoryWindow
  RetryAfterBounded
  IndexErrorOnlyAtZero
PROPERTIES
  EventsCountInFull
SYMMETRY RequestSym
CHECK_DEADLOCK FALSE
