SPECIFICATION Spec
CONSTANTS
  q1 = q1
  q2 = q2
  q3 = q3
  x1 = x1
  x2 = x2
  Requests = {q1, q2, q3}
  Limit <- OneTier
  MaxLimit = 2
  ThrottleAt <- OneThreshold
  Skew <- OneClock
  Window = 2
  Ttl = 4
  MaxAttempts <- SentOnce
  Suffixes = {x1, x2}
  Eviction = FALSE
  MaxTime = 4
INVARIANTS LimitKept
SYMMETRY Alike
CHECK_DEADLOCK FALSE
