SPECIFICATION Spec
CONSTANTS
  q1 = q1
  q2 = q2
  q3 = q3
  x1 = x1
  x2 = x2
  Requests = {q1, q2, q3}
  Limit <- TwoTiers
  MaxLimit = 2
  ThrottleAt <- TwoThresholds
  Skew <- TwoClocks
  Window = 3
  Ttl = 5
  MaxAttempts <- OneSentTwice
  Suffixes = {x1, x2}
  Eviction = TRUE
  MaxTime = 6
INVARIANTS TypeOK WindowBounded StampsBounded
PROPERTIES NoFalseReject DecisionsAreExact KeyOutlivesWindow
SYMMETRY Alike
CHECK_DEADLOCK FALSE
