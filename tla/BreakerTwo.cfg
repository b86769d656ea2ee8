SPECIFICATION FairSpec
CONSTANTS
  r1 = r1
  r2 = r2
  r3 = r3
  Requests = {r1, r2}
  FailureThreshold = 2
  Recovery = 2
  Outcomes = {"ok", "fail", "abort"}
INVARIANTS TypeOK TransitionsAccountForState ProbeOwned ClosedBelowThreshold
PROPERTIES OpenIsLeft HalfOpenIsLeft EventuallyRecovers WedgeIsForever
