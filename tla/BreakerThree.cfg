SPECIFICATION Spec
CONSTANTS
  r1 = r1
  r2 = r2
  r3 = r3
  Requests = {r1, r2, r3}
  FailureThreshold = 2
  Recovery = 1
  Outcomes = {"ok", "fail"}
INVARIANTS Consistent GaugeShowsState
PROPERTIES OpenHonoursRecoveryWindow ImplementsModes
SYMMETRY Symmetry
