SPECIFICATION FairSpec
CONSTANTS
  r1 = r1
  r2 = r2
  r3 = r3
  Requests = {r1}
  FailureThreshold = 1
  Recovery = 1
  Outcomes = {"ok", "fail", "abort"}
PROPERTIES ProbeDecides
