SPECIFICATION Spec
CONSTANTS
  r1 = r1
  r2 = r2
  Requests = {r1}
  Headers <- HeadersOfAllKinds
  Answers <- BackendAnswers
  Grace = 2
INVARIANTS LabelsShowTier
CHECK_DEADLOCK FALSE
