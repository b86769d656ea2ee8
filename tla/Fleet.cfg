SPECIFICATION FairSpec
CONSTANTS
  p1 = p1
  p2 = p2
  p3 = p3
  v1 = v1
  v2 = v2
  noAdmin = noAdmin
  badURL = badURL
  noHost = noHost
  Pods = {p1, p2, p3}
  Replicas = 1
  FailureThreshold = 2
  Revisions = {v1, v2, noAdmin, badURL, noHost}
  First = v1
  Env <- Environment
  MaxRollouts = 2
INVARIANTS TypeOK RolloutKeepsCapacity NoneMisconfigured
PROPERTIES OutageEndsNoProcess OutageEmptiesRotation RotationRefills
