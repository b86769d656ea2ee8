SPECIFICATION Spec
CONSTANTS
  q1 = q1
  q2 = q2
  a1 = a1
  a2 = a2
  Requests = {q1, q2}
  Admins = {a1, a2}
  Ttls = {1}
  MaxCleanUps = 2
PROPERTIES BanIsInstant
SYMMETRY Symmetry
