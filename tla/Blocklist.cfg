SPECIFICATION FairSpec
CONSTANTS
  q1 = q1
  q2 = q2
  a1 = a1
  a2 = a2
  Requests = {q1, q2}
  Admins = {a1, a2}
  Ttls = {0, 1}
  MaxCleanUps = 2
INVARIANTS TypeOK ListTellsPromises
PROPERTIES BanHolds UnblockHolds ExpiredBanIsForgotten
