SPECIFICATION FairSpec
CONSTANTS
  r1 = r1
  r2 = r2
  Requests = {r1, r2}
  Headers <- HeadersOfAllKinds
  Answers <- BackendAnswers
  Grace = 2
INVARIANTS TypeOK ActiveIsExact TotalsBalance BreakerHearsStatus GenuinePass FailuresTellReasons RedisOutlivesRequests CleanExitDropsNone
PROPERTIES ShutdownEnds LayersLetGo ImplementsService
CHECK_DEADLOCK FALSE
