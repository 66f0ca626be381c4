SPECIFICATION FairSpec
CONSTANTS
  w1 = w1  w2 = w2  q1 = q1  q2 = q2  q3 = q3  u1 = u1  u2 = u2
  None = None
  Workers <- TwoWorkers
  Requests <- TwoRequests
  Runs <- OneRun
  MaxTaken = 1
CHECK_DEADLOCK FALSE
INVARIANTS
  TypeOK
  StartIsSpent
  OneRunPerWorker
  AnswersAreTrue
PROPERTIES
  ImplementsSingleStart
  UsedUpLeaves
