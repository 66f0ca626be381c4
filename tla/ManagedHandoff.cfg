SPECIFICATION FairSpec
CONSTANTS
  c1 = c1  c2 = c2
  Nobody = Nobody
  Callers <- TwoCallers
  Offers <- Identified
  MaxCalls = 1
  MaxFlips = 1
  MaxIds = 2
CHECK_DEADLOCK FALSE
INVARIANTS
  TypeOK
PROPERTIES
  RunsInOnePlace
  LocalIsForGood
  InvocationsEnd
