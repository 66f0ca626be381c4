SPECIFICATION Spec
CONSTANTS
  g1 = g1  g2 = g2  t1 = t1
  a1 = a1  a2 = a2  c1 = c1  c2 = c2  s1 = s1
  None = None
  Governed <- OneGoverned
  Transparent <- OneRequest
  Answers <- TwoAnswers
  Minted <- TwoBuilds
  Supplied <- Nobody
  Replied <- EveryKind
  MaxCalls = 2
  MaxSupplies = 0
CHECK_DEADLOCK FALSE
INVARIANTS
  BrokerFailsClosed
