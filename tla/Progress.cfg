SPECIFICATION SpecOfAll
CONSTANTS
  Nothing = Nothing
  Outcomes = {"complete"}  Frames = {f1, f2}  Workers = {w1, w2}  QueueMax = 2
  r1 = r1  r2 = r2  k1 = k1  p1 = p1  p2 = p2  p3 = p3
  g1 = g1  t1 = t1  a1 = a1  a2 = a2  c1 = c1
CHECK_DEADLOCK FALSE
INVARIANTS
  TerminalFollowsStart
  MarkHasOwner
PROPERTIES
  
  MarksResolve
  CallsReturn
