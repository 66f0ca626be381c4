SPECIFICATION Spec
CONSTANTS
  r1 = r1  r2 = r2  k1 = k1  o1 = o1
  f1 = f1  f2 = f2  f3 = f3
  None = None
  Reporters <- TwoReporters
  Keys <- OneKey
  Objects <- OneObject
  Flights <- ThreeFlights
  InflightMax = 1
  SeenMax = 2
  Modes <- Runs
  Scoped <- Nobody
  Interruptible <- Nobody
  MaxForget = 0
  MaxFlips = 0
INVARIANTS
  RunsOnlyAcknowledged
SYMMETRY Symmetry
