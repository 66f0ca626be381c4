SPECIFICATION Spec
CONSTANTS
  r1 = r1  r2 = r2  k1 = k1  o1 = o1
  f1 = f1  f2 = f2  f3 = f3
  None = None
  Reporters <- TwoReporters
  Keys <- OneKey
  Objects <- NoObject
  Flights <- ThreeFlights
  InflightMax = 1
  SeenMax = 1
  Modes <- BothModes
  Scoped <- ScopedReporter
  Interruptible <- MainThread
  MaxForget = 1
  MaxFlips = 1
INVARIANTS
  TypeOK
  SlotsAccounted
  ReportsAreTrue
  PendingHasOwner
