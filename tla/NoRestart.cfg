INIT Init
NEXT Next
CONSTANTS
  Threads = {t1, t2}
  MaxRuns = 2
  Compiler = compiler
  Nobody = Nobody
CHECK_DEADLOCK FALSE
INVARIANTS
  NoRestartNeeded
