INIT Init
NEXT Next
CONSTANTS
  Tools = {t1, t2}
  Values = {d1, d2}
CHECK_DEADLOCK FALSE
INVARIANTS
  PositionIsNoWayOut
