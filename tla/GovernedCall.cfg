SPECIFICATION Spec
CONSTANTS
  t1 = t1  t2 = t2
  Tasks <- TwoTasks
  Managed <- OneTask
  Nesting <- OtherTask
  MaxRuns = 1
  MaxChanges = 1
  MaxPolls = 1
  MaxReceipts = 1
CHECK_DEADLOCK FALSE
INVARIANTS
  Consistent
PROPERTIES
  CapturedFirst
  AuthorityIsItsOwn
