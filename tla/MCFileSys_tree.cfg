\* A process that makes files and directories and one that removes and uses them.
SPECIFICATION Spec
CONSTANTS
  p1 = p1
  p2 = p2
  Procs = {p1, p2}
  Nobody = Nobody
  NINODES = 3
  Names = {"a", "b"}
  NFILE = 1
  NOFILE = 2
  Requests <- MCRequests
CHECK_DEADLOCK FALSE
INVARIANTS
  RefCounts
  LinksCounted
  NotFreedInUse
  Reclaimed
  NoPanic
  LockOrder
