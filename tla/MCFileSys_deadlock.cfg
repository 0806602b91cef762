\* The calls of linkunlink() in usertests.c by two processes.
SPECIFICATION Spec
CONSTANTS
  p1 = p1
  p2 = p2
  Procs = {p1, p2}
  Nobody = Nobody
  NINODES = 3
  Names = {"a", "b"}
  NFILE = 1
  NOFILE = 2
  Requests <- MCLinkunlink
CHECK_DEADLOCK FALSE
INVARIANTS
  NoDeadlock
