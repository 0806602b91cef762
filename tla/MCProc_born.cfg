\* kill() of a pid that no process has.
SPECIFICATION Spec
CONSTANTS
  NPROC = 2
  Cpus = {c1}
  NoCpu = NoCpu
  Chans = {k1}
  MaxPid = 3
CHECK_DEADLOCK FALSE
INVARIANTS
  NotBornKilled
