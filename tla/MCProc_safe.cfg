\* Three slots, two CPUs, four pids, one sleep channel.
SPECIFICATION Spec
CONSTANTS
  NPROC = 3
  Cpus = {c1, c2}
  NoCpu = NoCpu
  Chans = {k1}
  MaxPid = 4
SYMMETRY Sym
CHECK_DEADLOCK FALSE
INVARIANTS
  IndInv
  StackSafe
  HasParent
  WaiterJustified
  PidUnique
