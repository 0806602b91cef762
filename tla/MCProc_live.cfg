\* Three slots, one CPU, three pids: who runs and who is reaped.
SPECIFICATION FairSpec
CONSTANTS
  NPROC = 3
  Cpus = {c1}
  NoCpu = NoCpu
  Chans = {}
  MaxPid = 3
CHECK_DEADLOCK FALSE
PROPERTIES
  RunnableRuns
  OrphansReaped
