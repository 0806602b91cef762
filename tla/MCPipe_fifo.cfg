\* Two processes over a pipe of two bytes whose counters wrap at four.
SPECIFICATION Spec
CONSTANTS
  Procs = {p1, p2}
  Nobody = Nobody
  Bytes = {b0, b1}
  PIPESIZE = 2
  UINT = 4
  Sizes = {1, 3}
CHECK_DEADLOCK FALSE
INVARIANTS
  IndInv
  SleepersJustified
  NoUseAfterFree
  EofMeansClosed
PROPERTIES
  ImplementsFifo
