\* A writer is killed in a full pipe.
SPECIFICATION Spec
CONSTANTS
  Procs = {p1, p2}
  Nobody = Nobody
  Bytes = {b0}
  PIPESIZE = 2
  UINT = 4
  Sizes = {1, 3}
CHECK_DEADLOCK FALSE
INVARIANTS
  ReaderWaitsForData
