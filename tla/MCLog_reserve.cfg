\* Calls that use all the blocks begin_op() reserves for them, in a log laid
\* out as mkfs does it (NLOG = LOGSIZE, the header block included).
SPECIFICATION Spec
CONSTANTS
  Procs = {p1, p2, p3}
  Blocks = {b1, b2, b3}
  Values = {v0}
  NoBlock = NoBlock
  NotCached = NotCached
  MAXOPBLOCKS = 1
  LOGSIZE = 3
  NLOG = 3
  OpBlocks = 1
INVARIANTS
  NoPanic
