\* Two calls of up to two blocks each, over two blocks with two values.
SPECIFICATION Spec
CONSTANTS
  Procs = {p1, p2}
  Blocks = {b1, b2}
  Values = {v0, v1}
  NoBlock = NoBlock
  NotCached = NotCached
  MAXOPBLOCKS = 4
  LOGSIZE = 8
  NLOG = 8
  OpBlocks = 2
INVARIANTS
  IndInv
  CommitExclusive
  Quiescent
PROPERTIES
  ImplementsAtomicDisk
