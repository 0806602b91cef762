\* The log's limits: five slots, five blocks, calls of one block each that
\* compete for the room of two.
SPECIFICATION FairSpec
CONSTANTS
  Procs = {p1, p2}
  Blocks = {b1, b2, b3, b4, b5}
  Values = {v0}
  NoBlock = NoBlock
  NotCached = NotCached
  MAXOPBLOCKS = 3
  LOGSIZE = 6
  NLOG = 6
  OpBlocks = 1
INVARIANTS
  NoPanic
  LogFits
PROPERTIES
  SleepersWoken
