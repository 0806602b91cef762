\* Two processes that share two buffers of a disk of three blocks.
SPECIFICATION Spec
CONSTANTS
  Procs = {p1, p2}
  Nobody = Nobody
  NBUF = 2
  NBLOCK = 3
  Vals = {v0, v1}
  MaxDirty = 1
  Nesting = {p1}
  Bad = {3}
INVARIANTS
  IndInv
  PanicJustified
PROPERTIES
  ImplementsBlockStore
  Served
