SPECIFICATION Spec
CONSTANTS
  FSSIZE = 18
  LOGSIZE = 2
  NINODES = 3
  BSIZE = 2
  IPB = 2
  BPB = 16
  NDIRECT = 1
  MAXOPBLOCKS = 6
  UINT = 16
  Shipped <- MCShipped
  WriteSizes = {1, 3, 5}
  Bytes = {1, 2}
  Offsets = {0, 1, 3, 5, 6, 7, 15}
  MaxCalls = 4
  Users = {1, 2}
  NPAGES = 20
  PGSIZE = 2
  NPTENTRIES = 2
  KERNBASE = 12
  KTOP = 16
  Programs <- MCPrograms
  Sbrk <- MCSbrk
  Args = {1, 3}
  Values = {5}
  Addresses = {0, 3}
  MaxSyscalls = 4
  MaxKernel = 15
  Readers = {1, 2}
  NL = NL
  EOT = EOT
  Ordinary = {a}
  ReadSizes = {2}
  INPUT_BUF = 3
  CONSWORD = 6
  Typed = 4
  ROWS = 3
  COLS = 2
  MaxKeys = 5
  HDR = 2
  NALLOC = 4
  HeapStart = 2
  HeapEnd = 12
  Requests = {0, 1, 6, 9}
  MAXARGS = 3
  NSLOT = 8
  OPENMAX = 6
  Alphabet <- MCAlphabet
  MaxLine = 5
  Runs <- MCRuns
  MaxLines = 1
  MaxMenu = 2
INVARIANTS
  BlocksOwnedOnce
  ReadsRight
  TransactionFits
  PagesConserved
  AddressSpaces
  ConsoleSound
  HeapSound
  ParsesRight
  DescriptorsRight
  SessionSound
PROPERTY
  ImplementsTty
CHECK_DEADLOCK FALSE
