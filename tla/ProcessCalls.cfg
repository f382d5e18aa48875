SPECIFICATION Spec
CONSTANTS
  rw = rw
  rwx = rwx
  Length = 5
  Values <- Numbers
  Prints <- PrintCalls
  Word = 64
  MaxInt = 15
  PAGESIZE = 4
  TableSize = 2
  ALIGN = 2
  Upper = {14, 15}
  Stack = {6, 7}
  MMAP_MEM_START = 32
  Modules <- Programs
  InitName <- InitString
  pos <- ShellKnows
  BUFFER_SIZE = 3
  Newline = 10
  NUL = 0
  Protection = {rw, rwx}
  All = rwx
  ReadWrite = rw
  Unmapped = Unmapped
  Key = {97, 98}
  Sizes = {1, 5, 20, 61, 63}
  Lengths = {2, 8}
  Places = {18, 36}
  MaxLine = 5
  MaxCalls = 3
  MaxDepth = 2
CHECK_DEADLOCK FALSE
INVARIANTS FileCallsArrive
