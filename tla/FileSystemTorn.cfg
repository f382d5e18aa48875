SPECIFICATION Spec
CONSTANTS
  NumBlocks = 4
  DataSize = 2
  PtrTail = 1
  MaxFiles = 2
  MaxFd = 3
  MaxLen = 5
  f1 = f1
  f2 = f2
  x = x
  y = y
  Name = {NoName, f1, f2}
  NoName = NoName
  Byte = {x}
  Junk = Junk
  NoFile = NoFile
  DeleteReads = {"kept"}
CONSTRAINT OnlyTorn
INVARIANTS ChainsEnd
