SPECIFICATION Spec
CONSTANTS
  NumBlocks = 3
  DataSize = 2
  PtrTail = 1
  MaxFiles = 2
  MaxFd = 2
  MaxLen = 3
  f1 = f1
  f2 = f2
  x = x
  y = y
  Name = {NoName, f1, f2}
  NoName = NoName
  Byte = {x, y}
  Junk = Junk
  NoFile = NoFile
  DeleteReads = {"kept"}
CONSTRAINT WhileSound
SYMMETRY Alike
PROPERTIES ImplementsFileStore
