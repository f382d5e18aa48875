\* A ring of two, lines of up to two characters, six scan codes.
SPECIFICATION FairSpec
CONSTANTS
  k = k
  BufSize = 2
  Letter <- Keys
  Decrements = {"whole", "split"}
  MaxLength = 2
  MaxWire = 2
  MaxTyped = 6
INVARIANTS
  TypeOK
  LineEdited
PROPERTIES
  ImplementsKeyQueue
  ReadAnswered
\* The user may stop typing: kgetc then waits for ever.
CHECK_DEADLOCK FALSE
