\* A screen of two lines of three cells, and bytes of three values.
SPECIFICATION Spec
CONSTANTS
  Width = 3
  Height = 2
  Byte = 3
  Letter <- Letters
  Warning <- BufferIsFull
  Builds = {"memory", "register"}
  MaxLength = 2
  MaxPuts = 4
  MaxWarnings = 2
INVARIANTS
  TypeOK
  NoUnderflow
  StaysOnScreen
  ShowsOutput
  CursorShown
\* The bounds let the program stop.
CHECK_DEADLOCK FALSE
