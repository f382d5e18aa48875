\* As Terminal.cfg, for what the handler does in the middle of term_putchar.
SPECIFICATION Spec
CONSTANTS
  Width = 3
  Height = 2
  Byte = 3
  Letter <- Letters
  Warning <- BufferIsFull
  Builds = {"memory", "register"}
  MaxLength = 2
  MaxPuts = 4
  MaxWarnings = 2
INVARIANT
  CursorInTerminal
CHECK_DEADLOCK FALSE
