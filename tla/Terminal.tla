------------------------------- MODULE Terminal -------------------------------
(***************************************************************************)
(* The text screen (kernel/terminal.c), printed to by SYS_write, and by    *)
(* keyboard_handler when the keyboard buffer is full.                      *)
(*                                                                         *)
(* The handler runs to its end between two instructions of the program     *)
(* (see Keyboard): its characters are one step each, in which the program  *)
(* stands still, and the program's are one step per access to what they    *)
(* share.  Colours are left out: all cells have the same.                  *)
(***************************************************************************)
EXTENDS Integers, SequencesExt

CONSTANTS
  Width, Height,   \* VGA_WIDTH and VGA_HEIGHT, 80 and 25
  Byte,            \* 256
  Letter,          \* what takes a cell when printed
  Warning,         \* "Buffer is full"
  Builds,          \* where a build keeps the cursor inside term_putchar
  MaxLength,       \* model bound: characters of one SYS_write
  MaxPuts,         \* model bound: characters SYS_write prints in all
  MaxWarnings      \* model bound: keys dropped

Blank == "blank"
Char  == Letter \cup {"newline", "return", "backspace"}

ASSUME TerminalAssumption ==
  /\ Width \in Nat \ {0} /\ Height \in Nat \ {0, 1} /\ Byte \in Nat \ {0}
  /\ Width * Height < Byte * Byte
  /\ Letter \cap {Blank, "newline", "return", "backspace"} = {}
  /\ Warning \in Seq(Letter)
  /\ Builds \subseteq {"memory", "register"}
  /\ MaxLength \in Nat /\ MaxPuts \in Nat /\ MaxWarnings \in Nat

Cell == 0 .. Width * Height - 1

VARIABLES
  term, term_col, term_row,
  crtc,            \* the display's registers: which one is addressed, the cursor's halves
  pc, buffer, i,   \* SYS_write
  c,               \* the character term_putchar prints
  build, reg,      \* inside term_putchar: where the cursor is kept
  pos,             \* local of term_update_cursor
  left,            \* what the handler has yet to print
  warnings,        \* model bound: keys dropped so far
  output,          \* history: all characters printed
  torn,            \* history: the handler has printed inside a term_putchar
  outside          \* history: something was written past the screen

screen  == <<term, outside>>
cursor  == <<term_col, term_row, build, reg>>
display == <<crtc, pos>>
writing == <<buffer, i, c>>
handler == <<left, warnings, torn>>
vars    == <<screen, cursor, display, pc, writing, handler, output>>

\* After term_init.
Init ==
  /\ term = [n \in Cell |-> Blank] /\ outside = FALSE
  /\ term_col = 0 /\ term_row = 0
  /\ crtc = [index |-> "high", low |-> 0, high |-> 0] /\ pos = 0
  /\ pc = "user" /\ buffer = <<>> /\ i = 0 /\ c = Blank
  /\ build = "memory" /\ reg = [col |-> 0, row |-> 0]
  /\ left = <<>> /\ warnings = 0
  /\ output = <<>> /\ torn = FALSE

-----------------------------------------------------------------------------
(* Cells                                                                   *)

Put(t, index, ch) == IF index \in Cell THEN [t EXCEPT ![index] = ch] ELSE t

\* Mutant: memcpy of all rows, from the second one on.
ShiftedTooMuch(t) == [n \in Cell |-> IF n + Width \in Cell THEN t[n + Width] ELSE "beyond"]
\* The memcpy of all rows but the first, to the start.
Shifted(t) == [n \in Cell |-> IF n + Width \in Cell THEN t[n + Width] ELSE t[n]]

\* Mutant: the row that comes in at the bottom keeps its old text.
Uncleared(t, row) == t
Cleared(t, row) == [n \in Cell |-> IF n \div Width = row THEN Blank ELSE t[n]]

Bottom(row) == row = Height

\* Mutant: a line has room for one character more.
LateEdge(col) == col = Width + 1
Edge(col) == col = Width

-----------------------------------------------------------------------------
(* keyboard_handler, when the buffer is full                               *)

InPutchar == pc \notin {"user", "loop"}

BufferFull ==
  /\ left = <<>>
  /\ warnings < MaxWarnings
  /\ left' = Warning
  /\ warnings' = warnings + 1
  /\ torn' = (torn \/ InPutchar)
  /\ UNCHANGED <<screen, cursor, display, pc, writing, output>>

\* term_putchar of a letter, without interruption.
WarnPutchar ==
  /\ left # <<>>
  /\ LET wrapped == Edge(term_col)
         row     == IF wrapped THEN term_row + 1 ELSE term_row
         shown   == IF Bottom(row) THEN Cleared(Shifted(term), row - 1) ELSE term
         index   == (IF wrapped THEN 0 ELSE term_col) + term_row' * Width
     IN  /\ term_row' = IF Bottom(row) THEN row - 1 ELSE row
         /\ term_col' = IF wrapped THEN 1 ELSE term_col + 1
         /\ term' = Put(shown, index, Head(left))
         /\ outside' = (outside \/ index \notin Cell)
         /\ crtc' = LET at == index + 1
                    IN  [index |-> "high", low |-> at % Byte, high |-> (at \div Byte) % Byte]
  /\ left' = Tail(left)
  /\ output' = Append(output, Head(left))
  /\ UNCHANGED <<build, reg, pos, pc, writing, warnings, torn>>

-----------------------------------------------------------------------------
(* The program goes on only when no handler runs.                          *)

Goto(from, to) ==
  /\ left = <<>>
  /\ pc = from
  /\ pc' = to

\* A build may access term_col and term_row in memory each time, or load
\* them at the start of term_putchar and store them before the cursor is
\* shown: they are not volatile.
Col == IF build = "memory" THEN term_col ELSE reg.col
Row == IF build = "memory" THEN term_row ELSE reg.row

Move(col, row) ==
  /\ IF build = "memory"
     THEN term_col' = col /\ term_row' = row /\ UNCHANGED reg
     ELSE reg' = [col |-> col, row |-> row] /\ UNCHANGED <<term_col, term_row>>
  /\ UNCHANGED build

Write(index, ch) ==
  /\ term' = Put(term, index, ch)
  /\ outside' = (outside \/ index \notin Cell)

SYS_write(file_descriptor, chars) ==
  /\ Len(output) + Len(chars) <= MaxPuts
  /\ Goto("user", IF file_descriptor \in {1, 2} THEN "loop" ELSE "user")
  /\ buffer' = chars
  /\ i' = 0
  /\ UNCHANGED <<screen, cursor, display, c, handler, output>>

\* The loop of SYS_write, down to the start of term_putchar.
NextChar(how) ==
  /\ i < Len(buffer)
  /\ Goto("loop", "plain")
  /\ c' = buffer[i + 1]
  /\ i' = i + 1
  /\ output' = Append(output, c')
  /\ build' = how
  /\ reg' = [col |-> term_col, row |-> term_row]
  /\ UNCHANGED <<screen, term_col, term_row, display, buffer, handler>>

Written ==
  /\ i = Len(buffer)
  /\ Goto("loop", "user")
  /\ UNCHANGED <<screen, cursor, display, writing, handler, output>>

-----------------------------------------------------------------------------
(* term_putchar                                                            *)

others == <<screen, display, writing, handler, output>>

CarriageReturn ==
  /\ c = "return"
  /\ Goto("plain", "show")
  /\ Move(0, Row)
  /\ UNCHANGED others

\* Mutant: the test of the backspace is missing.
AnyColumn(col) == TRUE
Erasable(col) == col > 0

Backspace ==
  /\ c = "backspace"
  /\ Goto("plain", IF Erasable(Col) THEN "back" ELSE "show")
  /\ UNCHANGED <<cursor, others>>

Back ==
  /\ Goto("back", "erase")
  /\ Move(Col - 1, Row)
  /\ UNCHANGED others

Erase ==
  /\ Goto("erase", "show")
  /\ Write(Row * Width + Col, Blank)
  /\ UNCHANGED <<cursor, display, writing, handler, output>>

Newline ==
  /\ c = "newline"
  /\ Goto("plain", "newline feed")
  /\ Move(0, Row)
  /\ UNCHANGED others

NewlineFeed ==
  /\ Goto("newline feed", "wrap")
  /\ Move(Col, Row + 1)
  /\ UNCHANGED others

Plain ==
  /\ c \in Letter
  /\ Goto("plain", "wrap")
  /\ UNCHANGED <<cursor, others>>

Wrap ==
  /\ Goto("wrap", IF Edge(Col) THEN "wrap return" ELSE "scroll")
  /\ UNCHANGED <<cursor, others>>

WrapReturn ==
  /\ Goto("wrap return", "wrap feed")
  /\ Move(0, Row)
  /\ UNCHANGED others

WrapFeed ==
  /\ Goto("wrap feed", "scroll")
  /\ Move(Col, Row + 1)
  /\ UNCHANGED others

Scroll ==
  /\ Goto("scroll", IF Bottom(Row) THEN "shift" ELSE "write")
  /\ UNCHANGED <<cursor, others>>

\* memcpy is in another library, so every build has stored the cursor when
\* it calls it and looks at memory again afterwards.
Shift ==
  /\ Goto("shift", "row up")
  /\ term' = Shifted(term)
  /\ term_col' = Col /\ term_row' = Row
  /\ build' = "memory"
  /\ UNCHANGED <<reg, outside, display, writing, handler, output>>

RowUp ==
  /\ Goto("row up", "clear")
  /\ Move(Col, Row - 1)
  /\ UNCHANGED others

ClearRow ==
  /\ Goto("clear", "write")
  /\ term' = Cleared(term, Row)
  /\ outside' = (outside \/ Row >= Height)
  /\ UNCHANGED <<cursor, display, writing, handler, output>>

WriteChar ==
  /\ c # "newline"
  /\ Goto("write", "advance")
  /\ Write(Col + Row * Width, c)
  /\ UNCHANGED <<cursor, display, writing, handler, output>>

WriteNothing ==
  /\ c = "newline"
  /\ Goto("write", "show")
  /\ UNCHANGED <<cursor, others>>

Advance ==
  /\ Goto("advance", "show")
  /\ Move(Col + 1, Row)
  /\ UNCHANGED others

-----------------------------------------------------------------------------
(* term_update_cursor                                                      *)

\* Mutant: the column is left out.
RowStart(col, row) == row * Width
Position(col, row) == row * Width + col

Show ==
  /\ Goto("show", "low index")
  /\ term_col' = Col /\ term_row' = Row
  /\ pos' = Position(Col, Row)
  /\ UNCHANGED <<screen, build, reg, crtc, writing, handler, output>>

Address(half) ==
  /\ crtc' = [crtc EXCEPT !.index = half]
  /\ UNCHANGED <<screen, cursor, pos, writing, handler, output>>

Data(value) ==
  /\ crtc' = IF crtc.index = "low" THEN [crtc EXCEPT !.low = value % Byte]
                                   ELSE [crtc EXCEPT !.high = value % Byte]
  /\ UNCHANGED <<screen, cursor, pos, writing, handler, output>>

term_update_cursor ==
  \/ Show
  \/ Goto("low index", "low data") /\ Address("low")
  \/ Goto("low data", "high index") /\ Data(pos)
  \/ Goto("high index", "high data") /\ Address("high")
  \/ Goto("high data", "loop") /\ Data(pos \div Byte)

term_putchar ==
  \/ CarriageReturn \/ Backspace \/ Back \/ Erase
  \/ Newline \/ NewlineFeed \/ Plain
  \/ Wrap \/ WrapReturn \/ WrapFeed
  \/ Scroll \/ Shift \/ RowUp \/ ClearRow
  \/ WriteChar \/ WriteNothing \/ Advance
  \/ term_update_cursor

Next ==
  \/ BufferFull
  \/ WarnPutchar
  \/ \E file_descriptor \in 0 .. 2, chars \in BoundedSeq(Char, MaxLength) :
       SYS_write(file_descriptor, chars)
  \/ \E how \in Builds : NextChar(how)
  \/ Written
  \/ term_putchar

Spec == Init /\ [][Next]_vars

-----------------------------------------------------------------------------
(* Properties                                                              *)

Steps ==
  {"user", "loop", "plain", "back", "erase", "newline feed", "wrap", "wrap return",
   "wrap feed", "scroll", "shift", "row up", "clear", "write", "advance", "show",
   "low index", "low data", "high index", "high data"}

TypeOK ==
  /\ term \in [Cell -> Letter \cup {Blank}]
  /\ term_col \in Int /\ term_row \in Int
  /\ reg \in [col : Int, row : Int] /\ build \in {"memory", "register"}
  /\ crtc \in [index : {"low", "high"}, low : 0 .. Byte - 1, high : 0 .. Byte - 1]
  /\ pos \in Int
  /\ pc \in Steps
  /\ buffer \in Seq(Char) /\ i \in 0 .. Len(buffer) /\ c \in Char \cup {Blank}
  /\ left \in Seq(Letter) /\ output \in Seq(Char)
  /\ torn \in BOOLEAN /\ outside \in BOOLEAN

\* term_col and term_row are unsigned, and what is tested before they are
\* decremented may be printed over by the handler before it is used; still
\* neither passes below zero, wherever the handler comes (terminal.c:96-98,
\* 120-124).
NoUnderflow == Col >= 0 /\ Row >= 0 /\ term_col >= 0 /\ term_row >= 0

\* Text that no handler breaks into is written on the screen only: the tests
\* for the edges are tests for equality, and the cursor meets them exactly,
\* in whatever order lines fill, end and scroll, and with warnings between
\* the characters (terminal.c:113-120).
StaysOnScreen == torn \/ (~outside /\ term_col <= Width /\ term_row <= Height)

\* Paper without an end: what a terminal that never scrolls would show.
Seen(text, at) == IF at \in DOMAIN text THEN text[at] ELSE Blank
Marked(text, at, ch) == [p \in DOMAIN text \cup {at} |-> IF p = at THEN ch ELSE text[p]]
Empty == [at \in {} |-> Blank]

Typed(paper, ch) ==
  LET full == paper.col = Width
      line == IF full THEN paper.line + 1 ELSE paper.line
      col  == IF full THEN 0 ELSE paper.col
  IN  CASE ch = "return"    -> [paper EXCEPT !.col = 0]
        [] ch = "newline"   -> [paper EXCEPT !.col = 0, !.line = @ + 1]
        [] ch = "backspace" ->
             IF paper.col = 0 THEN paper
             ELSE [paper EXCEPT !.col = @ - 1,
                                !.text = Marked(@, <<paper.line, paper.col - 1>>, Blank)]
        [] ch \in Letter    ->
             [text |-> Marked(paper.text, <<line, col>>, ch), line |-> line, col |-> col + 1]

\* The paper before each character and after the last.
Papers(chars) ==
  LET paper[n \in 0 .. Len(chars)] ==
        IF n = 0 THEN [text |-> Empty, line |-> 0, col |-> 0]
        ELSE Typed(paper[n - 1], chars[n])
  IN  paper
Paper == Papers(output)[Len(output)]

\* The lines above the first one that is shown.
Above(line) == IF line < Height THEN 0 ELSE line - (Height - 1)
Shows(t, text, above) ==
  \A n \in Cell : t[n] = Seen(text, <<n \div Width + above, n % Width>>)

AtRest == pc \in {"user", "loop"} /\ left = <<>>

\* Between two characters the screen shows the last lines of all that was
\* printed, by the program and the handler, however it was scrolled, erased
\* and overwritten (terminal.c:85-147).
ShowsOutput ==
  AtRest /\ ~torn =>
    LET above == Above(Paper.line)
    IN  /\ term_row = Paper.line - above /\ term_col = Paper.col
        /\ Shows(term, Paper.text, above)

\* Between two characters the cursor that is displayed is where the next
\* character will go: its two halves were sent one after the other, through
\* one pair of ports (terminal.c:57-65).
CursorShown ==
  AtRest /\ ~torn => Byte * crtc.high + crtc.low = term_row * Width + term_col

\* term_col and term_row are "the current cursor position in the terminal"
\* (terminal.c:40), in a column or behind the last one.  A handler that
\* prints between the test for the last column and the write leaves them
\* beyond it, where the test for equality does not find them again.
CursorInTerminal == AtRest => term_col \in 0 .. Width /\ term_row \in 0 .. Height - 1
=============================================================================
