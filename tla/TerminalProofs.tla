---------------------------- MODULE TerminalProofs ----------------------------
(* Proofs about the text screen.                                           *)
EXTENDS Terminal, ModularArithmetic

-----------------------------------------------------------------------------
(* Types                                                                   *)

USE DEF Blank

LEMMA PutType ==
  ASSUME NEW t \in [Cell -> Letter \cup {Blank}], NEW index \in Int,
         NEW ch \in Letter \cup {Blank}
  PROVE  Put(t, index, ch) \in [Cell -> Letter \cup {Blank}]
  BY DEF Put

LEMMA ShiftedType ==
  ASSUME NEW t \in [Cell -> Letter \cup {Blank}]
  PROVE  Shifted(t) \in [Cell -> Letter \cup {Blank}]
  BY DEF Shifted

LEMMA ClearedType ==
  ASSUME NEW t \in [Cell -> Letter \cup {Blank}], NEW row \in Int
  PROVE  Cleared(t, row) \in [Cell -> Letter \cup {Blank}]
  BY DEF Cleared

LEMMA MoveType ==
  ASSUME TypeOK, NEW col \in Int, NEW row \in Int, Move(col, row)
  PROVE  /\ term_col' \in Int /\ term_row' \in Int
         /\ reg' \in [col : Int, row : Int] /\ build' \in {"memory", "register"}
  BY DEF TypeOK, Move

LEMMA ColRowType ==
  ASSUME TypeOK
  PROVE  Col \in Int /\ Row \in Int
  BY DEF TypeOK, Col, Row

\* A step of the program that changes nothing but the cursor keeps the types.
LEMMA CursorStep ==
  ASSUME TypeOK, UNCHANGED others, pc' \in Steps,
         term_col' \in Int, term_row' \in Int,
         reg' \in [col : Int, row : Int], build' \in {"memory", "register"}
  PROVE  TypeOK'
  BY DEF TypeOK, others, screen, display, writing, handler

\* So does one that changes the screen only.
LEMMA ScreenStep ==
  ASSUME TypeOK, pc' \in Steps, outside' \in BOOLEAN,
         term' \in [Cell -> Letter \cup {Blank}],
         UNCHANGED <<cursor, display, writing, handler, output>>
  PROVE  TypeOK'
  BY DEF TypeOK, cursor, display, writing, handler

\* And one that sends to the display.
LEMMA DisplayStep ==
  ASSUME TypeOK, pc' \in Steps,
         NEW half \in {"low", "high"}, NEW value \in Int,
         Address(half) \/ Data(value)
  PROVE  TypeOK'
<1>1. crtc' \in [index : {"low", "high"}, low : 0 .. Byte - 1, high : 0 .. Byte - 1]
  <2>1. value % Byte \in 0 .. Byte - 1
    BY TerminalAssumption
  <2>2. CASE Address(half)
    BY <2>2 DEF TypeOK, Address
  <2>3. CASE Data(value)
    BY <2>1, <2>3 DEF TypeOK, Data
  <2>. QED BY <2>2, <2>3
<1>. QED
  BY <1>1 DEF TypeOK, Address, Data, screen, cursor, writing, handler

\* Between the tests for control characters and the write, the character is
\* a letter or a newline.
Printing ==
  pc \in {"newline feed", "wrap", "wrap return", "wrap feed", "scroll", "shift",
          "row up", "clear", "write"}
    => c \in Letter \cup {"newline"}

LEMMA TypeInit == Init => TypeOK /\ Printing
<1> SUFFICES ASSUME Init PROVE TypeOK /\ Printing
  OBVIOUS
<1>1. 0 \in 0 .. Byte - 1
  BY TerminalAssumption
<1>2. crtc \in [index : {"low", "high"}, low : 0 .. Byte - 1, high : 0 .. Byte - 1]
  BY <1>1 DEF Init
<1>3. term \in [Cell -> Letter \cup {Blank}]
  BY DEF Init
<1>4. buffer \in Seq(Char) /\ i \in 0 .. Len(buffer) /\ left \in Seq(Letter) /\ output \in Seq(Char)
  BY DEF Init
<1>5. reg \in [col : Int, row : Int] /\ c \in Char \cup {Blank} /\ pc \in Steps
  BY DEF Init, Steps
<1>6. Printing
  BY DEF Init, Printing
<1>. QED
  BY <1>2, <1>3, <1>4, <1>5, <1>6 DEF Init, TypeOK

LEMMA PrintingNext == TypeOK /\ Printing /\ [Next]_vars => Printing'
<1> SUFFICES ASSUME TypeOK, Printing, [Next]_vars PROVE Printing'
  OBVIOUS
<1>1. CASE UNCHANGED <<pc, c>>
  BY <1>1 DEF Printing
<1>2. CASE \E how \in Builds : NextChar(how)
  BY <1>2 DEF NextChar, Goto, Printing
<1>3. CASE term_putchar
  <2>1. c' = c
    BY <1>3
    DEF term_putchar, CarriageReturn, Backspace, Back, Erase, Newline, NewlineFeed, Plain,
        Wrap, WrapReturn, WrapFeed, Scroll, Shift, RowUp, ClearRow, WriteChar, WriteNothing,
        Advance, term_update_cursor, Show, Address, Data, others, writing
  <2>2. CASE Newline \/ Plain
    BY <2>1, <2>2 DEF Newline, Plain, Goto, Printing
  <2>3. CASE CarriageReturn \/ Backspace \/ Back \/ Erase \/ Advance \/ WriteChar
             \/ WriteNothing \/ term_update_cursor
    BY <2>3
    DEF CarriageReturn, Backspace, Back, Erase, Advance, WriteChar, WriteNothing,
        term_update_cursor, Show, Goto, Printing
  <2>4. CASE NewlineFeed \/ Wrap \/ WrapReturn \/ WrapFeed \/ Scroll \/ Shift \/ RowUp
             \/ ClearRow
    BY <2>1, <2>4
    DEF NewlineFeed, Wrap, WrapReturn, WrapFeed, Scroll, Shift, RowUp, ClearRow, Goto, Printing
  <2>. QED BY <1>3, <2>2, <2>3, <2>4 DEF term_putchar
<1>4. CASE Written \/ \E file_descriptor \in 0 .. 2, chars \in BoundedSeq(Char, MaxLength) :
                        SYS_write(file_descriptor, chars)
  BY <1>4 DEF Written, SYS_write, Goto, Printing
<1>. QED
  BY <1>1, <1>2, <1>3, <1>4 DEF Next, BufferFull, WarnPutchar, vars, writing

LEMMA TypeNext == TypeOK /\ Printing /\ [Next]_vars => TypeOK'
<1> SUFFICES ASSUME TypeOK, Printing, [Next]_vars PROVE TypeOK'
  OBVIOUS
<1>. Col \in Int /\ Row \in Int
  BY ColRowType
<1>. Width \in Nat \ {0} /\ Height \in Nat \ {0, 1} /\ Byte \in Nat \ {0}
  BY TerminalAssumption
<1>1. CASE BufferFull
  BY <1>1, TerminalAssumption
  DEF BufferFull, InPutchar, TypeOK, screen, cursor, display, writing
<1>2. CASE WarnPutchar
  <2> DEFINE row   == IF Edge(term_col) THEN term_row + 1 ELSE term_row
             shown == IF Bottom(row) THEN Cleared(Shifted(term), row - 1) ELSE term
             index == (IF Edge(term_col) THEN 0 ELSE term_col) + term_row' * Width
  <2>1. row \in Int /\ term_row' \in Int /\ term_col' \in Int
    BY <1>2 DEF WarnPutchar, TypeOK
  <2>2. index \in Int
    BY <2>1 DEF TypeOK
  <2>3. Head(left) \in Letter /\ Tail(left) \in Seq(Letter)
    BY <1>2 DEF WarnPutchar, TypeOK
  <2>4. term' \in [Cell -> Letter \cup {Blank}]
    <3>1. shown \in [Cell -> Letter \cup {Blank}]
      <4>1. term \in [Cell -> Letter \cup {Blank}]
        BY DEF TypeOK
      <4>2. row - 1 \in Int
        BY <2>1
      <4>. HIDE DEF row
      <4>3. Cleared(Shifted(term), row - 1) \in [Cell -> Letter \cup {Blank}]
        BY <4>1, <4>2, ShiftedType, ClearedType
      <4>. QED BY <4>1, <4>3
    <3>2. term' = Put(shown, index, Head(left))
      BY <1>2 DEF WarnPutchar
    <3>. HIDE DEF shown, index
    <3>. QED BY <2>2, <2>3, <3>1, <3>2, PutType
  <2>5. crtc' \in [index : {"low", "high"}, low : 0 .. Byte - 1, high : 0 .. Byte - 1]
    <3> DEFINE at == index + 1
    <3>1. crtc' = [index |-> "high", low |-> at % Byte, high |-> (at \div Byte) % Byte]
      BY <1>2 DEF WarnPutchar
    <3>2. at \in Int
      BY <2>2
    <3>. HIDE DEF at
    <3>3. at \div Byte \in Int
      BY <3>2
    <3>4. at % Byte \in 0 .. Byte - 1 /\ (at \div Byte) % Byte \in 0 .. Byte - 1
      BY <3>2, <3>3
    <3>. QED BY <3>1, <3>4
  <2>6. outside' \in BOOLEAN
    BY <1>2 DEF WarnPutchar, TypeOK
  <2>7. output' \in Seq(Char)
    BY <1>2, <2>3 DEF WarnPutchar, TypeOK, Char
  <2>. HIDE DEF row, shown, index
  <2>. QED
    BY <1>2, <2>1, <2>3, <2>4, <2>5, <2>6, <2>7 DEF WarnPutchar, TypeOK, writing
<1>3. ASSUME NEW file_descriptor \in 0 .. 2, NEW chars \in BoundedSeq(Char, MaxLength),
             SYS_write(file_descriptor, chars)
      PROVE  TypeOK'
  <2>1. PICK m \in 0 .. MaxLength : chars \in [1 .. m -> Char]
    BY DEF BoundedSeq, SeqOf
  <2>2. chars \in Seq(Char)
    BY <2>1, TerminalAssumption
  <2>. QED
    BY <1>3, <2>2
    DEF SYS_write, Goto, TypeOK, Steps, screen, cursor, display, handler
<1>4. ASSUME NEW how \in Builds, NextChar(how)
      PROVE  TypeOK'
  BY <1>4, TerminalAssumption
  DEF NextChar, Goto, TypeOK, Steps, screen, display, handler
<1>5. CASE Written
  BY <1>5
  DEF Written, Goto, TypeOK, Steps, screen, cursor, display, writing, handler
<1>6. CASE CarriageReturn \/ Back \/ Newline \/ NewlineFeed \/ WrapReturn \/ WrapFeed
           \/ RowUp \/ Advance
  <2>1. PICK col \in Int, row \in Int : Move(col, row)
    <3>1. CASE CarriageReturn \/ Newline \/ WrapReturn
      <4>1. Move(0, Row)
        BY <3>1 DEF CarriageReturn, Newline, WrapReturn
      <4>. QED BY <4>1
    <3>2. CASE Back \/ Advance
      <4>1. Move(Col - 1, Row) \/ Move(Col + 1, Row)
        BY <3>2 DEF Back, Advance
      <4>. QED BY <4>1
    <3>3. CASE NewlineFeed \/ WrapFeed \/ RowUp
      <4>1. Move(Col, Row + 1) \/ Move(Col, Row - 1)
        BY <3>3 DEF NewlineFeed, WrapFeed, RowUp
      <4>. QED BY <4>1
    <3>. QED BY <1>6, <3>1, <3>2, <3>3
  <2>2. pc' \in Steps /\ UNCHANGED others
    BY <1>6
    DEF CarriageReturn, Back, Newline, NewlineFeed, WrapReturn, WrapFeed, RowUp, Advance,
        Goto, Steps
  <2>. QED BY <2>1, <2>2, MoveType, CursorStep
<1>7. CASE Backspace \/ Plain \/ Wrap \/ Scroll \/ WriteNothing
  <2>1. pc' \in Steps /\ UNCHANGED <<cursor, others>>
    BY <1>7 DEF Backspace, Plain, Wrap, Scroll, WriteNothing, Goto, Steps
  <2>. QED BY <2>1, CursorStep DEF cursor, TypeOK
<1>8. CASE Erase \/ WriteChar \/ ClearRow
  <2>1. pc' \in Steps /\ UNCHANGED <<cursor, display, writing, handler, output>>
    BY <1>8 DEF Erase, WriteChar, ClearRow, Goto, Steps
  <2>2. outside' \in BOOLEAN
    BY <1>8 DEF Erase, WriteChar, ClearRow, Write, TypeOK
  <2>3. Row * Width \in Int
    OBVIOUS
  <2>4. CASE Erase
    BY <2>1, <2>2, <2>3, <2>4, PutType, ScreenStep DEF Erase, Write, TypeOK
  <2>5. CASE WriteChar
    <3>1. c \in Letter
      BY <2>5 DEF WriteChar, Goto, Printing
    <3>. QED
      BY <2>1, <2>2, <2>3, <2>5, <3>1, PutType, ScreenStep DEF WriteChar, Write, TypeOK
  <2>6. CASE ClearRow
    BY <2>1, <2>2, <2>6, ClearedType, ScreenStep DEF ClearRow, TypeOK
  <2>. QED BY <1>8, <2>4, <2>5, <2>6
<1>9. CASE Shift
  BY <1>9, ShiftedType DEF Shift, Goto, TypeOK, Steps, display, writing, handler
<1>10. CASE term_update_cursor
  <2>1. CASE Show
    <3>1. Position(Col, Row) \in Int
      BY DEF Position
    <3>. QED
      BY <2>1, <3>1 DEF Show, Goto, TypeOK, Steps, screen, writing, handler
  <2>2. ASSUME NEW half \in {"low", "high"}, NEW from, NEW to \in Steps,
               Goto(from, to), Address(half)
        PROVE  TypeOK'
    BY <2>2, DisplayStep DEF Goto
  <2>3. ASSUME NEW value \in Int, NEW from, NEW to \in Steps, Goto(from, to), Data(value)
        PROVE  TypeOK'
    BY <2>3, DisplayStep DEF Goto
  <2>4. pos \in Int /\ pos \div Byte \in Int
    BY DEF TypeOK
  <2>. QED
    BY <1>10, <2>1, <2>2, <2>3, <2>4 DEF term_update_cursor, Steps
<1>11. CASE UNCHANGED vars
  BY <1>11 DEF vars, screen, cursor, display, writing, handler, TypeOK
<1>. QED
  BY <1>1, <1>2, <1>3, <1>4, <1>5, <1>6, <1>7, <1>8, <1>9, <1>10, <1>11
  DEF Next, term_putchar

\* Every variable keeps its type, whatever the handler interrupts.
THEOREM TerminalTypes == Spec => []TypeOK
<1>1. TypeOK /\ Printing /\ [Next]_vars => (TypeOK /\ Printing)'
  BY TypeNext, PrintingNext
<1>. QED
  BY <1>1, TypeInit, PTL DEF Spec

-----------------------------------------------------------------------------
(* The cursor                                                              *)

\* What was tested before a decrement still holds when it is done, because a
\* handler that comes in between never leaves the cursor in the first column,
\* and scrolls by one row at most what it finds at the bottom.
Safe(step, col, row) ==
  /\ col >= 0 /\ row >= 0
  /\ step = "back" => col > 0
  /\ step \in {"shift", "row up"} => row >= Height - 1

Below  == {"wrap", "scroll", "shift", "row up"}
Inside == {"erase", "newline feed", "wrap feed", "scroll", "shift", "row up", "clear",
           "write", "advance"}

\* Where the cursor is at each step of a term_putchar that no handler breaks
\* into: below the screen only between a line feed and the scrolling, behind
\* the last column only where a full line waits for its next character.
Fits(step, col, row) ==
  /\ col <= Width /\ row <= Height
  /\ step \notin Below => row < Height
  /\ step \in Inside => col < Width
  /\ step = "wrap" /\ row = Height => col = 0
  /\ step = "wrap return" => col = Width
  /\ step = "newline feed" => col = 0
  /\ step \in {"shift", "row up"} => row = Height

Placed ==
  /\ ~outside
  /\ InPutchar => left = <<>> /\ Fits(pc, Col, Row)
  /\ ~InPutchar \/ build = "register" => term_col <= Width /\ term_row < Height

CursorInv ==
  /\ term_col >= 0 /\ term_row >= 0
  /\ Safe(pc, Col, Row)
  /\ ~torn => Placed

LEMMA OnScreen ==
  ASSUME NEW col \in 0 .. Width - 1, NEW row \in 0 .. Height - 1
  PROVE  col + row * Width \in Cell /\ row * Width + col \in Cell
<1>1. Width \in Nat /\ Height \in Nat /\ row \in Nat /\ col \in Nat
  BY TerminalAssumption
<1>2. row * Width \in Nat
  BY <1>1
<1>3. row * Width + Width <= Height * Width
  <2>1. Height = row + 1 + (Height - row - 1) /\ Height - row - 1 \in Nat
    BY <1>1
  <2> DEFINE below == Height - row - 1
  <2>2. (row + 1 + below) * Width = row * Width + Width + below * Width
    BY <1>1, <2>1
  <2>3. below * Width \in Nat
    BY <1>1, <2>1
  <2>. QED BY <1>1, <1>2, <2>1, <2>2, <2>3
<1>4. Height * Width = Width * Height
  BY <1>1
<1>. QED
  BY <1>1, <1>2, <1>3, <1>4 DEF Cell

LEMMA CursorKept ==
  ASSUME UNCHANGED cursor
  PROVE  Col' = Col /\ Row' = Row /\ UNCHANGED <<term_col, term_row, build>>
  BY DEF cursor, Col, Row

LEMMA MoveMoves ==
  ASSUME TypeOK, NEW col \in Int, NEW row \in Int, Move(col, row)
  PROVE  /\ Col' = col /\ Row' = row /\ build' = build
         /\ build = "memory" => term_col' = col /\ term_row' = row
         /\ build = "register" => UNCHANGED <<term_col, term_row>>
  BY DEF TypeOK, Move, Col, Row

\* What a step inside term_putchar has to show.
LEMMA CursorStepKept ==
  ASSUME TypeOK, CursorInv, NEW from, NEW to, Goto(from, to), InPutchar, InPutchar',
         UNCHANGED handler, Safe(to, Col', Row'),
         Placed => Fits(to, Col', Row') /\ ~outside',
         \/ build = "register" /\ UNCHANGED <<term_col, term_row>>
         \/ term_col' = Col' /\ term_row' = Row' /\ (build' = "memory" \/ to = "low index")
  PROVE  CursorInv'
<1>1. pc' = to /\ left' = <<>> /\ torn' = torn
  BY DEF Goto, handler
<1>2. term_col' >= 0 /\ term_row' >= 0
  BY DEF CursorInv, Safe
<1>3. ASSUME ~torn' PROVE Placed'
  <2>1. Placed
    BY <1>1, <1>3 DEF CursorInv
  <2>2. Fits(to, Col', Row') /\ ~outside'
    BY <2>1
  <2>3. ASSUME build' = "register" PROVE term_col' <= Width /\ term_row' < Height
    <3>1. CASE build = "register" /\ UNCHANGED <<term_col, term_row>>
      BY <2>1, <3>1 DEF Placed
    <3>2. CASE term_col' = Col' /\ term_row' = Row' /\ to = "low index"
      BY <2>2, <3>2 DEF Fits, Below
    <3>. QED BY <2>3, <3>1, <3>2
  <2>4. ~InPutchar' \/ (build = "register")' => (term_col <= Width /\ term_row < Height)'
    BY <2>3
  <2>5. InPutchar' => (left = <<>> /\ Fits(pc, Col, Row))'
    BY <1>1, <2>2
  <2>. QED BY <2>2, <2>4, <2>5 DEF Placed
<1>. QED
  BY <1>1, <1>2, <1>3 DEF CursorInv

LEMMA CursorInit == Init => CursorInv
<1> SUFFICES ASSUME Init PROVE CursorInv
  OBVIOUS
<1>1. Col = 0 /\ Row = 0 /\ term_col = 0 /\ term_row = 0 /\ ~outside /\ ~InPutchar /\ pc = "user"
  BY DEF Init, Col, Row, InPutchar
<1>2. Safe(pc, Col, Row)
  BY <1>1, TerminalAssumption DEF Safe
<1>3. Placed
  BY <1>1, TerminalAssumption DEF Placed
<1>. QED
  BY <1>1, <1>2, <1>3 DEF CursorInv

\* The handler, anywhere.
LEMMA CursorWarn ==
  ASSUME TypeOK, CursorInv, BufferFull \/ WarnPutchar
  PROVE  CursorInv'
<1>. Width \in Nat \ {0} /\ Height \in Nat \ {0, 1}
  BY TerminalAssumption
<1>. term_col \in Int /\ term_row \in Int /\ Col \in Int /\ Row \in Int
  BY ColRowType DEF TypeOK
<1>1. term_col >= 0 /\ term_row >= 0 /\ Safe(pc, Col, Row)
  BY DEF CursorInv
<1>2. CASE BufferFull
  <2>1. /\ Col' = Col /\ Row' = Row /\ UNCHANGED <<term_col, term_row, build>>
        /\ pc' = pc /\ outside' = outside
    BY <1>2, CursorKept DEF BufferFull, screen
  <2>2. ASSUME ~torn' PROVE Placed'
    <3>1. ~torn /\ ~InPutchar /\ ~InPutchar'
      BY <1>2, <2>1, <2>2 DEF BufferFull, InPutchar
    <3>2. Placed
      BY <3>1 DEF CursorInv
    <3>. QED
      BY <2>1, <3>1, <3>2 DEF Placed
  <2>. QED BY <1>1, <2>1, <2>2 DEF CursorInv
<1>3. CASE WarnPutchar
  <2> DEFINE row   == IF Edge(term_col) THEN term_row + 1 ELSE term_row
             col   == IF Edge(term_col) THEN 0 ELSE term_col
             index == col + term_row' * Width
  <2>1. /\ term_row' = IF Bottom(row) THEN row - 1 ELSE row
        /\ term_col' = IF Edge(term_col) THEN 1 ELSE term_col + 1
        /\ UNCHANGED <<pc, build, reg, torn>>
    BY <1>3 DEF WarnPutchar
  <2>2. left # <<>> /\ outside' = (outside \/ index \notin Cell)
    BY <1>3 DEF WarnPutchar
  <2>3. /\ term_col' \in Int /\ term_row' \in Int
        /\ term_col' >= 1 /\ term_row' >= 0
        /\ term_row >= Height - 1 => term_row' >= Height - 1
    BY <1>1, <2>1 DEF Bottom
  <2>4. \/ Col' = Col /\ Row' = Row
        \/ Col' = term_col' /\ Row' = term_row' /\ Row = term_row
    BY <2>1 DEF Col, Row
  <2>5. Safe(pc', Col', Row')
    <3>1. pc' = pc
      BY <2>1
    <3>. HIDE DEF row, col, index
    <3>2. CASE Col' = Col /\ Row' = Row
      BY <1>1, <3>1, <3>2
    <3>3. CASE Col' = term_col' /\ Row' = term_row' /\ Row = term_row
      <4>1. Col' >= 1 /\ Row' >= 0 /\ (Row >= Height - 1 => Row' >= Height - 1) /\ Col' \in Int
        BY <2>3, <3>3
      <4>2. Col' >= 0 /\ (pc' = "back" => Col' > 0)
        BY <4>1
      <4>3. pc' \in {"shift", "row up"} => Row' >= Height - 1
        BY <1>1, <3>1, <4>1 DEF Safe
      <4>. QED BY <4>1, <4>2, <4>3 DEF Safe
    <3>. QED BY <2>4, <3>2, <3>3
  <2>6. ASSUME ~torn' PROVE Placed'
    <3>1. Placed
      BY <2>1, <2>6 DEF CursorInv
    <3>2. ~InPutchar /\ ~InPutchar'
      BY <2>1, <2>2, <3>1 DEF Placed, InPutchar
    <3>3. ~outside /\ term_col \in 0 .. Width /\ term_row \in 0 .. Height - 1
      BY <1>1, <3>1, <3>2 DEF Placed
    <3>4. term_row' \in 0 .. Height - 1 /\ term_col' \in 1 .. Width /\ col \in 0 .. Width - 1
      BY <2>1, <3>3 DEF Bottom, Edge
    <3>. HIDE DEF row, col
    <3>5. index \in Cell
      BY <3>4, OnScreen
    <3>. HIDE DEF index
    <3>6. ~outside'
      BY <2>2, <3>3, <3>5
    <3>. QED BY <3>2, <3>4, <3>6 DEF Placed
  <2>. QED BY <2>3, <2>5, <2>6 DEF CursorInv
<1>. QED BY <1>2, <1>3

\* SYS_write around term_putchar.
LEMMA CursorWrite ==
  ASSUME TypeOK, CursorInv,
         \/ \E file_descriptor, chars : SYS_write(file_descriptor, chars)
         \/ \E how : NextChar(how)
         \/ Written
  PROVE  CursorInv'
<1>. Width \in Nat \ {0} /\ Height \in Nat \ {0, 1}
  BY TerminalAssumption
<1>. term_col \in Int /\ term_row \in Int /\ Col \in Int /\ Row \in Int
  BY ColRowType DEF TypeOK
<1>1. term_col >= 0 /\ term_row >= 0 /\ Safe(pc, Col, Row)
  BY DEF CursorInv
<1>2. CASE Written \/ \E file_descriptor, chars : SYS_write(file_descriptor, chars)
  <2>1. /\ UNCHANGED cursor /\ outside' = outside /\ torn' = torn
        /\ pc \in {"user", "loop"} /\ pc' \in {"user", "loop"}
    BY <1>2 DEF Written, SYS_write, Goto, screen, handler
  <2>2. Col' = Col /\ Row' = Row /\ UNCHANGED <<term_col, term_row>>
    BY <2>1, CursorKept
  <2>3. Safe(pc', Col', Row')
    BY <1>1, <2>1, <2>2 DEF Safe
  <2>4. ASSUME ~torn' PROVE Placed'
    <3>1. Placed /\ ~InPutchar /\ ~InPutchar'
      BY <2>1, <2>4 DEF CursorInv, InPutchar
    <3>. QED BY <2>1, <2>2, <3>1 DEF Placed
  <2>. QED BY <1>1, <2>2, <2>3, <2>4 DEF CursorInv
<1>3. CASE \E how : NextChar(how)
  <2>1. /\ UNCHANGED <<term_col, term_row, outside, torn>>
        /\ left' = <<>> /\ pc = "loop" /\ pc' = "plain"
        /\ reg' = [col |-> term_col, row |-> term_row]
    BY <1>3 DEF NextChar, Goto, screen, handler
  <2>2. Col' = term_col /\ Row' = term_row
    BY <2>1 DEF Col, Row
  <2>3. Safe(pc', Col', Row')
    BY <1>1, <2>1, <2>2 DEF Safe
  <2>4. ASSUME ~torn' PROVE Placed'
    <3>1. Placed /\ ~InPutchar
      BY <2>1, <2>4 DEF CursorInv, InPutchar
    <3>2. ~outside /\ term_col <= Width /\ term_row < Height
      BY <3>1 DEF Placed
    <3>3. Fits(pc', Col', Row')
      BY <2>1, <2>2, <3>2 DEF Fits, Below, Inside
    <3>. QED BY <2>1, <3>2, <3>3 DEF Placed
  <2>. QED BY <1>1, <2>1, <2>3, <2>4 DEF CursorInv
<1>. QED BY <1>2, <1>3

\* A step inside term_putchar that moves the cursor and writes nothing.
LEMMA CursorMoves ==
  ASSUME TypeOK, CursorInv, NEW from, NEW to, Goto(from, to), InPutchar, InPutchar',
         NEW col \in Int, NEW row \in Int, Move(col, row), UNCHANGED others,
         Safe(from, Col, Row) => Safe(to, col, row),
         Safe(from, Col, Row) /\ Fits(from, Col, Row) => Fits(to, col, row)
  PROVE  CursorInv'
<1>1. pc = from /\ Safe(from, Col, Row) /\ UNCHANGED <<handler, outside>>
  BY DEF Goto, CursorInv, others, screen
<1>2. Col' = col /\ Row' = row /\ build' = build
  BY MoveMoves
<1>3. Safe(to, Col', Row')
  BY <1>1, <1>2
<1>4. Placed => Fits(to, Col', Row') /\ ~outside'
  BY <1>1, <1>2 DEF Placed
<1>5. build \in {"memory", "register"}
  BY DEF TypeOK
<1>6. \/ build = "register" /\ UNCHANGED <<term_col, term_row>>
      \/ term_col' = Col' /\ term_row' = Row' /\ build' = "memory"
  BY <1>2, <1>5, MoveMoves
<1>. QED
  BY <1>1, <1>3, <1>4, <1>6, CursorStepKept

\* A step that leaves the cursor where it is.
LEMMA CursorStays ==
  ASSUME TypeOK, CursorInv, NEW from, NEW to, Goto(from, to), InPutchar, InPutchar',
         UNCHANGED <<cursor, handler>>,
         Safe(from, Col, Row) => Safe(to, Col, Row),
         Placed => Fits(to, Col, Row) /\ ~outside'
  PROVE  CursorInv'
<1>1. Col' = Col /\ Row' = Row /\ UNCHANGED <<term_col, term_row, build>>
  BY CursorKept
<1>2. Safe(to, Col', Row') /\ (Placed => Fits(to, Col', Row') /\ ~outside')
  BY <1>1 DEF Goto, CursorInv
<1>3. build = "memory" => term_col = Col /\ term_row = Row
  BY DEF Col, Row
<1>4. build \in {"memory", "register"}
  BY DEF TypeOK
<1>5. \/ build = "register" /\ UNCHANGED <<term_col, term_row>>
      \/ term_col' = Col' /\ term_row' = Row' /\ build' = "memory"
  BY <1>1, <1>3, <1>4
<1>. QED
  BY <1>2, <1>5, CursorStepKept

LEMMA CursorPutchar ==
  ASSUME TypeOK, CursorInv, term_putchar
  PROVE  CursorInv'
<1>. Width \in Nat \ {0} /\ Height \in Nat \ {0, 1}
  BY TerminalAssumption
<1>. Col \in Int /\ Row \in Int
  BY ColRowType
<1>0. Safe(pc, Col, Row) /\ (InPutchar /\ Placed => Fits(pc, Col, Row) /\ ~outside)
  BY DEF CursorInv, Placed
<1>. USE DEF InPutchar
<1>1. CASE CarriageReturn
  <2>1. /\ Goto("plain", "show") /\ Move(0, Row) /\ UNCHANGED others
        /\ InPutchar /\ InPutchar'
    BY <1>1 DEF CarriageReturn, Goto
  <2>2. Safe("plain", Col, Row) => Safe("show", 0, Row)
    BY DEF Safe
  <2>3. Safe("plain", Col, Row) /\ Fits("plain", Col, Row) => Fits("show", 0, Row)
    BY DEF Safe, Fits, Below, Inside
  <2>4. 0 \in Int /\ Row \in Int
    OBVIOUS
  <2>. QED BY <2>1, <2>2, <2>3, <2>4, CursorMoves
<1>2. CASE Back
  <2>1. /\ Goto("back", "erase") /\ Move(Col - 1, Row) /\ UNCHANGED others
        /\ InPutchar /\ InPutchar'
    BY <1>2 DEF Back, Goto
  <2>2. Safe("back", Col, Row) => Safe("erase", Col - 1, Row)
    BY DEF Safe
  <2>3. Safe("back", Col, Row) /\ Fits("back", Col, Row) => Fits("erase", Col - 1, Row)
    BY DEF Safe, Fits, Below, Inside
  <2>4. Col - 1 \in Int /\ Row \in Int
    OBVIOUS
  <2>. QED BY <2>1, <2>2, <2>3, <2>4, CursorMoves
<1>3. CASE Newline
  <2>1. /\ Goto("plain", "newline feed") /\ Move(0, Row) /\ UNCHANGED others
        /\ InPutchar /\ InPutchar'
    BY <1>3 DEF Newline, Goto
  <2>2. Safe("plain", Col, Row) => Safe("newline feed", 0, Row)
    BY DEF Safe
  <2>3. Safe("plain", Col, Row) /\ Fits("plain", Col, Row) => Fits("newline feed", 0, Row)
    BY DEF Safe, Fits, Below, Inside
  <2>4. 0 \in Int /\ Row \in Int
    OBVIOUS
  <2>. QED BY <2>1, <2>2, <2>3, <2>4, CursorMoves
<1>4. CASE NewlineFeed
  <2>1. /\ Goto("newline feed", "wrap") /\ Move(Col, Row + 1) /\ UNCHANGED others
        /\ InPutchar /\ InPutchar'
    BY <1>4 DEF NewlineFeed, Goto
  <2>2. Safe("newline feed", Col, Row) => Safe("wrap", Col, Row + 1)
    BY DEF Safe
  <2>3. Safe("newline feed", Col, Row) /\ Fits("newline feed", Col, Row) => Fits("wrap", Col, Row + 1)
    BY DEF Safe, Fits, Below, Inside
  <2>4. Col \in Int /\ Row + 1 \in Int
    OBVIOUS
  <2>. QED BY <2>1, <2>2, <2>3, <2>4, CursorMoves
<1>5. CASE WrapReturn
  <2>1. /\ Goto("wrap return", "wrap feed") /\ Move(0, Row) /\ UNCHANGED others
        /\ InPutchar /\ InPutchar'
    BY <1>5 DEF WrapReturn, Goto
  <2>2. Safe("wrap return", Col, Row) => Safe("wrap feed", 0, Row)
    BY DEF Safe
  <2>3. Safe("wrap return", Col, Row) /\ Fits("wrap return", Col, Row) => Fits("wrap feed", 0, Row)
    BY DEF Safe, Fits, Below, Inside
  <2>4. 0 \in Int /\ Row \in Int
    OBVIOUS
  <2>. QED BY <2>1, <2>2, <2>3, <2>4, CursorMoves
<1>6. CASE WrapFeed
  <2>1. /\ Goto("wrap feed", "scroll") /\ Move(Col, Row + 1) /\ UNCHANGED others
        /\ InPutchar /\ InPutchar'
    BY <1>6 DEF WrapFeed, Goto
  <2>2. Safe("wrap feed", Col, Row) => Safe("scroll", Col, Row + 1)
    BY DEF Safe
  <2>3. Safe("wrap feed", Col, Row) /\ Fits("wrap feed", Col, Row) => Fits("scroll", Col, Row + 1)
    BY DEF Safe, Fits, Below, Inside
  <2>4. Col \in Int /\ Row + 1 \in Int
    OBVIOUS
  <2>. QED BY <2>1, <2>2, <2>3, <2>4, CursorMoves
<1>7. CASE RowUp
  <2>1. /\ Goto("row up", "clear") /\ Move(Col, Row - 1) /\ UNCHANGED others
        /\ InPutchar /\ InPutchar'
    BY <1>7 DEF RowUp, Goto
  <2>2. Safe("row up", Col, Row) => Safe("clear", Col, Row - 1)
    BY DEF Safe
  <2>3. Safe("row up", Col, Row) /\ Fits("row up", Col, Row) => Fits("clear", Col, Row - 1)
    BY DEF Safe, Fits, Below, Inside
  <2>4. Col \in Int /\ Row - 1 \in Int
    OBVIOUS
  <2>. QED BY <2>1, <2>2, <2>3, <2>4, CursorMoves
<1>8. CASE Advance
  <2>1. /\ Goto("advance", "show") /\ Move(Col + 1, Row) /\ UNCHANGED others
        /\ InPutchar /\ InPutchar'
    BY <1>8 DEF Advance, Goto
  <2>2. Safe("advance", Col, Row) => Safe("show", Col + 1, Row)
    BY DEF Safe
  <2>3. Safe("advance", Col, Row) /\ Fits("advance", Col, Row) => Fits("show", Col + 1, Row)
    BY DEF Safe, Fits, Below, Inside
  <2>4. Col + 1 \in Int /\ Row \in Int
    OBVIOUS
  <2>. QED BY <2>1, <2>2, <2>3, <2>4, CursorMoves
<1>9. CASE Backspace
  <2>1. /\ pc = "plain" /\ UNCHANGED <<cursor, handler, outside>> /\ InPutchar /\ InPutchar'
        /\ \/ Goto("plain", "back") /\ Erasable(Col)
           \/ Goto("plain", "show") /\ ~Erasable(Col)
    BY <1>9 DEF Backspace, Goto, others, screen
  <2>2. CASE Goto("plain", "back") /\ Erasable(Col)
    <3>1. Safe("plain", Col, Row) /\ Fits("plain", Col, Row) => Fits("back", Col, Row)
      BY <2>2 DEF Safe, Fits, Below, Inside, Erasable
    <3>2. Safe("plain", Col, Row) => Safe("back", Col, Row)
      BY <2>2 DEF Safe, Erasable
    <3>. QED BY <1>0, <2>1, <2>2, <3>1, <3>2, CursorStays
  <2>3. CASE Goto("plain", "show") /\ ~Erasable(Col)
    <3>1. Safe("plain", Col, Row) /\ Fits("plain", Col, Row) => Fits("show", Col, Row)
      BY <2>3 DEF Safe, Fits, Below, Inside, Erasable
    <3>2. Safe("plain", Col, Row) => Safe("show", Col, Row)
      BY <2>3 DEF Safe, Erasable
    <3>. QED BY <1>0, <2>1, <2>3, <3>1, <3>2, CursorStays
  <2>. QED BY <2>1, <2>2, <2>3
<1>10. CASE Plain
  <2>1. /\ Goto("plain", "wrap") /\ UNCHANGED <<cursor, handler, outside>>
        /\ InPutchar /\ InPutchar'
    BY <1>10 DEF Plain, Goto, others, screen
  <2>2. Safe("plain", Col, Row) => Safe("wrap", Col, Row)
    BY DEF Safe
  <2>3. Fits("plain", Col, Row) => Fits("wrap", Col, Row)
    BY DEF Fits, Below, Inside
  <2>. QED BY <1>0, <2>1, <2>2, <2>3, CursorStays DEF Goto
<1>11. CASE Wrap
  <2>1. /\ pc = "wrap" /\ UNCHANGED <<cursor, handler, outside>> /\ InPutchar /\ InPutchar'
        /\ \/ Goto("wrap", "wrap return") /\ Edge(Col)
           \/ Goto("wrap", "scroll") /\ ~Edge(Col)
    BY <1>11 DEF Wrap, Goto, others, screen
  <2>2. CASE Goto("wrap", "wrap return") /\ Edge(Col)
    <3>1. ASSUME Fits("wrap", Col, Row) PROVE Fits("wrap return", Col, Row)
      <4>1. Col = Width /\ Row <= Height /\ (Row = Height => Col = 0)
        BY <2>2, <3>1 DEF Fits, Edge
      <4>2. Row < Height
        BY <4>1
      <4>. QED BY <4>1, <4>2 DEF Fits, Below, Inside
    <3>2. Safe("wrap", Col, Row) => Safe("wrap return", Col, Row)
      BY <2>2 DEF Safe, Edge
    <3>. QED BY <1>0, <2>1, <2>2, <3>1, <3>2, CursorStays
  <2>3. CASE Goto("wrap", "scroll") /\ ~Edge(Col)
    <3>1. Safe("wrap", Col, Row) /\ Fits("wrap", Col, Row) => Fits("scroll", Col, Row)
      BY <2>3 DEF Safe, Fits, Below, Inside, Edge
    <3>2. Safe("wrap", Col, Row) => Safe("scroll", Col, Row)
      BY <2>3 DEF Safe, Edge
    <3>. QED BY <1>0, <2>1, <2>3, <3>1, <3>2, CursorStays
  <2>. QED BY <2>1, <2>2, <2>3
<1>12. CASE Scroll
  <2>1. /\ pc = "scroll" /\ UNCHANGED <<cursor, handler, outside>> /\ InPutchar /\ InPutchar'
        /\ \/ Goto("scroll", "shift") /\ Bottom(Row)
           \/ Goto("scroll", "write") /\ ~Bottom(Row)
    BY <1>12 DEF Scroll, Goto, others, screen
  <2>2. CASE Goto("scroll", "shift") /\ Bottom(Row)
    <3>1. Safe("scroll", Col, Row) /\ Fits("scroll", Col, Row) => Fits("shift", Col, Row)
      BY <2>2 DEF Safe, Fits, Below, Inside, Bottom
    <3>2. Safe("scroll", Col, Row) => Safe("shift", Col, Row)
      BY <2>2 DEF Safe, Bottom
    <3>. QED BY <1>0, <2>1, <2>2, <3>1, <3>2, CursorStays
  <2>3. CASE Goto("scroll", "write") /\ ~Bottom(Row)
    <3>1. Safe("scroll", Col, Row) /\ Fits("scroll", Col, Row) => Fits("write", Col, Row)
      BY <2>3 DEF Safe, Fits, Below, Inside, Bottom
    <3>2. Safe("scroll", Col, Row) => Safe("write", Col, Row)
      BY <2>3 DEF Safe, Bottom
    <3>. QED BY <1>0, <2>1, <2>3, <3>1, <3>2, CursorStays
  <2>. QED BY <2>1, <2>2, <2>3
<1>13. CASE WriteNothing
  <2>1. /\ Goto("write", "show") /\ UNCHANGED <<cursor, handler, outside>>
        /\ InPutchar /\ InPutchar'
    BY <1>13 DEF WriteNothing, Goto, others, screen
  <2>2. Safe("write", Col, Row) => Safe("show", Col, Row)
    BY DEF Safe
  <2>3. Fits("write", Col, Row) => Fits("show", Col, Row)
    BY DEF Fits, Below, Inside
  <2>. QED BY <1>0, <2>1, <2>2, <2>3, CursorStays DEF Goto
<1>14. CASE Erase
  <2>1. /\ Goto("erase", "show") /\ UNCHANGED <<cursor, handler>> /\ InPutchar /\ InPutchar'
        /\ outside' = (outside \/ Row * Width + Col \notin Cell)
    BY <1>14 DEF Erase, Write, Goto
  <2>2. Safe("erase", Col, Row) => Safe("show", Col, Row)
    BY DEF Safe
  <2>3. ASSUME Placed PROVE Fits("show", Col, Row) /\ ~outside'
    <3>1. Fits("erase", Col, Row) /\ Safe("erase", Col, Row) /\ ~outside
      BY <1>0, <2>1, <2>3 DEF Goto
    <3>2. Fits("show", Col, Row)
      BY <3>1 DEF Fits, Below, Inside
    <3>3. Col \in 0 .. Width - 1 /\ Row \in 0 .. Height - 1
      BY <3>1 DEF Fits, Safe, Below, Inside
    <3>4. Row * Width + Col \in Cell
      BY <3>3, OnScreen
    <3>. QED BY <2>1, <3>1, <3>2, <3>4
  <2>. QED BY <2>1, <2>2, <2>3, CursorStays
<1>15. CASE WriteChar
  <2>1. /\ Goto("write", "advance") /\ UNCHANGED <<cursor, handler>> /\ InPutchar /\ InPutchar'
        /\ outside' = (outside \/ Col + Row * Width \notin Cell)
    BY <1>15 DEF WriteChar, Write, Goto
  <2>2. Safe("write", Col, Row) => Safe("advance", Col, Row)
    BY DEF Safe
  <2>3. ASSUME Placed PROVE Fits("advance", Col, Row) /\ ~outside'
    <3>1. Fits("write", Col, Row) /\ Safe("write", Col, Row) /\ ~outside
      BY <1>0, <2>1, <2>3 DEF Goto
    <3>2. Fits("advance", Col, Row)
      BY <3>1 DEF Fits, Below, Inside
    <3>3. Col \in 0 .. Width - 1 /\ Row \in 0 .. Height - 1
      BY <3>1 DEF Fits, Safe, Below, Inside
    <3>4. Col + Row * Width \in Cell
      BY <3>3, OnScreen
    <3>. QED BY <2>1, <3>1, <3>2, <3>4
  <2>. QED BY <2>1, <2>2, <2>3, CursorStays
<1>16. CASE ClearRow
  <2>1. /\ Goto("clear", "write") /\ UNCHANGED <<cursor, handler>> /\ InPutchar /\ InPutchar'
        /\ outside' = (outside \/ Row >= Height)
    BY <1>16 DEF ClearRow, Goto
  <2>2. Safe("clear", Col, Row) => Safe("write", Col, Row)
    BY DEF Safe
  <2>3. ASSUME Placed PROVE Fits("write", Col, Row) /\ ~outside'
    <3>1. Fits("clear", Col, Row) /\ ~outside
      BY <1>0, <2>1, <2>3 DEF Goto
    <3>2. Fits("write", Col, Row)
      BY <3>1 DEF Fits, Below, Inside
    <3>3. ~(Row >= Height)
      BY <3>1 DEF Fits, Below
    <3>. QED BY <2>1, <3>1, <3>2, <3>3
  <2>. QED BY <2>1, <2>2, <2>3, CursorStays
<1>17. CASE Shift
  <2>1. /\ Goto("shift", "row up") /\ UNCHANGED <<handler, outside>> /\ InPutchar /\ InPutchar'
        /\ term_col' = Col /\ term_row' = Row /\ build' = "memory"
    BY <1>17 DEF Shift, Goto
  <2>2. Col' = Col /\ Row' = Row
    BY <2>1 DEF Col, Row
  <2>3. Safe("row up", Col', Row')
    BY <1>0, <2>1, <2>2 DEF Safe, Goto
  <2>4. Fits("shift", Col, Row) => Fits("row up", Col', Row')
    BY <2>2 DEF Fits, Below, Inside
  <2>5. Placed => Fits("row up", Col', Row') /\ ~outside'
    BY <1>0, <2>1, <2>4 DEF Goto
  <2>. QED BY <2>1, <2>2, <2>3, <2>5, CursorStepKept
<1>18. CASE Show
  <2>1. /\ Goto("show", "low index") /\ UNCHANGED <<handler, outside, build, reg>>
        /\ InPutchar /\ InPutchar' /\ term_col' = Col /\ term_row' = Row
    BY <1>18 DEF Show, Goto, screen
  <2>2. Col' = Col /\ Row' = Row
    BY <2>1 DEF Col, Row
  <2>3. Safe("low index", Col', Row')
    BY <1>0, <2>1, <2>2 DEF Safe, Goto
  <2>4. Fits("show", Col, Row) => Fits("low index", Col', Row')
    BY <2>2 DEF Fits, Below, Inside
  <2>5. Placed => Fits("low index", Col', Row') /\ ~outside'
    BY <1>0, <2>1, <2>4 DEF Goto
  <2>. QED BY <2>1, <2>2, <2>3, <2>5, CursorStepKept
<1>19. CASE \/ Goto("low index", "low data") /\ Address("low")
            \/ Goto("low data", "high index") /\ Data(pos)
            \/ Goto("high index", "high data") /\ Address("high")
  <2>1. UNCHANGED <<cursor, handler, outside>>
    BY <1>19 DEF Address, Data, screen
  <2> DEFINE Sending == {"low index", "low data", "high index", "high data"}
  <2>2. ASSUME NEW from \in Sending, NEW to \in Sending, Goto(from, to)
        PROVE  CursorInv'
    <3>1. InPutchar /\ InPutchar'
      BY <2>2 DEF Goto
    <3>2. Safe(from, Col, Row) => Safe(to, Col, Row)
      BY DEF Safe
    <3>3. Fits(from, Col, Row) => Fits(to, Col, Row)
      BY DEF Fits, Below, Inside
    <3>. QED BY <1>0, <2>1, <2>2, <3>1, <3>2, <3>3, CursorStays DEF Goto
  <2>. QED BY <1>19, <2>2
<1>20. CASE Goto("high data", "loop") /\ Data(pos \div Byte)
  <2>1. /\ pc = "high data" /\ pc' = "loop" /\ left' = <<>>
        /\ UNCHANGED <<cursor, handler, outside>> /\ InPutchar /\ ~InPutchar'
    BY <1>20 DEF Goto, Data, screen, handler
  <2>2. Col' = Col /\ Row' = Row /\ UNCHANGED <<term_col, term_row, torn>>
    BY <2>1, CursorKept DEF handler
  <2>3. Safe(pc', Col', Row')
    BY <1>0, <2>1, <2>2 DEF Safe
  <2>4. ASSUME ~torn' PROVE Placed'
    <3>1. Placed
      BY <2>2, <2>4 DEF CursorInv
    <3>2. term_col <= Width /\ term_row < Height
      <4>1. CASE build = "register"
        BY <3>1, <4>1 DEF Placed
      <4>2. CASE build = "memory"
        <5>1. term_col = Col /\ term_row = Row
          BY <4>2 DEF Col, Row
        <5>. QED BY <1>0, <2>1, <3>1, <5>1 DEF Fits, Below
      <4>. QED BY <4>1, <4>2 DEF TypeOK
    <3>. QED BY <2>1, <2>2, <3>1, <3>2 DEF Placed
  <2>. QED BY <2>2, <2>3, <2>4 DEF CursorInv
<1>. QED
  BY <1>1, <1>2, <1>3, <1>4, <1>5, <1>6, <1>7, <1>8, <1>9, <1>10, <1>11, <1>12, <1>13,
     <1>14, <1>15, <1>16, <1>17, <1>18, <1>19, <1>20
  DEF term_putchar, term_update_cursor

LEMMA CursorNext == TypeOK /\ CursorInv /\ [Next]_vars => CursorInv'
<1> SUFFICES ASSUME TypeOK, CursorInv, [Next]_vars PROVE CursorInv'
  OBVIOUS
<1>1. CASE BufferFull \/ WarnPutchar
  BY <1>1, CursorWarn
<1>2. CASE \/ \E file_descriptor, chars : SYS_write(file_descriptor, chars)
           \/ \E how : NextChar(how)
           \/ Written
  BY <1>2, CursorWrite
<1>3. CASE term_putchar
  BY <1>3, CursorPutchar
<1>4. CASE UNCHANGED vars
  <2>1. /\ UNCHANGED <<cursor, pc, left, torn, outside>>
    BY <1>4 DEF vars, handler, screen
  <2>2. Col' = Col /\ Row' = Row /\ UNCHANGED <<term_col, term_row, build>>
    BY <2>1, CursorKept
  <2>. QED BY <2>1, <2>2 DEF CursorInv, Placed, InPutchar
<1>. QED BY <1>1, <1>2, <1>3, <1>4 DEF Next

LEMMA CursorAlways == Spec => [](TypeOK /\ CursorInv)
<1>1. TypeOK /\ Printing /\ CursorInv /\ [Next]_vars => (TypeOK /\ Printing /\ CursorInv)'
  BY TypeNext, PrintingNext, CursorNext
<1>. QED
  BY <1>1, TypeInit, CursorInit, PTL DEF Spec

\* Wherever the handler breaks into term_putchar, the unsigned cursor is not
\* decremented below zero.
THEOREM CursorNeverUnderflows == Spec => []NoUnderflow
<1>1. CursorInv => NoUnderflow
  BY DEF CursorInv, Safe, NoUnderflow
<1>. QED
  BY <1>1, CursorAlways, PTL

\* While no handler has broken into term_putchar, all that is printed is
\* written on the screen, for a screen of any size and any text.
THEOREM TextStaysOnScreen == Spec => []StaysOnScreen
<1>1. TypeOK /\ CursorInv => StaysOnScreen
  <2> SUFFICES ASSUME TypeOK, CursorInv, ~torn
               PROVE  ~outside /\ term_col <= Width /\ term_row <= Height
    BY DEF StaysOnScreen
  <2>1. Placed
    BY DEF CursorInv
  <2>2. CASE ~InPutchar \/ build = "register"
    <3>1. term_col <= Width /\ term_row < Height /\ ~outside
      BY <2>1, <2>2 DEF Placed
    <3>. QED BY <3>1, TerminalAssumption DEF TypeOK
  <2>3. CASE InPutchar /\ build = "memory"
    <3>1. Fits(pc, term_col, term_row) /\ ~outside
      BY <2>1, <2>3 DEF Placed, Col, Row
    <3>. QED BY <3>1 DEF Fits
  <2>. QED BY <2>2, <2>3 DEF TypeOK
<1>. QED
  BY <1>1, CursorAlways, PTL

-----------------------------------------------------------------------------
(* The cursor that is displayed                                            *)

\* A position on the screen, or the one behind it, has two bytes.
LEMMA TwoBytes ==
  ASSUME NEW col \in 0 .. Width, NEW row \in 0 .. Height - 1,
         NEW n \in Int, n = row * Width + col
  PROVE  Byte * ((n \div Byte) % Byte) + (n % Byte) = n
<1> DEFINE q == n \div Byte
           r == n % Byte
<1>1. /\ Width \in Nat \ {0} /\ Height \in Nat \ {0} /\ Byte \in Nat \ {0}
      /\ Width * Height < Byte * Byte /\ Width * Height \in Int /\ Byte * Byte \in Int
  BY TerminalAssumption
<1>2. 0 <= n /\ n < Byte * Byte
  <2>1. row * Width \in Nat
    BY <1>1
  <2>2. (Width - 1) + row * Width <= Width * Height - 1
    BY <1>1, OnScreen DEF Cell
  <2> QED BY <1>1, <2>1, <2>2
<1>3. q \in Int /\ r \in 0 .. Byte - 1 /\ n = Byte * q + r
  BY <1>1, DivMod
<1> HIDE DEF q, r
<1>4. q >= 0
  <2>1. SUFFICES ASSUME 0 - q >= 1 PROVE FALSE
    BY <1>3
  <2>2. Byte * (0 - q) >= Byte
    BY <1>1, <1>3, <2>1, Times
  <2>3. Byte * (0 - q) = Byte * 0 - Byte * q /\ Byte * q \in Int
    BY <1>1, <1>3, TimesMinus
  <2> QED BY <1>1, <1>2, <1>3, <2>2, <2>3
<1>5. q <= Byte - 1
  <2>1. SUFFICES ASSUME (q - Byte) + 1 >= 1 PROVE FALSE
    BY <1>1, <1>3
  <2>2. Byte * ((q - Byte) + 1) >= Byte
    BY <1>1, <1>3, <2>1, Times
  <2>3. Byte * (q - Byte) = Byte * q - Byte * Byte /\ Byte * q \in Int
    BY <1>1, <1>3, TimesMinus
  <2>4. Byte * ((q - Byte) + 1) = Byte * (q - Byte) + Byte * 1
    BY <1>1, <1>3, TimesPlus
  <2> QED BY <1>1, <1>2, <1>3, <2>2, <2>3, <2>4
<1>6. q % Byte = q
  BY <1>1, <1>3, <1>4, <1>5, ModSmall
<1> QED BY <1>3, <1>6 DEF q, r

\* What the display has been told, half by half.
Sending == {"low index", "low data", "high index", "high data"}

Told ==
  /\ pc \in {"user", "loop"} => Byte * crtc.high + crtc.low = term_row * Width + term_col
  /\ pc \in Sending => pos = term_row * Width + term_col
  /\ pc = "low data" => crtc.index = "low"
  /\ pc \in {"high index", "high data"} => crtc.low = pos % Byte
  /\ pc = "high data" => crtc.index = "high"

DisplayInv == torn \/ Told

\* The cursor in memory is on the screen where it is sent.
LEMMA CursorFits ==
  ASSUME TypeOK, CursorInv, ~torn, pc \notin Below
  PROVE  term_col \in 0 .. Width /\ term_row \in 0 .. Height - 1
<1>1. Placed /\ term_col \in Int /\ term_row \in Int /\ term_col >= 0 /\ term_row >= 0
      /\ build \in {"memory", "register"}
  BY DEF CursorInv, TypeOK
<1>2. Width \in Nat /\ Height \in Nat
  BY TerminalAssumption
<1>3. CASE ~InPutchar \/ build = "register"
  BY <1>1, <1>2, <1>3 DEF Placed
<1>4. CASE InPutchar /\ build = "memory"
  <2>1. Fits(pc, term_col, term_row)
    BY <1>1, <1>4 DEF Placed, Col, Row
  <2>2. term_col <= Width /\ (pc \notin Below => term_row < Height)
    BY <2>1 DEF Fits
  <2>3. term_row < Height
    BY <2>2
  <2> QED BY <1>1, <1>2, <2>2, <2>3
<1> QED BY <1>1, <1>3, <1>4

LEMMA TerminalNumbers ==
  ASSUME TypeOK
  PROVE  /\ Width \in Int /\ Byte \in Nat \ {0} /\ term_col \in Int /\ term_row \in Int /\ pos \in Int
         /\ term_row * Width \in Int /\ term_row * Width + term_col \in Int
         /\ crtc \in [index : {"low", "high"}, low : 0 .. Byte - 1, high : 0 .. Byte - 1]
  BY TerminalAssumption DEF TypeOK

LEMMA DisplayInit == Init => DisplayInv
<1> SUFFICES ASSUME Init PROVE Told
  BY DEF DisplayInv
<1>1. /\ pc = "user" /\ crtc.high = 0 /\ crtc.low = 0 /\ term_row = 0 /\ term_col = 0
      /\ Width \in Nat /\ Byte \in Nat
  BY TerminalAssumption DEF Init
<1>2. Byte * 0 + 0 = 0 * Width + 0
  BY <1>1
<1> QED BY <1>1, <1>2 DEF Told, Sending

LEMMA DisplayWarn ==
  ASSUME TypeOK, CursorInv, TypeOK', CursorInv', ~torn, ~torn', Told, WarnPutchar
  PROVE  Told'
<1>1. left # <<>> /\ pc' = pc
  BY DEF WarnPutchar
<1>2. pc \in {"user", "loop"}
  BY <1>1 DEF CursorInv, Placed, InPutchar
<1> DEFINE index == (IF Edge(term_col) THEN 0 ELSE term_col) + term_row' * Width
           at == index + 1
<1>3. /\ crtc' = [index |-> "high", low |-> at % Byte, high |-> (at \div Byte) % Byte]
      /\ term_col' = IF Edge(term_col) THEN 1 ELSE term_col + 1
  BY DEF WarnPutchar
<1>4. term_col' \in 0 .. Width /\ term_row' \in 0 .. Height - 1
  <2>1. pc' \notin Below
    BY <1>1, <1>2 DEF Below
  <2>2. Placed' /\ ~InPutchar' /\ term_col' \in Int /\ term_row' \in Int /\ term_col' >= 0 /\ term_row' >= 0
    BY <1>1, <1>2 DEF CursorInv, InPutchar, TypeOK
  <2>3. Width \in Nat /\ Height \in Nat
    BY TerminalAssumption
  <2> QED BY <2>2, <2>3 DEF Placed
<1>5. at = term_row' * Width + term_col' /\ at \in Int
  <2>1. term_row' * Width \in Int /\ term_col \in Int /\ term_col' \in Int
    <3>1. Width \in Int /\ term_row' \in Int
      BY TerminalAssumption DEF TypeOK
    <3> QED BY <3>1 DEF TypeOK
  <2> QED BY <1>3, <2>1
<1> HIDE DEF at
<1>6. Byte * ((at \div Byte) % Byte) + (at % Byte) = at
  BY <1>4, <1>5, TwoBytes
<1>7. Byte * crtc'.high + crtc'.low = term_row' * Width + term_col'
  BY <1>3, <1>5, <1>6
<1> QED BY <1>1, <1>2, <1>7 DEF Told, Sending

LEMMA DisplayCursor ==
  ASSUME TypeOK, CursorInv, ~torn, Told, term_update_cursor
  PROVE  Told'
<1>0. /\ Width \in Int /\ Byte \in Nat \ {0} /\ term_col \in Int /\ term_row \in Int /\ pos \in Int
      /\ term_row * Width \in Int
      /\ crtc \in [index : {"low", "high"}, low : 0 .. Byte - 1, high : 0 .. Byte - 1]
  BY TerminalNumbers
<1>1. CASE Show
  <2>1. pc' = "low index" /\ pos' = term_row' * Width + term_col'
    BY <1>1 DEF Show, Goto, Position
  <2> QED BY <2>1 DEF Told, Sending
<1>2. CASE Goto("low index", "low data") /\ Address("low")
  <2>1. pc = "low index" /\ pc' = "low data" /\ crtc'.index = "low" /\ UNCHANGED <<pos, term_col, term_row>>
    BY <1>0, <1>2 DEF Goto, Address, cursor
  <2> QED BY <2>1 DEF Told, Sending
<1>3. CASE Goto("low data", "high index") /\ Data(pos)
  <2>1. pc = "low data" /\ pc' = "high index" /\ UNCHANGED <<pos, term_col, term_row>>
    BY <1>3 DEF Goto, Data, cursor
  <2>2. crtc' = [crtc EXCEPT !.low = pos % Byte]
    BY <1>3, <2>1 DEF Data, Told
  <2>3. crtc'.low = pos % Byte
    BY <1>0, <2>2
  <2> QED BY <2>1, <2>3 DEF Told, Sending
<1>4. CASE Goto("high index", "high data") /\ Address("high")
  <2>1. /\ pc = "high index" /\ pc' = "high data" /\ crtc'.index = "high" /\ crtc'.low = crtc.low
        /\ UNCHANGED <<pos, term_col, term_row>>
    BY <1>0, <1>4 DEF Goto, Address, cursor
  <2> QED BY <2>1 DEF Told, Sending
<1>5. CASE Goto("high data", "loop") /\ Data(pos \div Byte)
  <2>1. pc = "high data" /\ pc' = "loop" /\ UNCHANGED <<pos, term_col, term_row>>
    BY <1>5 DEF Goto, Data, cursor
  <2>2. crtc.index = "high" /\ crtc.low = pos % Byte /\ pos = term_row * Width + term_col
    BY <2>1 DEF Told, Sending
  <2>3. crtc' = [crtc EXCEPT !.high = (pos \div Byte) % Byte]
    BY <1>5, <2>2 DEF Data
  <2>4. crtc'.high = (pos \div Byte) % Byte /\ crtc'.low = pos % Byte
    BY <1>0, <2>2, <2>3
  <2>5. term_col \in 0 .. Width /\ term_row \in 0 .. Height - 1
    BY <2>1, CursorFits DEF Below
  <2>6. Byte * ((pos \div Byte) % Byte) + (pos % Byte) = pos
    BY <1>0, <2>2, <2>5, TwoBytes
  <2>7. Byte * crtc'.high + crtc'.low = term_row' * Width + term_col'
    BY <2>1, <2>2, <2>4, <2>6
  <2> QED BY <2>1, <2>7 DEF Told, Sending
<1> QED BY <1>1, <1>2, <1>3, <1>4, <1>5 DEF term_update_cursor

LEMMA DisplayNext ==
  ASSUME TypeOK, CursorInv, TypeOK', CursorInv', DisplayInv, [Next]_vars
  PROVE  DisplayInv'
<1> SUFFICES ASSUME ~torn' PROVE Told'
  BY DEF DisplayInv
<1>1. ~torn
  <2>1. torn' = torn \/ BufferFull
    BY DEF Next, WarnPutchar, SYS_write, NextChar, Written, term_putchar, CarriageReturn, Backspace, Back,
       Erase, Newline, NewlineFeed, Plain, Wrap, WrapReturn, WrapFeed, Scroll, Shift, RowUp, ClearRow,
       WriteChar, WriteNothing, Advance, term_update_cursor, Show, Address, Data, others, handler, vars
  <2>2. BufferFull => torn' = (torn \/ InPutchar)
    BY DEF BufferFull
  <2> QED BY <2>1, <2>2 DEF TypeOK
<1>2. Told
  BY <1>1 DEF DisplayInv
<1>3. CASE BufferFull \/ Written \/ UNCHANGED vars
           \/ \E file_descriptor \in 0 .. 2, chars \in BoundedSeq(Char, MaxLength) :
                SYS_write(file_descriptor, chars)
  <2>1. UNCHANGED <<crtc, pos, term_col, term_row>>
    BY <1>3 DEF BufferFull, Written, SYS_write, vars, display, cursor
  <2>2. pc' = pc \/ (pc \in {"user", "loop"} /\ pc' \in {"user", "loop"})
    BY <1>3 DEF BufferFull, Written, SYS_write, Goto, vars
  <2> QED BY <1>2, <2>1, <2>2 DEF Told, Sending
<1>4. CASE WarnPutchar
  BY <1>1, <1>2, <1>4, DisplayWarn
<1>5. CASE \E how \in Builds : NextChar(how)
  <2>1. pc' = "plain"
    BY <1>5 DEF NextChar, Goto
  <2> QED BY <2>1 DEF Told, Sending
<1>6. CASE term_putchar /\ ~term_update_cursor
  <2>1. pc' \in {"show", "back", "erase", "newline feed", "wrap", "wrap return", "scroll", "wrap feed",
                 "shift", "write", "row up", "clear", "advance"}
    BY <1>6 DEF term_putchar, CarriageReturn, Backspace, Back, Erase, Newline, NewlineFeed, Plain, Wrap,
       WrapReturn, WrapFeed, Scroll, Shift, RowUp, ClearRow, WriteChar, WriteNothing, Advance, Goto
  <2> QED BY <2>1 DEF Told, Sending
<1>7. CASE term_update_cursor
  BY <1>1, <1>2, <1>7, DisplayCursor
<1> QED BY <1>3, <1>4, <1>5, <1>6, <1>7 DEF Next, term_putchar

\* Between two characters that nothing broke into, the display's cursor is where
\* the next one will go, on a screen of any size whose positions have two bytes.
THEOREM CursorIsShown == Spec => []CursorShown
<1>1. DisplayInv => CursorShown
  BY DEF DisplayInv, Told, CursorShown, AtRest
<1>2. /\ TypeOK /\ CursorInv /\ (TypeOK /\ CursorInv)' /\ DisplayInv /\ [Next]_vars
      => DisplayInv'
  BY DisplayNext
<1> QED BY <1>1, <1>2, DisplayInit, CursorAlways, PTL DEF Spec
-----------------------------------------------------------------------------
(* Cells                                                                   *)

\* A cell has a row and a column.
LEMMA CellPlace ==
  ASSUME NEW n \in Cell
  PROVE  /\ n \div Width \in 0 .. Height - 1 /\ n % Width \in 0 .. Width - 1
         /\ n = (n % Width) + (n \div Width) * Width /\ n \in Nat
<1> DEFINE q == n \div Width
           r == n % Width
<1>1. Width \in Nat \ {0} /\ Height \in Nat \ {0} /\ n \in Nat /\ Width * Height \in Nat /\ n < Width * Height
  BY TerminalAssumption DEF Cell
<1>2. q \in Int /\ r \in 0 .. Width - 1 /\ n = Width * q + r
  BY <1>1, DivMod
<1> HIDE DEF q, r
<1>3. q >= 0
  <2>1. SUFFICES ASSUME 0 - q >= 1 PROVE FALSE
    BY <1>2
  <2>2. Width * (0 - q) >= Width
    BY <1>1, <1>2, <2>1, Times
  <2>3. Width * (0 - q) = Width * 0 - Width * q /\ Width * q \in Int
    BY <1>1, <1>2, TimesMinus
  <2> QED BY <1>1, <1>2, <2>2, <2>3
<1>4. q <= Height - 1
  <2>1. SUFFICES ASSUME (q - Height) + 1 >= 1 PROVE FALSE
    BY <1>1, <1>2
  <2>2. Width * ((q - Height) + 1) >= Width
    BY <1>1, <1>2, <2>1, Times
  <2>3. Width * (q - Height) = Width * q - Width * Height /\ Width * q \in Int
    BY <1>1, <1>2, TimesMinus
  <2>4. Width * ((q - Height) + 1) = Width * (q - Height) + Width * 1
    BY <1>1, <1>2, TimesPlus
  <2> QED BY <1>1, <1>2, <2>2, <2>3, <2>4
<1>5. Width * q = q * Width /\ Width * q \in Int
  BY <1>1, <1>2
<1>6. q \in 0 .. Height - 1 /\ r \in 0 .. Width - 1 /\ n = r + q * Width
  BY <1>1, <1>2, <1>3, <1>4, <1>5
<1> QED BY <1>1, <1>6 DEF q, r

LEMMA PlaceCell ==
  ASSUME NEW col \in 0 .. Width - 1, NEW row \in Int, NEW n \in Int, n = col + row * Width
  PROVE  n \div Width = row /\ n % Width = col
<1>1. Width \in Nat \ {0} /\ row * Width = Width * row /\ Width * row \in Int
  BY TerminalAssumption
<1>2. n = Width * row + col
  BY <1>1
<1> QED BY <1>1, <1>2, DivModUnique

\* The cell below, if there is one.
LEMMA CellBelow ==
  ASSUME NEW n \in Cell
  PROVE  /\ n + Width \in Cell <=> n \div Width # Height - 1
         /\ n + Width \in Cell => /\ (n + Width) \div Width = n \div Width + 1
                                  /\ (n + Width) % Width = n % Width
<1>1. PICK q \in Int, r \in 0 .. Width - 1 : q = n \div Width /\ r = n % Width
  BY CellPlace
<1>2. Width \in Nat \ {0} /\ Height \in Nat \ {0} /\ q \in 0 .. Height - 1 /\ n \in Nat /\ n = r + q * Width
  BY <1>1, CellPlace, TerminalAssumption
<1>3. (q + 1) * Width = q * Width + Width /\ q * Width \in Int
  BY <1>2
<1>4. n + Width = r + (q + 1) * Width
  BY <1>2, <1>3
<1>5. (n + Width) \div Width = q + 1 /\ (n + Width) % Width = r
  BY <1>2, <1>4, PlaceCell
<1>6. ASSUME q # Height - 1 PROVE n + Width \in Cell
  <2>1. q + 1 \in 0 .. Height - 1
    BY <1>2, <1>6
  <2> QED BY <2>1, <1>4, OnScreen
<1>7. ASSUME n + Width \in Cell PROVE q # Height - 1
  <2>1. (n + Width) \div Width \in 0 .. Height - 1
    BY <1>7, CellPlace
  <2> QED BY <2>1, <1>5, <1>2
<1> QED BY <1>1, <1>5, <1>6, <1>7

-----------------------------------------------------------------------------
(* Paper                                                                   *)

LEMMA MarkedSeen ==
  ASSUME NEW text, NEW at, NEW ch, NEW p
  PROVE  Seen(Marked(text, at, ch), p) = IF p = at THEN ch ELSE Seen(text, p)
<1> PICK f : f = Marked(text, at, ch)
  OBVIOUS
<1>1. DOMAIN f = DOMAIN text \cup {at} /\ \A x \in DOMAIN text \cup {at} : f[x] = IF x = at THEN ch ELSE text[x]
  BY DEF Marked
<1> QED BY <1>1 DEF Seen

\* Below the line that is printed, paper is blank.
IsPaper(p) ==
  /\ p = [text |-> p.text, line |-> p.line, col |-> p.col]
  /\ p.line \in Nat /\ p.col \in 0 .. Width
  /\ \A line, col \in Int : line > p.line => Seen(p.text, <<line, col>>) = Blank

\* What one more character does to paper, by its kind.
After(p, ch, q) ==
  /\ ch = "return" => q.text = p.text /\ q.line = p.line /\ q.col = 0
  /\ ch = "newline" => q.text = p.text /\ q.line = p.line + 1 /\ q.col = 0
  /\ ch = "backspace" /\ p.col = 0 => q.text = p.text /\ q.line = p.line /\ q.col = p.col
  /\ ch = "backspace" /\ p.col > 0 =>
       /\ q.line = p.line /\ q.col = p.col - 1
       /\ \A at : Seen(q.text, at) = IF at = <<q.line, q.col>> THEN Blank ELSE Seen(p.text, at)
  /\ ch \in Letter =>
       /\ q.line = (IF p.col = Width THEN p.line + 1 ELSE p.line)
       /\ q.col = (IF p.col = Width THEN 1 ELSE p.col + 1)
       /\ \A at : Seen(q.text, at) = IF at = <<q.line, q.col - 1>> THEN ch ELSE Seen(p.text, at)

LEMMA TypedIs ==
  ASSUME NEW p, IsPaper(p), NEW ch \in Char
  PROVE  IsPaper(Typed(p, ch)) /\ After(p, ch, Typed(p, ch))
<1> PICK q : q = Typed(p, ch)
  OBVIOUS
<1>1. PICK line, col, text : line = p.line /\ col = p.col /\ text = p.text
  OBVIOUS
<1>2. /\ Width \in Nat \ {0} /\ line \in Nat /\ col \in 0 .. Width
      /\ p = [text |-> text, line |-> line, col |-> col]
      /\ \A l, k \in Int : l > line => Seen(text, <<l, k>>) = Blank
  BY <1>1, TerminalAssumption DEF IsPaper
<1>3. Letter \cap {"newline", "return", "backspace"} = {}
  BY TerminalAssumption
<1>4. CASE ch = "return"
  <2>1. q = [text |-> text, line |-> line, col |-> 0]
    BY <1>2, <1>3, <1>4 DEF Typed
  <2>2. q.text = text /\ q.line = line /\ q.col = 0
    BY <2>1
  <2>3. IsPaper(q)
    BY <2>1, <2>2, <1>2 DEF IsPaper
  <2>4. After(p, ch, q)
    BY <2>2, <1>1, <1>3, <1>4 DEF After
  <2> QED BY <2>3, <2>4
<1>5. CASE ch = "newline"
  <2>1. q = [text |-> text, line |-> line + 1, col |-> 0]
    BY <1>2, <1>3, <1>5 DEF Typed
  <2>2. q.text = text /\ q.line = line + 1 /\ q.col = 0
    BY <2>1
  <2>3. IsPaper(q)
    <3>1. \A l, k \in Int : l > line + 1 => Seen(text, <<l, k>>) = Blank
      <4>1. \A l \in Int : l > line + 1 => l > line
        BY <1>2
      <4> QED BY <4>1, <1>2
    <3> QED BY <2>1, <2>2, <3>1, <1>2 DEF IsPaper
  <2>4. After(p, ch, q)
    BY <2>2, <1>1, <1>3, <1>5 DEF After
  <2> QED BY <2>3, <2>4
<1>6. CASE ch = "backspace" /\ col = 0
  <2>1. q = p
    BY <1>1, <1>2, <1>3, <1>6 DEF Typed
  <2>2. q.text = text /\ q.line = line /\ q.col = col
    BY <2>1, <1>1
  <2>4. After(p, ch, q)
    BY <2>2, <1>1, <1>3, <1>6 DEF After
  <2> QED BY <2>1, <2>4
<1>7. CASE ch = "backspace" /\ col # 0
  <2>0. PICK new : new = Marked(text, <<line, col - 1>>, Blank)
    OBVIOUS
  <2>1. q = [text |-> new, line |-> line, col |-> col - 1]
    BY <2>0, <1>1, <1>2, <1>3, <1>7 DEF Typed
  <2>2. q.text = new /\ q.line = line /\ q.col = col - 1
    BY <2>1
  <2>3. \A at : Seen(new, at) = IF at = <<line, col - 1>> THEN Blank ELSE Seen(text, at)
    BY <2>0, MarkedSeen
  <2>4. IsPaper(q)
    BY <2>1, <2>2, <2>3, <1>2, <1>7 DEF IsPaper
  <2>5. After(p, ch, q)
    BY <2>2, <2>3, <1>1, <1>3, <1>7 DEF After
  <2> QED BY <2>4, <2>5
<1>8. CASE ch \in Letter
  <2>0. PICK l, k : l = (IF col = Width THEN line + 1 ELSE line) /\ k = (IF col = Width THEN 0 ELSE col)
    OBVIOUS
  <2>1. PICK new : new = Marked(text, <<l, k>>, ch)
    OBVIOUS
  <2>2. ch # "return" /\ ch # "newline" /\ ch # "backspace"
    BY <1>3, <1>8
  <2>3. q = [text |-> new, line |-> l, col |-> k + 1]
    BY <2>0, <2>1, <2>2, <1>1, <1>8 DEF Typed
  <2>4. q.text = new /\ q.line = l /\ q.col = k + 1
    BY <2>3
  <2>5. l \in Nat /\ k \in 0 .. Width - 1 /\ l >= line
    BY <2>0, <1>2
  <2>6. \A at : Seen(new, at) = IF at = <<l, k>> THEN ch ELSE Seen(text, at)
    BY <2>1, MarkedSeen
  <2>7. IsPaper(q)
    <3>1. ASSUME NEW x \in Int, NEW y \in Int, x > l PROVE Seen(new, <<x, y>>) = Blank
      <4>1. x > line /\ <<x, y>> # <<l, k>>
        BY <3>1, <2>5, <1>2
      <4> QED BY <4>1, <2>6, <1>2
    <3>2. k + 1 \in 0 .. Width
      BY <2>5, <1>2
    <3> QED BY <2>3, <2>4, <2>5, <3>1, <3>2 DEF IsPaper
  <2>8. After(p, ch, q)
    <3>1. q.col - 1 = k
      BY <2>4, <2>5
    <3>2. q.col = (IF col = Width THEN 1 ELSE col + 1)
      BY <2>0, <2>4
    <3> QED BY <2>0, <2>2, <2>4, <2>6, <3>1, <3>2, <1>1, <1>8 DEF After
  <2> QED BY <2>7, <2>8
<1> QED BY <1>4, <1>5, <1>6, <1>7, <1>8 DEF Char

\* The papers before each character, and the last one.
Clean == [text |-> Empty, line |-> 0, col |-> 0]

LEMMA PapersAre ==
  ASSUME NEW chars \in Seq(Char), NEW k \in 0 .. Len(chars)
  PROVE  Papers(chars)[k] = IF k = 0 THEN Clean ELSE Typed(Papers(chars)[k - 1], chars[k])
<1> PICK len : len = Len(chars)
  OBVIOUS
<1>0. len \in Nat
  OBVIOUS
<1> DEFINE Next1(f, n) == IF n = 0 THEN Clean ELSE Typed(f[n - 1], chars[n])
           Partial(f, m) == \A n \in 0 .. m : f[n] = Next1(f, n)
           IsAll(f) == f = [n \in 0 .. len |-> Next1(f, n)]
           None == {m \in Nat : ~ \E f : Partial(f, m)}
<1>1. Papers(chars) = CHOOSE f : IsAll(f)
  BY DEF Papers, Clean
<1>2. None = {}
  <2>1. SUFFICES ASSUME None # {} PROVE FALSE
    OBVIOUS
  <2>2. PICK x \in None : \A y \in None : x <= y
    <3>1. None \in SUBSET Nat
      OBVIOUS
    <3> HIDE DEF None
    <3> QED BY <3>1, <2>1, Least
  <2>3. x \in Nat /\ ~ \E f : Partial(f, x)
    OBVIOUS
  <2>4. CASE x = 0
    <3> DEFINE f == [n \in 0 .. 0 |-> Clean]
    <3>1. Partial(f, 0)
      OBVIOUS
    <3> QED BY <2>3, <2>4, <3>1
  <2>5. CASE x # 0
    <3>1. x - 1 \in Nat /\ x - 1 \notin None
      BY <2>2, <2>3, <2>5
    <3>2. PICK f : Partial(f, x - 1)
      BY <3>1
    <3>3. PICK z : z = Next1(f, x)
      OBVIOUS
    <3> DEFINE g == [n \in 0 .. x |-> IF n = x THEN z ELSE f[n]]
    <3>4. \A n \in 0 .. x - 1 : g[n] = f[n]
      BY <2>3
    <3>5. g[x] = z
      BY <2>3
    <3> HIDE DEF g
    <3>6. \A n \in 0 .. x - 1 : g[n] = Next1(g, n)
      BY <2>3, <3>2, <3>4
    <3>7. g[x] = Next1(g, x)
      BY <2>3, <2>5, <3>3, <3>4, <3>5
    <3>8. Partial(g, x)
      BY <2>3, <3>6, <3>7
    <3> QED BY <2>3, <3>8
  <2> QED BY <2>4, <2>5
<1>3. PICK f : Partial(f, len)
  BY <1>0, <1>2
<1> DEFINE w == [n \in 0 .. len |-> f[n]]
<1>4. \A n \in 0 .. len : w[n] = Next1(w, n)
  BY <1>0, <1>3
<1>5. w = [n \in 0 .. len |-> w[n]]
  OBVIOUS
<1> HIDE DEF w, Next1
<1>6. w = [n \in 0 .. len |-> Next1(w, n)]
  BY <1>4, <1>5
<1>7. IsAll(w)
  BY <1>6
<1> HIDE DEF IsAll
<1>8. IsAll(Papers(chars))
  BY <1>1, <1>7
<1>9. PICK v : v = Papers(chars)
  OBVIOUS
<1>10. v = [n \in 0 .. len |-> Next1(v, n)]
  BY <1>8, <1>9 DEF IsAll
<1>11. v[k] = Next1(v, k)
  BY <1>10
<1> QED BY <1>9, <1>11 DEF Next1

LEMMA CleanPaper == IsPaper(Clean) /\ Clean.text = Empty /\ Clean.line = 0 /\ Clean.col = 0
<1>1. Width \in Nat
  BY TerminalAssumption
<1>2. \A at : Seen(Empty, at) = Blank
  BY DEF Seen, Empty
<1>3. Clean.text = Empty /\ Clean.line = 0 /\ Clean.col = 0
  BY DEF Clean
<1> QED BY <1>1, <1>2, <1>3 DEF IsPaper, Clean

LEMMA PapersType ==
  ASSUME NEW chars \in Seq(Char), NEW k \in 0 .. Len(chars)
  PROVE  IsPaper(Papers(chars)[k])
<1> DEFINE Bad == {n \in Nat : n <= Len(chars) /\ ~IsPaper(Papers(chars)[n])}
<1>1. SUFFICES Bad = {}
  OBVIOUS
<1>2. SUFFICES ASSUME Bad # {} PROVE FALSE
  OBVIOUS
<1>3. PICK x \in Bad : \A y \in Bad : x <= y
  <2>1. Bad \in SUBSET Nat
    OBVIOUS
  <2> HIDE DEF Bad
  <2> QED BY <2>1, <1>2, Least
<1>4. x \in 0 .. Len(chars) /\ ~IsPaper(Papers(chars)[x])
  OBVIOUS
<1>5. x # 0
  BY <1>4, PapersAre, CleanPaper
<1>6. x - 1 \in 0 .. Len(chars) /\ x - 1 \notin Bad
  BY <1>3, <1>4, <1>5
<1>7. IsPaper(Papers(chars)[x - 1])
  BY <1>6
<1>8. chars[x] \in Char
  BY <1>4, <1>5
<1>9. Papers(chars)[x] = Typed(Papers(chars)[x - 1], chars[x])
  BY <1>4, <1>5, PapersAre
<1> QED BY <1>4, <1>7, <1>8, <1>9, TypedIs

\* The papers so far stay what they were when another character is printed.
LEMMA PapersAppend ==
  ASSUME NEW chars \in Seq(Char), NEW ch \in Char, NEW k \in 0 .. Len(chars)
  PROVE  Papers(Append(chars, ch))[k] = Papers(chars)[k]
<1> PICK more : more = Append(chars, ch)
  OBVIOUS
<1>0. more \in Seq(Char) /\ Len(more) = Len(chars) + 1 /\ Len(chars) \in Nat
      /\ \A n \in 1 .. Len(chars) : more[n] = chars[n]
  OBVIOUS
<1> DEFINE Bad == {n \in Nat : n <= Len(chars) /\ Papers(more)[n] # Papers(chars)[n]}
<1>1. SUFFICES Bad = {}
  OBVIOUS
<1>2. SUFFICES ASSUME Bad # {} PROVE FALSE
  OBVIOUS
<1>3. PICK x \in Bad : \A y \in Bad : x <= y
  <2>1. Bad \in SUBSET Nat
    OBVIOUS
  <2> HIDE DEF Bad
  <2> QED BY <2>1, <1>2, Least
<1>4. x \in 0 .. Len(chars) /\ Papers(more)[x] # Papers(chars)[x]
  OBVIOUS
<1>5. x \in 0 .. Len(more)
  BY <1>0, <1>4
<1>6. x # 0
  <2>1. 0 \in 0 .. Len(chars) /\ 0 \in 0 .. Len(more)
    BY <1>0
  <2>2. Papers(chars)[0] = Clean /\ Papers(more)[0] = Clean
    BY <2>1, <1>0, PapersAre
  <2> QED BY <1>4, <2>2
<1>7. x - 1 \in 0 .. Len(chars) /\ x - 1 \notin Bad
  BY <1>3, <1>4, <1>6
<1>8. Papers(more)[x - 1] = Papers(chars)[x - 1]
  BY <1>7
<1>9. more[x] = chars[x]
  BY <1>0, <1>4, <1>6
<1>10. Papers(more)[x] = Typed(Papers(more)[x - 1], more[x])
  BY <1>0, <1>5, <1>6, PapersAre
<1>11. Papers(chars)[x] = Typed(Papers(chars)[x - 1], chars[x])
  BY <1>4, <1>6, PapersAre
<1> QED BY <1>4, <1>8, <1>9, <1>10, <1>11

LEMMA PaperAppend ==
  ASSUME NEW chars \in Seq(Char), NEW ch \in Char
  PROVE  LET more == Append(chars, ch)
         IN  /\ Papers(more)[Len(chars)] = Papers(chars)[Len(chars)]
             /\ Papers(more)[Len(more)] = Typed(Papers(chars)[Len(chars)], ch)
<1> PICK more : more = Append(chars, ch)
  OBVIOUS
<1>1. /\ more \in Seq(Char) /\ Len(more) = Len(chars) + 1 /\ Len(chars) \in Nat
      /\ more[Len(chars) + 1] = ch
  OBVIOUS
<1>2. Papers(more)[Len(chars)] = Papers(chars)[Len(chars)]
  BY <1>1, PapersAppend
<1>3. Len(chars) + 1 \in 0 .. Len(more) /\ Len(chars) + 1 # 0 /\ (Len(chars) + 1) - 1 = Len(chars)
  BY <1>1
<1>4. Papers(more)[Len(chars) + 1] = Typed(Papers(more)[Len(chars)], more[Len(chars) + 1])
  BY <1>1, <1>3, PapersAre
<1> QED BY <1>1, <1>2, <1>4

-----------------------------------------------------------------------------
(* The text that is shown                                                  *)

\* The steps at which the cursor is kept in term_col and term_row, and those
\* that have yet to scroll.
Stored     == {"user", "loop"} \cup Sending
Unscrolled == {"plain", "back", "erase", "newline feed", "wrap", "wrap return", "wrap feed",
               "scroll", "shift"}

AtCol == IF pc \in Stored THEN term_col ELSE Col
AtRow == IF pc \in Stored THEN term_row ELSE Row

\* The screen between the shift and the clearing.
Raised(t, text, above) ==
  \A n \in Cell : n + Width \in Cell =>
    t[n] = Seen(text, <<n \div Width + above + 1, n % Width>>)

\* The column in which ch goes.
Target(ch, new) == IF ch = "newline" THEN 0 ELSE new.col - 1

\* What the screen t shows, with the cursor in col and row, at each step of
\* printing ch: old is the paper before it, new the one after it.
Drawn(step, t, col, row, ch, old, new) ==
  /\ step \notin Stored => new = Typed(old, ch)
  /\ step \in Unscrolled => Shows(t, old.text, Above(old.line))
  /\ step \in {"plain", "back"} => col = old.col /\ row = old.line - Above(old.line)
  /\ step \in {"back", "erase"} => ch = "backspace" /\ old.col > 0
  /\ step = "erase" => col = old.col - 1 /\ row = old.line - Above(old.line)
  /\ step = "newline feed" => ch = "newline" /\ col = 0 /\ row = old.line - Above(old.line)
  /\ step = "wrap" =>
       \/ ch = "newline" /\ col = 0 /\ row = new.line - Above(old.line)
       \/ ch \in Letter /\ col = old.col /\ row = old.line - Above(old.line)
  /\ step = "wrap feed" => col = 0
  /\ step \in {"wrap return", "wrap feed"} =>
       ch \in Letter /\ old.col = Width /\ row = old.line - Above(old.line)
  /\ step \in {"scroll", "shift", "row up", "clear", "write"} =>
       ch \in Letter \cup {"newline"} /\ col = Target(ch, new)
  /\ step \in {"scroll", "shift", "row up"} => row = new.line - Above(old.line)
  /\ step \in {"shift", "row up"} => row = Height
  /\ step = "clear" => row = Height - 1 /\ new.line - Above(old.line) = Height
  /\ step \in {"row up", "clear"} => Raised(t, old.text, Above(old.line))
  /\ step = "write" => Shows(t, old.text, Above(new.line)) /\ row = new.line - Above(new.line)
  /\ step = "advance" => ch \in Letter /\ col = new.col - 1
  /\ step \in Stored \cup {"show"} => col = new.col
  /\ step \in Stored \cup {"advance", "show"} =>
       Shows(t, new.text, Above(new.line)) /\ row = new.line - Above(new.line)

\* output ends with the character that is being printed.
Before == IF output = <<>> THEN 0 ELSE Len(output) - 1

DrawnInv ==
  torn \/ /\ InPutchar => output # <<>> /\ c = output[Len(output)]
          /\ Drawn(pc, term, AtCol, AtRow, c, Papers(output)[Before], Paper)

LEMMA AboveIs ==
  ASSUME NEW line \in Nat
  PROVE  Above(line) \in Nat /\ line - Above(line) \in 0 .. Height - 1
  BY TerminalAssumption DEF Above

LEMMA AboveMoves ==
  ASSUME NEW line \in Nat, NEW next \in {line, line + 1}
  PROVE  /\ next - Above(line) \in 0 .. Height
         /\ next - Above(line) # Height => Above(next) = Above(line)
         /\ next - Above(line) = Height => Above(next) = Above(line) + 1 /\ next > line
  BY TerminalAssumption DEF Above

\* Writing a cell of the screen is writing one of the paper.
LEMMA ShowsPut ==
  ASSUME NEW t \in [Cell -> Letter \cup {Blank}], NEW text, NEW above \in Nat, Shows(t, text, above),
         NEW col \in 0 .. Width - 1, NEW row \in 0 .. Height - 1,
         NEW n \in Int, n = col + row * Width, NEW ch, NEW new,
         \A at : Seen(new, at) = IF at = <<row + above, col>> THEN ch ELSE Seen(text, at)
  PROVE  Shows(Put(t, n, ch), new, above)
<1>1. n \in Cell /\ n \div Width = row /\ n % Width = col
  <2>1. row \in Int
    BY TerminalAssumption
  <2> QED BY <2>1, OnScreen, PlaceCell
<1>2. Put(t, n, ch) = [t EXCEPT ![n] = ch]
  BY <1>1 DEF Put
<1>3. SUFFICES ASSUME NEW m \in Cell
               PROVE  Put(t, n, ch)[m] = Seen(new, <<m \div Width + above, m % Width>>)
  BY DEF Shows
<1>4. CASE m = n
  BY <1>1, <1>2, <1>4
<1>5. CASE m # n
  <2>1. PICK q, r : q = m \div Width /\ r = m % Width
    OBVIOUS
  <2>2. q \in Nat /\ m = r + q * Width
    BY <2>1, CellPlace
  <2>3. q # row \/ r # col
    BY <2>2, <1>5
  <2>4. <<q + above, r>> # <<row + above, col>>
    BY <2>2, <2>3
  <2>5. t[m] = Seen(text, <<q + above, r>>)
    BY <2>1 DEF Shows
  <2> QED BY <2>1, <2>4, <2>5, <1>2, <1>5
<1> QED BY <1>4, <1>5

LEMMA ShowsShifted ==
  ASSUME NEW t \in [Cell -> Letter \cup {Blank}], NEW text, NEW above \in Nat, Shows(t, text, above)
  PROVE  Raised(Shifted(t), text, above)
<1>1. SUFFICES ASSUME NEW n \in Cell, n + Width \in Cell
               PROVE  Shifted(t)[n] = Seen(text, <<n \div Width + above + 1, n % Width>>)
  BY DEF Raised
<1>2. Shifted(t)[n] = t[n + Width]
  BY <1>1 DEF Shifted
<1>3. t[n + Width] = Seen(text, <<(n + Width) \div Width + above, (n + Width) % Width>>)
  BY <1>1 DEF Shows
<1>4. PICK q \in Int, r \in Int : q = n \div Width /\ r = n % Width
  BY CellPlace
<1>5. (n + Width) \div Width = q + 1 /\ (n + Width) % Width = r
  BY <1>1, <1>4, CellBelow
<1>6. q + 1 + above = q + above + 1
  BY <1>4
<1> QED BY <1>2, <1>3, <1>4, <1>5, <1>6

LEMMA ShowsCleared ==
  ASSUME NEW t \in [Cell -> Letter \cup {Blank}], NEW text, NEW above \in Nat, Raised(t, text, above),
         \A col \in Int : Seen(text, <<above + Height, col>>) = Blank
  PROVE  Shows(Cleared(t, Height - 1), text, above + 1)
<1>1. SUFFICES ASSUME NEW n \in Cell
               PROVE  Cleared(t, Height - 1)[n] = Seen(text, <<n \div Width + (above + 1), n % Width>>)
  BY DEF Shows
<1>2. PICK q \in Int, r \in Int : q = n \div Width /\ r = n % Width
  BY CellPlace
<1>3. Height \in Nat
  BY TerminalAssumption
<1>4. CASE q = Height - 1
  <2>1. Cleared(t, Height - 1)[n] = Blank
    BY <1>2, <1>4 DEF Cleared
  <2>2. q + (above + 1) = above + Height
    BY <1>3, <1>4
  <2> QED BY <2>1, <2>2, <1>2
<1>5. CASE q # Height - 1
  <2>1. n + Width \in Cell
    BY <1>2, <1>5, CellBelow
  <2>2. Cleared(t, Height - 1)[n] = t[n]
    BY <1>2, <1>5 DEF Cleared
  <2>3. t[n] = Seen(text, <<q + above + 1, r>>)
    BY <2>1, <1>2 DEF Raised
  <2>4. q + above + 1 = q + (above + 1)
    BY <1>2
  <2> QED BY <2>2, <2>3, <2>4, <1>2
<1> QED BY <1>4, <1>5

\* ch is printed on the paper old.
Prints(ch, old, new) ==
  /\ ch \in Char /\ IsPaper(old) /\ IsPaper(new)
  /\ new = Typed(old, ch) /\ After(old, ch, new)

LEMMA Controls ==
  Letter \cap {"newline", "return", "backspace"} = {} /\ Char = Letter \cup {"newline", "return", "backspace"}
  BY TerminalAssumption DEF Char

LEMMA PrintsNumbers ==
  ASSUME NEW ch, NEW old, NEW new, Prints(ch, old, new)
  PROVE  /\ Width \in Nat \ {0} /\ Height \in Nat \ {0, 1}
         /\ old.line \in Nat /\ new.line \in Nat /\ old.col \in 0 .. Width /\ new.col \in 0 .. Width
         /\ new.line \in {old.line, old.line + 1}
         /\ Above(old.line) \in Nat /\ old.line - Above(old.line) \in 0 .. Height - 1
         /\ Above(new.line) \in Nat /\ new.line - Above(new.line) \in 0 .. Height - 1
         /\ new.line - Above(old.line) \in 0 .. Height
         /\ new.line - Above(old.line) # Height => Above(new.line) = Above(old.line)
         /\ new.line - Above(old.line) = Height => Above(new.line) = Above(old.line) + 1 /\ new.line > old.line
<1>1. PICK l, m : l = old.line /\ m = new.line
  OBVIOUS
<1>2. l \in Nat /\ m \in Nat /\ old.col \in 0 .. Width /\ new.col \in 0 .. Width
  BY <1>1 DEF Prints, IsPaper
<1>3. m = l \/ m = l + 1
  <2>1. ch \in Char /\ (ch = "backspace" => old.col = 0 \/ old.col > 0)
    BY <1>2, TerminalAssumption DEF Prints
  <2>2. After(old, ch, new)
    BY DEF Prints
  <2>3. CASE ch \in Letter
    BY <2>2, <2>3, <1>1 DEF After
  <2>4. CASE ch \notin Letter
    BY <2>1, <2>2, <2>4, <1>1, Controls DEF After
  <2> QED BY <2>3, <2>4
<1>4. /\ Above(l) \in Nat /\ l - Above(l) \in 0 .. Height - 1
      /\ Above(m) \in Nat /\ m - Above(m) \in 0 .. Height - 1
  BY <1>2, AboveIs
<1>5. /\ m - Above(l) \in 0 .. Height
      /\ m - Above(l) # Height => Above(m) = Above(l)
      /\ m - Above(l) = Height => Above(m) = Above(l) + 1 /\ m > l
  BY <1>2, <1>3, AboveMoves
<1>6. Width \in Nat \ {0} /\ Height \in Nat \ {0, 1}
  BY TerminalAssumption
<1> QED BY <1>1, <1>2, <1>3, <1>4, <1>5, <1>6

\* Where no cell is written the next step's picture follows from this one's.
LEMMA DrawnControl ==
  ASSUME NEW t, NEW col, NEW row, NEW ch, NEW old, NEW new, Prints(ch, old, new),
         Drawn("plain", t, col, row, ch, old, new)
  PROVE  /\ ch = "return" => Drawn("show", t, 0, row, ch, old, new)
         /\ ch = "newline" => Drawn("newline feed", t, 0, row, ch, old, new)
         /\ ch = "backspace" /\ col > 0 => Drawn("back", t, col, row, ch, old, new)
         /\ ch = "backspace" /\ ~(col > 0) => Drawn("show", t, col, row, ch, old, new)
         /\ ch \in Letter => Drawn("wrap", t, col, row, ch, old, new)
<1>1. /\ new = Typed(old, ch) /\ Shows(t, old.text, Above(old.line))
      /\ col = old.col /\ row = old.line - Above(old.line)
  BY DEF Drawn, Stored, Sending, Unscrolled
<1>2. After(old, ch, new)
  BY DEF Prints
<1>3. ASSUME ch = "return" PROVE Drawn("show", t, 0, row, ch, old, new)
  <2>1. new.text = old.text /\ new.line = old.line /\ new.col = 0
    BY <1>2, <1>3 DEF After
  <2> QED BY <1>1, <2>1 DEF Drawn, Stored, Sending, Unscrolled
<1>4. ASSUME ch = "newline" PROVE Drawn("newline feed", t, 0, row, ch, old, new)
  BY <1>1, <1>4 DEF Drawn, Stored, Sending, Unscrolled
<1>5. ASSUME ch = "backspace" /\ col > 0 PROVE Drawn("back", t, col, row, ch, old, new)
  BY <1>1, <1>5 DEF Drawn, Stored, Sending, Unscrolled
<1>6. ASSUME ch = "backspace" /\ ~(col > 0) PROVE Drawn("show", t, col, row, ch, old, new)
  <2>1. old.col = 0
    BY <1>1, <1>6, PrintsNumbers
  <2>2. new.text = old.text /\ new.line = old.line /\ new.col = old.col
    BY <1>2, <1>6, <2>1 DEF After
  <2> QED BY <1>1, <2>2 DEF Drawn, Stored, Sending, Unscrolled
<1>7. ASSUME ch \in Letter PROVE Drawn("wrap", t, col, row, ch, old, new)
  BY <1>1, <1>7 DEF Drawn, Stored, Sending, Unscrolled
<1> QED BY <1>3, <1>4, <1>5, <1>6, <1>7

LEMMA DrawnBack ==
  ASSUME NEW t, NEW col, NEW row, NEW ch, NEW old, NEW new,
         Drawn("back", t, col, row, ch, old, new)
  PROVE  Drawn("erase", t, col - 1, row, ch, old, new)
  BY DEF Drawn, Stored, Sending, Unscrolled

LEMMA DrawnErase ==
  ASSUME NEW t \in [Cell -> Letter \cup {Blank}], NEW col, NEW row, NEW ch, NEW old, NEW new,
         Prints(ch, old, new), Drawn("erase", t, col, row, ch, old, new)
  PROVE  Drawn("show", Put(t, row * Width + col, Blank), col, row, ch, old, new)
<1>1. /\ new = Typed(old, ch) /\ Shows(t, old.text, Above(old.line))
      /\ ch = "backspace" /\ old.col > 0
      /\ col = old.col - 1 /\ row = old.line - Above(old.line)
  BY DEF Drawn, Stored, Sending, Unscrolled
<1>2. /\ new.line = old.line /\ new.col = old.col - 1
      /\ \A at : Seen(new.text, at) = IF at = <<new.line, new.col>> THEN Blank ELSE Seen(old.text, at)
  BY <1>1 DEF Prints, After
<1>3. PICK above : above = Above(old.line)
  OBVIOUS
<1>4. /\ above \in Nat /\ old.line = row + above /\ row \in 0 .. Height - 1 /\ col \in 0 .. Width - 1
      /\ Width \in Nat
  BY <1>1, <1>3, PrintsNumbers
<1>5. row * Width + col \in Int /\ row * Width + col = col + row * Width
  BY <1>4
<1>6. \A at : Seen(new.text, at) = IF at = <<row + above, col>> THEN Blank ELSE Seen(old.text, at)
  BY <1>1, <1>2, <1>4
<1>7. Shows(Put(t, row * Width + col, Blank), new.text, above)
  BY <1>1, <1>3, <1>4, <1>5, <1>6, ShowsPut
<1> QED BY <1>1, <1>2, <1>3, <1>7 DEF Drawn, Stored, Sending, Unscrolled

LEMMA DrawnFeed ==
  ASSUME NEW t, NEW col, NEW row, NEW ch, NEW old, NEW new, Prints(ch, old, new)
  PROVE  /\ Drawn("newline feed", t, col, row, ch, old, new) => Drawn("wrap", t, col, row + 1, ch, old, new)
         /\ Drawn("wrap return", t, col, row, ch, old, new) => Drawn("wrap feed", t, 0, row, ch, old, new)
         /\ Drawn("wrap feed", t, col, row, ch, old, new) => Drawn("scroll", t, col, row + 1, ch, old, new)
<1>0. /\ old.line \in Nat /\ Above(old.line) \in Nat /\ new.col \in 0 .. Width /\ Width \in Nat \ {0}
      /\ new.line \in Nat
  BY PrintsNumbers
<1>1. ASSUME Drawn("newline feed", t, col, row, ch, old, new)
      PROVE  Drawn("wrap", t, col, row + 1, ch, old, new)
  <2>1. /\ new = Typed(old, ch) /\ Shows(t, old.text, Above(old.line)) /\ ch = "newline"
        /\ col = 0 /\ row = old.line - Above(old.line)
    BY <1>1 DEF Drawn, Stored, Sending, Unscrolled
  <2>2. new.line = old.line + 1
    BY <2>1 DEF Prints, After
  <2>3. row + 1 = new.line - Above(old.line)
    BY <2>1, <2>2, <1>0
  <2> QED BY <2>1, <2>3 DEF Drawn, Stored, Sending, Unscrolled
<1>2. ASSUME Drawn("wrap return", t, col, row, ch, old, new)
      PROVE  Drawn("wrap feed", t, 0, row, ch, old, new)
  BY <1>2 DEF Drawn, Stored, Sending, Unscrolled
<1>3. ASSUME Drawn("wrap feed", t, col, row, ch, old, new)
      PROVE  Drawn("scroll", t, col, row + 1, ch, old, new)
  <2>1. /\ new = Typed(old, ch) /\ Shows(t, old.text, Above(old.line)) /\ ch \in Letter
        /\ col = 0 /\ row = old.line - Above(old.line) /\ old.col = Width
    BY <1>3 DEF Drawn, Stored, Sending, Unscrolled
  <2>2. new.line = old.line + 1 /\ new.col = 1
    BY <2>1 DEF Prints, After
  <2>3. row + 1 = new.line - Above(old.line)
    BY <2>1, <2>2, <1>0
  <2>4. col = Target(ch, new)
    BY <2>1, <2>2, Controls DEF Target
  <2> QED BY <2>1, <2>3, <2>4 DEF Drawn, Stored, Sending, Unscrolled
<1> QED BY <1>1, <1>2, <1>3

LEMMA DrawnWrap ==
  ASSUME NEW t, NEW col, NEW row, NEW ch, NEW old, NEW new, Prints(ch, old, new),
         Drawn("wrap", t, col, row, ch, old, new)
  PROVE  /\ col = Width => Drawn("wrap return", t, col, row, ch, old, new)
         /\ col # Width => Drawn("scroll", t, col, row, ch, old, new)
<1>0. Width \in Nat \ {0} /\ old.col \in 0 .. Width
  BY PrintsNumbers
<1>1. /\ new = Typed(old, ch) /\ Shows(t, old.text, Above(old.line))
      /\ \/ ch = "newline" /\ col = 0 /\ row = new.line - Above(old.line)
         \/ ch \in Letter /\ col = old.col /\ row = old.line - Above(old.line)
  BY DEF Drawn, Stored, Sending, Unscrolled
<1>2. CASE ch = "newline" /\ col = 0 /\ row = new.line - Above(old.line)
  <2>1. col # Width /\ col = Target(ch, new)
    BY <1>0, <1>2 DEF Target
  <2> QED BY <2>1, <1>1, <1>2 DEF Drawn, Stored, Sending, Unscrolled
<1>3. CASE ch \in Letter /\ col = old.col /\ row = old.line - Above(old.line)
  <2>1. CASE col = Width
    BY <2>1, <1>1, <1>3 DEF Drawn, Stored, Sending, Unscrolled
  <2>2. CASE col # Width
    <3>1. new.line = old.line /\ new.col = old.col + 1
      BY <2>2, <1>3 DEF Prints, After
    <3>2. col = Target(ch, new)
      BY <3>1, <1>0, <1>3, Controls DEF Target
    <3> QED BY <3>1, <3>2, <2>2, <1>1, <1>3 DEF Drawn, Stored, Sending, Unscrolled
  <2> QED BY <2>1, <2>2
<1> QED BY <1>1, <1>2, <1>3

LEMMA DrawnScroll ==
  ASSUME NEW t, NEW col, NEW row, NEW ch, NEW old, NEW new, Prints(ch, old, new),
         Drawn("scroll", t, col, row, ch, old, new)
  PROVE  /\ row = Height => Drawn("shift", t, col, row, ch, old, new)
         /\ row # Height => Drawn("write", t, col, row, ch, old, new)
<1>1. /\ new = Typed(old, ch) /\ Shows(t, old.text, Above(old.line))
      /\ ch \in Letter \cup {"newline"} /\ col = Target(ch, new) /\ row = new.line - Above(old.line)
  BY DEF Drawn, Stored, Sending, Unscrolled
<1>2. CASE row = Height
  BY <1>1, <1>2 DEF Drawn, Stored, Sending, Unscrolled
<1>3. CASE row # Height
  <2>1. Above(new.line) = Above(old.line)
    BY <1>1, <1>3, PrintsNumbers
  <2> QED BY <2>1, <1>1, <1>3 DEF Drawn, Stored, Sending, Unscrolled
<1> QED BY <1>2, <1>3

LEMMA DrawnShift ==
  ASSUME NEW t \in [Cell -> Letter \cup {Blank}], NEW col, NEW row, NEW ch, NEW old, NEW new,
         Prints(ch, old, new)
  PROVE  /\ Drawn("shift", t, col, row, ch, old, new) => Drawn("row up", Shifted(t), col, row, ch, old, new)
         /\ Drawn("row up", t, col, row, ch, old, new) => Drawn("clear", t, col, row - 1, ch, old, new)
         /\ Drawn("clear", t, col, row, ch, old, new) =>
              Drawn("write", Cleared(t, row), col, row, ch, old, new)
<1>1. ASSUME Drawn("shift", t, col, row, ch, old, new)
      PROVE  Drawn("row up", Shifted(t), col, row, ch, old, new)
  <2>1. /\ new = Typed(old, ch) /\ Shows(t, old.text, Above(old.line))
        /\ ch \in Letter \cup {"newline"} /\ col = Target(ch, new) /\ row = new.line - Above(old.line)
        /\ row = Height
    BY <1>1 DEF Drawn, Stored, Sending, Unscrolled
  <2>2. Above(old.line) \in Nat
    BY PrintsNumbers
  <2>3. Raised(Shifted(t), old.text, Above(old.line))
    BY <2>1, <2>2, ShowsShifted
  <2> QED BY <2>1, <2>3 DEF Drawn, Stored, Sending, Unscrolled
<1>2. ASSUME Drawn("row up", t, col, row, ch, old, new)
      PROVE  Drawn("clear", t, col, row - 1, ch, old, new)
  BY <1>2 DEF Drawn, Stored, Sending, Unscrolled
<1>3. ASSUME Drawn("clear", t, col, row, ch, old, new)
      PROVE  Drawn("write", Cleared(t, row), col, row, ch, old, new)
  <2>1. /\ new = Typed(old, ch) /\ ch \in Letter \cup {"newline"} /\ col = Target(ch, new)
        /\ row = Height - 1 /\ new.line - Above(old.line) = Height
        /\ Raised(t, old.text, Above(old.line))
    BY <1>3 DEF Drawn, Stored, Sending, Unscrolled
  <2>2. PICK above, line, next : above = Above(old.line) /\ line = old.line /\ next = new.line
    OBVIOUS
  <2>3. /\ above \in Nat /\ line \in Nat /\ next \in Nat /\ Height \in Nat
        /\ Above(next) = above + 1 /\ next > line /\ next = above + Height
    BY <2>1, <2>2, PrintsNumbers
  <2>4. \A k \in Int : Seen(old.text, <<above + Height, k>>) = Blank
    <3>1. above + Height \in Int /\ above + Height > old.line
      BY <2>2, <2>3
    <3> QED BY <3>1 DEF Prints, IsPaper
  <2>5. Shows(Cleared(t, Height - 1), old.text, above + 1)
    BY <2>1, <2>2, <2>3, <2>4, ShowsCleared
  <2>6. row = next - Above(next)
    BY <2>1, <2>3
  <2> QED BY <2>1, <2>2, <2>3, <2>5, <2>6 DEF Drawn, Stored, Sending, Unscrolled
<1> QED BY <1>1, <1>2, <1>3

LEMMA DrawnWrite ==
  ASSUME NEW t \in [Cell -> Letter \cup {Blank}], NEW col, NEW row, NEW ch, NEW old, NEW new,
         Prints(ch, old, new), Drawn("write", t, col, row, ch, old, new)
  PROVE  /\ ch # "newline" => Drawn("advance", Put(t, col + row * Width, ch), col, row, ch, old, new)
         /\ ch = "newline" => Drawn("show", t, col, row, ch, old, new)
<1>1. /\ new = Typed(old, ch) /\ ch \in Letter \cup {"newline"} /\ col = Target(ch, new)
      /\ Shows(t, old.text, Above(new.line)) /\ row = new.line - Above(new.line)
  BY DEF Drawn, Stored, Sending, Unscrolled
<1>2. ASSUME ch # "newline"
      PROVE  Drawn("advance", Put(t, col + row * Width, ch), col, row, ch, old, new)
  <2>1. ch \in Letter /\ col = new.col - 1
    BY <1>1, <1>2 DEF Target
  <2>2. PICK above : above = Above(new.line)
    OBVIOUS
  <2>3. /\ new.col = (IF old.col = Width THEN 1 ELSE old.col + 1)
        /\ \A at : Seen(new.text, at) = IF at = <<new.line, new.col - 1>> THEN ch ELSE Seen(old.text, at)
    BY <2>1 DEF Prints, After
  <2>4. /\ above \in Nat /\ new.line = row + above /\ row \in 0 .. Height - 1 /\ col \in 0 .. Width - 1
        /\ Width \in Nat
    BY <1>1, <2>1, <2>2, <2>3, PrintsNumbers
  <2>5. \A at : Seen(new.text, at) = IF at = <<row + above, col>> THEN ch ELSE Seen(old.text, at)
    BY <2>1, <2>3, <2>4
  <2>6. col + row * Width \in Int
    BY <2>4
  <2>7. Shows(Put(t, col + row * Width, ch), new.text, above)
    BY <1>1, <2>2, <2>4, <2>5, <2>6, ShowsPut
  <2> QED BY <1>1, <2>1, <2>2, <2>7 DEF Drawn, Stored, Sending, Unscrolled
<1>3. ASSUME ch = "newline" PROVE Drawn("show", t, col, row, ch, old, new)
  <2>1. new.text = old.text /\ new.col = 0
    BY <1>3 DEF Prints, After
  <2>2. col = 0
    BY <1>1, <1>3 DEF Target
  <2> QED BY <1>1, <1>3, <2>1, <2>2 DEF Drawn, Stored, Sending, Unscrolled
<1> QED BY <1>2, <1>3

LEMMA DrawnShown ==
  ASSUME NEW t, NEW col, NEW row, NEW ch, NEW old, NEW new, Prints(ch, old, new)
  PROVE  /\ Drawn("advance", t, col, row, ch, old, new) => Drawn("show", t, col + 1, row, ch, old, new)
         /\ Drawn("show", t, col, row, ch, old, new) => Drawn("low index", t, col, row, ch, old, new)
<1>0. new.col \in 0 .. Width /\ Width \in Nat
  BY PrintsNumbers
<1>1. new.col \in Int
  BY <1>0
<1>2. ASSUME Drawn("advance", t, col, row, ch, old, new)
      PROVE  Drawn("show", t, col + 1, row, ch, old, new)
  <2>1. col + 1 = new.col
    BY <1>1, <1>2 DEF Drawn
  <2> QED BY <1>2, <2>1 DEF Drawn, Stored, Sending, Unscrolled
<1>3. ASSUME Drawn("show", t, col, row, ch, old, new)
      PROVE  Drawn("low index", t, col, row, ch, old, new)
  BY <1>3 DEF Drawn, Stored, Sending, Unscrolled
<1> QED BY <1>2, <1>3

\* At rest, and while the display is told, only the last paper matters.
LEMMA DrawnStored ==
  ASSUME NEW step \in Stored, NEW t, NEW col, NEW row, NEW new, NEW ch, NEW old,
         Drawn(step, t, col, row, ch, old, new)
  PROVE  \A next \in Stored : \A ch2, old2 : Drawn(next, t, col, row, ch2, old2, new)
<1>1. /\ col = new.col /\ row = new.line - Above(new.line)
      /\ Shows(t, new.text, Above(new.line))
  BY DEF Drawn
<1>2. SUFFICES ASSUME NEW next \in Stored, NEW ch2, NEW old2
               PROVE  Drawn(next, t, col, row, ch2, old2, new)
  OBVIOUS
<1> QED BY <1>1 DEF Drawn, Stored, Sending, Unscrolled

LEMMA DrawnStarts ==
  ASSUME NEW step \in Stored, NEW t, NEW col, NEW row, NEW p, NEW ch, NEW old,
         NEW ch2, NEW new, Prints(ch2, p, new), Drawn(step, t, col, row, ch, old, p)
  PROVE  Drawn("plain", t, col, row, ch2, p, new)
<1>1. /\ col = p.col /\ row = p.line - Above(p.line)
      /\ Shows(t, p.text, Above(p.line)) /\ new = Typed(p, ch2)
  BY DEF Drawn, Prints
<1> QED BY <1>1 DEF Drawn, Stored, Sending, Unscrolled

LEMMA PrintsAppend ==
  ASSUME NEW chars \in Seq(Char), NEW ch \in Char
  PROVE  LET more == Append(chars, ch)
         IN  /\ more # <<>> /\ more[Len(more)] = ch /\ Len(more) - 1 = Len(chars)
             /\ Papers(more)[Len(chars)] = Papers(chars)[Len(chars)]
             /\ Prints(ch, Papers(chars)[Len(chars)], Papers(more)[Len(more)])
<1> PICK more : more = Append(chars, ch)
  OBVIOUS
<1>1. more # <<>> /\ more[Len(more)] = ch /\ Len(more) - 1 = Len(chars) /\ Len(chars) \in 0 .. Len(chars)
  OBVIOUS
<1>2. IsPaper(Papers(chars)[Len(chars)])
  BY <1>1, PapersType
<1>3. /\ Papers(more)[Len(chars)] = Papers(chars)[Len(chars)]
      /\ Papers(more)[Len(more)] = Typed(Papers(chars)[Len(chars)], ch)
  BY PaperAppend
<1>4. Prints(ch, Papers(chars)[Len(chars)], Typed(Papers(chars)[Len(chars)], ch))
  BY <1>2, TypedIs DEF Prints
<1> QED BY <1>1, <1>3, <1>4

LEMMA PrintsLast ==
  ASSUME TypeOK, output # <<>>, c = output[Len(output)]
  PROVE  Prints(c, Papers(output)[Before], Paper)
<1>1. /\ output \in Seq(Char) /\ Len(output) \in Nat /\ Len(output) # 0 /\ Before = Len(output) - 1
      /\ Len(output) \in 0 .. Len(output) /\ Before \in 0 .. Len(output)
  BY DEF TypeOK, Before
<1>2. c \in Char
  BY <1>1
<1>3. Papers(output)[Len(output)] = Typed(Papers(output)[Before], c)
  BY <1>1, PapersAre
<1>4. IsPaper(Papers(output)[Before])
  BY <1>1, PapersType
<1>5. Prints(c, Papers(output)[Before], Typed(Papers(output)[Before], c))
  BY <1>2, <1>4, TypedIs DEF Prints
<1> QED BY <1>3, <1>5 DEF Paper

\* The handler's letter goes through all steps of term_putchar at once.
LEMMA DrawnWarn ==
  ASSUME TypeOK, CursorInv, ~torn, ~torn', DrawnInv, WarnPutchar
  PROVE  DrawnInv'
<1> PICK ch, t, col, row : ch = Head(left) /\ t = term /\ col = term_col /\ row = term_row
  OBVIOUS
<1>1. left # <<>> /\ pc' = pc /\ output' = Append(output, ch) /\ output \in Seq(Char)
      /\ ch \in Letter /\ ch \in Char /\ t \in [Cell -> Letter \cup {Blank}]
      /\ col \in Int /\ row \in Int
  BY Controls DEF WarnPutchar, TypeOK
<1>2. pc \in {"user", "loop"} /\ ~InPutchar'
  BY <1>1 DEF CursorInv, Placed, InPutchar
<1> PICK old, new : old = Paper /\ new = Papers(output')[Len(output')]
  OBVIOUS
<1>3. Prints(ch, old, new)
  BY <1>1, PrintsAppend DEF Paper
<1>4. Drawn("plain", t, col, row, ch, old, new)
  <2>1. Drawn(pc, t, col, row, c, Papers(output)[Before], old) /\ pc \in Stored
    BY <1>2 DEF DrawnInv, AtCol, AtRow, Stored, Before
  <2> QED BY <2>1, <1>3, DrawnStarts
<1> PICK wrapped, col1, row1 :
      /\ wrapped = Edge(col)
      /\ col1 = (IF wrapped THEN 0 ELSE col)
      /\ row1 = (IF wrapped THEN row + 1 ELSE row)
  OBVIOUS
<1> PICK t1, row2 :
      /\ t1 = (IF Bottom(row1) THEN Cleared(Shifted(t), row1 - 1) ELSE t)
      /\ row2 = (IF Bottom(row1) THEN row1 - 1 ELSE row1)
  OBVIOUS
<1>5. /\ term_row' = row2 /\ term_col' = col1 + 1
      /\ term' = Put(t1, col1 + row2 * Width, ch)
  <2>1. /\ term_row' = row2 /\ term_col' = (IF wrapped THEN 1 ELSE col + 1)
        /\ term' = Put(t1, (IF wrapped THEN 0 ELSE col) + term_row' * Width, ch)
    BY DEF WarnPutchar
  <2>2. term_col' = col1 + 1
    BY <2>1, <1>1
  <2> QED BY <2>1, <2>2
<1>6. Drawn("scroll", t, col1, row1, ch, old, new)
  <2>1. Drawn("wrap", t, col, row, ch, old, new)
    BY <1>1, <1>3, <1>4, DrawnControl
  <2>2. CASE wrapped
    <3>1. Drawn("wrap return", t, col, row, ch, old, new)
      BY <2>1, <2>2, <1>3, DrawnWrap DEF Edge
    <3>2. Drawn("wrap feed", t, 0, row, ch, old, new)
      BY <3>1, <1>3, DrawnFeed
    <3>3. Drawn("scroll", t, 0, row + 1, ch, old, new)
      BY <3>2, <1>3, DrawnFeed
    <3> QED BY <3>3, <2>2
  <2>3. CASE ~wrapped
    BY <2>1, <2>3, <1>3, DrawnWrap DEF Edge
  <2> QED BY <2>2, <2>3
<1>7. Drawn("write", t1, col1, row2, ch, old, new) /\ t1 \in [Cell -> Letter \cup {Blank}]
  <2>1. CASE Bottom(row1)
    <3>1. Drawn("shift", t, col1, row1, ch, old, new)
      BY <2>1, <1>3, <1>6, DrawnScroll DEF Bottom
    <3>2. Shifted(t) \in [Cell -> Letter \cup {Blank}]
      BY <1>1, ShiftedType
    <3>3. Drawn("row up", Shifted(t), col1, row1, ch, old, new)
      BY <3>1, <1>1, <1>3, DrawnShift
    <3>4. Drawn("clear", Shifted(t), col1, row1 - 1, ch, old, new)
      BY <3>2, <3>3, <1>3, DrawnShift
    <3>5. Drawn("write", Cleared(Shifted(t), row1 - 1), col1, row1 - 1, ch, old, new)
      BY <3>2, <3>4, <1>3, DrawnShift
    <3>6. Height \in Int
      BY TerminalAssumption
    <3>7. row1 - 1 \in Int
      BY <2>1, <3>6 DEF Bottom
    <3>8. Cleared(Shifted(t), row1 - 1) \in [Cell -> Letter \cup {Blank}]
      BY <3>2, <3>7, ClearedType
    <3> QED BY <2>1, <3>5, <3>8
  <2>2. CASE ~Bottom(row1)
    BY <2>2, <1>1, <1>3, <1>6, DrawnScroll DEF Bottom
  <2> QED BY <2>1, <2>2
<1>8. Drawn("advance", term', col1, row2, ch, old, new)
  BY <1>1, <1>3, <1>5, <1>7, Controls, DrawnWrite
<1>9. Drawn("low index", term', col1 + 1, row2, ch, old, new)
  BY <1>3, <1>8, DrawnShown
<1>10. pc' \in Stored /\ AtCol' = term_col' /\ AtRow' = term_row' /\ Paper' = new
  BY <1>1, <1>2 DEF Stored, AtCol, AtRow, Paper
<1>11. Drawn(pc', term', AtCol', AtRow', c', Papers(output')[Before'], Paper')
  <2>1. "low index" \in Stored
    BY DEF Stored, Sending
  <2>2. PICK ch2, old2, next, t2, col2 : /\ ch2 = c' /\ old2 = Papers(output')[Before']
                                         /\ next = pc' /\ t2 = term' /\ col2 = col1 + 1
    OBVIOUS
  <2>3. next \in Stored /\ Drawn("low index", t2, col2, row2, ch, old, new)
    BY <1>9, <1>10, <2>2
  <2>4. Drawn(next, t2, col2, row2, ch2, old2, new)
    BY <2>1, <2>3, DrawnStored
  <2> QED BY <1>5, <1>10, <2>2, <2>4
<1> QED BY <1>2, <1>11 DEF DrawnInv, Before

LEMMA DrawnNextChar ==
  ASSUME TypeOK, ~torn, DrawnInv, NEW how, NextChar(how)
  PROVE  DrawnInv'
<1>1. /\ pc = "loop" /\ pc' = "plain" /\ term' = term /\ output' = Append(output, c')
      /\ c' = buffer[i + 1] /\ i < Len(buffer)
      /\ reg' = [col |-> term_col, row |-> term_row] /\ UNCHANGED <<term_col, term_row>>
  BY DEF NextChar, Goto, screen
<1>2. c' \in Char /\ output \in Seq(Char)
  <2>1. i + 1 \in 1 .. Len(buffer) /\ buffer \in Seq(Char)
    BY <1>1 DEF TypeOK
  <2> QED BY <2>1, <1>1 DEF TypeOK
<1> PICK ch, old, new : ch = c' /\ old = Paper /\ new = Papers(output')[Len(output')]
  OBVIOUS
<1>3. /\ Prints(ch, old, new) /\ output' # <<>> /\ output'[Len(output')] = ch
      /\ Len(output') - 1 = Len(output) /\ Papers(output')[Len(output)] = old
  BY <1>1, <1>2, PrintsAppend DEF Paper
<1>4. Drawn("loop", term, term_col, term_row, c, Papers(output)[Before], old)
  BY <1>1 DEF DrawnInv, AtCol, AtRow, Stored, Before
<1>5. Drawn("plain", term, term_col, term_row, ch, old, new)
  BY <1>3, <1>4, DrawnStarts DEF Stored
<1>6. AtCol' = term_col /\ AtRow' = term_row
  <2>1. AtCol' = Col' /\ AtRow' = Row'
    BY <1>1 DEF AtCol, AtRow, Stored, Sending
  <2>2. Col' = term_col /\ Row' = term_row
    BY <1>1 DEF Col, Row
  <2> QED BY <2>1, <2>2
<1>7. Before' = Len(output) /\ Paper' = new
  BY <1>3 DEF Before, Paper
<1>8. Drawn(pc', term', AtCol', AtRow', c', Papers(output')[Before'], Paper')
  BY <1>1, <1>3, <1>5, <1>6, <1>7
<1> QED BY <1>3, <1>8 DEF DrawnInv, Before

\* A step inside term_putchar, from what it does to the picture.
LEMMA DrawnStep ==
  ASSUME TypeOK, DrawnInv, ~torn, InPutchar, UNCHANGED <<output, c>>,
         NEW t, t = term, NEW col, col = AtCol, NEW row, row = AtRow,
         \A old, new : Prints(c, old, new) /\ Drawn(pc, t, col, row, c, old, new)
                         => Drawn(pc', term', AtCol', AtRow', c, old, new)
  PROVE  DrawnInv'
<1>1. output # <<>> /\ c = output[Len(output)]
  BY DEF DrawnInv
<1> PICK ch, old, new : ch = c /\ old = Papers(output)[Before] /\ new = Paper
  OBVIOUS
<1>2. Prints(ch, old, new)
  BY <1>1, PrintsLast
<1>3. Drawn(pc, t, col, row, ch, old, new)
  BY DEF DrawnInv
<1>4. Drawn(pc', term', AtCol', AtRow', ch, old, new)
  BY <1>2, <1>3
<1>5. Paper' = new /\ Papers(output')[Before'] = old /\ c' = ch
  BY DEF Paper, Before
<1> QED BY <1>1, <1>4, <1>5 DEF DrawnInv

LEMMA AtMoves ==
  ASSUME TypeOK, NEW from, NEW to, from \notin Stored, to \notin Stored, Goto(from, to),
         NEW col \in Int, NEW row \in Int, Move(col, row)
  PROVE  AtCol = Col /\ AtRow = Row /\ AtCol' = col /\ AtRow' = row
<1>1. Col' = col /\ Row' = row
  BY MoveMoves
<1> QED BY <1>1 DEF Goto, AtCol, AtRow

LEMMA AtStays ==
  ASSUME NEW from, NEW to, from \notin Stored, to \notin Stored, Goto(from, to), UNCHANGED cursor
  PROVE  AtCol = Col /\ AtRow = Row /\ AtCol' = Col /\ AtRow' = Row
<1>1. Col' = Col /\ Row' = Row
  BY CursorKept
<1> QED BY <1>1 DEF Goto, AtCol, AtRow

\* The steps that move the cursor, and those that only look at it.
LEMMA DrawnMoves ==
  ASSUME TypeOK, DrawnInv, ~torn,
         CarriageReturn \/ Back \/ Newline \/ NewlineFeed \/ WrapReturn \/ WrapFeed \/ RowUp \/ Advance
  PROVE  DrawnInv'
<1> PICK t, col, row : t = term /\ col = Col /\ row = Row
  OBVIOUS
<1>0. /\ col \in Int /\ row \in Int /\ InPutchar /\ UNCHANGED <<output, c, term>>
      /\ t \in [Cell -> Letter \cup {Blank}]
  <2>1. Col \in Int /\ Row \in Int
    BY ColRowType
  <2>2. term \in [Cell -> Letter \cup {Blank}]
    BY DEF TypeOK
  <2> QED BY <2>1, <2>2
    DEF CarriageReturn, Back, Newline, NewlineFeed, WrapReturn, WrapFeed, RowUp, Advance, Goto, InPutchar,
        others, screen, writing
<1> DEFINE Becomes(from, to, col2, row2) ==
             \A old, new : Prints(c, old, new) /\ Drawn(from, t, col, row, c, old, new)
                             => Drawn(to, t, col2, row2, c, old, new)
<1>1. ASSUME NEW from, NEW to, from \notin Stored, to \notin Stored, Goto(from, to),
             NEW col2 \in Int, NEW row2 \in Int, Move(col2, row2), Becomes(from, to, col2, row2)
      PROVE  DrawnInv'
  <2>1. AtCol = col /\ AtRow = row /\ AtCol' = col2 /\ AtRow' = row2
    BY <1>1, AtMoves
  <2>2. pc = from /\ pc' = to /\ t = term /\ term' = t
    BY <1>0, <1>1 DEF Goto
  <2>3. \A old, new : Prints(c, old, new) /\ Drawn(pc, t, col, row, c, old, new)
                         => Drawn(pc', term', AtCol', AtRow', c, old, new)
    BY <1>1, <2>1, <2>2
  <2> HIDE DEF Becomes
  <2> QED BY <1>0, <2>1, <2>2, <2>3, DrawnStep
<1>2. \A step \in {"plain", "back", "erase", "newline feed", "wrap", "wrap return", "wrap feed", "scroll",
                   "shift", "row up", "clear", "write", "advance", "show"} : step \notin Stored
  BY DEF Stored, Sending
<1>. 0 \in Int /\ Row \in Int
  BY ColRowType
<1>3. CASE CarriageReturn
  <2>1. c = "return" /\ Goto("plain", "show") /\ Move(0, row)
    BY <1>3 DEF CarriageReturn
  <2>2. Becomes("plain", "show", 0, row)
    BY <2>1, DrawnControl
  <2> HIDE DEF Becomes
  <2> QED BY <2>1, <2>2, <1>0, <1>1, <1>2
<1>4. CASE Back
  <2>1. Goto("back", "erase") /\ Move(col - 1, row) /\ col - 1 \in Int
    BY <1>0, <1>4 DEF Back
  <2>2. Becomes("back", "erase", col - 1, row)
    BY DrawnBack
  <2> HIDE DEF Becomes
  <2> QED BY <2>1, <2>2, <1>0, <1>1, <1>2
<1>5. CASE Newline
  <2>1. c = "newline" /\ Goto("plain", "newline feed") /\ Move(0, row)
    BY <1>5 DEF Newline
  <2>2. Becomes("plain", "newline feed", 0, row)
    BY <2>1, DrawnControl
  <2> HIDE DEF Becomes
  <2> QED BY <2>1, <2>2, <1>0, <1>1, <1>2
<1>6. CASE NewlineFeed
  <2>0. Goto("newline feed", "wrap") /\ Move(Col, Row + 1)
    BY <1>6 DEF NewlineFeed
  <2> PICK next : next = Row + 1
    OBVIOUS
  <2>1. Goto("newline feed", "wrap") /\ Move(col, next) /\ next = row + 1 /\ next \in Int
    <3>1. next \in Int /\ next = row + 1
      OBVIOUS
    <3> QED BY Zenon, <2>0, <3>1
  <2>2. Becomes("newline feed", "wrap", col, next)
    BY <2>1, DrawnFeed
  <2> HIDE DEF Becomes
  <2> QED BY <2>1, <2>2, <1>0, <1>1, <1>2
<1>7. CASE WrapReturn
  <2>1. Goto("wrap return", "wrap feed") /\ Move(0, row)
    BY <1>7 DEF WrapReturn
  <2>2. Becomes("wrap return", "wrap feed", 0, row)
    BY DrawnFeed
  <2> HIDE DEF Becomes
  <2> QED BY <2>1, <2>2, <1>0, <1>1, <1>2
<1>8. CASE WrapFeed
  <2>0. Goto("wrap feed", "scroll") /\ Move(Col, Row + 1)
    BY <1>8 DEF WrapFeed
  <2> PICK next : next = Row + 1
    OBVIOUS
  <2>1. Goto("wrap feed", "scroll") /\ Move(col, next) /\ next = row + 1 /\ next \in Int
    <3>1. next \in Int /\ next = row + 1
      OBVIOUS
    <3> QED BY Zenon, <2>0, <3>1
  <2>2. Becomes("wrap feed", "scroll", col, next)
    BY <2>1, DrawnFeed
  <2> HIDE DEF Becomes
  <2> QED BY <2>1, <2>2, <1>0, <1>1, <1>2
<1>9. CASE RowUp
  <2>0. Goto("row up", "clear") /\ Move(Col, Row - 1)
    BY <1>9 DEF RowUp
  <2> PICK next : next = Row - 1
    OBVIOUS
  <2>1. Goto("row up", "clear") /\ Move(col, next) /\ next = row - 1 /\ next \in Int
    <3>1. next \in Int /\ next = row - 1
      OBVIOUS
    <3> QED BY Zenon, <2>0, <3>1
  <2>2. Becomes("row up", "clear", col, next)
    BY <2>1, <1>0, DrawnShift
  <2> HIDE DEF Becomes
  <2> QED BY <2>1, <2>2, <1>0, <1>1, <1>2
<1>10. CASE Advance
  <2>1. Goto("advance", "show") /\ Move(col + 1, row) /\ col + 1 \in Int
    BY <1>0, <1>10 DEF Advance
  <2>2. Becomes("advance", "show", col + 1, row)
    BY DrawnShown
  <2> HIDE DEF Becomes
  <2> QED BY <2>1, <2>2, <1>0, <1>1, <1>2
<1> HIDE DEF Becomes
<1> QED BY <1>3, <1>4, <1>5, <1>6, <1>7, <1>8, <1>9, <1>10

LEMMA DrawnStays ==
  ASSUME TypeOK, Printing, DrawnInv, ~torn,
         Backspace \/ Plain \/ Wrap \/ Scroll \/ WriteNothing \/ Erase \/ ClearRow \/ WriteChar
  PROVE  DrawnInv'
<1> PICK t, col, row, t2 : t = term /\ col = Col /\ row = Row /\ t2 = term'
  OBVIOUS
<1>0. /\ col \in Int /\ row \in Int /\ InPutchar /\ UNCHANGED <<output, c, cursor>>
      /\ t \in [Cell -> Letter \cup {Blank}]
  <2>1. Col \in Int /\ Row \in Int
    BY ColRowType
  <2>2. term \in [Cell -> Letter \cup {Blank}]
    BY DEF TypeOK
  <2> QED BY <2>1, <2>2
    DEF Backspace, Plain, Wrap, Scroll, WriteNothing, Erase, ClearRow, WriteChar, Goto, InPutchar,
        others, writing
<1> DEFINE Becomes(from, to, new2) ==
             \A old, new : Prints(c, old, new) /\ Drawn(from, t, col, row, c, old, new)
                             => Drawn(to, new2, col, row, c, old, new)
<1>1. ASSUME NEW from, NEW to, from \notin Stored, to \notin Stored, Goto(from, to),
             Becomes(from, to, t2)
      PROVE  DrawnInv'
  <2>1. AtCol = col /\ AtRow = row /\ AtCol' = col /\ AtRow' = row
    BY <1>0, <1>1, AtStays
  <2>2. pc = from /\ pc' = to /\ t = term /\ term' = t2
    BY <1>0, <1>1 DEF Goto
  <2>3. \A old, new : Prints(c, old, new) /\ Drawn(pc, t, col, row, c, old, new)
                         => Drawn(pc', term', AtCol', AtRow', c, old, new)
    BY <1>1, <2>1, <2>2
  <2> HIDE DEF Becomes
  <2> QED BY <1>0, <2>1, <2>2, <2>3, DrawnStep
<1>2. \A step \in {"plain", "back", "erase", "newline feed", "wrap", "wrap return", "wrap feed", "scroll",
                   "shift", "row up", "clear", "write", "advance", "show"} : step \notin Stored
  BY DEF Stored, Sending
<1>3. CASE Backspace
  <2>1. /\ c = "backspace" /\ t2 = t
        /\ \/ col > 0 /\ Goto("plain", "back")
           \/ ~(col > 0) /\ Goto("plain", "show")
    BY <1>3 DEF Backspace, Erasable, others, screen
  <2>2. CASE col > 0 /\ Goto("plain", "back")
    <3>1. Becomes("plain", "back", t2)
      BY <2>1, <2>2, DrawnControl
    <3> HIDE DEF Becomes
    <3> QED BY <2>2, <3>1, <1>1, <1>2
  <2>3. CASE ~(col > 0) /\ Goto("plain", "show")
    <3>1. Becomes("plain", "show", t2)
      BY <2>1, <2>3, DrawnControl
    <3> HIDE DEF Becomes
    <3> QED BY <2>3, <3>1, <1>1, <1>2
  <2> QED BY <2>1, <2>2, <2>3
<1>4. CASE Plain
  <2>1. c \in Letter /\ t2 = t /\ Goto("plain", "wrap")
    BY <1>4 DEF Plain, others, screen
  <2>2. Becomes("plain", "wrap", t2)
    BY <2>1, DrawnControl
  <2> HIDE DEF Becomes
  <2> QED BY <2>1, <2>2, <1>1, <1>2
<1>5. CASE Wrap
  <2>1. /\ t2 = t
        /\ \/ col = Width /\ Goto("wrap", "wrap return")
           \/ col # Width /\ Goto("wrap", "scroll")
    BY <1>5 DEF Wrap, Edge, others, screen
  <2>2. CASE col = Width /\ Goto("wrap", "wrap return")
    <3>1. Becomes("wrap", "wrap return", t2)
      BY <2>1, <2>2, DrawnWrap
    <3> HIDE DEF Becomes
    <3> QED BY <2>2, <3>1, <1>1, <1>2
  <2>3. CASE col # Width /\ Goto("wrap", "scroll")
    <3>1. Becomes("wrap", "scroll", t2)
      BY <2>1, <2>3, DrawnWrap
    <3> HIDE DEF Becomes
    <3> QED BY <2>3, <3>1, <1>1, <1>2
  <2> QED BY <2>1, <2>2, <2>3
<1>6. CASE Scroll
  <2>1. /\ t2 = t
        /\ \/ row = Height /\ Goto("scroll", "shift")
           \/ row # Height /\ Goto("scroll", "write")
    BY <1>6 DEF Scroll, Bottom, others, screen
  <2>2. CASE row = Height /\ Goto("scroll", "shift")
    <3>1. Becomes("scroll", "shift", t2)
      BY <2>1, <2>2, DrawnScroll
    <3> HIDE DEF Becomes
    <3> QED BY <2>2, <3>1, <1>1, <1>2
  <2>3. CASE row # Height /\ Goto("scroll", "write")
    <3>1. Becomes("scroll", "write", t2)
      BY <2>1, <2>3, DrawnScroll
    <3> HIDE DEF Becomes
    <3> QED BY <2>3, <3>1, <1>1, <1>2
  <2> QED BY <2>1, <2>2, <2>3
<1>7. CASE WriteNothing
  <2>1. c = "newline" /\ t2 = t /\ Goto("write", "show")
    BY <1>7 DEF WriteNothing, others, screen
  <2>2. Becomes("write", "show", t2)
    BY <2>1, <1>0, DrawnWrite
  <2> HIDE DEF Becomes
  <2> QED BY <2>1, <2>2, <1>1, <1>2
<1>8. CASE Erase
  <2>1. t2 = Put(t, row * Width + col, Blank) /\ Goto("erase", "show")
    BY <1>8 DEF Erase, Write
  <2>2. Becomes("erase", "show", t2)
    BY <2>1, <1>0, DrawnErase
  <2> HIDE DEF Becomes
  <2> QED BY <2>1, <2>2, <1>1, <1>2
<1>9. CASE ClearRow
  <2>1. t2 = Cleared(t, row) /\ Goto("clear", "write")
    BY <1>9 DEF ClearRow
  <2>2. Becomes("clear", "write", t2)
    BY <2>1, <1>0, DrawnShift
  <2> HIDE DEF Becomes
  <2> QED BY <2>1, <2>2, <1>1, <1>2
<1>10. CASE WriteChar
  <2>1. c # "newline" /\ t2 = Put(t, col + row * Width, c) /\ Goto("write", "advance")
    BY <1>10 DEF WriteChar, Write
  <2>2. Becomes("write", "advance", t2)
    BY <2>1, <1>0, DrawnWrite
  <2> HIDE DEF Becomes
  <2> QED BY <2>1, <2>2, <1>1, <1>2
<1> HIDE DEF Becomes
<1> QED BY <1>3, <1>4, <1>5, <1>6, <1>7, <1>8, <1>9, <1>10

LEMMA DrawnStores ==
  ASSUME TypeOK, DrawnInv, ~torn, Shift \/ term_update_cursor
  PROVE  DrawnInv'
<1> PICK t, col, row : t = term /\ col = AtCol /\ row = AtRow
  OBVIOUS
<1>0. t \in [Cell -> Letter \cup {Blank}]
  BY DEF TypeOK
<1>1. CASE Shift
  <2>1. /\ pc = "shift" /\ pc' = "row up" /\ term' = Shifted(t) /\ UNCHANGED <<output, c>>
        /\ term_col' = Col /\ term_row' = Row /\ build' = "memory" /\ InPutchar
    BY <1>1 DEF Shift, Goto, writing, InPutchar
  <2>2. AtCol' = col /\ AtRow' = row
    BY <2>1 DEF AtCol, AtRow, Col, Row, Stored, Sending
  <2>3. \A old, new : Prints(c, old, new) /\ Drawn(pc, t, col, row, c, old, new)
                        => Drawn(pc', term', AtCol', AtRow', c, old, new)
    BY <2>1, <2>2, <1>0, DrawnShift
  <2> QED BY <2>1, <2>3, DrawnStep
<1>2. CASE Show
  <2>1. /\ pc = "show" /\ pc' = "low index" /\ term' = t /\ UNCHANGED <<output, c>>
        /\ term_col' = Col /\ term_row' = Row /\ InPutchar
    BY <1>2 DEF Show, Goto, writing, screen, InPutchar
  <2>2. AtCol' = col /\ AtRow' = row
    BY <2>1 DEF AtCol, AtRow, Stored, Sending
  <2>3. \A old, new : Prints(c, old, new) /\ Drawn(pc, t, col, row, c, old, new)
                        => Drawn(pc', term', AtCol', AtRow', c, old, new)
    BY <2>1, <2>2, DrawnShown
  <2> QED BY <2>1, <2>3, DrawnStep
<1>3. CASE term_update_cursor /\ ~Show
  <2>1. /\ pc \in Stored /\ pc' \in Stored /\ term' = t /\ UNCHANGED <<output, c, cursor>> /\ InPutchar
    BY <1>3 DEF term_update_cursor, Address, Data, Goto, writing, screen, InPutchar, Stored, Sending
  <2>2. AtCol' = col /\ AtRow' = row
    BY <2>1 DEF AtCol, AtRow, cursor
  <2>3. \A old, new : Prints(c, old, new) /\ Drawn(pc, t, col, row, c, old, new)
                        => Drawn(pc', term', AtCol', AtRow', c, old, new)
    BY <2>1, <2>2, DrawnStored
  <2> QED BY <2>1, <2>3, DrawnStep
<1> QED BY <1>1, <1>2, <1>3

LEMMA DrawnInit == Init => DrawnInv
<1> SUFFICES ASSUME Init PROVE DrawnInv
  OBVIOUS
<1>1. /\ pc = "user" /\ term = [n \in Cell |-> Blank] /\ term_col = 0 /\ term_row = 0 /\ output = <<>>
      /\ <<>> \in Seq(Char) /\ Len(<<>>) = 0 /\ 0 \in 0 .. 0
  BY DEF Init
<1>2. Papers(<<>>)[0] = Clean
  BY <1>1, PapersAre
<1>3. Paper = Clean
  BY <1>1, <1>2 DEF Paper
<1>4. Height \in Nat \ {0}
  BY TerminalAssumption
<1>5. Above(0) = 0
  BY <1>4 DEF Above
<1>6. Shows(term, Clean.text, 0)
  <2>1. \A at : Seen(Empty, at) = Blank
    BY DEF Seen, Empty
  <2> QED BY <1>1, <2>1, CleanPaper DEF Shows
<1>7. AtCol = 0 /\ AtRow = 0 /\ ~InPutchar
  BY <1>1 DEF AtCol, AtRow, Stored, InPutchar
<1>8. Drawn("user", term, 0, 0, c, Papers(output)[Before], Clean)
  BY <1>5, <1>6, CleanPaper DEF Drawn, Stored, Sending, Unscrolled
<1> QED BY <1>1, <1>3, <1>7, <1>8 DEF DrawnInv

LEMMA DrawnNext ==
  ASSUME TypeOK, Printing, CursorInv, DrawnInv, [Next]_vars
  PROVE  DrawnInv'
<1> SUFFICES ASSUME ~torn' PROVE DrawnInv'
  BY DEF DrawnInv
<1>1. ~torn
  <2>1. torn' = torn \/ BufferFull
    BY DEF Next, WarnPutchar, SYS_write, NextChar, Written, term_putchar, CarriageReturn, Backspace, Back,
       Erase, Newline, NewlineFeed, Plain, Wrap, WrapReturn, WrapFeed, Scroll, Shift, RowUp, ClearRow,
       WriteChar, WriteNothing, Advance, term_update_cursor, Show, Address, Data, others, handler, vars
  <2>2. BufferFull => torn' = (torn \/ InPutchar)
    BY DEF BufferFull
  <2> QED BY <2>1, <2>2 DEF TypeOK
<1>2. CASE BufferFull \/ UNCHANGED vars
  <2>1. UNCHANGED <<output, c, pc, term, cursor>>
    BY <1>2 DEF BufferFull, vars, writing, screen
  <2>2. /\ AtCol' = AtCol /\ AtRow' = AtRow /\ Paper' = Paper /\ Before' = Before
        /\ InPutchar' = InPutchar
    BY <2>1, CursorKept DEF AtCol, AtRow, Paper, Before, InPutchar
  <2> QED BY <1>1, <2>1, <2>2 DEF DrawnInv
<1>3. CASE Written \/ \E file_descriptor, chars : SYS_write(file_descriptor, chars)
  <2>1. UNCHANGED <<output, term, cursor>> /\ pc \in {"user", "loop"} /\ pc' \in {"user", "loop"}
    BY <1>3 DEF Written, SYS_write, Goto, screen
  <2>2. PICK t, col, row, new, ch, old :
          /\ t = term /\ col = AtCol /\ row = AtRow /\ new = Paper
          /\ ch = c' /\ old = Papers(output')[Before']
    OBVIOUS
  <2>3. AtCol' = col /\ AtRow' = row /\ Paper' = new /\ ~InPutchar' /\ pc \in Stored /\ pc' \in Stored
    BY <2>1, <2>2 DEF AtCol, AtRow, Paper, InPutchar, Stored, cursor
  <2>4. Drawn(pc, t, col, row, c, Papers(output)[Before], new)
    BY <1>1, <2>2 DEF DrawnInv
  <2>5. Drawn(pc', t, col, row, ch, old, new)
    BY <2>3, <2>4, DrawnStored
  <2> QED BY <2>1, <2>2, <2>3, <2>5 DEF DrawnInv
<1>4. CASE WarnPutchar
  BY <1>1, <1>4, DrawnWarn
<1>5. CASE \E how \in Builds : NextChar(how)
  BY <1>1, <1>5, DrawnNextChar
<1>6. CASE CarriageReturn \/ Back \/ Newline \/ NewlineFeed \/ WrapReturn \/ WrapFeed \/ RowUp \/ Advance
  BY <1>1, <1>6, DrawnMoves
<1>7. CASE Backspace \/ Plain \/ Wrap \/ Scroll \/ WriteNothing \/ Erase \/ ClearRow \/ WriteChar
  BY <1>1, <1>7, DrawnStays
<1>8. CASE Shift \/ term_update_cursor
  BY <1>1, <1>8, DrawnStores
<1> QED BY Zenon, <1>2, <1>3, <1>4, <1>5, <1>6, <1>7, <1>8 DEF Next, term_putchar

\* Between two characters that nothing broke into, the screen is the last lines
\* of all that was printed, for a screen of any size and any text.
THEOREM ScreenShowsOutput == Spec => []ShowsOutput
<1>1. DrawnInv => ShowsOutput
  <2> SUFFICES ASSUME DrawnInv, AtRest, ~torn
               PROVE  /\ term_row = Paper.line - Above(Paper.line) /\ term_col = Paper.col
                      /\ Shows(term, Paper.text, Above(Paper.line))
    BY DEF ShowsOutput
  <2>1. PICK step, t, col, row, ch, old, new :
          /\ step = pc /\ t = term /\ col = AtCol /\ row = AtRow /\ ch = c
          /\ old = Papers(output)[Before] /\ new = Paper
    OBVIOUS
  <2>2. Drawn(step, t, col, row, ch, old, new) /\ step \in Stored
    BY <2>1 DEF DrawnInv, AtRest, Stored
  <2>3. /\ col = new.col /\ row = new.line - Above(new.line)
        /\ Shows(t, new.text, Above(new.line))
    BY <2>2 DEF Drawn
  <2>4. col = term_col /\ row = term_row
    BY <2>1, <2>2 DEF AtCol, AtRow
  <2> QED BY <2>1, <2>3, <2>4
<1>2. TypeOK /\ Printing /\ CursorInv /\ DrawnInv /\ [Next]_vars => (TypeOK /\ Printing /\ CursorInv /\ DrawnInv)'
  BY TypeNext, PrintingNext, CursorNext, DrawnNext
<1> QED BY <1>1, <1>2, TypeInit, CursorInit, DrawnInit, PTL DEF Spec
=============================================================================
