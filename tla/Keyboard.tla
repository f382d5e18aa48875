------------------------------- MODULE Keyboard -------------------------------
(***************************************************************************)
(* Keyboard input: the interrupt handler, the circular buffer it shares    *)
(* with kgetc, and SYS_read, which edits a line out of what kgetc returns  *)
(* (kernel/interrupts.c).                                                  *)
(*                                                                         *)
(* There is one CPU.  The handler runs to its end between two instructions *)
(* of the program, wherever the program is: all gates are trap gates, so   *)
(* interrupts stay on inside a system call, and the next keyboard          *)
(* interrupt waits for the EOI that the handler sends last.  So the        *)
(* handler is one step, and kgetc is one step per access to what they      *)
(* share.                                                                  *)
(***************************************************************************)
EXTENDS Integers, FiniteSets, Sequences

CONSTANTS
  BufSize,      \* IO_BUFFER_SIZE, 1000
  Letter,       \* the keys that are not listed below
  Decrements,   \* how a build may compile iobuffer_count--, see Uncount
  MaxLength,    \* model bound: characters asked of SYS_read
  MaxWire,      \* model bound: scan codes the controller holds
  MaxTyped      \* model bound: scan codes the user ever causes

ASSUME KeyboardAssumption ==
  /\ BufSize \in Nat \ {0}
  /\ Decrements \subseteq {"whole", "split"}
  /\ MaxLength \in Nat
  /\ MaxWire \in Nat
  /\ MaxTyped \in Nat

\* Scan codes, by what the handler does with them.  "release" is any other
\* code above 0x3A.
ShiftCode == {"lshift down", "lshift up", "rshift down", "rshift up"}
CharCode  == Letter \cup {"backspace"}
Code      == ShiftCode \cup CharCode \cup {"release"}

\* Characters, by their key and the table they come from; backspace is '\b'
\* in both tables.
Erasing == <<"backspace", "table">>
Char    == {Erasing} \cup (Letter \X {"table", "table_caps"})
Nothing == <<"nothing", "table">>

VARIABLES
  wire,               \* codes the controller has for port 0x60
  typed,              \* model bound: scan codes caused so far
  left_shift_flag, right_shift_flag,
  iobuffer, read_val, write_val, iobuffer_count,
  pc,                 \* where the program is, "user" outside SYS_read
  length, i, buffer,  \* argument and locals of SYS_read
  res,                \* the character kgetc took last
  tmp,                \* a register
  eaten,              \* history: what this SYS_read has got from kgetc
  lost                \* history: a key was counted between load and store

shift == <<left_shift_flag, right_shift_flag>>
ring  == <<iobuffer, read_val, write_val, iobuffer_count>>
call  == <<length, i, buffer>>
keys  == <<wire, typed>>
vars  == <<keys, shift, ring, pc, call, res, tmp, eaten, lost>>

Index == 0 .. BufSize - 1

Init ==
  /\ wire = <<>> /\ typed = 0
  /\ left_shift_flag = 0 /\ right_shift_flag = 0
  /\ iobuffer = [n \in Index |-> Nothing]
  /\ read_val = 0 /\ write_val = 0 /\ iobuffer_count = 0
  /\ pc = "user"
  /\ length = 0 /\ i = 0 /\ buffer = <<>>
  /\ res = Nothing /\ tmp = 0
  /\ eaten = <<>>
  /\ lost = FALSE

-----------------------------------------------------------------------------
(* The keyboard controller: the user presses or releases a key.            *)
Key(code) ==
  /\ Len(wire) < MaxWire
  /\ typed < MaxTyped
  /\ wire' = Append(wire, code)
  /\ typed' = typed + 1
  /\ UNCHANGED <<shift, ring, pc, call, res, tmp, eaten, lost>>

-----------------------------------------------------------------------------
(* keyboard_handler                                                        *)

Translate(key) ==
  IF key = "backspace" THEN Erasing
  ELSE <<key, IF left_shift_flag = 1 \/ right_shift_flag = 1 THEN "table_caps" ELSE "table">>

\* Mutant: one character too many.
FullTooLate == iobuffer_count = BufSize + 1
Full == iobuffer_count = BufSize

\* Mutant: the character is stored and not counted.
CountedNot == iobuffer_count
Counted == iobuffer_count + 1

\* Mutant: iobuffer[++write_val].
PlaceAfter == (write_val + 1) % BufSize
Place == write_val

ShiftKey(code) ==
  /\ left_shift_flag'  = IF code = "lshift down" THEN 1
                         ELSE IF code = "lshift up" THEN 0 ELSE left_shift_flag
  /\ right_shift_flag' = IF code = "rshift down" THEN 1
                         ELSE IF code = "rshift up" THEN 0 ELSE right_shift_flag
  /\ UNCHANGED ring

\* A release, or a key when "Buffer is full".
Ignored(code) ==
  /\ code \notin ShiftCode
  /\ code \notin CharCode \/ Full
  /\ UNCHANGED <<shift, ring>>

Store(code) ==
  /\ code \in CharCode
  /\ ~Full
  /\ iobuffer' = [iobuffer EXCEPT ![Place] = Translate(code)]
  /\ write_val' = (write_val + 1) % BufSize
  /\ iobuffer_count' = Counted
  /\ UNCHANGED <<shift, read_val>>

keyboard_handler ==
  /\ wire # <<>>
  /\ wire' = Tail(wire)
  /\ LET code == Head(wire)
     IN  (code \in ShiftCode /\ ShiftKey(code)) \/ Ignored(code) \/ Store(code)
  /\ UNCHANGED <<typed, pc, call, res, tmp, eaten, lost>>

-----------------------------------------------------------------------------
(* kgetc                                                                   *)

\* The end of "while (iobuffer_count == 0)".
Poll ==
  /\ pc = "poll"
  /\ iobuffer_count # 0
  /\ pc' = "take"
  /\ UNCHANGED <<keys, shift, ring, call, res, tmp, eaten, lost>>

\* The two updates of read_val are one step: no one else reads it.
Take ==
  /\ pc = "take"
  /\ res' = iobuffer[read_val]
  /\ read_val' = (read_val + 1) % BufSize
  /\ eaten' = Append(eaten, res')
  /\ pc' = "uncount"
  /\ UNCHANGED <<keys, shift, iobuffer, write_val, iobuffer_count, call, tmp, lost>>

\* iobuffer_count-- on a volatile int: one instruction, or a load, a
\* subtraction and a store.  C leaves it open, and an interrupt may fall in
\* between.
Uncount(how) ==
  /\ pc = "uncount"
  /\ IF how = "whole"
     THEN /\ iobuffer_count' = iobuffer_count - 1
          /\ pc' = "edit"
          /\ UNCHANGED tmp
     ELSE /\ tmp' = iobuffer_count
          /\ pc' = "store"
          /\ UNCHANGED iobuffer_count
  /\ UNCHANGED <<keys, shift, iobuffer, read_val, write_val, call, res, eaten, lost>>

StoreCount ==
  /\ pc = "store"
  /\ iobuffer_count' = tmp - 1
  /\ lost' = (lost \/ iobuffer_count # tmp)
  /\ tmp' = 0
  /\ pc' = "edit"
  /\ UNCHANGED <<keys, shift, iobuffer, read_val, write_val, call, res, eaten>>

-----------------------------------------------------------------------------
(* SYS_read                                                                *)

\* A read from another descriptor than 0 returns -1 and does nothing else.
SYS_read(file_descriptor, n) ==
  /\ pc = "user"
  /\ pc' = IF file_descriptor = 0 /\ n > 0 THEN "poll" ELSE "user"
  /\ length' = n
  /\ i' = 0
  /\ buffer' = <<>>
  /\ eaten' = <<>>
  /\ UNCHANGED <<keys, shift, ring, res, tmp, lost>>

\* Mutant: a backspace forgets the character but not its place.
KeptPlace(n) == n
OneLess(n) == n - 1

Edit ==
  /\ pc = "edit"
  /\ \/ res = Erasing /\ i > 0 /\ i' = OneLess(i) /\ UNCHANGED buffer
     \/ res = Erasing /\ i = 0 /\ UNCHANGED <<i, buffer>>
     \/ /\ res # Erasing
        /\ buffer' = Append(SubSeq(buffer, 1, i), res)
        /\ i' = i + 1
  /\ pc' = IF i' < length THEN "poll" ELSE "user"
  /\ UNCHANGED <<keys, shift, ring, length, res, tmp, eaten, lost>>

-----------------------------------------------------------------------------
\* The program; SYS_read(...) itself is called when the user likes.
Main ==
  \/ Poll
  \/ Take
  \/ \E how \in Decrements : Uncount(how)
  \/ StoreCount
  \/ Edit

Next ==
  \/ \E code \in Code : Key(code)
  \/ keyboard_handler
  \/ \E file_descriptor \in {0, 1}, n \in 0 .. MaxLength : SYS_read(file_descriptor, n)
  \/ Main

Spec == Init /\ [][Next]_vars

\* A code on the wire raises its interrupt, no one runs with interrupts off,
\* and the CPU always goes on with the program.  Nobody has to type.
FairSpec == Spec /\ WF_vars(keyboard_handler) /\ WF_vars(Main)

-----------------------------------------------------------------------------
(* Properties                                                              *)

TypeOK ==
  /\ wire \in Seq(Code)
  /\ left_shift_flag \in {0, 1} /\ right_shift_flag \in {0, 1}
  /\ iobuffer \in [Index -> Char \cup {Nothing}]
  /\ read_val \in Index /\ write_val \in Index
  /\ iobuffer_count \in 0 .. BufSize
  /\ pc \in {"user", "poll", "take", "uncount", "store", "edit"}
  /\ buffer \in Seq(Char) /\ eaten \in Seq(Char)
  /\ i \in 0 .. Len(buffer)
  /\ tmp \in 0 .. BufSize

\* The characters between read_val and write_val, counted by iobuffer_count.
\* From Take on, the one that kgetc holds is still counted.
Unread ==
  LET held == IF pc \in {"uncount", "store"} THEN 1 ELSE 0
  IN  [n \in 1 .. iobuffer_count - held |-> iobuffer[(read_val + n - 1) % BufSize]]

Queue == INSTANCE KeyQueue WITH
  Capacity <- BufSize, queue <- Unread, last <- res

\* Whatever the handler interrupts, kgetc returns "the next character input
\* from the keyboard": the circular buffer is a FIFO queue of at most
\* IO_BUFFER_SIZE characters, in which nothing is lost, doubled or reordered
\* (interrupts.c:124-139, 150-159).  A decrement that is split and hit by an
\* interrupt between its load and its store ends the promise.
ImplementsKeyQueue == Queue!Init /\ [][lost' \/ Queue!Next]_(Queue!vars)

\* The backspaces between two places, ends included.
Erases(chars, from, to) == {n \in from .. to : chars[n] = Erasing}

\* The characters that no later backspace reaches: up to whatever is typed
\* behind them, there are no more backspaces than characters to erase.
Kept(chars) ==
  {n \in DOMAIN chars :
     /\ chars[n] # Erasing
     /\ \A to \in n + 1 .. Len(chars) : 2 * Cardinality(Erases(chars, n + 1, to)) <= to - n}

\* What SYS_read leaves in the caller's buffer when it returns is the line as
\* typed, each backspace having erased the nearest character before it that
\* was still there, and none that an earlier read returned
\* (interrupts.c:224-236).
LineEdited ==
  pc = "user" =>
    /\ i = Cardinality(Kept(eaten))
    /\ \A n \in Kept(eaten) : buffer[Cardinality({m \in Kept(eaten) : m <= n})] = eaten[n]

\* kgetc does not wait for ever while a character is on its way: the handler
\* that stores it also makes "while (iobuffer_count == 0)" end
\* (interrupts.c:132, 138, 152).
ReadAnswered ==
  (pc = "poll" /\ \E n \in DOMAIN wire : wire[n] \in CharCode) ~> (pc # "poll")
=============================================================================
