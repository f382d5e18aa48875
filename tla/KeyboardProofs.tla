---------------------------- MODULE KeyboardProofs ----------------------------
(* Proofs about keyboard input.                                            *)
EXTENDS Keyboard, ModularArithmetic, FiniteSetTheorems

-----------------------------------------------------------------------------
(* The invariant.  Between read_val and write_val are some characters, k,   *)
(* that were stored and not taken.  iobuffer_count never counts more than  *)
(* there are, and counts them all until an interrupt hits a split          *)
(* decrement.                                                              *)

Steps == {"user", "poll", "take", "uncount", "store", "edit"}

held == IF pc \in {"uncount", "store"} THEN 1 ELSE 0
Slot(n) == (read_val + n) % BufSize

Behind(k) ==
  /\ write_val = Slot(k)
  /\ iobuffer_count - held <= k
  /\ pc = "store" => tmp - 1 <= k
  /\ ~lost => iobuffer_count - held = k
  /\ \A n \in 0 .. k - 1 : iobuffer[Slot(n)] \in Char

Counts ==
  /\ pc \in {"take", "uncount"} => iobuffer_count # 0
  /\ pc = "store" => tmp # 0 /\ iobuffer_count # 0
  /\ pc \in {"uncount", "store", "edit"} => res \in Char
  /\ res \in Char \cup {Nothing}
  /\ length \in Int
  /\ lost \in BOOLEAN

KeyInvariant == TypeOK /\ Counts /\ \E k \in Nat : Behind(k)

-----------------------------------------------------------------------------
(* Types                                                                   *)

LEMMA Size == BufSize \in Nat \ {0} /\ 0 \in Index
  BY KeyboardAssumption DEF Index

LEMMA SlotType ==
  ASSUME NEW x \in Int
  PROVE  x % BufSize \in Index
  BY Size, DivMod DEF Index

LEMMA TypeParts ==
  ASSUME TypeOK
  PROVE  /\ read_val \in Nat /\ write_val \in Nat /\ iobuffer_count \in Nat /\ tmp \in Nat
         /\ iobuffer_count <= BufSize /\ tmp <= BufSize
         /\ read_val \in Index /\ write_val \in Index
         /\ iobuffer \in [Index -> Char \cup {Nothing}]
  BY Size DEF TypeOK, Index

LEMMA TailType ==
  ASSUME NEW T, NEW s \in Seq(T), s # <<>>
  PROVE  Head(s) \in T /\ Tail(s) \in Seq(T)
  OBVIOUS

LEMMA AppendType ==
  ASSUME NEW T, NEW s \in Seq(T), NEW x \in T
  PROVE  Append(s, x) \in Seq(T)
  OBVIOUS

LEMMA CutType ==
  ASSUME NEW T, NEW s \in Seq(T), NEW n \in 0 .. Len(s), NEW x \in T
  PROVE  /\ Append(SubSeq(s, 1, n), x) \in Seq(T)
         /\ Len(Append(SubSeq(s, 1, n), x)) = n + 1
  OBVIOUS

LEMMA TranslateType ==
  ASSUME NEW code \in CharCode
  PROVE  Translate(code) \in Char
  BY DEF Translate, CharCode, Char

\* A step of the program that leaves the keys and the buffer alone.
LEMMA ProgramStep ==
  ASSUME TypeOK, UNCHANGED <<keys, shift, ring>>, pc' \in Steps,
         buffer' \in Seq(Char), eaten' \in Seq(Char), i' \in 0 .. Len(buffer'), tmp' \in 0 .. BufSize
  PROVE  TypeOK'
  BY DEF TypeOK, keys, shift, ring, Steps

\* One that changes the buffer only.
LEMMA RingStep ==
  ASSUME TypeOK, wire' \in Seq(Code), left_shift_flag' \in {0, 1}, right_shift_flag' \in {0, 1},
         iobuffer' \in [Index -> Char \cup {Nothing}], read_val' \in Index, write_val' \in Index,
         iobuffer_count' \in 0 .. BufSize, pc' \in Steps, tmp' \in 0 .. BufSize,
         eaten' \in Seq(Char), UNCHANGED <<i, buffer>>
  PROVE  TypeOK'
  BY DEF TypeOK, Steps

LEMMA OtherParts ==
  ASSUME TypeOK
  PROVE  /\ wire \in Seq(Code) /\ left_shift_flag \in {0, 1} /\ right_shift_flag \in {0, 1}
         /\ pc \in Steps /\ buffer \in Seq(Char) /\ eaten \in Seq(Char)
         /\ tmp \in 0 .. BufSize /\ iobuffer_count \in 0 .. BufSize
         /\ i \in 0 .. Len(buffer)
  BY DEF TypeOK, Steps

-----------------------------------------------------------------------------
(* Where the invariant holds, and how many characters there are, k, is kept *)
(* by the steps that do not touch them.                                    *)

LEMMA SameBehind ==
  ASSUME NEW k \in Nat, Behind(k), UNCHANGED <<ring, pc, tmp, lost>>
  PROVE  Behind(k)'
  BY DEF Behind, ring, held, Slot

LEMMA KeyInv ==
  ASSUME KeyInvariant, NEW code \in Code, Key(code)
  PROVE  KeyInvariant'
<1>1. PICK k \in Nat : Behind(k)
  BY DEF KeyInvariant
<1>2. TypeOK'
  <2>1. wire' \in Seq(Code)
    BY OtherParts, AppendType DEF KeyInvariant, Key
  <2>2. UNCHANGED <<shift, ring, pc, call, tmp, eaten>>
    BY DEF Key
  <2> QED BY <2>1, <2>2, OtherParts, TypeParts, RingStep DEF KeyInvariant, shift, ring, call
<1>3. Counts'
  BY DEF KeyInvariant, Counts, Key, ring, call
<1>4. Behind(k)'
  BY <1>1, SameBehind DEF Key
<1> QED BY <1>2, <1>3, <1>4 DEF KeyInvariant

LEMMA ShiftInv ==
  ASSUME KeyInvariant, NEW code \in Code, wire' \in Seq(Code),
         (code \in ShiftCode /\ ShiftKey(code)) \/ Ignored(code),
         UNCHANGED <<typed, pc, call, res, tmp, eaten, lost>>
  PROVE  KeyInvariant'
<1>1. PICK k \in Nat : Behind(k)
  BY DEF KeyInvariant
<1>2. UNCHANGED ring
  BY DEF ShiftKey, Ignored
<1>3. left_shift_flag' \in {0, 1} /\ right_shift_flag' \in {0, 1}
  BY OtherParts DEF KeyInvariant, ShiftKey, Ignored, shift
<1>4. TypeOK'
  BY <1>2, <1>3, OtherParts, TypeParts, RingStep DEF KeyInvariant, ring, call
<1>5. Counts'
  BY <1>2 DEF KeyInvariant, Counts, ring, call
<1>6. Behind(k)'
  BY <1>1, <1>2, SameBehind
<1> QED BY <1>4, <1>5, <1>6 DEF KeyInvariant

\* A character that is stored comes behind the others.
LEMMA StoreBehind ==
  ASSUME TypeOK, NEW k \in Nat, Behind(k), NEW code \in Code, Store(code),
         UNCHANGED <<typed, pc, call, res, tmp, eaten, lost>>, lost \in BOOLEAN
  PROVE  Behind(k + 1)'
<1>1. /\ iobuffer' = [iobuffer EXCEPT ![write_val] = Translate(code)]
      /\ write_val' = (write_val + 1) % BufSize /\ iobuffer_count' = iobuffer_count + 1
      /\ read_val' = read_val /\ Translate(code) \in Char
  BY TranslateType DEF Store, Place, Counted
<1>2. Slot(k)' = Slot(k) /\ Slot(k + 1)' = Slot(k + 1) /\ held' = held /\ held \in {0, 1}
  BY <1>1 DEF Slot, held
<1>3. write_val' = Slot(k + 1)
  <2>1. read_val + k \in Int /\ (read_val + k) + 1 = read_val + (k + 1) /\ 1 \in Int
    BY TypeParts
  <2>2. (((read_val + k) % BufSize) + 1) % BufSize = ((read_val + k) + 1) % BufSize
    BY <2>1, Size, ModOnce
  <2> QED BY <1>1, <2>1, <2>2 DEF Behind, Slot
<1>4. iobuffer_count' - held' <= k + 1 /\ (pc' = "store" => tmp' - 1 <= k + 1)
  BY <1>1, <1>2, TypeParts DEF Behind
<1>5. ~lost' => iobuffer_count' - held' = k + 1
  BY <1>1, <1>2, TypeParts DEF Behind
<1>6. ASSUME NEW n \in 0 .. (k + 1) - 1
      PROVE  iobuffer'[Slot(n)'] \in Char
  <2>1. Slot(n)' = Slot(n) /\ Slot(n) \in Index
    <3>1. read_val + n \in Int
      BY TypeParts
    <3> QED BY <1>1, <3>1, SlotType DEF Slot
  <2>2. CASE n = k
    BY <1>1, <2>1, <2>2, TypeParts DEF Behind
  <2>3. CASE n # k
    <3>1. n \in 0 .. k - 1
      BY <2>3
    <3>2. iobuffer[Slot(n)] \in Char
      BY <3>1 DEF Behind
    <3> QED BY <1>1, <2>1, <3>2, TypeParts
  <2> QED BY <2>2, <2>3
<1> QED BY <1>2, <1>3, <1>4, <1>5, <1>6 DEF Behind

LEMMA StoreInv ==
  ASSUME KeyInvariant, NEW code \in Code, wire' \in Seq(Code), Store(code),
         UNCHANGED <<typed, pc, call, res, tmp, eaten, lost>>
  PROVE  KeyInvariant'
<1>1. PICK k \in Nat : Behind(k)
  BY DEF KeyInvariant
<1>2. k + 1 \in Nat /\ Behind(k + 1)'
  BY <1>1, StoreBehind DEF KeyInvariant, Counts
<1>3. iobuffer' \in [Index -> Char \cup {Nothing}]
  BY TypeParts, TranslateType DEF KeyInvariant, Store, Place
<1>4. iobuffer_count' \in 0 .. BufSize /\ iobuffer_count' # 0
  BY TypeParts, Size DEF KeyInvariant, Store, Full, Counted
<1>5. write_val' \in Index /\ read_val' \in Index
  <2>1. write_val + 1 \in Int
    BY TypeParts DEF KeyInvariant
  <2> QED BY <2>1, SlotType, TypeParts DEF KeyInvariant, Store
<1>6. left_shift_flag' \in {0, 1} /\ right_shift_flag' \in {0, 1}
  BY OtherParts DEF KeyInvariant, Store, shift
<1>7. TypeOK'
  BY <1>3, <1>4, <1>5, <1>6, OtherParts, RingStep DEF KeyInvariant, call
<1>8. Counts'
  BY <1>4 DEF KeyInvariant, Counts, call
<1> QED BY <1>2, <1>7, <1>8 DEF KeyInvariant

LEMMA HandlerInv ==
  ASSUME KeyInvariant, keyboard_handler
  PROVE  KeyInvariant'
<1> DEFINE code == Head(wire)
<1>1. code \in Code /\ wire' \in Seq(Code)
  BY OtherParts, TailType DEF KeyInvariant, keyboard_handler
<1>2. /\ (code \in ShiftCode /\ ShiftKey(code)) \/ Ignored(code) \/ Store(code)
      /\ UNCHANGED <<typed, pc, call, res, tmp, eaten, lost>>
  BY DEF keyboard_handler
<1> HIDE DEF code
<1> QED BY <1>1, <1>2, ShiftInv, StoreInv

LEMMA PollInv ==
  ASSUME KeyInvariant, Poll
  PROVE  KeyInvariant'
<1>1. PICK k \in Nat : Behind(k)
  BY DEF KeyInvariant
<1>2. TypeOK'
  BY OtherParts, ProgramStep DEF KeyInvariant, Poll, call, Steps
<1>3. Counts'
  BY DEF KeyInvariant, Counts, Poll, ring, call
<1>4. Behind(k)'
  BY <1>1 DEF Behind, Poll, ring, held, Slot
<1> QED BY <1>2, <1>3, <1>4 DEF KeyInvariant

\* Take takes a character, and the next is the first.
LEMMA TakeBehind ==
  ASSUME TypeOK, Counts, NEW k \in Nat, Behind(k), Take
  PROVE  k - 1 \in Nat /\ Behind(k - 1)' /\ res' \in Char
<1>1. /\ pc = "take" /\ pc' = "uncount" /\ res' = iobuffer[read_val]
      /\ read_val' = (read_val + 1) % BufSize
      /\ UNCHANGED <<iobuffer, write_val, iobuffer_count, tmp, lost>>
  BY DEF Take
<1>2. held = 0 /\ held' = 1 /\ iobuffer_count # 0
  BY <1>1 DEF held, Counts
<1>3. k - 1 \in Nat
  BY <1>2, TypeParts DEF Behind
<1>4. ASSUME NEW n \in Nat
      PROVE  Slot(n)' = Slot(n + 1)
  <2>1. read_val + 1 \in Int /\ n \in Int /\ (read_val + 1) + n = read_val + (n + 1)
    BY TypeParts
  <2>2. (((read_val + 1) % BufSize) + n) % BufSize = ((read_val + 1) + n) % BufSize
    BY <2>1, Size, ModOnce
  <2> QED BY <1>1, <2>1, <2>2 DEF Slot
<1>5. res' \in Char
  <2>1. 0 \in 0 .. k - 1
    BY <1>3
  <2>2. read_val \in 0 .. BufSize - 1 /\ read_val + 0 = read_val
    BY TypeParts DEF Index
  <2>3. Slot(0) = read_val
    BY <2>2, Size, ModSmall DEF Slot
  <2> QED BY <1>1, <2>1, <2>3 DEF Behind
<1>6. Slot(k - 1)' = Slot(k)
  <2>1. (k - 1) + 1 = k
    OBVIOUS
  <2> QED BY <1>3, <1>4, <2>1
<1>7. write_val' = Slot(k - 1)'
  BY <1>1, <1>6 DEF Behind
<1>8. /\ iobuffer_count' - held' <= k - 1 /\ pc' # "store"
      /\ ~lost' => iobuffer_count' - held' = k - 1
  BY <1>1, <1>2, TypeParts DEF Behind
<1>9. ASSUME NEW n \in 0 .. (k - 1) - 1
      PROVE  iobuffer'[Slot(n)'] \in Char
  <2>1. n \in Nat /\ n + 1 \in 0 .. k - 1
    BY <1>3
  <2>2. Slot(n)' = Slot(n + 1) /\ iobuffer[Slot(n + 1)] \in Char
    BY <1>4, <2>1 DEF Behind
  <2> QED BY <1>1, <2>2
<1>10. Behind(k - 1)'
  BY <1>7, <1>8, <1>9 DEF Behind
<1> QED BY <1>3, <1>5, <1>10

LEMMA TakeInv ==
  ASSUME KeyInvariant, Take
  PROVE  KeyInvariant'
<1>1. PICK k \in Nat : Behind(k)
  BY DEF KeyInvariant
<1>2. k - 1 \in Nat /\ Behind(k - 1)' /\ res' \in Char
  BY <1>1, TakeBehind DEF KeyInvariant
<1>3. eaten' \in Seq(Char)
  BY <1>2, OtherParts, AppendType DEF KeyInvariant, Take
<1>4. read_val' \in Index
  <2>1. read_val + 1 \in Int
    BY TypeParts DEF KeyInvariant
  <2> QED BY <2>1, SlotType DEF Take
<1>5. TypeOK'
  BY <1>3, <1>4, OtherParts, TypeParts, RingStep DEF KeyInvariant, Take, keys, shift, call, Steps
<1>6. Counts'
  BY <1>2 DEF KeyInvariant, Counts, Take, call
<1> QED BY <1>2, <1>5, <1>6 DEF KeyInvariant

LEMMA UncountInv ==
  ASSUME KeyInvariant, NEW how, Uncount(how)
  PROVE  KeyInvariant'
<1>1. PICK k \in Nat : Behind(k)
  BY DEF KeyInvariant
<1>2. /\ pc = "uncount" /\ iobuffer_count # 0 /\ iobuffer_count \in 0 .. BufSize /\ tmp \in 0 .. BufSize
      /\ UNCHANGED <<keys, shift, iobuffer, read_val, write_val, call, res, eaten, lost>>
      /\ held = 1
  BY OtherParts DEF KeyInvariant, Counts, Uncount, held
<1>3. CASE iobuffer_count' = iobuffer_count - 1 /\ pc' = "edit" /\ UNCHANGED tmp
  <2>1. iobuffer_count' \in 0 .. BufSize /\ held' = 0
    BY <1>2, <1>3, Size DEF held
  <2>2. TypeOK'
    BY <1>2, <1>3, <2>1, OtherParts, TypeParts, RingStep DEF KeyInvariant, keys, shift, call, Steps
  <2>3. Counts'
    BY <1>2, <1>3 DEF KeyInvariant, Counts, call
  <2>4. Behind(k)'
    BY <1>1, <1>2, <1>3, <2>1 DEF Behind, Slot
  <2> QED BY <2>2, <2>3, <2>4 DEF KeyInvariant
<1>4. CASE tmp' = iobuffer_count /\ pc' = "store" /\ UNCHANGED iobuffer_count
  <2>1. held' = 1
    BY <1>4 DEF held
  <2>2. TypeOK'
    BY <1>2, <1>4, OtherParts, TypeParts, RingStep DEF KeyInvariant, keys, shift, call, Steps
  <2>3. Counts'
    BY <1>2, <1>4 DEF KeyInvariant, Counts, call
  <2>4. Behind(k)'
    BY <1>1, <1>2, <1>4, <2>1 DEF Behind, Slot
  <2> QED BY <2>2, <2>3, <2>4 DEF KeyInvariant
<1> QED BY <1>3, <1>4 DEF Uncount

LEMMA StoreCountInv ==
  ASSUME KeyInvariant, StoreCount
  PROVE  KeyInvariant'
<1>1. PICK k \in Nat : Behind(k)
  BY DEF KeyInvariant
<1>2. /\ pc = "store" /\ pc' = "edit" /\ tmp # 0 /\ tmp \in 0 .. BufSize
      /\ iobuffer_count' = tmp - 1 /\ tmp' = 0 /\ lost' = (lost \/ iobuffer_count # tmp)
      /\ UNCHANGED <<keys, shift, iobuffer, read_val, write_val, call, res, eaten>>
      /\ held = 1 /\ held' = 0
  BY OtherParts DEF KeyInvariant, Counts, StoreCount, held
<1>3. iobuffer_count' \in 0 .. BufSize /\ tmp' \in 0 .. BufSize
  BY <1>2, Size
<1>4. TypeOK'
  BY <1>2, <1>3, OtherParts, TypeParts, RingStep DEF KeyInvariant, keys, shift, call, Steps
<1>5. Counts'
  BY <1>2 DEF KeyInvariant, Counts, call
<1>6. Behind(k)'
  <2>1. Slot(k)' = Slot(k) /\ \A n \in 0 .. k - 1 : Slot(n)' = Slot(n)
    BY <1>2 DEF Slot
  <2>2. write_val' = Slot(k)' /\ \A n \in 0 .. k - 1 : iobuffer'[Slot(n)'] \in Char
    BY <1>1, <1>2, <2>1 DEF Behind
  <2>3. iobuffer_count' - held' <= k /\ pc' # "store"
    BY <1>1, <1>2 DEF Behind
  <2>4. ~lost' => iobuffer_count' - held' = k
    <3>1. SUFFICES ASSUME ~lost' PROVE iobuffer_count' - held' = k
      OBVIOUS
    <3>2. ~lost /\ iobuffer_count = tmp
      BY <1>2, <3>1
    <3>3. iobuffer_count - 1 = k
      BY <1>1, <1>2, <3>2 DEF Behind
    <3> QED BY <1>2, <3>2, <3>3
  <2> QED BY <2>2, <2>3, <2>4 DEF Behind
<1> QED BY <1>4, <1>5, <1>6 DEF KeyInvariant

LEMMA ReadInv ==
  ASSUME KeyInvariant, NEW file_descriptor, NEW n \in 0 .. MaxLength, SYS_read(file_descriptor, n)
  PROVE  KeyInvariant'
<1>1. PICK k \in Nat : Behind(k)
  BY DEF KeyInvariant
<1>2. /\ pc = "user" /\ pc' \in {"user", "poll"} /\ length' = n /\ i' = 0 /\ buffer' = <<>> /\ eaten' = <<>>
      /\ UNCHANGED <<keys, shift, ring, res, tmp, lost>>
  BY DEF SYS_read
<1>3. TypeOK'
  <2>1. pc' \in Steps
    BY <1>2 DEF Steps
  <2>2. buffer' \in Seq(Char) /\ eaten' \in Seq(Char)
    BY <1>2
  <2>3. i' \in 0 .. Len(buffer')
    BY <1>2
  <2>4. tmp' \in 0 .. BufSize
    BY <1>2, OtherParts DEF KeyInvariant
  <2> QED BY <1>2, <2>1, <2>2, <2>3, <2>4, ProgramStep DEF KeyInvariant
<1>4. Counts'
  BY <1>2, KeyboardAssumption DEF KeyInvariant, Counts, ring
<1>5. Behind(k)'
  BY <1>1, <1>2 DEF Behind, ring, held, Slot
<1> QED BY <1>3, <1>4, <1>5 DEF KeyInvariant

\* The line grows by one character, or shrinks.
LEMMA EditInv ==
  ASSUME KeyInvariant, Edit
  PROVE  KeyInvariant'
<1>1. PICK k \in Nat : Behind(k)
  BY DEF KeyInvariant
<1>2. /\ pc = "edit" /\ pc' \in {"poll", "user"} /\ res \in Char
      /\ UNCHANGED <<keys, shift, ring, length, res, tmp, eaten, lost>>
  BY DEF KeyInvariant, Counts, Edit
<1>3. buffer \in Seq(Char) /\ i \in 0 .. Len(buffer) /\ Len(buffer) \in Nat
  BY OtherParts DEF KeyInvariant
<1>4. buffer' \in Seq(Char) /\ i' \in 0 .. Len(buffer')
  <2>1. CASE i > 0 /\ i' = OneLess(i) /\ UNCHANGED buffer
    BY <1>3, <2>1 DEF OneLess
  <2>2. CASE UNCHANGED <<i, buffer>>
    BY <1>3, <2>2
  <2>3. CASE buffer' = Append(SubSeq(buffer, 1, i), res) /\ i' = i + 1
    <3>1. buffer' \in Seq(Char) /\ Len(buffer') = i + 1
      BY <1>2, <1>3, <2>3, CutType
    <3> QED BY <1>3, <2>3, <3>1
  <2> QED BY <2>1, <2>2, <2>3 DEF Edit
<1>5. TypeOK'
  <2>1. pc' \in Steps
    BY <1>2 DEF Steps
  <2>2. eaten' \in Seq(Char) /\ tmp' \in 0 .. BufSize
    BY <1>2, OtherParts DEF KeyInvariant
  <2> QED BY <1>2, <1>4, <2>1, <2>2, ProgramStep DEF KeyInvariant
<1>6. Counts'
  BY <1>2 DEF KeyInvariant, Counts, ring
<1>7. Behind(k)'
  BY <1>1, <1>2 DEF Behind, ring, held, Slot
<1> QED BY <1>5, <1>6, <1>7 DEF KeyInvariant

LEMMA InitInv == Init => KeyInvariant
<1> SUFFICES ASSUME Init PROVE KeyInvariant
  OBVIOUS
<1>1. TypeOK
  <2>1. wire \in Seq(Code) /\ buffer \in Seq(Char) /\ eaten \in Seq(Char)
    BY DEF Init
  <2>2. left_shift_flag \in {0, 1} /\ right_shift_flag \in {0, 1} /\ pc = "user"
    BY DEF Init
  <2>3. iobuffer \in [Index -> Char \cup {Nothing}] /\ read_val \in Index /\ write_val \in Index
    BY Size DEF Init
  <2>4. iobuffer_count \in 0 .. BufSize /\ tmp \in 0 .. BufSize
    BY Size DEF Init
  <2>5. i \in 0 .. Len(buffer)
    BY DEF Init
  <2> QED BY <2>1, <2>2, <2>3, <2>4, <2>5 DEF TypeOK
<1>2. Counts
  <2>1. pc = "user" /\ res = Nothing /\ length = 0 /\ lost = FALSE
    BY DEF Init
  <2>2. pc \notin {"take", "uncount", "store", "edit"}
    BY <2>1
  <2>3. res \in Char \cup {Nothing}
    BY <2>1
  <2>4. length \in Int
    BY <2>1
  <2>5. lost \in BOOLEAN
    BY <2>1
  <2> QED BY <2>2, <2>3, <2>4, <2>5 DEF Counts
<1>3. Behind(0)
  <2>1. 0 \in 0 .. BufSize - 1 /\ 0 + 0 = 0
    BY Size
  <2>2. Slot(0) = 0
    BY <2>1, Size, ModSmall DEF Init, Slot
  <2>3. pc = "user" /\ iobuffer_count = 0 /\ write_val = 0
    BY DEF Init
  <2>4. held = 0
    BY <2>3 DEF held
  <2> QED BY <2>2, <2>3, <2>4 DEF Behind
<1> QED BY <1>1, <1>2, <1>3 DEF KeyInvariant

LEMMA NextInv ==
  ASSUME KeyInvariant, [Next]_vars
  PROVE  KeyInvariant'
<1>1. CASE \E code \in Code : Key(code)
  BY <1>1, KeyInv
<1>2. CASE keyboard_handler
  BY <1>2, HandlerInv
<1>3. CASE \E file_descriptor \in {0, 1}, n \in 0 .. MaxLength : SYS_read(file_descriptor, n)
  BY <1>3, ReadInv
<1>4. CASE Main
  BY <1>4, PollInv, TakeInv, UncountInv, StoreCountInv, EditInv DEF Main
<1>5. CASE UNCHANGED vars
  <2>1. UNCHANGED <<wire, shift, ring, pc, i, buffer, tmp, eaten, length, res, lost>>
    BY <1>5 DEF vars, keys, call
  <2>2. PICK k \in Nat : Behind(k)
    BY DEF KeyInvariant
  <2>3. TypeOK'
    BY <2>1, OtherParts, TypeParts, RingStep DEF KeyInvariant, shift, ring
  <2>4. Counts'
    BY <2>1 DEF KeyInvariant, Counts, ring
  <2>5. Behind(k)'
    BY <2>1, <2>2, SameBehind
  <2> QED BY <2>3, <2>4, <2>5 DEF KeyInvariant
<1> QED BY <1>1, <1>2, <1>3, <1>4, <1>5 DEF Next

LEMMA Invariant == Spec => []KeyInvariant
<1>1. KeyInvariant /\ [Next]_vars => KeyInvariant'
  BY NextInv
<1> QED BY InitInv, <1>1, PTL DEF Spec

\* The buffer never holds more than IO_BUFFER_SIZE characters and never counts
\* fewer than none, the indices stay inside, and what a reader gets is a
\* character that was typed, wherever the handler interrupts kgetc and however
\* iobuffer_count-- is compiled (interrupts.c:105-159, 203-239).
THEOREM KeyboardTypes == Spec => []TypeOK
<1>1. KeyInvariant => TypeOK
  BY DEF KeyInvariant
<1> QED BY Invariant, <1>1, PTL

-----------------------------------------------------------------------------
(* The circular buffer is a queue: the one whose elements lie in the slots *)
(* from read_val on.                                                       *)

Line(k) == [n \in 1 .. k |-> iobuffer[Slot(n - 1)]]

LEMMA LineType ==
  ASSUME NEW k \in Nat, \A n \in 0 .. k - 1 : iobuffer[Slot(n)] \in Char
  PROVE  Line(k) \in Seq(Char) /\ Len(Line(k)) = k /\ \A n \in 1 .. k : Line(k)[n] = iobuffer[Slot(n - 1)]
<1>1. ASSUME NEW n \in 1 .. k PROVE iobuffer[Slot(n - 1)] \in Char
  <2>1. n - 1 \in 0 .. k - 1
    OBVIOUS
  <2> QED BY <2>1
<1> QED BY <1>1 DEF Line

UnreadLine == \A k \in Nat : TypeOK /\ Behind(k) /\ ~lost => Unread = Line(k)

LEMMA UnreadIsLine == UnreadLine
<1> SUFFICES ASSUME NEW k \in Nat, TypeOK, Behind(k), ~lost
             PROVE  Unread = Line(k)
  BY DEF UnreadLine
<1>1. iobuffer_count - held = k
  BY DEF Behind
<1>2. Unread = [n \in 1 .. iobuffer_count - held |-> iobuffer[(read_val + n - 1) % BufSize]]
  BY DEF Unread, held
<1>3. ASSUME NEW n \in 1 .. k
      PROVE  iobuffer[(read_val + n - 1) % BufSize] = iobuffer[Slot(n - 1)]
  <2>1. read_val + n - 1 = read_val + (n - 1)
    BY TypeParts
  <2> QED BY <2>1 DEF Slot
<1> QED BY <1>1, <1>2, <1>3 DEF Line

LEMMA UnreadIsLineNext == UnreadLine'
  BY UnreadIsLine, PTL

LEMMA AppendIs ==
  ASSUME NEW T, NEW s \in Seq(T), NEW t \in Seq(T), NEW x \in T,
         Len(t) = Len(s) + 1, t[Len(s) + 1] = x, \A n \in 1 .. Len(s) : t[n] = s[n]
  PROVE  t = Append(s, x)
  OBVIOUS

LEMMA TailIs ==
  ASSUME NEW T, NEW s \in Seq(T), NEW t \in Seq(T), s # <<>>,
         Len(s) = Len(t) + 1, \A n \in 1 .. Len(t) : t[n] = s[n + 1]
  PROVE  t = Tail(s) /\ Head(s) = s[1]
  OBVIOUS

LEMMA InitQueue == Init => Queue!Init
<1> SUFFICES ASSUME Init PROVE Queue!Init
  OBVIOUS
<1>1. TypeOK /\ pc = "user" /\ iobuffer_count = 0 /\ res = Nothing
  BY InitInv DEF Init, KeyInvariant
<1>2. Unread = [n \in 1 .. 0 |-> iobuffer[(read_val + n - 1) % BufSize]]
  BY <1>1 DEF Unread
<1>3. Unread = <<>>
  BY <1>2
<1> QED BY <1>1, <1>3 DEF Queue!Init

\* A step that touches neither the characters nor how many there are.
LEMMA SameQueue ==
  ASSUME KeyInvariant, KeyInvariant', ~lost, ~lost', UNCHANGED <<iobuffer, read_val, res>>,
         iobuffer_count' - held' = iobuffer_count - held
  PROVE  UNCHANGED Queue!vars
<1>1. PICK k \in Nat : Behind(k)
  BY DEF KeyInvariant
<1>2. PICK m \in Nat : Behind(m)'
  BY DEF KeyInvariant
<1>3. m = k
  <2>1. iobuffer_count - held = k
    BY <1>1 DEF Behind
  <2>2. iobuffer_count' - held' = m
    BY <1>2 DEF Behind
  <2> QED BY <2>1, <2>2
<1>4. Unread = Line(k) /\ Unread' = Line(k)'
  <2>1. Unread = Line(k)
    BY <1>1, UnreadIsLine DEF UnreadLine, KeyInvariant
  <2>2. Unread' = Line(m)'
    BY <1>2, UnreadIsLineNext DEF UnreadLine, KeyInvariant
  <2> QED BY <1>3, <2>1, <2>2
<1>5. Line(k)' = Line(k)
  BY DEF Line, Slot
<1> QED BY <1>4, <1>5 DEF Queue!vars

LEMMA StoreQueue ==
  ASSUME TypeOK, TypeOK', NEW k \in Nat, Behind(k), Behind(k + 1)', ~lost, ~lost', NEW code \in Code,
         Store(code), UNCHANGED <<pc, res>>
  PROVE  Queue!Next
<1> DEFINE c == Translate(code)
<1>1. /\ c \in Char /\ iobuffer_count # BufSize /\ read_val' = read_val
      /\ iobuffer' = [iobuffer EXCEPT ![write_val] = c]
  BY TranslateType DEF Store, Full, Place
<1> HIDE DEF c
<1>2. k + 1 \in Nat /\ Unread = Line(k) /\ Unread' = Line(k + 1)'
  <2>1. k + 1 \in Nat
    OBVIOUS
  <2> QED BY <2>1, UnreadIsLine, UnreadIsLineNext DEF UnreadLine
<1>3. k < BufSize
  <2>1. held \in {0, 1}
    BY DEF held
  <2> QED BY <1>1, <2>1, TypeParts, Size DEF Behind
<1>4. /\ Line(k) \in Seq(Char) /\ Len(Line(k)) = k
      /\ \A n \in 1 .. k : Line(k)[n] = iobuffer[Slot(n - 1)]
  BY LineType DEF Behind
<1>5. /\ Line(k + 1)' \in Seq(Char) /\ Len(Line(k + 1)') = k + 1
      /\ \A n \in 1 .. k + 1 : Line(k + 1)'[n] = iobuffer'[Slot(n - 1)']
  <2>1. \A n \in 0 .. (k + 1) - 1 : iobuffer'[Slot(n)'] \in Char
    BY DEF Behind
  <2>2. Line(k + 1)' = [n \in 1 .. k + 1 |-> iobuffer'[Slot(n - 1)']]
    BY DEF Line
  <2>3. ASSUME NEW n \in 1 .. k + 1 PROVE iobuffer'[Slot(n - 1)'] \in Char
    <3>1. n - 1 \in 0 .. (k + 1) - 1
      OBVIOUS
    <3> QED BY <2>1, <3>1
  <2> QED BY <2>2, <2>3
<1>6. ASSUME NEW n \in 0 .. k
      PROVE  Slot(n)' = Slot(n) /\ Slot(n) \in Index
  <2>1. read_val + n \in Int
    BY TypeParts
  <2> QED BY <1>1, <2>1, SlotType DEF Slot
<1>7. Line(k + 1)'[k + 1] = c
  <2>1. (k + 1) - 1 = k /\ k + 1 \in 1 .. k + 1 /\ k \in 0 .. k
    OBVIOUS
  <2>2. Slot(k)' = write_val
    BY <1>6, <2>1 DEF Behind
  <2> QED BY <1>1, <1>5, <2>1, <2>2, TypeParts
<1>8. ASSUME NEW n \in 1 .. k
      PROVE  Line(k + 1)'[n] = Line(k)[n]
  <2>1. n \in 1 .. k + 1 /\ n - 1 \in 0 .. k
    OBVIOUS
  <2>2. Slot(n - 1) # write_val
    <3>1. /\ read_val + (n - 1) \in Int /\ read_val + k \in Int
          /\ read_val + (n - 1) < read_val + k /\ read_val + k < (read_val + (n - 1)) + BufSize
      BY <1>3, TypeParts, Size
    <3> QED BY <3>1, Size, ModDiffers DEF Behind, Slot
  <2>3. Slot(n - 1)' = Slot(n - 1) /\ Slot(n - 1) \in Index
    BY <1>6, <2>1
  <2> QED BY <1>1, <1>4, <1>5, <2>1, <2>2, <2>3, TypeParts
<1>9. Line(k + 1)' = Append(Line(k), c)
  BY <1>1, <1>4, <1>5, <1>7, <1>8, AppendIs
<1>10. Queue!Enter(c)
  BY <1>2, <1>3, <1>4, <1>9 DEF Queue!Enter
<1> QED BY <1>1, <1>10 DEF Queue!Next

LEMMA TakeQueue ==
  ASSUME TypeOK, TypeOK', Counts, NEW k \in Nat, Behind(k), ~lost, ~lost', Take
  PROVE  Queue!Next
<1>1. k - 1 \in Nat /\ Behind(k - 1)' /\ res' \in Char
  BY TakeBehind
<1>2. Unread = Line(k) /\ Unread' = Line(k - 1)'
  BY <1>1, UnreadIsLine, UnreadIsLineNext DEF UnreadLine
<1>3. read_val' = (read_val + 1) % BufSize /\ res' = iobuffer[read_val] /\ UNCHANGED iobuffer
  BY DEF Take
<1>4. /\ Line(k) \in Seq(Char) /\ Len(Line(k)) = k
      /\ \A n \in 1 .. k : Line(k)[n] = iobuffer[Slot(n - 1)]
  BY LineType DEF Behind
<1>5. ASSUME NEW n \in 1 .. k - 1
      PROVE  iobuffer'[Slot(n - 1)'] = Line(k)[n + 1] /\ Line(k)[n + 1] \in Char
  <2>1. n + 1 \in 1 .. k /\ (n + 1) - 1 = n
    BY <1>1
  <2>2. read_val + 1 \in Int /\ n - 1 \in Int /\ (read_val + 1) + (n - 1) = read_val + n
    BY TypeParts
  <2>3. (((read_val + 1) % BufSize) + (n - 1)) % BufSize = ((read_val + 1) + (n - 1)) % BufSize
    BY <2>2, Size, ModOnce
  <2>4. Slot(n - 1)' = Slot(n)
    BY <1>3, <2>2, <2>3 DEF Slot
  <2> QED BY <1>3, <1>4, <2>1, <2>4
<1>6. /\ Line(k - 1)' \in Seq(Char) /\ Len(Line(k - 1)') = k - 1
      /\ \A n \in 1 .. k - 1 : Line(k - 1)'[n] = Line(k)[n + 1]
  <2>1. Line(k - 1)' = [n \in 1 .. k - 1 |-> iobuffer'[Slot(n - 1)']]
    BY DEF Line
  <2> QED BY <1>1, <1>5, <2>1
<1>7. Line(k) # <<>>
  BY <1>1, <1>4
<1>8. Line(k - 1)' = Tail(Line(k)) /\ Head(Line(k)) = Line(k)[1]
  BY <1>1, <1>4, <1>6, <1>7, TailIs
<1>9. Line(k)[1] = res'
  <2>1. 1 \in 1 .. k /\ 1 - 1 = 0
    BY <1>1
  <2>2. read_val \in 0 .. BufSize - 1 /\ read_val + 0 = read_val
    BY TypeParts DEF Index
  <2>3. Slot(0) = read_val
    BY <2>2, Size, ModSmall DEF Slot
  <2> QED BY <1>3, <1>4, <2>1, <2>3
<1>10. Queue!Take
  BY <1>2, <1>7, <1>8, <1>9 DEF Queue!Take
<1> QED BY <1>10 DEF Queue!Next

LEMMA NextQueue ==
  ASSUME KeyInvariant, KeyInvariant', [Next]_vars
  PROVE  [lost' \/ Queue!Next]_(Queue!vars)
<1> SUFFICES ASSUME ~lost' PROVE Queue!Next \/ UNCHANGED Queue!vars
  OBVIOUS
<1>0. lost \in BOOLEAN /\ lost' \in BOOLEAN /\ iobuffer_count \in Nat /\ tmp \in Nat
  BY TypeParts DEF KeyInvariant, Counts
<1>1. ASSUME UNCHANGED <<ring, pc, res, lost>>
      PROVE  UNCHANGED Queue!vars
  <2>1. iobuffer_count' - held' = iobuffer_count - held /\ UNCHANGED <<iobuffer, read_val, res>> /\ ~lost
    BY <1>1 DEF ring, held
  <2> QED BY <2>1, SameQueue
<1>2. CASE \E code \in Code : Key(code)
  BY <1>1, <1>2 DEF Key
<1>3. CASE keyboard_handler
  <2> DEFINE code == Head(wire)
  <2>1. /\ code \in Code /\ UNCHANGED <<pc, res, lost, typed, call, tmp, eaten>> /\ ~lost
        /\ (code \in ShiftCode /\ ShiftKey(code)) \/ Ignored(code) \/ Store(code)
    BY <1>3, OtherParts, TailType DEF KeyInvariant, keyboard_handler
  <2> HIDE DEF code
  <2>2. CASE UNCHANGED ring
    BY <1>1, <2>1, <2>2
  <2>3. CASE Store(code)
    <3>1. PICK k \in Nat : Behind(k)
      BY DEF KeyInvariant
    <3>2. Behind(k + 1)'
      BY <1>0, <2>1, <2>3, <3>1, StoreBehind DEF KeyInvariant
    <3> QED BY <2>1, <2>3, <3>1, <3>2, StoreQueue DEF KeyInvariant
  <2> QED BY <2>1, <2>2, <2>3 DEF ShiftKey, Ignored
<1>4. CASE \E file_descriptor \in {0, 1}, n \in 0 .. MaxLength : SYS_read(file_descriptor, n)
  <2>1. /\ UNCHANGED <<iobuffer, read_val, iobuffer_count, res, lost>> /\ pc = "user" /\ pc' \in {"poll", "user"}
    BY <1>4 DEF SYS_read, ring
  <2>2. held' = held
    BY <2>1 DEF held
  <2> QED BY <2>1, <2>2, SameQueue
<1>5. CASE Poll
  <2>1. UNCHANGED <<iobuffer, read_val, iobuffer_count, res, lost>> /\ pc = "poll" /\ pc' = "take"
    BY <1>5 DEF Poll, ring
  <2>2. held' = held
    BY <2>1 DEF held
  <2> QED BY <2>1, <2>2, SameQueue
<1>6. CASE Take
  <2>1. PICK k \in Nat : Behind(k)
    BY DEF KeyInvariant
  <2>2. ~lost
    BY <1>6 DEF Take
  <2> QED BY <1>6, <2>1, <2>2, TakeQueue DEF KeyInvariant
<1>7. CASE \E how \in Decrements : Uncount(how)
  <2>1. /\ UNCHANGED <<iobuffer, read_val, res, lost>> /\ pc = "uncount"
        /\ \/ iobuffer_count' = iobuffer_count - 1 /\ pc' = "edit"
           \/ iobuffer_count' = iobuffer_count /\ pc' = "store"
    BY <1>7 DEF Uncount
  <2>2. iobuffer_count' - held' = iobuffer_count - held
    BY <1>0, <2>1 DEF held
  <2> QED BY <2>1, <2>2, SameQueue
<1>8. CASE StoreCount
  <2>1. /\ UNCHANGED <<iobuffer, read_val, res>> /\ pc = "store" /\ pc' = "edit"
        /\ iobuffer_count' = tmp - 1 /\ lost' = (lost \/ iobuffer_count # tmp)
    BY <1>8 DEF StoreCount
  <2>2. ~lost /\ iobuffer_count = tmp
    BY <2>1
  <2>3. iobuffer_count' - held' = iobuffer_count - held
    BY <1>0, <2>1, <2>2 DEF held
  <2> QED BY <2>1, <2>2, <2>3, SameQueue
<1>9. CASE Edit
  <2>1. UNCHANGED <<iobuffer, read_val, iobuffer_count, res, lost>> /\ pc = "edit" /\ pc' \in {"poll", "user"}
    BY <1>9 DEF Edit, ring
  <2>2. held' = held
    BY <2>1 DEF held
  <2> QED BY <2>1, <2>2, SameQueue
<1>10. CASE UNCHANGED vars
  BY <1>1, <1>10 DEF vars
<1> QED BY <1>2, <1>3, <1>4, <1>5, <1>6, <1>7, <1>8, <1>9, <1>10 DEF Next, Main

\* The circular buffer, its two indices and its counter are a queue of at most
\* IO_BUFFER_SIZE characters for every size, and however many keys are pressed:
\* nothing is lost, doubled or reordered, until an interrupt hits a decrement
\* that was compiled to more than one instruction (interrupts.c:105-159).
THEOREM BufferIsQueue == Spec => ImplementsKeyQueue
<1>1. KeyInvariant /\ KeyInvariant' /\ [Next]_vars => [lost' \/ Queue!Next]_(Queue!vars)
  BY NextQueue
<1> QED BY Invariant, InitQueue, <1>1, PTL DEF Spec, ImplementsKeyQueue

-----------------------------------------------------------------------------
(* The line that is edited                                                 *)

Backspaces(chars, from, to) == Cardinality(Erases(chars, from, to))

LEMMA BackspacesNat ==
  ASSUME NEW chars, NEW from \in Int, NEW to \in Int
  PROVE  /\ IsFiniteSet(Erases(chars, from, to)) /\ Backspaces(chars, from, to) \in Nat
         /\ from > to => Backspaces(chars, from, to) = 0
<1>1. IsFiniteSet(from .. to)
  BY FS_Interval
<1>2. Erases(chars, from, to) \in SUBSET (from .. to)
  BY DEF Erases
<1>3. IsFiniteSet(Erases(chars, from, to))
  BY <1>1, <1>2, FS_Subset
<1>4. from > to => Erases(chars, from, to) = {}
  BY DEF Erases
<1> QED BY <1>3, <1>4, FS_CardinalityType, FS_EmptySet DEF Backspaces

\* What is appended does not change the places before it.
LEMMA BackspacesBefore ==
  ASSUME NEW chars \in Seq(Char), NEW x, NEW from \in Nat \ {0}, NEW to \in Int, to <= Len(chars)
  PROVE  Backspaces(Append(chars, x), from, to) = Backspaces(chars, from, to)
<1>1. \A n \in from .. to : Append(chars, x)[n] = chars[n]
  OBVIOUS
<1>2. Erases(Append(chars, x), from, to) = Erases(chars, from, to)
  BY <1>1 DEF Erases
<1> QED BY <1>2 DEF Backspaces

\* One place more, and one less.
LEMMA BackspacesMore ==
  ASSUME NEW chars, NEW from \in Int, NEW to \in Int, from <= to + 1
  PROVE  Backspaces(chars, from, to + 1)
           = IF chars[to + 1] = Erasing THEN Backspaces(chars, from, to) + 1 ELSE Backspaces(chars, from, to)
<1>1. from .. to + 1 = (from .. to) \cup {to + 1} /\ to + 1 \notin from .. to
  OBVIOUS
<1>2. IsFiniteSet(Erases(chars, from, to))
  BY BackspacesNat
<1>3. CASE chars[to + 1] = Erasing
  <2>1. Erases(chars, from, to + 1) = Erases(chars, from, to) \cup {to + 1}
    BY <1>1, <1>3 DEF Erases
  <2>2. to + 1 \notin Erases(chars, from, to)
    BY <1>1 DEF Erases
  <2> QED BY <1>2, <1>3, <2>1, <2>2, FS_AddElement DEF Backspaces
<1>4. CASE chars[to + 1] # Erasing
  <2>1. Erases(chars, from, to + 1) = Erases(chars, from, to)
    BY <1>1, <1>4 DEF Erases
  <2> QED BY <1>4, <2>1 DEF Backspaces
<1> QED BY <1>3, <1>4

LEMMA BackspacesSplit ==
  ASSUME NEW chars, NEW from \in Int, NEW to \in Int, NEW at \in from .. to, chars[at] # Erasing
  PROVE  Backspaces(chars, from, to) = Backspaces(chars, from, at - 1) + Backspaces(chars, at + 1, to)
<1> DEFINE A == Erases(chars, from, at - 1)
           B == Erases(chars, at + 1, to)
<1>1. at - 1 \in Int /\ at + 1 \in Int
  OBVIOUS
<1>2. IsFiniteSet(A) /\ IsFiniteSet(B)
  BY <1>1, BackspacesNat
<1>3. from .. to = (from .. at - 1) \cup {at} \cup (at + 1 .. to)
  OBVIOUS
<1>4. Erases(chars, from, to) = A \cup B
  BY <1>3 DEF Erases
<1>5. A \cap B = {}
  BY DEF Erases
<1>6. Cardinality(A) \in Nat /\ Cardinality(B) \in Nat
  BY <1>2, FS_CardinalityType
<1> HIDE DEF A, B
<1>7. Cardinality(A \cup B) = Cardinality(A) + Cardinality(B) - Cardinality({})
  BY <1>2, <1>5, FS_Union
<1> QED BY <1>4, <1>6, <1>7, FS_EmptySet DEF A, B, Backspaces

LEMMA KeptIs ==
  ASSUME NEW chars \in Seq(Char)
  PROVE  /\ Kept(chars) \subseteq 1 .. Len(chars)
         /\ \A n \in Kept(chars) :
              chars[n] # Erasing /\ 2 * Backspaces(chars, n + 1, Len(chars)) <= Len(chars) - n
<1>1. Kept(chars) \subseteq 1 .. Len(chars) /\ \A n \in Kept(chars) : chars[n] # Erasing
  BY DEF Kept
<1>2. ASSUME NEW n \in Kept(chars)
      PROVE  2 * Backspaces(chars, n + 1, Len(chars)) <= Len(chars) - n
  <2>1. n \in 1 .. Len(chars) /\ n \in Int /\ Len(chars) \in Nat
    BY <1>1
  <2>2. CASE n = Len(chars)
    <3>1. Backspaces(chars, n + 1, Len(chars)) = 0
      BY <2>1, <2>2, BackspacesNat
    <3> QED BY <2>1, <2>2, <3>1
  <2>3. CASE n # Len(chars)
    <3>1. Len(chars) \in n + 1 .. Len(chars)
      BY <2>1, <2>3
    <3> QED BY <3>1 DEF Kept, Backspaces
  <2> QED BY <2>2, <2>3
<1> QED BY <1>1, <1>2

\* Another character leaves those kept that its backspace does not reach.
LEMMA KeptAppend ==
  ASSUME NEW chars \in Seq(Char), NEW x \in Char
  PROVE  \A n : n \in Kept(Append(chars, x)) <=>
           \/ n \in Kept(chars) /\ 2 * Backspaces(Append(chars, x), n + 1, Len(chars) + 1) <= (Len(chars) + 1) - n
           \/ n = Len(chars) + 1 /\ x # Erasing
<1> DEFINE more == Append(chars, x)
           len  == Len(chars)
<1>1. /\ len \in Nat /\ more \in Seq(Char) /\ Len(more) = len + 1 /\ more[len + 1] = x
      /\ \A n \in 1 .. len : more[n] = chars[n]
      /\ DOMAIN chars = 1 .. len /\ DOMAIN more = 1 .. len + 1
  OBVIOUS
<1>2. ASSUME NEW n \in 1 .. len
      PROVE  n \in Kept(more) <=> n \in Kept(chars) /\ 2 * Backspaces(more, n + 1, len + 1) <= (len + 1) - n
  <2>1. more[n] = chars[n] /\ n \in DOMAIN chars /\ n \in DOMAIN more
    BY <1>1, <1>2
  <2>2. n + 1 .. Len(more) = (n + 1 .. len) \cup {len + 1}
    BY <1>1, <1>2
  <2>3. ASSUME NEW to \in n + 1 .. len
        PROVE  Backspaces(more, n + 1, to) = Backspaces(chars, n + 1, to)
    <3>1. n + 1 \in Nat \ {0} /\ to \in Int /\ to <= Len(chars)
      BY <1>1, <1>2, <2>3
    <3> QED BY <3>1, BackspacesBefore
  <2>4. n \in Kept(more) <=> /\ more[n] # Erasing
                             /\ \A to \in n + 1 .. Len(more) : 2 * Backspaces(more, n + 1, to) <= to - n
    BY <2>1 DEF Kept, Backspaces
  <2>5. n \in Kept(chars) <=> /\ chars[n] # Erasing
                              /\ \A to \in n + 1 .. len : 2 * Backspaces(chars, n + 1, to) <= to - n
    BY <2>1 DEF Kept, Backspaces
  <2>6. (\A to \in n + 1 .. Len(more) : 2 * Backspaces(more, n + 1, to) <= to - n)
          <=> /\ \A to \in n + 1 .. len : 2 * Backspaces(more, n + 1, to) <= to - n
              /\ 2 * Backspaces(more, n + 1, len + 1) <= (len + 1) - n
    <3> DEFINE P(to) == 2 * Backspaces(more, n + 1, to) <= to - n
    <3> HIDE DEF more, len, P
    <3>1. (\A to \in n + 1 .. Len(more) : P(to)) <=> /\ \A to \in n + 1 .. len : P(to)
                                                     /\ P(len + 1)
      BY <2>2, Zenon
    <3> QED BY <3>1 DEF P
  <2>7. (\A to \in n + 1 .. len : 2 * Backspaces(more, n + 1, to) <= to - n)
          <=> (\A to \in n + 1 .. len : 2 * Backspaces(chars, n + 1, to) <= to - n)
    BY <2>3
  <2> HIDE DEF more, len
  <2> QED BY <2>1, <2>4, <2>5, <2>6, <2>7
<1>3. len + 1 \in Kept(more) <=> x # Erasing
  <2>1. (len + 1) + 1 .. Len(more) = {} /\ len + 1 \in DOMAIN more
    BY <1>1
  <2> QED BY <1>1, <2>1 DEF Kept
<1>4. Kept(more) \subseteq 1 .. len + 1 /\ Kept(chars) \subseteq 1 .. len
  BY <1>1, KeptIs
<1> HIDE DEF more, len
<1>5. ASSUME NEW n
      PROVE  n \in Kept(more) <=>
               \/ n \in Kept(chars) /\ 2 * Backspaces(more, n + 1, len + 1) <= (len + 1) - n
               \/ n = len + 1 /\ x # Erasing
  <2>1. CASE n \in 1 .. len
    <3>1. n # len + 1
      BY <1>1, <2>1
    <3> QED BY <2>1, <3>1, <1>2
  <2>2. CASE n = len + 1
    <3>1. n \notin Kept(chars)
      BY <1>1, <1>4, <2>2
    <3> QED BY <2>2, <3>1, <1>3
  <2>3. CASE n \notin 1 .. len /\ n # len + 1
    <3>1. n \notin 1 .. len + 1
      BY <1>1, <2>3
    <3> QED BY <2>3, <3>1, <1>4
  <2> QED BY <2>1, <2>2, <2>3
<1> QED BY <1>5 DEF more, len

-----------------------------------------------------------------------------
(* The characters that are kept are the line: the first k characters of    *)
(* line are those, in order, and f says where each was typed.  Behind each *)
(* of them all that was typed up to the next one, or the end, has been     *)
(* erased again, so that one more backspace reaches the last one.          *)

Following(f, k, chars, x) == IF x = k THEN Len(chars) + 1 ELSE f[x + 1]

Gap(f, k, chars, x) ==
  2 * Backspaces(chars, f[x] + 1, Following(f, k, chars, x) - 1) = (Following(f, k, chars, x) - 1) - f[x]

Lists(f, k, chars, line) ==
  /\ k \in 0 .. Len(line)
  /\ f \in [1 .. k -> 1 .. Len(chars)]
  /\ \A x, y \in 1 .. k : x < y => f[x] < f[y]
  /\ Kept(chars) = {f[x] : x \in 1 .. k}
  /\ \A x \in 1 .. k : line[x] = chars[f[x]] /\ Gap(f, k, chars, x)

Lined(k, chars, line) == \E f : Lists(f, k, chars, line)

LEMMA ListsParts ==
  ASSUME NEW chars \in Seq(Char), NEW line \in Seq(Char), NEW k, NEW f, Lists(f, k, chars, line)
  PROVE  /\ k \in Nat /\ k <= Len(line) /\ Len(chars) \in Nat
         /\ \A x \in 1 .. k : /\ f[x] \in 1 .. Len(chars) /\ f[x] \in Kept(chars) /\ chars[f[x]] # Erasing
                              /\ 2 * Backspaces(chars, f[x] + 1, Len(chars)) <= Len(chars) - f[x]
                              /\ Following(f, k, chars, x) \in f[x] + 1 .. Len(chars) + 1
                              /\ x < k => f[x + 1] \in f[x] + 1 .. Len(chars) /\ x + 1 \in 1 .. k
<1>1. Len(line) \in Nat /\ Len(chars) \in Nat
  OBVIOUS
<1>2. k \in Nat /\ k <= Len(line)
  BY <1>1 DEF Lists
<1>3. ASSUME NEW x \in 1 .. k
      PROVE  /\ f[x] \in 1 .. Len(chars) /\ f[x] \in Kept(chars) /\ chars[f[x]] # Erasing
             /\ 2 * Backspaces(chars, f[x] + 1, Len(chars)) <= Len(chars) - f[x]
  <2>1. f[x] \in 1 .. Len(chars) /\ f[x] \in Kept(chars)
    BY DEF Lists
  <2> QED BY <2>1, KeptIs
<1>4. ASSUME NEW x \in 1 .. k, x < k
      PROVE  f[x + 1] \in f[x] + 1 .. Len(chars) /\ x + 1 \in 1 .. k
  <2>1. x + 1 \in 1 .. k /\ x < x + 1
    BY <1>2, <1>4
  <2>2. f[x + 1] \in 1 .. Len(chars) /\ f[x] \in 1 .. Len(chars) /\ f[x] < f[x + 1]
    BY <1>3, <2>1 DEF Lists
  <2> QED BY <1>1, <2>1, <2>2
<1>5. ASSUME NEW x \in 1 .. k
      PROVE  Following(f, k, chars, x) \in f[x] + 1 .. Len(chars) + 1
  <2>1. f[x] \in 1 .. Len(chars)
    BY <1>3
  <2>2. CASE x = k
    BY <1>1, <2>1, <2>2 DEF Following
  <2>3. CASE x # k
    <3>1. x < k
      BY <1>2, <2>3
    <3>2. f[x + 1] \in f[x] + 1 .. Len(chars)
      BY <1>4, <3>1
    <3> QED BY <1>1, <2>1, <2>3, <3>2 DEF Following
  <2> QED BY <2>2, <2>3
<1> QED BY <1>1, <1>2, <1>3, <1>4, <1>5

\* A gap that has been typed stays one.
LEMMA SameGap ==
  ASSUME NEW chars \in Seq(Char), NEW c, NEW from \in 1 .. Len(chars), NEW end \in from + 1 .. Len(chars) + 1
  PROVE  Backspaces(Append(chars, c), from + 1, end - 1) = Backspaces(chars, from + 1, end - 1)
<1>1. from + 1 \in Nat \ {0} /\ end - 1 \in Int /\ end - 1 <= Len(chars)
  OBVIOUS
<1> QED BY <1>1, BackspacesBefore

\* A letter is put behind the line.
LEMMA LinedLetter ==
  ASSUME NEW chars \in Seq(Char), NEW line \in Seq(Char), NEW k, Lined(k, chars, line),
         NEW c \in Char, c # Erasing
  PROVE  Lined(k + 1, Append(chars, c), Append(SubSeq(line, 1, k), c))
<1>1. PICK f : Lists(f, k, chars, line)
  BY DEF Lined
<1>2. PICK len : len = Len(chars)
  OBVIOUS
<1>3. PICK more : more = Append(chars, c)
  OBVIOUS
<1>4. PICK text : text = Append(SubSeq(line, 1, k), c)
  OBVIOUS
<1>5. PICK g : g = [x \in 1 .. k + 1 |-> IF x = k + 1 THEN len + 1 ELSE f[x]]
  OBVIOUS
<1>6. /\ len \in Nat /\ Len(more) = len + 1 /\ more[len + 1] = c
      /\ \A n \in 1 .. len : more[n] = chars[n]
  BY <1>2, <1>3
<1>7. /\ k \in Nat /\ k <= Len(line)
      /\ \A x \in 1 .. k : /\ f[x] \in 1 .. len /\ f[x] \in Kept(chars)
                           /\ Following(f, k, chars, x) \in f[x] + 1 .. len + 1
  BY <1>1, <1>2, ListsParts
<1>8. Len(text) = k + 1 /\ text[k + 1] = c /\ \A x \in 1 .. k : text[x] = line[x]
  BY <1>4, <1>7
<1>9. /\ k + 1 \in 1 .. k + 1 /\ g[k + 1] = len + 1
      /\ \A x \in 1 .. k : x \in 1 .. k + 1 /\ x # k + 1 /\ g[x] = f[x]
      /\ 1 .. k + 1 = (1 .. k) \cup {k + 1}
  BY <1>5, <1>7
<1>10. k + 1 \in 0 .. Len(text)
  BY <1>7, <1>8
<1>11. g \in [1 .. k + 1 -> 1 .. Len(more)]
  BY <1>5, <1>6, <1>7
<1>12. ASSUME NEW x \in 1 .. k + 1, NEW y \in 1 .. k + 1, x < y
       PROVE  g[x] < g[y]
  <2>1. x \in 1 .. k
    BY <1>7, <1>12
  <2>2. CASE y = k + 1
    BY <1>6, <1>7, <1>9, <2>1, <2>2
  <2>3. CASE y \in 1 .. k
    BY <1>1, <1>9, <1>12, <2>1, <2>3 DEF Lists
  <2> QED BY <1>9, <2>2, <2>3
<1>13. ASSUME NEW n \in Kept(chars)
       PROVE  2 * Backspaces(more, n + 1, len + 1) <= (len + 1) - n
  <2>1. n \in 1 .. len /\ 2 * Backspaces(chars, n + 1, len) <= len - n
    BY <1>2, KeptIs
  <2>2. n + 1 \in Nat \ {0} /\ len \in Int /\ n + 1 \in Int /\ n + 1 <= len + 1
    BY <1>6, <2>1
  <2>3. Backspaces(more, n + 1, len) = Backspaces(chars, n + 1, len)
    BY <1>2, <1>3, <2>2, BackspacesBefore
  <2>4. Backspaces(more, n + 1, len + 1) = Backspaces(more, n + 1, len)
    BY <1>6, <2>2, BackspacesMore
  <2>5. Backspaces(chars, n + 1, len) \in Nat
    BY <2>2, BackspacesNat
  <2> QED BY <1>6, <2>1, <2>3, <2>4, <2>5
<1>14. \A n : n \in Kept(more) <=> n \in Kept(chars) \/ n = len + 1
  BY <1>2, <1>3, <1>13, KeptAppend
<1>15. Kept(more) = {g[x] : x \in 1 .. k + 1}
  <2>1. Kept(chars) = {f[x] : x \in 1 .. k}
    BY <1>1 DEF Lists
  <2> QED BY <1>9, <1>14, <2>1
<1>16. ASSUME NEW x \in 1 .. k
       PROVE  text[x] = more[g[x]] /\ Gap(g, k + 1, more, x)
  <2>1. line[x] = chars[f[x]] /\ Gap(f, k, chars, x)
    BY <1>1 DEF Lists
  <2>2. x + 1 \in 1 .. k + 1 /\ (x # k => x + 1 \in 1 .. k)
    BY <1>7
  <2>3. Following(g, k + 1, more, x) = Following(f, k, chars, x)
    BY <1>2, <1>9, <2>2 DEF Following
  <2>4. PICK end : end = Following(f, k, chars, x)
    OBVIOUS
  <2>5. f[x] \in 1 .. len /\ end \in f[x] + 1 .. len + 1 /\ g[x] = f[x]
    BY <1>7, <1>9, <2>4
  <2>6. Backspaces(more, f[x] + 1, end - 1) = Backspaces(chars, f[x] + 1, end - 1)
    BY <1>2, <1>3, <2>5, SameGap
  <2>7. Gap(g, k + 1, more, x)
    BY <2>1, <2>3, <2>4, <2>5, <2>6 DEF Gap
  <2> QED BY <1>6, <1>8, <2>1, <2>5, <2>7
<1>17. text[k + 1] = more[g[k + 1]] /\ Gap(g, k + 1, more, k + 1)
  <2>1. Following(g, k + 1, more, k + 1) = len + 2
    BY <1>6 DEF Following
  <2>2. Backspaces(more, len + 2, len + 1) = 0
    BY <1>6, BackspacesNat
  <2>3. (len + 1) + 1 = len + 2 /\ (len + 2) - 1 = len + 1 /\ (len + 1) - (len + 1) = 0
    BY <1>6
  <2>4. Gap(g, k + 1, more, k + 1)
    BY <1>9, <2>1, <2>2, <2>3 DEF Gap
  <2> QED BY <1>6, <1>8, <1>9, <2>4
<1>18. Lists(g, k + 1, more, text)
  BY <1>9, <1>10, <1>11, <1>12, <1>15, <1>16, <1>17 DEF Lists
<1> QED BY <1>3, <1>4, <1>18 DEF Lined

\* What a backspace reaches is what the line ends with.
LEMMA ErasedBehind ==
  ASSUME NEW chars \in Seq(Char), NEW line \in Seq(Char), NEW k, NEW f, Lists(f, k, chars, line),
         NEW x \in 1 .. k
  PROVE  LET erased == 2 * Backspaces(chars, f[x] + 1, Len(chars))
         IN  /\ x = k => erased = Len(chars) - f[x]
             /\ x < k => erased <= Len(chars) - f[x] - 1
             /\ x = k - 1 => erased = Len(chars) - f[x] - 1
<1>1. PICK len : len = Len(chars)
  OBVIOUS
<1>2. /\ k \in Nat /\ len \in Nat /\ f[x] \in 1 .. len
      /\ x < k => f[x + 1] \in f[x] + 1 .. len /\ x + 1 \in 1 .. k
  BY <1>1, ListsParts
<1>3. Gap(f, k, chars, x)
  BY DEF Lists
<1>4. ASSUME x = k
      PROVE  2 * Backspaces(chars, f[x] + 1, len) = len - f[x]
  <2>1. Following(f, k, chars, x) = len + 1 /\ (len + 1) - 1 = len
    BY <1>1, <1>2, <1>4 DEF Following
  <2> QED BY <1>3, <2>1 DEF Gap
<1>5. ASSUME x < k
      PROVE  /\ 2 * Backspaces(chars, f[x] + 1, len) <= len - f[x] - 1
             /\ x = k - 1 => 2 * Backspaces(chars, f[x] + 1, len) = len - f[x] - 1
  <2>1. PICK at : at = f[x + 1]
    OBVIOUS
  <2>2. at \in f[x] + 1 .. len /\ x + 1 \in 1 .. k /\ x # k
    BY <1>2, <1>5, <2>1
  <2>3. Following(f, k, chars, x) = at
    BY <2>1, <2>2 DEF Following
  <2>4. 2 * Backspaces(chars, f[x] + 1, at - 1) = (at - 1) - f[x]
    BY <1>3, <2>3 DEF Gap
  <2>5. chars[at] # Erasing /\ 2 * Backspaces(chars, at + 1, len) <= len - at
    BY <1>1, <2>1, <2>2, ListsParts
  <2>6. f[x] + 1 \in Int /\ len \in Int /\ at - 1 \in Int /\ at + 1 \in Int
    BY <1>2, <2>2
  <2>7. Backspaces(chars, f[x] + 1, len)
          = Backspaces(chars, f[x] + 1, at - 1) + Backspaces(chars, at + 1, len)
    BY <2>2, <2>5, <2>6, BackspacesSplit
  <2>8. Backspaces(chars, f[x] + 1, at - 1) \in Nat /\ Backspaces(chars, at + 1, len) \in Nat
    BY <2>6, BackspacesNat
  <2>9. x = k - 1 => 2 * Backspaces(chars, at + 1, len) = len - at
    <3> SUFFICES ASSUME x = k - 1
                 PROVE  2 * Backspaces(chars, at + 1, len) = len - at
      OBVIOUS
    <3>1. x + 1 = k /\ at = f[k] /\ k \in 1 .. k
      BY <1>2, <2>1, <2>2
    <3>2. Gap(f, k, chars, k)
      BY <3>1 DEF Lists
    <3>3. Following(f, k, chars, k) = len + 1 /\ (len + 1) - 1 = len
      BY <1>1, <1>2 DEF Following
    <3> QED BY <3>1, <3>2, <3>3 DEF Gap
  <2>10. PICK all, a, b, place : /\ all = Backspaces(chars, f[x] + 1, len) /\ place = f[x]
                                 /\ a = Backspaces(chars, f[x] + 1, at - 1) /\ b = Backspaces(chars, at + 1, len)
    OBVIOUS
  <2>11. len \in Nat /\ place \in Nat /\ at \in Nat
    BY <1>2, <2>2, <2>10
  <2>12. 2 * a = (at - 1) - place /\ 2 * b <= len - at /\ (x = k - 1 => 2 * b = len - at)
    BY <2>4, <2>5, <2>9, <2>10, Zenon
  <2>13. all = a + b /\ a \in Nat /\ b \in Nat
    BY <2>7, <2>8, <2>10, Zenon
  <2>14. 2 * all <= len - place - 1 /\ (x = k - 1 => 2 * all = len - place - 1)
    BY <2>11, <2>12, <2>13
  <2> QED BY <2>10, <2>14
<1>6. x = k - 1 => x < k
  BY <1>2
<1> QED BY <1>1, <1>4, <1>5, <1>6

\* A backspace takes the last character off it.
LEMMA LinedErase ==
  ASSUME NEW chars \in Seq(Char), NEW line \in Seq(Char), NEW k, Lined(k, chars, line), k > 0
  PROVE  Lined(k - 1, Append(chars, Erasing), line)
<1>1. PICK f : Lists(f, k, chars, line)
  BY DEF Lined
<1>2. PICK len : len = Len(chars)
  OBVIOUS
<1>3. PICK more : more = Append(chars, Erasing)
  OBVIOUS
<1>4. PICK g : g = [x \in 1 .. k - 1 |-> f[x]]
  OBVIOUS
<1>5. Erasing \in Char
  BY DEF Char
<1>6. /\ len \in Nat /\ Len(more) = len + 1 /\ more[len + 1] = Erasing
      /\ \A n \in 1 .. len : more[n] = chars[n]
  BY <1>2, <1>3
<1>7. /\ k \in Nat /\ k <= Len(line) /\ Len(line) \in Nat
      /\ \A x \in 1 .. k : /\ f[x] \in 1 .. len /\ f[x] \in Kept(chars)
                           /\ x < k => f[x + 1] \in f[x] + 1 .. len
  BY <1>1, <1>2, ListsParts
<1>8. /\ k \in 1 .. k
      /\ \A x \in 1 .. k - 1 : x \in 1 .. k /\ x < k /\ g[x] = f[x]
      /\ 1 .. k = (1 .. k - 1) \cup {k}
  BY <1>4, <1>7
<1>9. k - 1 \in 0 .. Len(line)
  BY <1>7
<1>10. g \in [1 .. k - 1 -> 1 .. Len(more)]
  <2>1. \A x \in 1 .. k - 1 : f[x] \in 1 .. Len(more)
    BY <1>6, <1>7, <1>8
  <2> QED BY <1>4, <2>1
<1>11. \A x, y \in 1 .. k - 1 : x < y => g[x] < g[y]
  BY <1>1, <1>8 DEF Lists
<1>12. ASSUME NEW x \in 1 .. k
       PROVE  /\ Backspaces(more, f[x] + 1, len + 1) = Backspaces(chars, f[x] + 1, len) + 1
              /\ Backspaces(chars, f[x] + 1, len) \in Nat
  <2>1. f[x] + 1 \in Nat \ {0} /\ f[x] + 1 \in Int /\ len \in Int /\ f[x] + 1 <= len + 1 /\ len <= len
    BY <1>6, <1>7
  <2>2. Backspaces(more, f[x] + 1, len) = Backspaces(chars, f[x] + 1, len)
    BY <1>2, <1>3, <2>1, BackspacesBefore
  <2>3. Backspaces(more, f[x] + 1, len + 1) = Backspaces(more, f[x] + 1, len) + 1
    BY <1>6, <2>1, BackspacesMore
  <2>4. Backspaces(chars, f[x] + 1, len) \in Nat
    BY <2>1, BackspacesNat
  <2> QED BY <2>2, <2>3, <2>4
<1>13. ~(2 * Backspaces(more, f[k] + 1, len + 1) <= (len + 1) - f[k])
  <2>1. 2 * Backspaces(chars, f[k] + 1, len) = len - f[k]
    BY <1>1, <1>2, <1>8, ErasedBehind
  <2> QED BY <1>6, <1>7, <1>8, <1>12, <2>1
<1>14. ASSUME NEW x \in 1 .. k - 1
       PROVE  2 * Backspaces(more, f[x] + 1, len + 1) <= (len + 1) - f[x]
  <2>1. 2 * Backspaces(chars, f[x] + 1, len) <= len - f[x] - 1
    BY <1>1, <1>2, <1>8, ErasedBehind
  <2>2. PICK a, b, place : /\ a = Backspaces(chars, f[x] + 1, len) /\ place = f[x]
                           /\ b = Backspaces(more, f[x] + 1, len + 1)
    OBVIOUS
  <2>3. a \in Nat /\ b = a + 1 /\ place \in 1 .. len /\ len \in Nat /\ 2 * a <= len - place - 1
    BY <1>6, <1>7, <1>8, <1>12, <2>1, <2>2
  <2>4. 2 * b <= (len + 1) - place
    BY <2>3
  <2> QED BY <2>2, <2>4
<1>15. \A n : n \in Kept(more) <=> n \in Kept(chars) /\ 2 * Backspaces(more, n + 1, len + 1) <= (len + 1) - n
  BY <1>2, <1>3, <1>5, KeptAppend
<1>16. Kept(more) = {g[x] : x \in 1 .. k - 1}
  <2>1. Kept(chars) = {f[x] : x \in 1 .. k}
    BY <1>1 DEF Lists
  <2>2. ASSUME NEW n \in Kept(more)
        PROVE  n \in {g[x] : x \in 1 .. k - 1}
    <3>1. PICK x \in 1 .. k : n = f[x]
      BY <1>15, <2>1
    <3>2. x # k
      BY <1>13, <1>15, <3>1
    <3> QED BY <1>8, <3>1, <3>2
  <2>3. ASSUME NEW x \in 1 .. k - 1
        PROVE  g[x] \in Kept(more)
    BY <1>7, <1>8, <1>14, <1>15
  <2> QED BY <2>2, <2>3
<1>17. ASSUME NEW x \in 1 .. k - 1
       PROVE  line[x] = more[g[x]] /\ Gap(g, k - 1, more, x)
  <2>1. line[x] = chars[f[x]] /\ Gap(f, k, chars, x)
    BY <1>1, <1>8 DEF Lists
  <2>2. g[x] = f[x] /\ f[x] \in 1 .. len /\ x < k /\ x \in 1 .. k
    BY <1>7, <1>8
  <2>3. CASE x = k - 1
    <3>1. 2 * Backspaces(chars, f[x] + 1, len) = len - f[x] - 1
      BY <1>1, <1>2, <2>2, <2>3, ErasedBehind
    <3>2. Following(g, k - 1, more, x) = len + 2
      BY <1>6, <2>3 DEF Following
    <3>3. (len + 2) - 1 = len + 1
      BY <1>6
    <3>4. 2 * Backspaces(more, f[x] + 1, len + 1) = (len + 1) - f[x]
      <4>1. PICK a, b, place : /\ a = Backspaces(chars, f[x] + 1, len) /\ place = f[x]
                               /\ b = Backspaces(more, f[x] + 1, len + 1)
        OBVIOUS
      <4>2. a \in Nat /\ b = a + 1 /\ place \in 1 .. len /\ len \in Nat /\ 2 * a = len - place - 1
        BY <1>6, <1>12, <2>2, <3>1, <4>1
      <4>3. 2 * b = (len + 1) - place
        BY <4>2
      <4> QED BY <4>1, <4>3
    <3>5. Gap(g, k - 1, more, x)
      BY <2>2, <3>2, <3>3, <3>4 DEF Gap
    <3> QED BY <1>6, <2>1, <2>2, <3>5
  <2>4. CASE x # k - 1
    <3>1. x + 1 \in 1 .. k - 1 /\ x # k
      BY <1>7, <2>2, <2>4
    <3>2. PICK end : end = f[x + 1]
      OBVIOUS
    <3>3. Following(g, k - 1, more, x) = end /\ Following(f, k, chars, x) = end
      BY <1>8, <2>4, <3>1, <3>2 DEF Following
    <3>4. end \in f[x] + 1 .. len + 1
      BY <1>6, <1>7, <2>2, <3>2
    <3>5. Backspaces(more, f[x] + 1, end - 1) = Backspaces(chars, f[x] + 1, end - 1)
      BY <1>2, <1>3, <2>2, <3>4, SameGap
    <3>6. Gap(g, k - 1, more, x)
      BY <2>1, <2>2, <3>3, <3>5 DEF Gap
    <3> QED BY <1>6, <2>1, <2>2, <3>6
  <2> QED BY <2>3, <2>4
<1>18. Lists(g, k - 1, more, line)
  BY <1>9, <1>10, <1>11, <1>16, <1>17 DEF Lists
<1> QED BY <1>3, <1>18 DEF Lined

\* There is nothing to take off an empty line.
LEMMA LinedNothing ==
  ASSUME NEW chars \in Seq(Char), NEW line \in Seq(Char), Lined(0, chars, line)
  PROVE  Lined(0, Append(chars, Erasing), line)
<1>1. PICK f : Lists(f, 0, chars, line)
  BY DEF Lined
<1>2. Kept(chars) = {} /\ 0 \in 0 .. Len(line) /\ 1 .. 0 = {}
  BY <1>1 DEF Lists
<1>3. Erasing \in Char
  BY DEF Char
<1>4. Kept(Append(chars, Erasing)) = {}
  BY <1>2, <1>3, KeptAppend
<1>5. PICK g : g = [x \in 1 .. 0 |-> 1]
  OBVIOUS
<1>6. Lists(g, 0, Append(chars, Erasing), line)
  BY <1>2, <1>4, <1>5 DEF Lists
<1> QED BY <1>6 DEF Lined

LEMMA LinedFirst == Lined(0, <<>>, <<>>)
<1>1. Kept(<<>>) = {} /\ 0 \in 0 .. Len(<<>>) /\ 1 .. 0 = {}
  BY DEF Kept
<1>2. PICK g : g = [x \in 1 .. 0 |-> 1]
  OBVIOUS
<1>3. Lists(g, 0, <<>>, <<>>)
  BY <1>1, <1>2 DEF Lists
<1> QED BY <1>3 DEF Lined

-----------------------------------------------------------------------------
(* The invariant: kgetc's last character is edited in after it was taken.   *)

LineInv ==
  /\ pc \in {"user", "poll", "take"} => Lined(i, eaten, buffer)
  /\ pc \in {"uncount", "store", "edit"} =>
       \E chars \in Seq(Char) : eaten = Append(chars, res) /\ Lined(i, chars, buffer)

LEMMA LinedIsEdited ==
  ASSUME NEW chars \in Seq(Char), NEW line \in Seq(Char), NEW k, Lined(k, chars, line)
  PROVE  /\ k = Cardinality(Kept(chars))
         /\ \A n \in Kept(chars) : line[Cardinality({m \in Kept(chars) : m <= n})] = chars[n]
<1>1. PICK f : Lists(f, k, chars, line)
  BY DEF Lined
<1>2. k \in Nat /\ \A x \in 1 .. k : f[x] \in 1 .. Len(chars) /\ Len(chars) \in Nat
  BY <1>1, ListsParts
<1>3. /\ f \in [1 .. k -> 1 .. Len(chars)] /\ Kept(chars) = {f[x] : x \in 1 .. k}
      /\ \A x, y \in 1 .. k : x < y => f[x] < f[y]
      /\ \A x \in 1 .. k : line[x] = chars[f[x]]
  BY <1>1 DEF Lists
<1>4. ASSUME NEW x \in 1 .. k, NEW y \in 1 .. k
      PROVE  f[y] <= f[x] <=> y <= x
  <2>1. f[x] \in Int /\ f[y] \in Int /\ x \in Int /\ y \in Int
    BY <1>2
  <2>2. (x < y => f[x] < f[y]) /\ (y < x => f[y] < f[x]) /\ (x = y => f[x] = f[y])
    BY <1>3
  <2> QED BY <2>1, <2>2
<1>5. ASSUME NEW x \in 1 .. k, NEW y \in 1 .. k, f[x] = f[y]
      PROVE  x = y
  <2>1. f[x] \in Int /\ f[y] \in Int /\ x \in Int /\ y \in Int
    BY <1>2
  <2>2. f[x] <= f[y] /\ f[y] <= f[x]
    BY <1>5, <2>1
  <2>3. x <= y /\ y <= x
    BY <1>4, <2>2
  <2> QED BY <2>1, <2>3
<1>6. ASSUME NEW n \in 0 .. k
      PROVE  Cardinality({f[x] : x \in 1 .. n}) = n
  <2>1. n \in Int /\ 1 \in Int /\ \A x \in 1 .. n : x \in 1 .. k
    BY <1>2
  <2>2. PICK h : h = [x \in 1 .. n |-> f[x]]
    OBVIOUS
  <2>3. h \in Bijection(1 .. n, {f[x] : x \in 1 .. n})
    BY <1>5, <2>1, <2>2 DEF Bijection, Injection, Surjection, IsInjective
  <2>4. ExistsBijection(1 .. n, {f[x] : x \in 1 .. n})
    BY <2>3 DEF ExistsBijection
  <2>5. IsFiniteSet(1 .. n) /\ Cardinality(1 .. n) = n
    BY <2>1, FS_Interval
  <2> QED BY <2>4, <2>5, FS_Bijection
<1>7. k = Cardinality(Kept(chars))
  <2>1. k \in 0 .. k
    BY <1>2
  <2> QED BY <1>3, <1>6, <2>1
<1>8. ASSUME NEW n \in Kept(chars)
      PROVE  line[Cardinality({m \in Kept(chars) : m <= n})] = chars[n]
  <2>1. PICK x \in 1 .. k : n = f[x]
    BY <1>3
  <2>2. \A y : y \in 1 .. x <=> y \in 1 .. k /\ y <= x
    BY <1>2
  <2>3. {m \in Kept(chars) : m <= n} = {f[y] : y \in 1 .. x}
    <3>1. Kept(chars) = {f[y] : y \in 1 .. k}
      BY <1>3
    <3>2. ASSUME NEW m \in Kept(chars), m <= n
          PROVE  m \in {f[y] : y \in 1 .. x}
      <4>1. PICK y \in 1 .. k : m = f[y]
        BY <3>1
      <4> QED BY <1>4, <2>1, <2>2, <3>2, <4>1
    <3>3. ASSUME NEW y \in 1 .. x
          PROVE  f[y] \in Kept(chars) /\ f[y] <= n
      BY <1>4, <2>1, <2>2, <3>1
    <3> QED BY <3>2, <3>3
  <2>4. x \in 0 .. k
    BY <1>2
  <2>5. Cardinality({f[y] : y \in 1 .. x}) = x
    BY <1>6, <2>4
  <2> QED BY <1>3, <2>1, <2>3, <2>5
<1> QED BY <1>7, <1>8

-----------------------------------------------------------------------------
(* The steps.                                                              *)

LEMMA SameLine ==
  ASSUME LineInv, UNCHANGED <<i, buffer, eaten, res>>,
         \/ pc \in {"user", "poll", "take"} /\ pc' \in {"user", "poll", "take"}
         \/ pc \in {"uncount", "store", "edit"} /\ pc' \in {"uncount", "store", "edit"}
         \/ pc' = pc
  PROVE  LineInv'
  BY DEF LineInv, Lined, Lists

LEMMA EditLine ==
  ASSUME KeyInvariant, LineInv, Edit
  PROVE  LineInv'
<1>1. /\ pc = "edit" /\ pc' \in {"user", "poll"} /\ eaten' = eaten
      /\ \/ res = Erasing /\ i > 0 /\ i' = i - 1 /\ buffer' = buffer
         \/ res = Erasing /\ i = 0 /\ i' = i /\ buffer' = buffer
         \/ res # Erasing /\ buffer' = Append(SubSeq(buffer, 1, i), res) /\ i' = i + 1
  BY DEF Edit, OneLess
<1>2. PICK chars \in Seq(Char) : eaten = Append(chars, res) /\ Lined(i, chars, buffer)
  BY <1>1 DEF LineInv
<1>3. buffer \in Seq(Char) /\ res \in Char
  BY <1>1, OtherParts DEF KeyInvariant, Counts
<1>4. PICK k, line, more, next, text :
        k = i /\ line = buffer /\ more = eaten /\ next = i' /\ text = buffer'
  OBVIOUS
<1>5. Lined(next, more, text)
  <2>1. line \in Seq(Char) /\ Lined(k, chars, line)
    BY <1>2, <1>3, <1>4
  <2>2. CASE res = Erasing /\ k > 0 /\ next = k - 1 /\ text = line
    BY <1>2, <1>4, <2>1, <2>2, LinedErase
  <2>3. CASE res = Erasing /\ k = 0 /\ next = k /\ text = line
    BY <1>2, <1>4, <2>1, <2>3, LinedNothing
  <2>4. CASE res # Erasing /\ text = Append(SubSeq(line, 1, k), res) /\ next = k + 1
    BY <1>2, <1>3, <1>4, <2>1, <2>4, LinedLetter
  <2> QED BY <1>1, <1>4, <2>2, <2>3, <2>4
<1>6. Lined(i, eaten, buffer)'
  BY <1>1, <1>4, <1>5 DEF Lined, Lists, Gap, Following
<1> QED BY <1>1, <1>6 DEF LineInv

LEMMA TakeLine ==
  ASSUME KeyInvariant, KeyInvariant', LineInv, Take
  PROVE  LineInv'
<1>1. pc = "take" /\ pc' = "uncount" /\ eaten' = Append(eaten, res') /\ UNCHANGED <<i, buffer>>
  BY DEF Take, call
<1>2. eaten \in Seq(Char)
  BY OtherParts DEF KeyInvariant
<1>3. Lined(i, eaten, buffer)
  BY <1>1 DEF LineInv
<1>4. PICK chars : chars = eaten
  OBVIOUS
<1>5. chars \in Seq(Char) /\ eaten' = Append(chars, res') /\ Lined(i, chars, buffer)'
  BY <1>1, <1>2, <1>3, <1>4 DEF Lined, Lists
<1> QED BY <1>1, <1>5 DEF LineInv

LEMMA NextLine ==
  ASSUME KeyInvariant, KeyInvariant', LineInv, [Next]_vars
  PROVE  LineInv'
<1>1. CASE \E code \in Code : Key(code)
  BY <1>1, SameLine DEF Key, call
<1>2. CASE keyboard_handler
  BY <1>2, SameLine DEF keyboard_handler, call
<1>3. CASE \E file_descriptor \in {0, 1}, n \in 0 .. MaxLength : SYS_read(file_descriptor, n)
  <2>1. pc' \in {"poll", "user"} /\ i' = 0 /\ buffer' = <<>> /\ eaten' = <<>>
    BY <1>3 DEF SYS_read
  <2>2. Lined(i, eaten, buffer)'
    BY <2>1, LinedFirst DEF Lined, Lists, Gap, Following
  <2> QED BY <2>1, <2>2 DEF LineInv
<1>4. CASE Poll
  BY <1>4, SameLine DEF Poll, call
<1>5. CASE Take
  BY <1>5, TakeLine
<1>6. CASE \E how \in Decrements : Uncount(how)
  <2>1. pc = "uncount" /\ pc' \in {"edit", "store"} /\ UNCHANGED <<i, buffer, eaten, res>>
    BY <1>6 DEF Uncount, call
  <2> QED BY <2>1, SameLine
<1>7. CASE StoreCount
  BY <1>7, SameLine DEF StoreCount, call
<1>8. CASE Edit
  BY <1>8, EditLine
<1>9. CASE UNCHANGED vars
  BY <1>9, SameLine DEF vars, call
<1> QED BY <1>1, <1>2, <1>3, <1>4, <1>5, <1>6, <1>7, <1>8, <1>9 DEF Next, Main

\* The caller of SYS_read gets the line as it was typed, however long it is and
\* in whatever order letters and backspaces come: each backspace takes the
\* nearest character before it that was still there, and none of an earlier
\* line (interrupts.c:224-236).
THEOREM LinesAreEdited == Spec => []LineEdited
<1>1. Init => LineInv
  <2> SUFFICES ASSUME Init
               PROVE  LineInv
    OBVIOUS
  <2>1. pc = "user" /\ i = 0 /\ eaten = <<>> /\ buffer = <<>>
    BY DEF Init
  <2>2. Lined(i, eaten, buffer)
    BY <2>1, LinedFirst
  <2> QED BY <2>1, <2>2 DEF LineInv
<1>2. KeyInvariant /\ KeyInvariant' /\ LineInv /\ [Next]_vars => LineInv'
  BY NextLine
<1>3. KeyInvariant /\ LineInv => LineEdited
  <2> SUFFICES ASSUME KeyInvariant, LineInv, pc = "user"
               PROVE  /\ i = Cardinality(Kept(eaten))
                      /\ \A n \in Kept(eaten) :
                           buffer[Cardinality({m \in Kept(eaten) : m <= n})] = eaten[n]
    BY DEF LineEdited
  <2>1. buffer \in Seq(Char) /\ eaten \in Seq(Char)
    BY OtherParts DEF KeyInvariant
  <2>2. Lined(i, eaten, buffer)
    BY DEF LineInv
  <2> QED BY <2>1, <2>2, LinedIsEdited
<1> QED BY Invariant, <1>1, <1>2, <1>3, PTL DEF Spec
=============================================================================
