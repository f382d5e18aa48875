-------------------------- MODULE FileSystemProofs --------------------------
(* Theorems about FileSystem and FileSystemImpl, for every pool, table and  *)
(* set of names.                                                           *)
EXTENDS FileSystemImpl, ModularArithmetic, TLAPS, SequenceTheorems, FiniteSetTheorems

USE PoolAssumption, BoundAssumption, ValueAssumption

\* Division by the size of a block stays in the natural numbers.
LEMMA DivNat ==
  ASSUME NEW n \in Nat
  PROVE  n \div DataSize \in Nat /\ n % DataSize \in 0 .. DataSize - 1
OBVIOUS

LEMMA MissingInt ==
  ASSUME NEW size \in Nat, NEW n \in Nat
  PROVE  Missing(size, n) \in Int
BY DivNat DEF Missing, BlocksFor, NumBlocksOf, AtLeastOne

\* What fs_open and fs_rename find is a used slot of that name.
LEMMA FoundSlot ==
  ASSUME TypeOK, NEW n, NEW s \in First(Named(n))
  PROVE  s \in Slot /\ s < next_entry /\ entries[s].name = n
BY DEF First, Named, TypeOK, TableOK, Slot

LEMMA BufferSeq ==
  ASSUME NEW b \in Buffer
  PROVE  b \in Seq(Byte) /\ b \in Seq(Byte \cup {Junk}) /\ Len(b) \in Nat
<1>1. PICK n \in 0 .. MaxLen : b \in [1 .. n -> Byte]
  BY DEF Buffer
<1> QED
  BY <1>1

-----------------------------------------------------------------------------
(* Type correctness.                                                       *)

\* What the loops know of their locals.
Locals ==
  /\ pc \in {"seek", "alloc"} => cnt # 0
  /\ pc \in {"seek", "alloc", "skip", "copy"} => pos + Len(buf) <= MaxLen
  /\ pc \in {"seek", "alloc", "read", "delete"} => cur \in Block
  /\ pc \in {"skip", "copy"} => cur # NULL

TypeInv == TypeOK /\ Locals

LEMMA TypeInit == Init => TypeInv
<1> SUFFICES ASSUME Init PROVE TypeInv
  OBVIOUS
<1> USE DEF Init, Block, Slot, Fd, Offset, Entry, Call, Harm, AsIndex, END, NULL, WILD
<1>1. PoolOK
  BY DEF PoolOK
<1>2. TableOK
  BY DEF TableOK
<1>3. CallOK
  BY EmptySeq DEF CallOK
<1>4. Locals
  BY DEF Locals
<1> QED
  BY <1>1, <1>2, <1>3, <1>4 DEF TypeInv, TypeOK

LEMMA TypeReturn ==
  ASSUME PoolOK', TableOK', NEW v, Return(v), harm' \subseteq Harm
  PROVE  TypeInv'
BY EmptySeq DEF TypeInv, TypeOK, CallOK, Locals, Return, Call, END, NULL, WILD, Slot

\* What a step leaves alone keeps its type.
LEMMA TypePool == ASSUME PoolOK, UNCHANGED pool PROVE PoolOK'
BY DEF PoolOK, pool

LEMMA TypeTable == ASSUME TableOK, UNCHANGED <<table, fds>> PROVE TableOK'
BY DEF TableOK, table, fds

LEMMA TypeHarm ==
  ASSUME CallOK, NEW what \in Harm, NEW cond, Happened(what, cond)
  PROVE  harm' \subseteq Harm
BY DEF CallOK, Happened

LEMMA TypeCrash == ASSUME TypeInv, Crash PROVE TypeInv'
BY DEF TypeInv, TypeOK, PoolOK, TableOK, CallOK, Locals, Crash, pool, table, fds, Call

LEMMA TypeOpen ==
  ASSUME TypeInv, NEW n \in Name, fs_open(n)
  PROVE  TypeInv'
<1> USE DEF TypeInv, TypeOK
<1>1. CASE OpenRefused(n)
  BY <1>1, TypeReturn, TypePool, TypeTable DEF OpenRefused, CallOK
<1>2. CASE OpenExisting(n)
  <2>1. TableOK'
    BY <1>2, FoundSlot DEF OpenExisting, create_fd, table, TableOK, Fd
  <2>2. PoolOK' /\ harm' \subseteq Harm
    BY <1>2, TypePool, TypeHarm DEF OpenExisting, Harm
  <2> QED
    BY <1>2, <2>1, <2>2, TypeReturn DEF OpenExisting
<1>3. CASE OpenNew(n)
  <2>1. PoolOK'
    BY <1>3 DEF OpenNew, AfterHead, LastMark, PoolOK, NULL, END, WILD, Block
  <2>2. next_entry \in Slot /\ next_entry' \in 0 .. MaxFiles
    BY <1>3 DEF OpenNew, TableOK, Slot
  <2>3. entries' \in [Slot -> Entry]
    <3>1. [name |-> n, start |-> free_list, size |-> 0] \in Entry
      BY <1>3 DEF OpenNew, Entry
    <3> QED
      BY <1>3, <2>2, <3>1 DEF OpenNew, TableOK
  <2>4. TableOK'
    BY <1>3, <2>2, <2>3 DEF OpenNew, create_fd, TableOK, Fd
  <2>5. harm' \subseteq Harm
    BY <1>3, TypeHarm DEF OpenNew, Harm
  <2> QED
    BY <1>3, <2>1, <2>4, <2>5, TypeReturn DEF OpenNew
<1>4. CASE OpenWild(n)
  BY <1>4, TypeCrash DEF OpenWild
<1> QED
  BY <1>1, <1>2, <1>3, <1>4 DEF fs_open

\* The three ways into fs_write_at.
LEMMA TypeWriteAt ==
  ASSUME TypeInv, NEW d \in Fd, NEW b \in Buffer, NEW i \in 0 .. MaxLen, fs_write_at(d, i, b)
  PROVE  TypeInv'
<1> USE DEF TypeInv, TypeOK
<1>1. CASE WriteRefused(d, i)
  BY <1>1, TypeReturn, TypePool, TypeTable DEF WriteRefused, CallOK
<1>2. CASE WriteBegin(d, i, b)
  <2>1. find_fd(d) \in Slot /\ entries[find_fd(d)] \in Entry
    BY <1>2 DEF WriteBegin, Writable, find_fd, TableOK
  <2>2. /\ entries[find_fd(d)].size \in Nat
        /\ entries[find_fd(d)].start \in Block
    BY <2>1 DEF Entry
  <2> DEFINE m == Missing(entries[find_fd(d)].size, i + Len(b))
  <2>3. m \in Int /\ i \div DataSize \in Nat
    <3>1. i \in Nat /\ i + Len(b) \in Nat
      BY BufferSeq
    <3> QED
      BY <2>2, <3>1, MissingInt, DivNat
  <2>4. PoolOK' /\ TableOK'
    BY <1>2, TypePool, TypeTable DEF WriteBegin
  <2>5. /\ pc' = IF m > 0 THEN "seek" ELSE "skip"
        /\ cnt' = IF m > 0 THEN m ELSE i \div DataSize
    BY <1>2 DEF WriteBegin
  <2> HIDE DEF m
  <2>6. CallOK'
    BY <1>2, <2>1, <2>2, <2>3, <2>5, BufferSeq DEF WriteBegin, CallOK, Call
  <2>7. Locals'
    BY <1>2, <2>2, <2>3, <2>5 DEF WriteBegin, Locals, Block, NULL
  <2> QED
    BY <2>4, <2>6, <2>7
<1> QED
  BY <1>1, <1>2 DEF fs_write_at

LEMMA TypeWrite ==
  ASSUME TypeInv, NEW d \in Fd, NEW b \in Buffer, fs_write(d, b) \/ fs_append(d, b)
  PROVE  TypeInv'
<1>1. CASE fs_write(d, b)
  BY <1>1, TypeWriteAt DEF fs_write
<1>2. CASE fs_append(d, b) /\ find_fd(d) = NULL
  BY <1>2, TypeWriteAt DEF fs_append, fs_write_at
<1>3. CASE fs_append(d, b) /\ find_fd(d) # NULL
  <2>1. entries[find_fd(d)].size \in 0 .. MaxLen
    BY <1>3 DEF find_fd, TypeInv, TypeOK, TableOK, Entry
  <2> QED
    BY <1>3, <2>1, TypeWriteAt DEF fs_append
<1> QED
  BY <1>1, <1>2, <1>3

LEMMA TypeSeek == ASSUME TypeInv, Seek PROVE TypeInv'
<1>1. CASE Crash
  BY <1>1, TypeCrash
<1>2. CASE ~Crash
  <2>1. PoolOK' /\ TableOK'
    BY <1>2, TypePool, TypeTable DEF Seek, TypeInv, TypeOK
  <2> QED
    BY <1>2, <2>1 DEF Seek, TypeInv, TypeOK, CallOK, Locals, Call
<1> QED
  BY <1>1, <1>2

LEMMA TypeAlloc == ASSUME TypeInv, Alloc PROVE TypeInv'
<1> USE DEF TypeInv, TypeOK
<1>1. CASE AllocFails
  BY <1>1, TypeReturn, TypePool, TypeTable, TypeHarm DEF AllocFails, Harm
<1>2. CASE AllocBlock
  <2>1. PoolOK'
    BY <1>2 DEF AllocBlock, AfterHead, LastMark, PoolOK, END, WILD
  <2>2. TableOK'
    BY <1>2, TypeTable DEF AllocBlock
  <2>3. entries[ent].start \in Block
    BY DEF TableOK, CallOK, Entry
  <2>4. pos \div DataSize \in Nat
    BY DivNat DEF CallOK
  <2>5. cnt # 1 => cnt - 1 \in Nat /\ cnt - 1 # 0
    BY DEF Alloc, Locals, CallOK
  <2>6. CallOK'
    BY <1>2, <2>3, <2>4, <2>5 DEF AllocBlock, CallOK, Call
  <2>7. Locals'
    <3>1. CASE cnt = 1
      BY <1>2, <2>3, <3>1 DEF AllocBlock, Alloc, Locals, Block, NULL
    <3>2. CASE cnt # 1
      BY <1>2, <2>5, <3>2 DEF AllocBlock, Alloc, Locals
    <3> QED
      BY <3>1, <3>2
  <2> QED
    BY <2>1, <2>2, <2>6, <2>7
<1>3. CASE Crash
  BY <1>3, TypeCrash
<1> QED
  BY <1>1, <1>2, <1>3 DEF Alloc

LEMMA TypeSkip == ASSUME TypeInv, Skip PROVE TypeInv'
<1> USE DEF TypeInv, TypeOK
<1>1. CASE SkipBlock
  <2>1. PoolOK' /\ TableOK'
    BY <1>1, TypePool, TypeTable DEF SkipBlock
  <2>2. cnt - 1 \in Nat
    BY <1>1 DEF SkipBlock, CallOK
  <2>3. cur' \in Block \cup {WILD}
    BY <1>1 DEF SkipBlock
  <2> QED
    BY <1>1, <2>1, <2>2, <2>3 DEF SkipBlock, Skip, CallOK, Locals, Block, NULL, WILD
<1>2. CASE SkipDone
  <2>1. PoolOK'
    BY <1>2, TypePool DEF SkipDone, pool
  <2>2. /\ pos + Len(buf) \in 0 .. MaxLen
        /\ pos % DataSize \in 0 .. DataSize
    <3>1. pos \in Nat /\ Len(buf) \in Nat
      BY LenProperties DEF CallOK
    <3>2. pos + Len(buf) <= MaxLen
      BY DEF Skip, Locals
    <3>3. pos % DataSize \in 0 .. DataSize - 1
      BY <3>1, DivNat
    <3> HIDE DEF TypeInv, TypeOK
    <3> QED
      BY <3>1, <3>2, <3>3
  <2>3. Larger(pos + Len(buf), entries[ent].size) \in 0 .. MaxLen
    BY <2>2 DEF Larger, TableOK, CallOK, Entry
  <2>4. TableOK'
    BY <1>2, <2>3 DEF SkipDone, fds, TableOK, CallOK, Entry
  <2> QED
    BY <1>2, <2>1, <2>2, <2>4 DEF SkipDone, Skip, CallOK, Locals, Call
<1>3. CASE Crash
  BY <1>3, TypeCrash
<1> QED
  BY <1>1, <1>2, <1>3 DEF Skip

LEMMA TypeCopy == ASSUME TypeInv, Copy PROVE TypeInv'
<1> USE DEF TypeInv, TypeOK
<1>1. CASE CopyByte
  <2> DEFINE o == IF wp < DataSize THEN wp ELSE 0
  <2>1. /\ o \in Offset
        /\ o + 1 \in 0 .. DataSize
    BY DEF CallOK, Offset
  <2>2. /\ Head(buf) \in Byte \cup {Junk}
        /\ Tail(buf) \in Seq(Byte \cup {Junk})
        /\ Len(Tail(buf)) = Len(buf) - 1
    BY <1>1, HeadTailProperties DEF CopyByte, CallOK
  <2>3. Target \in Block
    BY <1>1 DEF CopyByte
  <2>4. PoolOK'
    BY <1>1, <2>1, <2>2, <2>3 DEF CopyByte, PoolOK
  <2>5. TableOK'
    BY <1>1, TypeTable DEF CopyByte
  <2>6. Len(buf) \in Nat
    BY LenProperties DEF CallOK
  <2>7. CallOK'
    BY <1>1, <2>1, <2>2, <2>3 DEF CopyByte, CallOK
  <2>8. pos' + Len(buf') <= MaxLen
    BY <1>1, <2>2, <2>6 DEF CopyByte, Copy, CallOK, Locals
  <2>9. Locals'
    BY <1>1, <2>3, <2>8 DEF CopyByte, Copy, Locals, Block, NULL
  <2> QED
    BY <2>4, <2>5, <2>7, <2>9
<1>2. CASE CopyDone
  BY <1>2, TypeReturn, TypePool, TypeTable DEF CopyDone, CallOK
<1>3. CASE Crash
  BY <1>3, TypeCrash
<1> QED
  BY <1>1, <1>2, <1>3 DEF Copy

LEMMA TypeReadBegin == ASSUME TypeInv, NEW d \in Fd, fs_read(d) PROVE TypeInv'
<1> USE DEF TypeInv, TypeOK
<1>1. PoolOK' /\ TableOK' /\ harm' \subseteq Harm
  BY TypePool, TypeTable DEF fs_read, CallOK
<1>2. CASE find_fd(d) = NULL
  BY <1>1, <1>2, TypeReturn DEF fs_read
<1>3. CASE find_fd(d) # NULL
  <2>1. find_fd(d) \in Slot /\ entries[find_fd(d)] \in Entry
    BY <1>3 DEF find_fd, TableOK
  <2>2. /\ entries[find_fd(d)].size \in Nat
        /\ entries[find_fd(d)].start \in Block
    BY <2>1 DEF Entry
  <2> QED
    BY <1>1, <1>3, <2>1, <2>2 DEF fs_read, CallOK, Locals, Call
<1> QED
  BY <1>2, <1>3

\* fs_read prints bytes.
LEMMA PrintedSeq ==
  ASSUME TypeInv, cur \in Block
  PROVE  Printed \in Seq(Byte \cup {Junk})
<1> USE DEF TypeInv, TypeOK
<1> DEFINE n   == IF cnt < DataSize THEN cnt ELSE DataSize
           new == [o \in 1 .. n |-> data[cur][o - 1]]
           all == buf \o new
           k   == IF Len(all) > MaxLen THEN MaxLen + 1 ELSE Len(all)
<1>1. n \in Nat /\ n <= DataSize
  BY DEF CallOK
<1>2. new \in Seq(Byte \cup {Junk})
  <2>1. \A o \in 1 .. n : data[cur][o - 1] \in Byte \cup {Junk}
    BY <1>1 DEF PoolOK, Offset
  <2>2. new \in [1 .. n -> Byte \cup {Junk}]
    BY <2>1
  <2> HIDE DEF new
  <2> QED
    BY <1>1, <2>2
<1>3. all \in Seq(Byte \cup {Junk})
  <2> HIDE DEF new
  <2> QED
    BY <1>2, ConcatProperties DEF CallOK
<1>4. k \in Int /\ k <= Len(all)
  <2> HIDE DEF all
  <2> QED
    BY <1>3, LenProperties
<1>5. SubSeq(all, 1, k) \in Seq(Byte \cup {Junk})
  <2> HIDE DEF all, k
  <2> QED
    BY <1>3, <1>4, ElementOfSeq, SubSeqProperties
<1> QED
  BY <1>5 DEF Printed

LEMMA TypeReadBlock == ASSUME TypeInv, ReadBlock PROVE TypeInv'
<1> USE DEF TypeInv, TypeOK
<1>1. PoolOK' /\ TableOK' /\ harm' \subseteq Harm
  BY TypePool, TypeTable DEF ReadBlock, CallOK
<1>2. CASE index[cur] = END
  BY <1>1, <1>2, TypeReturn DEF ReadBlock
<1>3. CASE index[cur] # END
  <2>1. cur \in Block
    BY DEF ReadBlock, Locals
  <2>2. index[cur] \in Block \cup {WILD}
    BY <1>3, <2>1 DEF PoolOK
  <2>3. Printed \in Seq(Byte \cup {Junk})
    BY <2>1, PrintedSeq
  <2>4. LessBlock(cnt) \in Nat
    BY DEF LessBlock, HUGE, CallOK
  <2> QED
    BY <1>1, <1>3, <2>2, <2>3, <2>4 DEF ReadBlock, CallOK, Locals, Call, WILD
<1> QED
  BY <1>2, <1>3

LEMMA TypeDeleteBegin == ASSUME TypeInv, NEW d \in Fd, fs_delete(d) PROVE TypeInv'
<1> USE DEF TypeInv, TypeOK
<1>1. PoolOK' /\ TableOK' /\ harm' \subseteq Harm
  BY TypePool, TypeTable DEF fs_delete, CallOK
<1>2. CASE find_fd(d) = NULL
  BY <1>1, <1>2, TypeReturn DEF fs_delete
<1>3. CASE find_fd(d) # NULL
  <2>1. find_fd(d) \in Slot /\ entries[find_fd(d)].start \in Block
    BY <1>3 DEF find_fd, TableOK, Entry
  <2> QED
    BY <1>1, <1>3, <2>1 DEF fs_delete, CallOK, Locals, Call, Fd
<1> QED
  BY <1>2, <1>3

LEMMA TypeDelete == ASSUME TypeInv, Delete PROVE TypeInv'
<1> USE DEF TypeInv, TypeOK
<1>1. CASE DeleteBlock
  <2>1. cur \in Block
    BY DEF Delete, Locals
  <2>2. AsIndex(free_list) \in Block \cup {WILD}
    BY DEF AsIndex, Block
  <2>3. data' \in [Block -> [Offset -> Byte \cup {Junk}]]
    BY <1>1, <2>1 DEF DeleteBlock, SetNext, PoolOK
  <2>4. PoolOK'
    BY <1>1, <2>1, <2>2, <2>3 DEF DeleteBlock, SetNext, PoolOK
  <2>5. TableOK'
    BY <1>1, TypeTable DEF DeleteBlock
  <2>6. PICK how \in DeleteReads :
          /\ cur' = DeleteNext(how)
          /\ pc' = IF DeleteNext(how) = WILD THEN "crash" ELSE "delete"
          /\ Happened("reread", how = "reread")
    BY <1>1 DEF DeleteBlock
  <2>7. DeleteNext(how) \in Block \cup {WILD}
    BY <1>1, <2>1, <2>2 DEF DeleteBlock, DeleteNext, PoolOK
  <2>8. harm' \subseteq Harm
    BY <2>6, TypeHarm DEF Harm
  <2> QED
    BY <1>1, <2>4, <2>5, <2>6, <2>7, <2>8 DEF DeleteBlock, CallOK, Locals, Call, WILD
<1>2. CASE DeleteDone
  <2>1. PoolOK' /\ harm' \subseteq Harm
    BY <1>2, TypePool, TypeHarm DEF DeleteDone, Harm
  <2>2. [name |-> NoName, start |-> 0, size |-> 0] \in Entry
    BY DEF Entry, Block
  <2>3. TableOK'
    BY <1>2, <2>2 DEF DeleteDone, remove_fd, TableOK, CallOK
  <2> QED
    BY <1>2, <2>1, <2>3, TypeReturn DEF DeleteDone
<1> QED
  BY <1>1, <1>2 DEF Delete

LEMMA TypeRename ==
  ASSUME TypeInv, NEW old \in Name, NEW new \in Name, fs_rename(old, new)
  PROVE  TypeInv'
<1> USE DEF TypeInv, TypeOK
<1>1. PoolOK' /\ harm' \subseteq Harm
  BY TypePool DEF fs_rename, CallOK, Harm
<1>2. entries' \in [Slot -> Entry]
  <2>1. CASE UNCHANGED entries
    BY <2>1 DEF TableOK
  <2>2. ASSUME NEW s \in First(Named(old)),
               entries' = [entries EXCEPT ![s].name = new]
        PROVE  entries' \in [Slot -> Entry]
    BY <2>2 DEF TableOK, Entry
  <2> QED
    BY <2>1, <2>2 DEF fs_rename
<1>3. TableOK'
  BY <1>2 DEF fs_rename, fds, TableOK
<1> QED
  BY <1>1, <1>3, TypeReturn DEF fs_rename

LEMMA TypeStutter == ASSUME TypeInv, UNCHANGED vars PROVE TypeInv'
BY DEF TypeInv, TypeOK, PoolOK, TableOK, CallOK, Locals, vars, pool, table, fds

LEMMA TypeStep == TypeInv /\ [Next]_vars => TypeInv'
<1> SUFFICES ASSUME TypeInv, Next PROVE TypeInv'
  BY TypeStutter
<1>1. CASE Begin
  BY <1>1, TypeOpen, TypeWriteAt, TypeWrite, TypeReadBegin, TypeDeleteBegin, TypeRename
     DEF Begin
<1>2. CASE Step
  BY <1>2, TypeSeek, TypeAlloc, TypeSkip, TypeCopy, TypeReadBlock, TypeDelete DEF Step
<1> QED
  BY <1>1, <1>2 DEF Next

\* No call ever stores an index or a pointer of the wrong kind.
THEOREM TypeCorrect == Spec => []TypeOK
<1>1. TypeInv => TypeOK
  BY DEF TypeInv
<1> QED
  BY <1>1, TypeInit, TypeStep, PTL DEF Spec

-----------------------------------------------------------------------------
(* The free list and the chains share no page.                             *)

LEMMA InvInit == Init => IInv
<1> SUFFICES ASSUME Init PROVE IInv
  OBVIOUS
<1>1. \A b \in Block : Free(b) /\ ~Owned(b)
  BY DEF Init, Free, Owned, Block, NULL, WILD
<1>2. \A s \in Slot : ~Holds(s)
  BY DEF Init, Holds, Slot
<1>3. FreeListDisjoint
  <2>1. free_list # WILD /\ (\A b, c \in Block : next[b] = c => free_list # c)
    BY DEF Init, Block, NULL, WILD
  <2>2. \A b, c \in Block : next[b] = next[c] /\ next[b] # NULL => b = c
    BY DEF Init, Block, NULL
  <2> QED
    BY <1>1, <1>2, <2>1, <2>2 DEF FreeListDisjoint
<1>4. FilesDisjoint
  BY <1>1, <1>2 DEF FilesDisjoint
<1>5. ViewsAgree
  BY <1>1 DEF ViewsAgree, Init, AsIndex
<1>6. CursorOwned /\ EntryInUse /\ CursorUnclaimed
  BY DEF Init, CursorOwned, EntryInUse, CursorUnclaimed
<1>7. DescriptorsLive
  BY DEF Init, DescriptorsLive, find_fd
<1> QED
  BY <1>3, <1>4, <1>5, <1>6, <1>7 DEF IInv, Structure

\* A step that leaves the pool alone, and no slot with a new file.
LEMMA StructureKept ==
  ASSUME Structure, UNCHANGED <<next, index, free_list>>,
         \A s \in Slot : Holds(s)' => Holds(s) /\ entries'[s].start = entries[s].start,
         pc = "alloc" => Owned(cur),
         pc' = "alloc" => Owned(cur)',
         CursorOwned', EntryInUse', CursorUnclaimed'
  PROVE  Structure'
<1>1. \A b : Owned(b)' <=> Owned(b)
  BY DEF Owned
<1>2. \A b \in Block : Free(b)' <=> Free(b)
  BY DEF Free, Owned
<1>3. FreeListDisjoint'
  BY <1>1, <1>2 DEF Structure, FreeListDisjoint
<1>4. FilesDisjoint'
  BY <1>1 DEF Structure, FilesDisjoint
<1>5. ViewsAgree'
  BY <1>1 DEF Structure, ViewsAgree
<1> QED
  BY <1>3, <1>4, <1>5 DEF Structure

\* The same for a step that returns.
LEMMA StructureReturn ==
  ASSUME Structure, UNCHANGED <<next, index, free_list>>, NEW v, Return(v),
         \A s \in Slot : Holds(s)' => Holds(s) /\ entries'[s].start = entries[s].start,
         pc = "alloc" => Owned(cur)
  PROVE  Structure'
BY StructureKept DEF Return, CursorOwned, EntryInUse, CursorUnclaimed

\* Between calls, and in all of them but fs_delete, a slot holds a file as
\* long as the table does not change.
LEMMA HoldsKept ==
  ASSUME UNCHANGED table, pc # "delete"
  PROVE  \A s \in Slot : Holds(s)' => Holds(s) /\ entries'[s].start = entries[s].start
BY DEF table, Holds

\* Nothing heals a broken structure.
LEMMA SoundBefore ==
  ASSUME [Next]_vars, Sound'
  PROVE  Sound
BY DEF Next, Begin, Step, fs_open, fs_write, fs_append, fs_write_at, fs_read, fs_delete,
       fs_rename, Seek, Alloc, Skip, Copy, ReadBlock, Delete, OpenRefused, OpenExisting,
       OpenNew, OpenWild, WriteRefused, WriteBegin, AllocFails, AllocBlock, SkipBlock,
       SkipDone, CopyByte, CopyDone, DeleteBlock, DeleteDone, Crash, Happened, Sound, vars

LEMMA StructureOpen ==
  ASSUME TypeInv, Structure, NEW n \in Name, fs_open(n), Sound', pc' # "crash"
  PROVE  Structure'
<1> USE DEF TypeInv, TypeOK, Structure
<1>1. CASE OpenRefused(n) \/ OpenExisting(n)
  BY <1>1, StructureReturn, HoldsKept DEF fs_open, OpenRefused, OpenExisting, pool
<1>2. CASE OpenNew(n)
  <2> DEFINE h == free_list
             e == next_entry
  <2>1. /\ h \in Block /\ Free(h) /\ ~Owned(h)
        /\ e \in Slot
        /\ next' = [next EXCEPT ![h] = WILD]
        /\ index' = [index EXCEPT ![h] = END]
        /\ free_list' = next[h]
        /\ entries' = [entries EXCEPT ![e] = [name |-> n, start |-> h, size |-> 0]]
        /\ next_entry' = e + 1
        /\ pc = "idle" /\ pc' = "idle"
    BY <1>2 DEF OpenNew, AfterHead, LastMark, Return, fs_open, FreeListDisjoint, Free, Owned,
                TableOK, Slot
  <2>2. \A b \in Block : (Owned(b)' <=> Owned(b) \/ b = h) /\ (Free(b)' <=> Free(b) /\ b # h)
    BY <2>1 DEF Owned, Free, PoolOK
  <2>3. \A s \in Slot : Holds(s)' => s = e \/ Holds(s)
    BY <2>1 DEF Holds, TableOK, Slot
  <2>4. \A s \in Slot : entries'[s].start = IF s = e THEN h ELSE entries[s].start
    BY <2>1 DEF TableOK
  <2>5. \A b \in Block : index'[b] = IF b = h THEN END ELSE index[b]
    BY <2>1 DEF PoolOK
  <2>6. \A b \in Block : Free(b)' => next'[b] = next[b]
    BY <2>1, <2>2 DEF PoolOK
  <2>7. END \notin Block /\ NULL \notin Block /\ WILD \notin Block
    BY DEF END, NULL, WILD, Block
  <2> HIDE DEF h, e
  <2>8. FreeListDisjoint'
    <3>1. next[h] # WILD
      BY <2>1 DEF Free
    <3>2. \A c \in Block : next[h] = c => Free(c) /\ c # h
      BY <2>1 DEF FreeListDisjoint, h
    <3>3. \A c \in Block : free_list' = c => Free(c)'
      BY <2>1, <2>2, <3>2
    <3>4. \A b, c \in Block : Free(b)' /\ next'[b] = c => Free(c)' /\ free_list' # c
      BY <2>1, <2>2, <2>6, <2>7, <3>2 DEF FreeListDisjoint, h
    <3>5. \A b, c \in Block :
            Free(b)' /\ Free(c)' /\ next'[b] = next'[c] /\ next'[b] # NULL => b = c
      BY <2>2, <2>6 DEF FreeListDisjoint
    <3>6. \A b, c \in Block : Owned(b)' /\ index'[b] = c => ~Free(c)'
      BY <2>2, <2>5, <2>7 DEF FreeListDisjoint
    <3>7. \A s \in Slot, b \in Block : Holds(s)' /\ entries'[s].start = b => Owned(b)'
      BY <2>2, <2>3, <2>4 DEF FreeListDisjoint
    <3> QED
      BY <2>1, <3>1, <3>3, <3>4, <3>5, <3>6, <3>7 DEF FreeListDisjoint
  <2>9. FilesDisjoint'
    <3>1. \A b, c \in Block :
            Owned(b)' /\ Owned(c)' /\ index'[b] = index'[c] /\ index'[b] \in Block => b = c
      BY <2>2, <2>5, <2>7 DEF FilesDisjoint
    <3>2. \A s \in Slot : Holds(s) => entries[s].start # h
      BY <2>1 DEF FreeListDisjoint
    <3>3. \A b \in Block : Owned(b) => index[b] # h
      BY <2>1 DEF FreeListDisjoint
    <3>4. \A s, t \in Slot :
            Holds(s)' /\ Holds(t)' /\ entries'[s].start = entries'[t].start => s = t
      BY <2>3, <2>4, <3>2 DEF FilesDisjoint
    <3>5. \A s \in Slot, b \in Block :
            Holds(s)' /\ Owned(b)' => entries'[s].start # index'[b]
      <4> SUFFICES ASSUME NEW s \in Slot, NEW b \in Block, Holds(s)', Owned(b)'
                   PROVE  entries'[s].start # index'[b]
        OBVIOUS
      <4>1. entries'[s].start \in Block
        BY <2>1, <2>4 DEF TableOK, Entry
      <4>2. CASE b = h
        BY <2>5, <2>7, <4>1, <4>2
      <4>3. CASE b # h
        BY <2>2, <2>3, <2>4, <2>5, <3>3, <4>3 DEF FilesDisjoint
      <4> QED
        BY <4>2, <4>3
    <3> QED
      BY <3>1, <3>4, <3>5 DEF FilesDisjoint
  <2>10. ViewsAgree'
    BY <2>1, <2>2, <2>5 DEF ViewsAgree, PoolOK
  <2> QED
    BY <2>1, <2>8, <2>9, <2>10 DEF CursorOwned, EntryInUse, CursorUnclaimed
<1> QED
  BY <1>1, <1>2 DEF fs_open, OpenWild, Crash

LEMMA StructureAllocBlock ==
  ASSUME TypeInv, Structure, pc = "alloc", AllocBlock
  PROVE  Structure'
<1> USE DEF TypeInv, TypeOK, Structure
<1> DEFINE h == free_list
<1>1. /\ h \in Block /\ Free(h) /\ ~Owned(h)
      /\ cur \in Block /\ ~Free(cur) /\ h # cur
      /\ next' = [next EXCEPT ![cur] = WILD, ![h] = IF cnt = 1 THEN WILD ELSE @]
      /\ index' = [index EXCEPT ![cur] = h, ![h] = IF cnt = 1 THEN END ELSE @]
      /\ free_list' = next[h]
      /\ UNCHANGED <<entries, next_entry, ent>>
      /\ IF cnt = 1 THEN pc' = "skip" /\ cur' = entries[ent].start
                    ELSE pc' = "alloc" /\ cur' = h
  BY DEF AllocBlock, AfterHead, LastMark, FreeListDisjoint, Free, Owned, Locals, table
<1>2. \A s \in Slot : (Holds(s)' <=> Holds(s)) /\ entries'[s].start = entries[s].start
  BY <1>1 DEF Holds
<1>3. END \notin Block /\ NULL \notin Block /\ WILD \notin Block
  BY DEF END, NULL, WILD, Block
<1>4. \A b \in Block : Owned(b)' <=> Owned(b) \/ b = cur \/ (b = h /\ cnt = 1)
  BY <1>1 DEF Owned, PoolOK
<1>5. \A b \in Block : Free(b)' <=> Free(b) /\ b # h
  BY <1>1 DEF Free, PoolOK
<1>6. \A b \in Block : Free(b)' => next'[b] = next[b]
  BY <1>1, <1>5 DEF PoolOK
<1>7. \A b \in Block :
        index'[b] = IF b = cur THEN h ELSE IF b = h /\ cnt = 1 THEN END ELSE index[b]
  BY <1>1 DEF PoolOK
<1>8. \A b \in Block : Owned(b)' => \/ b = cur /\ index'[b] = h
                                    \/ b = h /\ index'[b] = END
                                    \/ b # cur /\ Owned(b) /\ index'[b] = index[b]
  BY <1>1, <1>4, <1>7
<1>9. \A b \in Block : Owned(b) => index[b] # h
  BY <1>1 DEF FreeListDisjoint
<1> HIDE DEF h
<1>10. FreeListDisjoint'
  <2>1. next[h] # WILD
    BY <1>1 DEF Free
  <2>2. \A c \in Block : next[h] = c => Free(c) /\ c # h
    BY <1>1 DEF FreeListDisjoint, h
  <2>3. \A c \in Block : free_list' = c => Free(c)'
    BY <1>1, <1>5, <2>2
  <2>4. \A b, c \in Block : Free(b)' /\ next'[b] = c => Free(c)' /\ free_list' # c
    BY <1>1, <1>3, <1>5, <1>6, <2>2 DEF FreeListDisjoint, h
  <2>5. \A b, c \in Block :
          Free(b)' /\ Free(c)' /\ next'[b] = next'[c] /\ next'[b] # NULL => b = c
    BY <1>5, <1>6 DEF FreeListDisjoint
  <2>6. \A b, c \in Block : Owned(b)' /\ index'[b] = c => ~Free(c)'
    BY <1>3, <1>5, <1>8 DEF FreeListDisjoint
  <2>7. \A s \in Slot, b \in Block : Holds(s)' /\ entries'[s].start = b => Owned(b)'
    BY <1>2, <1>4 DEF FreeListDisjoint
  <2> QED
    BY <1>1, <2>1, <2>3, <2>4, <2>5, <2>6, <2>7 DEF FreeListDisjoint
<1>11. FilesDisjoint'
  <2>1. \A b, c \in Block :
          Owned(b)' /\ Owned(c)' /\ index'[b] = index'[c] /\ index'[b] \in Block => b = c
    BY <1>3, <1>8, <1>9 DEF FilesDisjoint
  <2>2. \A s, t \in Slot :
          Holds(s)' /\ Holds(t)' /\ entries'[s].start = entries'[t].start => s = t
    BY <1>2 DEF FilesDisjoint
  <2>3. \A s \in Slot : Holds(s) => entries[s].start \in Block /\ entries[s].start # h
    BY <1>1 DEF FreeListDisjoint, TableOK, Entry
  <2>4. \A s \in Slot, b \in Block :
          Holds(s)' /\ Owned(b)' => entries'[s].start # index'[b]
    BY <1>2, <1>3, <1>8, <2>3 DEF FilesDisjoint
  <2> QED
    BY <2>1, <2>2, <2>4 DEF FilesDisjoint
<1>12. ViewsAgree'
  <2>1. \A b \in Block : Owned(b)' => index'[b] \in Block \cup {END}
    BY <1>1, <1>8 DEF ViewsAgree
  <2>2. \A b \in Block : ~Owned(b)' => index'[b] = AsIndex(next'[b])
    BY <1>1, <1>4, <1>7 DEF ViewsAgree, PoolOK, Owned, AsIndex
  <2> QED
    BY <2>1, <2>2 DEF ViewsAgree
<1>13. Holds(ent) /\ ent \in Slot
  BY DEF EntryInUse, Holds, CallOK
<1>14. pc' = "skip" => Owned(cur)'
  <2> SUFFICES ASSUME pc' = "skip" PROVE Owned(cur)'
    OBVIOUS
  <2>1. cur' = entries[ent].start /\ cur' \in Block
    BY <1>1, <1>13 DEF TableOK, Entry
  <2>2. next[cur'] = WILD
    BY <1>13, <2>1 DEF FreeListDisjoint, Owned
  <2>3. next'[cur'] = WILD
    BY <1>1, <2>1, <2>2 DEF PoolOK
  <2> QED
    BY <2>3 DEF Owned
<1>15. CursorOwned' /\ EntryInUse' /\ CursorUnclaimed'
  BY <1>1, <1>14 DEF CursorOwned, EntryInUse, CursorUnclaimed
<1> QED
  BY <1>10, <1>11, <1>12, <1>15

LEMMA StructureAlloc ==
  ASSUME TypeInv, Structure, Alloc, Sound', pc' # "crash"
  PROVE  Structure'
<1>1. CASE AllocFails
  <2>1. index[cur] = END /\ cur \in Block
    BY <1>1 DEF Alloc, AllocFails, Happened, Sound, TypeInv, Locals
  <2>2. Owned(cur)
    BY <2>1 DEF Structure, ViewsAgree, AsIndex, END, WILD
  <2> QED
    BY <1>1, <2>2, StructureReturn, HoldsKept DEF Alloc, AllocFails, pool
<1>2. CASE AllocBlock
  BY <1>2, StructureAllocBlock DEF Alloc
<1> QED
  BY <1>1, <1>2 DEF Alloc, Crash

LEMMA StructureDeleteBlock ==
  ASSUME TypeInv, Structure, pc = "delete", DeleteBlock, Sound', pc' # "crash"
  PROVE  Structure'
<1> USE DEF TypeInv, TypeOK, Structure
<1> DEFINE h == cur
<1>1. PICK how \in DeleteReads :
        /\ cur' = DeleteNext(how)
        /\ pc' = IF DeleteNext(how) = WILD THEN "crash" ELSE "delete"
        /\ Happened("reread", how = "reread")
  BY DEF DeleteBlock
<1>2. how = "kept"
  BY <1>1 DEF Happened, Sound
<1>3. /\ h \in Block /\ Owned(h) /\ ~Free(h)
      /\ next' = [next EXCEPT ![h] = free_list]
      /\ index' = [index EXCEPT ![h] = AsIndex(free_list)]
      /\ free_list' = h
      /\ UNCHANGED <<entries, next_entry, ent>>
      /\ pc' = "delete" /\ cur' = index[h] /\ index[h] \in Block
  BY <1>1, <1>2 DEF DeleteBlock, DeleteNext, SetNext, CursorOwned, ViewsAgree, Locals, Owned,
                    Free, table
<1>4. /\ \A s \in Slot : Holds(s) => entries[s].start # h
      /\ \A b \in Block : Owned(b) => index[b] # h
  BY DEF CursorUnclaimed
<1> HIDE DEF h
<1>5. \A s \in Slot : (Holds(s)' <=> Holds(s)) /\ entries'[s].start = entries[s].start
  BY <1>3 DEF Holds
<1>6. END \notin Block /\ NULL \notin Block /\ WILD \notin Block
  BY DEF END, NULL, WILD, Block
<1>7. free_list # WILD /\ (\A b \in Block : free_list = b => Free(b))
  BY DEF FreeListDisjoint
<1>8. \A b \in Block : Owned(b)' <=> Owned(b) /\ b # h
  BY <1>3, <1>7 DEF Owned, PoolOK
<1>9. \A b \in Block : Free(b)' <=> Free(b) \/ b = h
  BY <1>3, <1>7 DEF Free, PoolOK
<1>10. \A b \in Block : next'[b] = IF b = h THEN free_list ELSE next[b]
  BY <1>3 DEF PoolOK
<1>11. \A b \in Block : index'[b] = IF b = h THEN AsIndex(free_list) ELSE index[b]
  BY <1>3 DEF PoolOK
<1>12. FreeListDisjoint'
  <2>1. h # WILD /\ (\A b \in Block : free_list' = b => Free(b)')
    BY <1>3, <1>6, <1>9
  <2>2. \A b, c \in Block : Free(b) /\ next[b] = c => Free(c) /\ free_list # c /\ c # h
    BY <1>3 DEF FreeListDisjoint
  <2>3. \A b, c \in Block : Free(b)' /\ next'[b] = c => Free(c)' /\ free_list' # c
    BY <1>3, <1>7, <1>9, <1>10, <2>2
  <2>4. \A b, c \in Block :
          Free(b)' /\ Free(c)' /\ next'[b] = next'[c] /\ next'[b] # NULL => b = c
    <3>1. free_list \in Block \/ free_list = NULL
      BY <1>7 DEF PoolOK
    <3>2. \A b \in Block : Free(b) /\ free_list \in Block => next[b] # free_list
      BY <2>2
    <3> QED
      BY <1>9, <1>10, <3>1, <3>2 DEF FreeListDisjoint
  <2>5. \A b, c \in Block : Owned(b)' /\ index'[b] = c => ~Free(c)'
    BY <1>4, <1>8, <1>9, <1>11 DEF FreeListDisjoint
  <2>6. \A s \in Slot, b \in Block : Holds(s)' /\ entries'[s].start = b => Owned(b)'
    BY <1>4, <1>5, <1>8 DEF FreeListDisjoint
  <2> QED
    BY <1>3, <2>1, <2>3, <2>4, <2>5, <2>6 DEF FreeListDisjoint
<1>13. FilesDisjoint'
  BY <1>5, <1>8, <1>11 DEF FilesDisjoint
<1>14. ViewsAgree'
  BY <1>8, <1>10, <1>11 DEF ViewsAgree
<1>15. Owned(cur)'
  <2>1. Owned(index[h]) /\ index[h] # h
    BY <1>3, <1>4 DEF FreeListDisjoint, Free, Owned
  <2>2. next'[index[h]] = WILD
    BY <1>3, <1>10, <2>1 DEF Owned
  <2> QED
    BY <1>3, <2>2 DEF Owned
<1>16. CursorUnclaimed'
  <2>1. \A b \in Block : Owned(b)' => index'[b] # index[h]
    BY <1>3, <1>8, <1>11 DEF FilesDisjoint
  <2>2. \A s \in Slot : Holds(s)' => entries'[s].start # index[h]
    BY <1>3, <1>5 DEF FilesDisjoint
  <2> QED
    BY <1>3, <2>1, <2>2 DEF CursorUnclaimed
<1>17. CursorOwned' /\ EntryInUse'
  BY <1>3, <1>15 DEF CursorOwned, EntryInUse
<1> QED
  BY <1>12, <1>13, <1>14, <1>16, <1>17

LEMMA StructureDelete ==
  ASSUME TypeInv, Structure, Delete, Sound', pc' # "crash"
  PROVE  Structure'
<1>1. CASE DeleteBlock
  BY <1>1, StructureDeleteBlock DEF Delete
<1>2. CASE DeleteDone
  <2>1. \A s \in Slot : Holds(s)' => Holds(s) /\ entries'[s].start = entries[s].start
    BY <1>2 DEF Delete, DeleteDone, Return, Holds, TypeInv, TypeOK, TableOK
  <2> QED
    BY <1>2, <2>1, StructureReturn DEF Delete, DeleteDone, pool
<1> QED
  BY <1>1, <1>2 DEF Delete

\* A call that gets past find_fd works on a file that is there.
LEMMA DescribedFile ==
  ASSUME TypeInv, DescriptorsLive, Sound, pc = "idle", NEW d \in Fd, find_fd(d) # NULL
  PROVE  /\ find_fd(d) \in Slot
         /\ Holds(find_fd(d))
         /\ entries[find_fd(d)].start \in Block
BY DEF DescriptorsLive, TypeInv, TypeOK, TableOK, find_fd, Entry

LEMMA StructureDeleteBegin ==
  ASSUME TypeInv, Structure, DescriptorsLive, Sound, NEW d \in Fd, fs_delete(d)
  PROVE  Structure'
<1>1. CASE find_fd(d) = NULL
  BY <1>1, StructureReturn, HoldsKept DEF fs_delete, pool
<1>2. CASE find_fd(d) # NULL
  <2>1. /\ pc = "idle" /\ pc' = "delete" /\ ent' = find_fd(d)
        /\ cur' = entries[ent'].start
        /\ UNCHANGED <<next, index, free_list, entries, next_entry>>
    BY <1>2 DEF fs_delete, pool, table
  <2>2. ent' \in Slot /\ Holds(ent') /\ cur' \in Block
    BY <1>2, <2>1, DescribedFile
  <2>3. \A s \in Slot : Holds(s)' => Holds(s) /\ s # ent'
    BY <2>1 DEF Holds
  <2>4. Owned(cur)'
    <3>1. Owned(cur')
      BY <2>1, <2>2 DEF Structure, FreeListDisjoint
    <3> QED
      BY <2>1, <3>1 DEF Owned
  <2>5. \A s \in Slot : Holds(s)' => entries[s].start # cur'
    BY <2>1, <2>2, <2>3 DEF Structure, FilesDisjoint
  <2>6. \A b \in Block : Owned(b)' => index[b] # cur'
    BY <2>1, <2>2 DEF Structure, FilesDisjoint, Owned
  <2>7. CursorUnclaimed'
    BY <2>1, <2>5, <2>6 DEF CursorUnclaimed
  <2>8. CursorOwned' /\ EntryInUse'
    BY <2>1, <2>2, <2>4 DEF CursorOwned, EntryInUse, Holds
  <2> QED
    BY <2>1, <2>3, <2>7, <2>8, StructureKept
<1> QED
  BY <1>1, <1>2

\* A call that starts a walk at the first block of its file.
LEMMA StructureWalkBegin ==
  ASSUME TypeInv, Structure, DescriptorsLive, Sound, NEW d \in Fd, find_fd(d) # NULL,
         pc = "idle", pc' \in {"seek", "skip", "read"},
         ent' = find_fd(d), cur' = entries[find_fd(d)].start,
         UNCHANGED <<pool, table>>
  PROVE  Structure'
<1>1. Holds(ent') /\ ent' \in Slot /\ cur' \in Block
  BY DescribedFile
<1>2. Owned(cur')
  BY <1>1 DEF Structure, FreeListDisjoint
<1>3. Owned(cur)'
  BY <1>2 DEF Owned, pool
<1>4. CursorOwned' /\ EntryInUse' /\ CursorUnclaimed'
  BY <1>1, <1>3 DEF CursorOwned, EntryInUse, CursorUnclaimed, Holds, table
<1> QED
  BY <1>4, StructureKept, HoldsKept DEF pool

LEMMA StructureWriteAt ==
  ASSUME TypeInv, Structure, DescriptorsLive, Sound, NEW d \in Fd, NEW i, NEW b,
         fs_write_at(d, i, b)
  PROVE  Structure'
<1>1. CASE WriteRefused(d, i)
  BY <1>1, StructureReturn, HoldsKept DEF fs_write_at, WriteRefused, pool
<1>2. CASE WriteBegin(d, i, b)
  BY <1>2, StructureWalkBegin DEF fs_write_at, WriteBegin, Writable
<1> QED
  BY <1>1, <1>2 DEF fs_write_at

LEMMA StructureWrite ==
  ASSUME TypeInv, Structure, DescriptorsLive, Sound, NEW d \in Fd, NEW b,
         fs_write(d, b) \/ fs_append(d, b)
  PROVE  Structure'
BY StructureWriteAt DEF fs_write, fs_append, fs_write_at

LEMMA StructureReadBegin ==
  ASSUME TypeInv, Structure, DescriptorsLive, Sound, NEW d \in Fd, fs_read(d)
  PROVE  Structure'
<1>1. CASE find_fd(d) = NULL
  BY <1>1, StructureReturn, HoldsKept DEF fs_read, pool
<1>2. CASE find_fd(d) # NULL
  BY <1>2, StructureWalkBegin DEF fs_read
<1> QED
  BY <1>1, <1>2

LEMMA StructureRename ==
  ASSUME TypeInv, Structure, NEW old \in Name, NEW new \in Name, fs_rename(old, new), Sound'
  PROVE  Structure'
<1>1. \A s \in Slot : Holds(s)' => Holds(s) /\ entries'[s].start = entries[s].start
  <2>1. CASE UNCHANGED entries
    BY <2>1, HoldsKept DEF fs_rename, table
  <2>2. ASSUME NEW s \in First(Named(old)), entries' = [entries EXCEPT ![s].name = new],
               NoName \notin {old, new}
        PROVE  \A t \in Slot : Holds(t)' => Holds(t) /\ entries'[t].start = entries[t].start
    BY <2>2, FoundSlot DEF fs_rename, Return, Holds, TypeInv, TypeOK, TableOK, Entry
  <2> QED
    BY <2>1, <2>2 DEF fs_rename, Sound
<1> QED
  BY <1>1, StructureReturn DEF fs_rename, pool

LEMMA StructureSeek ==
  ASSUME TypeInv, Structure, Seek, pc' # "crash"
  PROVE  Structure'
<1>1. /\ pc = "seek" /\ pc' \in {"seek", "alloc"}
      /\ UNCHANGED <<next, index, free_list, entries, next_entry, ent>>
      /\ cur' = cur \/ (pc' = "seek" /\ cur' = index[cur] /\ cur' \in Block)
  BY DEF Seek, Crash, pool, table
<1>2. cur \in Block /\ Owned(cur)
  BY <1>1 DEF TypeInv, Locals, Structure, CursorOwned
<1>3. Owned(cur')
  BY <1>1, <1>2 DEF Structure, FreeListDisjoint, Free, Owned
<1>4. Owned(cur)'
  BY <1>1, <1>3 DEF Owned
<1>5. CursorOwned' /\ EntryInUse' /\ CursorUnclaimed'
  BY <1>1, <1>4 DEF CursorOwned, EntryInUse, CursorUnclaimed, Structure
<1> QED
  BY <1>1, <1>4, <1>5, StructureKept, HoldsKept DEF table

LEMMA StructureSkip ==
  ASSUME TypeInv, Structure, Skip, pc' # "crash"
  PROVE  Structure'
<1>1. /\ pc = "skip" /\ pc' \in {"skip", "copy"}
      /\ UNCHANGED <<next, index, free_list, next_entry, ent>>
      /\ cur' = cur \/ (cur \in Block /\ cur' = index[cur]) \/ cur' \notin Block
      /\ \A s \in Slot : /\ entries'[s].name = entries[s].name
                         /\ entries'[s].start = entries[s].start
  <2>1. CASE SkipBlock
    BY <2>1 DEF Skip, SkipBlock, pool, table, Block, WILD
  <2>2. CASE SkipDone
    BY <2>2 DEF Skip, SkipDone, pool, TypeInv, TypeOK, TableOK, Entry
  <2> QED
    BY <2>1, <2>2 DEF Skip, Crash
<1>2. cur \in Block => Owned(cur)
  BY <1>1 DEF Structure, CursorOwned
<1>3. cur' \in Block => Owned(cur')
  BY <1>1, <1>2 DEF Structure, FreeListDisjoint, Free, Owned
<1>4. cur' \in Block => Owned(cur)'
  BY <1>1, <1>3 DEF Owned
<1>5. ent \in Slot
  BY DEF TypeInv, TypeOK, CallOK
<1>6. CursorOwned' /\ EntryInUse' /\ CursorUnclaimed'
  BY <1>1, <1>4, <1>5 DEF CursorOwned, EntryInUse, CursorUnclaimed, Structure
<1>7. \A s \in Slot : Holds(s)' => Holds(s)
  BY <1>1 DEF Holds
<1> QED
  BY <1>1, <1>6, <1>7, StructureKept

\* Copying a byte writes to a page of a file, so no page changes hands.
LEMMA StructureCopy ==
  ASSUME TypeInv, Structure, Copy, pc' # "crash"
  PROVE  Structure'
<1>1. CASE CopyDone
  BY <1>1, StructureReturn, HoldsKept DEF Copy, CopyDone, pool
<1>2. CASE CopyByte
  <2>1. pc = "copy" /\ pc' = "copy" /\ Target \in Block /\ cur' = Target
    BY <1>2 DEF Copy, CopyByte
  <2>2. cur \in Block => Owned(cur)
    BY <2>1 DEF Structure, CursorOwned
  <2>3. Owned(Target)
    <3>1. Target = cur \/ (cur \in Block /\ Target = index[cur])
      BY <2>1 DEF Target, Block, WILD
    <3> QED
      BY <2>1, <2>2, <3>1 DEF Structure, FreeListDisjoint, Free, Owned
  <2>4. next' = next
    BY <1>2, <2>1, <2>3 DEF CopyByte, Owned, TypeInv, TypeOK, PoolOK
  <2>5. UNCHANGED <<index, free_list, table, ent>>
    BY <1>2 DEF CopyByte
  <2>6. Owned(cur)'
    BY <2>1, <2>3, <2>4 DEF Owned
  <2>7. CursorOwned' /\ EntryInUse' /\ CursorUnclaimed'
    BY <2>1, <2>5, <2>6 DEF CursorOwned, EntryInUse, CursorUnclaimed, Structure, table
  <2> QED
    BY <2>1, <2>4, <2>5, <2>7, StructureKept, HoldsKept
<1> QED
  BY <1>1, <1>2 DEF Copy, Crash

LEMMA StructureReadBlock ==
  ASSUME TypeInv, Structure, ReadBlock, pc' # "crash"
  PROVE  Structure'
<1>1. CASE index[cur] = END
  BY <1>1, StructureReturn, HoldsKept DEF ReadBlock, pool
<1>2. CASE index[cur] # END
  <2>1. /\ pc = "read" /\ pc' = "read" /\ cur' = index[cur]
        /\ UNCHANGED <<next, index, free_list, table, ent>>
    BY <1>2 DEF ReadBlock, pool
  <2>2. cur \in Block /\ Owned(cur)
    BY <2>1 DEF TypeInv, Locals, Structure, CursorOwned
  <2>3. cur' \in Block
    BY <1>2, <2>1, <2>2 DEF Structure, ViewsAgree
  <2>4. Owned(cur')
    BY <2>1, <2>2, <2>3 DEF Structure, FreeListDisjoint, Free, Owned
  <2>5. Owned(cur)'
    BY <2>1, <2>4 DEF Owned
  <2>6. CursorOwned' /\ EntryInUse' /\ CursorUnclaimed'
    BY <2>1, <2>5 DEF CursorOwned, EntryInUse, CursorUnclaimed, Structure, table
  <2> QED
    BY <2>1, <2>6, StructureKept, HoldsKept
<1> QED
  BY <1>1, <1>2

LEMMA StructureStep ==
  ASSUME TypeInv, IInv, Next, Sound', pc' # "crash"
  PROVE  Structure'
<1>1. Sound
  BY SoundBefore
<1>2. pc # "crash"
  BY DEF Next, Begin, Step, fs_open, fs_write, fs_append, fs_write_at, fs_read, fs_delete,
         fs_rename, Seek, Alloc, Skip, Copy, ReadBlock, Delete
<1>3. Structure /\ DescriptorsLive
  BY <1>1, <1>2 DEF IInv
<1>4. CASE Begin
  BY <1>1, <1>3, <1>4, StructureOpen, StructureWriteAt, StructureWrite, StructureReadBegin,
     StructureDeleteBegin, StructureRename DEF Begin
<1>5. CASE Step
  BY <1>3, <1>5, StructureSeek, StructureAlloc, StructureSkip, StructureCopy,
     StructureReadBlock, StructureDelete DEF Step
<1> QED
  BY <1>4, <1>5 DEF Next

-----------------------------------------------------------------------------
(* Every descriptor refers to a file.                                      *)

\* A step that leaves the descriptors alone, and every file where it is.
LEMMA DescriptorsKept ==
  ASSUME TypeInv, DescriptorsLive, Sound, UNCHANGED fd_list,
         \A s \in Slot : Holds(s) \/ (pc = "delete" /\ s = ent) =>
                Holds(s)' \/ (pc' = "delete" /\ s = ent')
  PROVE  DescriptorsLive'
<1>1. \A d \in Fd : fd_list[d] # NULL => fd_list[d] \in Slot
  BY DEF TypeInv, TypeOK, TableOK
<1> SUFFICES ASSUME NEW d \in Fd, fd_list[d] # NULL
             PROVE  \/ fd_list[d] < next_entry' /\ entries'[fd_list[d]].name # NoName
                    \/ pc' = "delete" /\ fd_list[d] = ent'
  BY DEF DescriptorsLive, find_fd, Holds
<1>2. Holds(fd_list[d]) \/ (pc = "delete" /\ fd_list[d] = ent)
  BY DEF DescriptorsLive, find_fd
<1>3. PICK s \in Slot : fd_list[d] = s
  BY <1>1
<1>4. Holds(s)' \/ (pc' = "delete" /\ s = ent')
  BY <1>2, <1>3
<1> QED
  BY <1>3, <1>4 DEF Holds

LEMMA DescriptorsOpen ==
  ASSUME TypeInv, DescriptorsLive, Sound, NEW n \in Name, fs_open(n), Sound'
  PROVE  DescriptorsLive'
<1> USE DEF TypeInv, TypeOK
<1>1. CASE OpenRefused(n) \/ OpenWild(n)
  BY <1>1, DescriptorsKept DEF fs_open, OpenRefused, OpenWild, Return, Crash, Holds, table, fds
<1>2. CASE OpenExisting(n)
  <2>1. PICK s \in First(Named(n)) : fd_list' = [fd_list EXCEPT ![next_fd] = s]
    BY <1>2 DEF OpenExisting, create_fd
  <2>2. n # NoName
    BY <1>2 DEF OpenExisting, Happened, Sound
  <2>3. s < next_entry /\ entries[s].name = n
    BY FoundSlot
  <2>4. pc = "idle" /\ pc' = "idle" /\ UNCHANGED table
    BY <1>2 DEF fs_open, OpenExisting, Return
  <2>5. Holds(s)'
    BY <2>2, <2>3, <2>4 DEF Holds, table
  <2>6. \A t : Holds(t) => Holds(t)'
    BY <2>4 DEF Holds, table
  <2> QED
    BY <2>1, <2>4, <2>5, <2>6 DEF DescriptorsLive, find_fd, TableOK
<1>3. CASE OpenNew(n)
  <2> DEFINE e == next_entry
  <2>1. n # NoName
    BY <1>3 DEF OpenNew, Happened, Sound
  <2>2. /\ fd_list' = [fd_list EXCEPT ![next_fd] = e]
        /\ entries' = [entries EXCEPT ![e] = [name |-> n, start |-> free_list, size |-> 0]]
        /\ e \in Slot /\ next_entry' = e + 1
        /\ pc = "idle" /\ pc' = "idle"
    BY <1>3 DEF fs_open, OpenNew, create_fd, Return, TableOK, Slot
  <2>3. \A s \in Slot : entries'[s].name = IF s = e THEN n ELSE entries[s].name
    BY <2>2 DEF TableOK
  <2>4. e < next_entry' /\ e \in Int
    BY <2>2 DEF TableOK
  <2>5. \A s \in Slot : s < next_entry => s < next_entry' /\ s # e
    BY <2>2 DEF TableOK, Slot
  <2>6. \A s \in Slot : s = e \/ Holds(s) => Holds(s)'
    BY <2>1, <2>2, <2>3, <2>4, <2>5 DEF Holds
  <2> HIDE DEF e
  <2>7. \A d \in Fd : fd_list[d] # NULL => fd_list[d] \in Slot /\ Holds(fd_list[d])
    BY <2>2 DEF DescriptorsLive, find_fd, TableOK
  <2>8. \A d \in Fd : fd_list'[d] = e \/ fd_list'[d] = fd_list[d]
    BY <2>2 DEF TableOK
  <2>9. \A d \in Fd, s \in Slot : fd_list'[d] = s => Holds(s)'
    BY <2>2, <2>6, <2>7, <2>8 DEF Slot, NULL
  <2>10. \A d \in Fd : fd_list'[d] # NULL => fd_list'[d] \in Slot
    BY <2>2, <2>7, <2>8
  <2> SUFFICES ASSUME NEW d \in Fd, fd_list'[d] # NULL
               PROVE  /\ fd_list'[d] < next_entry'
                      /\ entries'[fd_list'[d]].name # NoName
    BY <2>2 DEF DescriptorsLive, find_fd, Holds
  <2>11. PICK s \in Slot : fd_list'[d] = s
    BY <2>10
  <2>12. Holds(s)'
    BY <2>9, <2>11
  <2> QED
    BY <2>11, <2>12 DEF Holds
<1> QED
  BY <1>1, <1>2, <1>3 DEF fs_open

LEMMA DescriptorsDelete ==
  ASSUME TypeInv, IInv, Sound, Delete, Sound'
  PROVE  DescriptorsLive'
<1> USE DEF TypeInv, TypeOK
<1>1. CASE DeleteBlock
  <2>1. PICK how \in DeleteReads :
          pc' = IF DeleteNext(how) = WILD THEN "crash" ELSE "delete"
    BY <1>1 DEF DeleteBlock
  <2>2. ent < next_entry /\ entries[ent].name # NoName
    BY DEF Delete, IInv, Structure, EntryInUse
  <2>3. \A s \in Slot : Holds(s) \/ s = ent => Holds(s)' \/ (pc' = "delete" /\ s = ent')
    BY <1>1, <2>1, <2>2 DEF DeleteBlock, Holds, table
  <2> QED
    BY <1>1, <2>3, DescriptorsKept DEF Delete, DeleteBlock, IInv, fds
<1>2. CASE DeleteDone
  <2>1. /\ pc = "delete" /\ pc' = "idle"
        /\ fd_list' = [fd_list EXCEPT ![fd] = NULL]
        /\ entries' = [entries EXCEPT ![ent] = [name |-> NoName, start |-> 0, size |-> 0]]
        /\ next_entry' = next_entry
        /\ \A d \in Fd \ {fd} : fd_list[d] # ent
    BY <1>2 DEF Delete, DeleteDone, Return, remove_fd, Happened, Sound
  <2>2. \A d \in Fd : fd_list'[d] = IF d = fd THEN NULL ELSE fd_list[d]
    BY <2>1 DEF TableOK
  <2>3. \A s \in Slot : Holds(s) => Holds(s)'
    BY <2>1 DEF Holds, TableOK
  <2>4. \A d \in Fd : fd_list'[d] # NULL =>
          fd_list'[d] = fd_list[d] /\ fd_list[d] \in Slot /\ Holds(fd_list[d])
    BY <2>1, <2>2 DEF IInv, DescriptorsLive, find_fd, TableOK
  <2> SUFFICES ASSUME NEW d \in Fd, fd_list'[d] # NULL
               PROVE  /\ fd_list'[d] < next_entry'
                      /\ entries'[fd_list'[d]].name # NoName
    BY <2>1 DEF DescriptorsLive, find_fd, Holds
  <2>5. PICK s \in Slot : fd_list'[d] = s /\ Holds(s)
    BY <2>4
  <2>6. Holds(s)'
    BY <2>3, <2>5
  <2> QED
    BY <2>5, <2>6 DEF Holds
<1> QED
  BY <1>1, <1>2 DEF Delete

LEMMA DescriptorsRename ==
  ASSUME TypeInv, DescriptorsLive, Sound,
         NEW old \in Name, NEW new \in Name, fs_rename(old, new), Sound'
  PROVE  DescriptorsLive'
<1>1. \A s \in Slot : Holds(s) => Holds(s)'
  <2>1. CASE UNCHANGED entries
    BY <2>1 DEF fs_rename, Return, Holds
  <2>2. ASSUME NEW s \in First(Named(old)), entries' = [entries EXCEPT ![s].name = new],
               NoName \notin {old, new}
        PROVE  \A t \in Slot : Holds(t) => Holds(t)'
    <3>1. s \in Slot /\ pc' = "idle" /\ next_entry' = next_entry
      BY FoundSlot DEF TypeInv, fs_rename, Return
    <3>2. \A t \in Slot : entries[t].name # NoName => entries'[t].name # NoName
      BY <2>2, <3>1 DEF TypeInv, TypeOK, TableOK, Entry
    <3> QED
      BY <3>1, <3>2 DEF Holds
  <2> QED
    BY <2>1, <2>2 DEF fs_rename, Sound
<1> QED
  BY <1>1, DescriptorsKept DEF fs_rename, Return, fds

\* No other step changes a name or a descriptor.
LEMMA DescriptorsQuiet ==
  ASSUME TypeInv, DescriptorsLive, Sound, pc # "delete", UNCHANGED <<fd_list, next_entry>>,
         \A s \in Slot : entries'[s].name = entries[s].name
  PROVE  DescriptorsLive'
<1>1. \A s \in Slot : Holds(s) => Holds(s)' \/ (pc' = "delete" /\ s = ent')
  BY DEF Holds
<1> QED
  BY <1>1, DescriptorsKept

LEMMA DescriptorsStep ==
  ASSUME TypeInv, IInv, Next, Sound'
  PROVE  DescriptorsLive'
<1>1. Sound
  BY SoundBefore
<1>2. DescriptorsLive
  BY DEF IInv
<1>3. CASE \E n \in Name : fs_open(n)
  BY <1>1, <1>2, <1>3, DescriptorsOpen
<1>4. CASE \E old, new \in Name : fs_rename(old, new)
  BY <1>1, <1>2, <1>4, DescriptorsRename
<1>5. CASE Delete
  BY <1>1, <1>5, DescriptorsDelete
<1>6. CASE \E d \in Fd, b \in Buffer :
              \/ \E i \in 0 .. MaxLen : fs_write_at(d, i, b)
              \/ fs_write(d, b) \/ fs_append(d, b)
  BY <1>1, <1>2, <1>6, DescriptorsQuiet
     DEF fs_write, fs_append, fs_write_at, WriteRefused, WriteBegin, table, fds
<1>7. CASE \E d \in Fd : fs_read(d) \/ fs_delete(d)
  BY <1>1, <1>2, <1>7, DescriptorsQuiet DEF fs_read, fs_delete, table, fds
<1>8. CASE Seek \/ Alloc \/ Copy \/ ReadBlock
  BY <1>1, <1>2, <1>8, DescriptorsQuiet
     DEF Seek, Alloc, AllocFails, AllocBlock, Copy, CopyByte, CopyDone, ReadBlock, Crash,
         table, fds
<1>9. CASE Skip
  <2>1. \A s \in Slot : entries'[s].name = entries[s].name
    <3>1. CASE SkipDone
      BY <3>1 DEF SkipDone, TypeInv, TypeOK, TableOK, Entry
    <3>2. CASE UNCHANGED table
      BY <3>2 DEF table
    <3> QED
      BY <1>9, <3>1, <3>2 DEF Skip, SkipBlock, Crash
  <2> QED
    BY <1>1, <1>2, <1>9, <2>1, DescriptorsQuiet
       DEF Skip, SkipBlock, SkipDone, Crash, table, fds
<1> QED
  BY <1>3, <1>4, <1>5, <1>6, <1>7, <1>8, <1>9 DEF Next, Begin, Step

-----------------------------------------------------------------------------
LEMMA InvStep == TypeInv /\ IInv /\ [Next]_vars => IInv'
<1>1. CASE Next
  <2> SUFFICES ASSUME TypeInv, IInv, Next PROVE IInv'
    BY <1>1
  <2>1. Sound' => DescriptorsLive'
    BY DescriptorsStep
  <2>2. ~Sound' => DescriptorsLive'
    BY DEF DescriptorsLive
  <2>3. Sound' /\ pc' # "crash" => Structure'
    BY StructureStep
  <2> QED
    BY <2>1, <2>2, <2>3 DEF IInv
<1>2. CASE UNCHANGED vars
  BY <1>2 DEF IInv, Sound, Structure, FreeListDisjoint, FilesDisjoint, ViewsAgree,
              CursorOwned, EntryInUse, CursorUnclaimed, DescriptorsLive, Owned, Free,
              Holds, find_fd, vars, pool, table, fds
<1> QED
  BY <1>1, <1>2

\* The invariant above, with the types it needs.
THEOREM Inductive == Spec => [](TypeInv /\ IInv)
<1>1. Init => TypeInv /\ IInv
  BY TypeInit, InvInit
<1>2. TypeInv /\ IInv /\ [Next]_vars => TypeInv' /\ IInv'
  BY TypeStep, InvStep
<1> QED
  BY <1>1, <1>2, PTL DEF Spec

\* As long as no event of harm happens, no page is both free and in a file,
\* in two files, or twice in one: whatever calls are made, in any order, with
\* any number of pages, files and descriptors.
THEOREM NoPageShared == Spec => []NoSharing
<1>1. IInv => NoSharing
  BY DEF IInv, Structure, NoSharing
<1> QED
  BY <1>1, Inductive, PTL

\* As long as no event of harm happens, a descriptor never outlives its file.
THEOREM NoStaleDescriptor == Spec => []DescriptorsLive
<1>1. IInv => DescriptorsLive
  BY DEF IInv
<1> QED
  BY <1>1, Inductive, PTL
-----------------------------------------------------------------------------
(* A name has one file.  The slot that fs_delete works on counts as long as *)
(* it is there: so no step but those that write a name has to be looked at. *)

Used(s) == s < next_entry /\ entries[s].name # NoName

NamesInv ==
  harm = {} => \A s, t \in Slot :
    Used(s) /\ Used(t) /\ entries[s].name = entries[t].name => s = t

\* Nothing that has happened is forgotten.
LEMMA HarmStays ==
  ASSUME [Next]_vars, harm' = {}
  PROVE  harm = {}
BY DEF Next, Begin, Step, fs_open, fs_write, fs_append, fs_write_at, fs_read, fs_delete,
       fs_rename, Seek, Alloc, Skip, Copy, ReadBlock, Delete, OpenRefused, OpenExisting,
       OpenNew, OpenWild, WriteRefused, WriteBegin, AllocFails, AllocBlock, SkipBlock,
       SkipDone, CopyByte, CopyDone, DeleteBlock, DeleteDone, Crash, Happened, vars

LEMMA NamesKept ==
  ASSUME NamesInv, harm = {}, next_entry' = next_entry,
         \A s \in Slot : entries'[s].name \in {entries[s].name, NoName}
  PROVE  NamesInv'
BY DEF NamesInv, Used

LEMMA NamesTable ==
  ASSUME NamesInv, harm = {}, UNCHANGED table
  PROVE  NamesInv'
BY DEF NamesInv, Used, table

LEMMA NamesOpen ==
  ASSUME TypeInv, NamesInv, harm = {}, NEW n \in Name, fs_open(n)
  PROVE  NamesInv'
<1>1. CASE OpenRefused(n) \/ OpenExisting(n) \/ OpenWild(n)
  BY <1>1, NamesTable DEF OpenRefused, OpenExisting, OpenWild, Crash
<1>2. CASE OpenNew(n)
  <2>1. next_entry \in Slot /\ next_entry' = next_entry + 1
    BY <1>2 DEF OpenNew, Slot, TypeInv, TypeOK, TableOK
  <2>2. \A s \in Slot : s < next_entry => entries[s].name # n
    <3>1. Named(n) = {}
      BY <1>2 DEF OpenNew
    <3> SUFFICES ASSUME NEW s \in Slot, s < next_entry, entries[s].name = n PROVE FALSE
      OBVIOUS
    <3>2. s \in 0 .. next_entry - 1
      BY <2>1 DEF Slot
    <3> QED
      BY <3>1, <3>2 DEF Named
  <2>3. \A s \in Slot : entries'[s].name = IF s = next_entry THEN n ELSE entries[s].name
    BY <1>2, <2>1 DEF OpenNew, TypeInv, TypeOK, TableOK
  <2>4. \A s \in Slot : Used(s)' => Used(s) \/ s = next_entry
    BY <2>1, <2>3 DEF Used, Slot
  <2> QED
    BY <2>1, <2>2, <2>3, <2>4 DEF NamesInv, Used
<1> QED
  BY <1>1, <1>2 DEF fs_open

LEMMA NamesRename ==
  ASSUME TypeInv, NamesInv, harm' = {}, harm = {}, NEW old \in Name, NEW new \in Name,
         fs_rename(old, new)
  PROVE  NamesInv'
<1>1. CASE UNCHANGED entries
  BY <1>1, NamesTable DEF fs_rename, table
<1>2. ASSUME NEW k \in First(Named(old)), entries' = [entries EXCEPT ![k].name = new],
             harm' = harm \cup (IF NoName \in {old, new} THEN {"nameless"} ELSE {})
                          \cup (IF new # old /\ Named(new) # {} THEN {"shadowed"} ELSE {})
      PROVE  NamesInv'
  <2>1. k \in Slot /\ entries[k].name = old
    BY FoundSlot DEF TypeInv
  <2>2. new = old \/ Named(new) = {}
    BY <1>2
  <2>3. next_entry' = next_entry
    BY DEF fs_rename
  <2>4. \A s \in Slot : entries'[s].name = IF s = k THEN new ELSE entries[s].name
    BY <1>2, <2>1 DEF TypeInv, TypeOK, TableOK
  <2>5. CASE new = old
    <3>1. \A s \in Slot : entries'[s].name = entries[s].name
      BY <2>1, <2>4, <2>5
    <3> QED
      BY <2>3, <3>1, NamesKept
  <2>6. CASE Named(new) = {}
    <3>1. \A s \in Slot : s < next_entry => entries[s].name # new
      BY <2>6 DEF Named, Slot, TypeInv, TypeOK, TableOK
    <3>2. \A s \in Slot : Used(s)' => s = k \/ Used(s)
      BY <2>3, <2>4 DEF Used
    <3> QED
      BY <2>3, <2>4, <3>1, <3>2 DEF NamesInv, Used
  <2> QED
    BY <2>2, <2>5, <2>6
<1> QED
  BY <1>1, <1>2 DEF fs_rename

LEMMA NamesDelete ==
  ASSUME TypeInv, NamesInv, harm = {}, Delete
  PROVE  NamesInv'
<1>1. CASE DeleteBlock
  BY <1>1, NamesTable DEF DeleteBlock
<1>2. CASE DeleteDone
  <2>1. \A s \in Slot : entries'[s].name \in {entries[s].name, NoName}
    BY <1>2 DEF DeleteDone, TypeInv, TypeOK, TableOK, CallOK
  <2> QED
    BY <1>2, <2>1, NamesKept DEF DeleteDone
<1> QED
  BY <1>1, <1>2 DEF Delete

LEMMA NamesSkip ==
  ASSUME TypeInv, NamesInv, harm = {}, Skip
  PROVE  NamesInv'
<1>1. CASE SkipDone
  <2>1. \A s \in Slot : entries'[s].name = entries[s].name
    BY <1>1 DEF SkipDone, TypeInv, TypeOK, TableOK, CallOK, Entry
  <2> QED
    BY <1>1, <2>1, NamesKept DEF SkipDone
<1>2. CASE ~SkipDone
  BY <1>2, NamesTable DEF Skip, SkipBlock, Crash
<1> QED
  BY <1>1, <1>2

LEMMA NamesStep ==
  TypeInv /\ NamesInv /\ [Next]_vars => NamesInv'
<1> SUFFICES ASSUME TypeInv, NamesInv, [Next]_vars, harm' = {} PROVE NamesInv'
  BY DEF NamesInv
<1>1. harm = {}
  BY HarmStays
<1>2. CASE UNCHANGED vars
  BY <1>1, <1>2, NamesTable DEF vars
<1>3. ASSUME NEW n \in Name, fs_open(n) PROVE NamesInv'
  BY <1>1, <1>3, NamesOpen
<1>4. ASSUME NEW old \in Name, NEW new \in Name, fs_rename(old, new) PROVE NamesInv'
  BY <1>1, <1>4, NamesRename
<1>5. ASSUME NEW d \in Fd, NEW b, NEW i, fs_write_at(d, i, b) \/ fs_append(d, b) PROVE NamesInv'
  BY <1>1, <1>5, NamesTable DEF fs_write_at, fs_append, WriteRefused, WriteBegin
<1>6. ASSUME NEW d \in Fd, fs_read(d) \/ fs_delete(d) PROVE NamesInv'
  BY <1>1, <1>6, NamesTable DEF fs_read, fs_delete
<1>7. CASE Begin
  BY <1>3, <1>4, <1>5, <1>6, <1>7 DEF Begin, fs_write
<1>8. CASE Seek \/ Alloc \/ Copy \/ ReadBlock
  BY <1>1, <1>8, NamesTable DEF Seek, Alloc, AllocFails, AllocBlock, Copy, CopyByte,
                               CopyDone, ReadBlock, Crash
<1>9. CASE Skip \/ Delete
  BY <1>1, <1>9, NamesSkip, NamesDelete
<1> QED
  BY <1>2, <1>7, <1>8, <1>9 DEF Next, Step

\* Until a file is renamed to another one's name, or the mark of deleted
\* entries is used as a name, fs_open, fs_write_at, fs_delete and fs_rename
\* never leave two files of one name, for any table and set of names.
THEOREM OneFilePerName == Spec => []NamesUnique
<1>1. Init => NamesInv
  BY DEF Init, NamesInv, Used, Slot
<1>2. NamesInv => NamesUnique
  BY DEF NamesInv, NamesUnique, Used, Holds
<1> QED
  BY <1>1, <1>2, TypeInit, TypeStep, NamesStep, PTL DEF Spec
-----------------------------------------------------------------------------
(* How many blocks a number of bytes takes.                                *)

LEMMA FewerBlocks ==
  ASSUME NEW x \in Int, NEW y \in Int, DataSize * x < DataSize * y
  PROVE  x < y
<1>1. SUFFICES ASSUME x >= y PROVE FALSE
  OBVIOUS
<1>2. CASE x = y
  BY <1>2
<1>3. CASE x # y
  <2>1. x - y \in Int /\ x - y >= 1
    BY <1>1, <1>3
  <2>2. DataSize * (x - y) >= DataSize /\ DataSize * (x - y) = DataSize * x - DataSize * y
    BY <2>1, Times, TimesMinus
  <2>3. DataSize * x \in Int /\ DataSize * y \in Int
    OBVIOUS
  <2> QED BY <2>2, <2>3
<1> QED BY <1>2, <1>3

LEMMA BlocksRange ==
  ASSUME NEW n \in Nat
  PROVE  /\ BlocksFor(n) \in Nat
         /\ DataSize * BlocksFor(n) \in Int
         /\ n <= DataSize * BlocksFor(n) /\ DataSize * BlocksFor(n) < n + DataSize
         /\ DataSize * (BlocksFor(n) + 1) = DataSize * BlocksFor(n) + DataSize
<1> DEFINE q == BlocksFor(n)
           r == (n + DataSize - 1) % DataSize
<1>1. q \in Int /\ r \in 0 .. DataSize - 1 /\ n + DataSize - 1 = DataSize * q + r
  <2>1. n + DataSize - 1 \in Int
    OBVIOUS
  <2> QED BY <2>1, DivMod DEF BlocksFor
<1> HIDE DEF q, r
<1>2. DataSize * q \in Int
  BY <1>1
<1>3. n <= DataSize * q /\ DataSize * q < n + DataSize
  BY <1>1, <1>2
<1>4. DataSize * (q + 1) = DataSize * q + DataSize
  BY <1>1, TimesPlus
<1>5. q \in Nat
  <2>1. DataSize * (-1) = -DataSize
    OBVIOUS
  <2>2. DataSize * (-1) < DataSize * q
    BY <1>2, <1>3, <2>1
  <2>3. -1 < q
    BY <1>1, <2>2, FewerBlocks
  <2> QED BY <1>1, <2>3
<1> QED BY <1>2, <1>3, <1>4, <1>5 DEF q

LEMMA MoreBlocks ==
  ASSUME NEW m \in Nat, NEW n \in Nat, m <= n
  PROVE  BlocksFor(m) <= BlocksFor(n)
<1> DEFINE x == BlocksFor(m)
           y == BlocksFor(n)
<1>1. x \in Nat /\ y \in Nat /\ DataSize * x \in Int /\ DataSize * y \in Int
      /\ DataSize * x < m + DataSize /\ n <= DataSize * y
      /\ DataSize * (y + 1) = DataSize * y + DataSize
  BY BlocksRange
<1> HIDE DEF x, y
<1>2. y + 1 \in Int /\ DataSize * x < DataSize * (y + 1)
  BY <1>1
<1>3. x < y + 1
  BY <1>1, <1>2, FewerBlocks
<1> QED BY <1>1, <1>3 DEF x, y

\* The block that byte p lies in, or begins.
LEMMA BlockOf ==
  ASSUME NEW p \in Nat, NEW n \in Nat, p <= n
  PROVE  /\ p \div DataSize \in Nat /\ p \div DataSize <= BlocksFor(n)
         /\ p < n => p \div DataSize < BlocksFor(n)
         /\ p = (p \div DataSize) * DataSize + (p % DataSize)
<1> DEFINE q == p \div DataSize
           r == p % DataSize
           y == BlocksFor(n)
<1>1. q \in Nat /\ r \in 0 .. DataSize - 1 /\ p = DataSize * q + r
  <2>1. p \in Int /\ q \in Nat /\ r \in 0 .. DataSize - 1
    BY DivNat
  <2> QED BY <2>1, DivMod
<1>2. y \in Nat /\ DataSize * y \in Int /\ n <= DataSize * y
      /\ DataSize * (y + 1) = DataSize * y + DataSize
  BY BlocksRange
<1> HIDE DEF q, r, y
<1>3. DataSize * q \in Int /\ q * DataSize = DataSize * q
  BY <1>1
<1>4. q < y + 1
  <2>1. y + 1 \in Int /\ DataSize * q < DataSize * (y + 1)
    BY <1>1, <1>2, <1>3
  <2> QED BY <1>1, <2>1, FewerBlocks
<1>5. p < n => q < y
  <2>1. SUFFICES ASSUME p < n PROVE q < y
    OBVIOUS
  <2>2. DataSize * q < DataSize * y
    BY <1>1, <1>2, <1>3, <2>1
  <2> QED BY <1>1, <1>2, <2>2, FewerBlocks
<1> QED BY <1>1, <1>2, <1>3, <1>4, <1>5 DEF q, r, y

LEMMA NumBlocksRange ==
  ASSUME NEW n \in Nat
  PROVE  /\ NumBlocksOf(n) \in Nat \ {0} /\ BlocksFor(n) \in Nat
         /\ NumBlocksOf(n) = IF BlocksFor(n) > 1 THEN BlocksFor(n) ELSE 1
         /\ NumBlocksOf(n) >= BlocksFor(n)
<1>1. PICK y \in Nat : y = BlocksFor(n)
  BY BlocksRange
<1>2. NumBlocksOf(n) = IF y > 1 THEN y ELSE 1
  BY <1>1 DEF NumBlocksOf, AtLeastOne
<1> QED BY <1>1, <1>2

LEMMA NoBytes == NumBlocksOf(0) = 1
<1> DEFINE y == BlocksFor(0)
<1>1. y \in Nat /\ DataSize * y \in Int /\ DataSize * y < 0 + DataSize
  BY BlocksRange
<1> HIDE DEF y
<1>2. DataSize * 1 = DataSize
  OBVIOUS
<1>3. y < 1
  BY <1>1, <1>2, FewerBlocks
<1> QED BY <1>1, <1>3, NumBlocksRange DEF y

\* The size grows, and with it the number of blocks.
LEMMA NumLarger ==
  ASSUME NEW m \in Nat, NEW n \in Nat
  PROVE  NumBlocksOf(Larger(m, n)) = Larger(NumBlocksOf(n), BlocksFor(m))
<1>1. CASE m > n
  <2>1. BlocksFor(n) <= BlocksFor(m)
    BY <1>1, MoreBlocks
  <2>2. Larger(m, n) = m
    BY <1>1 DEF Larger
  <2> QED BY <2>1, <2>2, NumBlocksRange DEF Larger
<1>2. CASE ~(m > n)
  <2>1. BlocksFor(m) <= BlocksFor(n)
    BY <1>2, MoreBlocks
  <2>2. Larger(m, n) = n
    BY <1>2 DEF Larger
  <2>3. NumBlocksOf(n) \in Nat /\ BlocksFor(m) \in Nat /\ ~(BlocksFor(m) > NumBlocksOf(n))
    BY <2>1, NumBlocksRange
  <2>4. Larger(NumBlocksOf(n), BlocksFor(m)) = NumBlocksOf(n)
    BY <2>3 DEF Larger
  <2> QED BY <2>2, <2>4
<1> QED BY <1>1, <1>2

LEMMA DigitsOf ==
  ASSUME NEW k \in Nat, NEW o \in Offset, NEW p, p = k * DataSize + o
  PROVE  p \in Nat /\ p \div DataSize = k /\ p % DataSize = o
<1>1. PICK z \in Nat : z = DataSize * k /\ z = k * DataSize
  OBVIOUS
<1>2. p = z + o /\ p \in Nat /\ o \in 0 .. DataSize - 1
  BY <1>1 DEF Offset
<1> QED BY <1>1, <1>2, DivModUnique

\* All blocks of a file but its last one are full.
LEMMA FullBlock ==
  ASSUME NEW n \in Nat, NEW k \in Nat, k + 1 < NumBlocksOf(n)
  PROVE  k * DataSize + DataSize < n
<1>1. PICK y \in Nat : y = BlocksFor(n)
  BY BlocksRange
<1>2. k + 1 < y
  BY <1>1, NumBlocksRange
<1>3. PICK z \in Nat : z = DataSize * k /\ z = k * DataSize
  OBVIOUS
<1>4. DataSize * (k + 2) = z + DataSize + DataSize
  <2>1. DataSize * (k + 2) = DataSize * k + DataSize * 2
    BY TimesPlus
  <2> QED BY <1>3, <2>1
<1>5. SUFFICES ASSUME ~(z + DataSize < n) PROVE FALSE
  BY <1>3
<1>6. PICK x \in Int : x = DataSize * y
  BY <1>1
<1>7. x < n + DataSize
  BY <1>1, <1>6, BlocksRange
<1>8. x < z + DataSize + DataSize
  BY <1>3, <1>5, <1>7
<1>9. DataSize * y < DataSize * (k + 2)
  BY <1>4, <1>6, <1>8
<1>10. y < k + 2
  BY <1>9, FewerBlocks
<1> QED BY <1>2, <1>10

LEMMA LastBlock ==
  ASSUME NEW n \in Nat, NEW k \in Nat, k + 1 = NumBlocksOf(n)
  PROVE  n <= k * DataSize + DataSize
<1>1. PICK y \in Nat : y = BlocksFor(n)
  BY BlocksRange
<1>2. PICK x \in Int : x = DataSize * y
  BY <1>1
<1>3. n <= x
  BY <1>1, <1>2, BlocksRange
<1>4. PICK z \in Nat : z = DataSize * k /\ z = k * DataSize
  OBVIOUS
<1>5. CASE y > 1
  <2>1. y = k + 1
    BY <1>1, <1>5, NumBlocksRange
  <2>2. x = z + DataSize
    <3>1. DataSize * (k + 1) = DataSize * k + DataSize * 1
      BY TimesPlus
    <3> QED BY <1>2, <1>4, <2>1, <3>1
  <2> QED BY <1>3, <1>4, <2>2
<1>6. CASE ~(y > 1)
  <2>1. y = 0 \/ y = 1
    BY <1>6
  <2>2. x <= DataSize
    BY <1>2, <2>1
  <2> QED BY <1>3, <1>4, <2>2
<1> QED BY <1>5, <1>6

\* What one more block adds to what has been printed.
LEMMA PrintedIs ==
  ASSUME TypeInv, cur \in Block, NEW n \in Nat, n = IF cnt < DataSize THEN cnt ELSE DataSize,
         Len(buf) + n <= MaxLen
  PROVE  /\ Printed \in Seq(Byte \cup {Junk}) /\ Len(Printed) = Len(buf) + n
         /\ \A p \in 1 .. Len(buf) : Printed[p] = buf[p]
         /\ \A o \in 0 .. n - 1 : Printed[Len(buf) + o + 1] = data[cur][o]
<1> DEFINE new == [o \in 1 .. n |-> data[cur][o - 1]]
           all == buf \o new
           k   == IF Len(all) > MaxLen THEN MaxLen + 1 ELSE Len(all)
<1>1. n <= DataSize /\ buf \in Seq(Byte \cup {Junk}) /\ Len(buf) \in Nat
  BY LenProperties DEF TypeInv, TypeOK, CallOK
<1>2. \A o \in 0 .. n - 1 : data[cur][o] \in Byte \cup {Junk}
  BY <1>1 DEF TypeInv, TypeOK, PoolOK, Offset
<1>3. /\ new \in Seq(Byte \cup {Junk}) /\ Len(new) = n
      /\ \A o \in 0 .. n - 1 : new[o + 1] = data[cur][o]
  <2>1. \A o \in 1 .. n : data[cur][o - 1] \in Byte \cup {Junk}
    BY <1>2
  <2>2. new \in [1 .. n -> Byte \cup {Junk}]
    BY <2>1
  <2>3. \A o \in 0 .. n - 1 : new[o + 1] = data[cur][o]
    OBVIOUS
  <2> HIDE DEF new
  <2> QED BY <2>2, <2>3
<1> HIDE DEF new
<1>4. /\ all \in Seq(Byte \cup {Junk}) /\ Len(all) = Len(buf) + n
      /\ \A p \in 1 .. Len(buf) + n : all[p] = IF p <= Len(buf) THEN buf[p] ELSE new[p - Len(buf)]
  BY <1>1, <1>3, ConcatProperties
<1>5. Printed = SubSeq(all, 1, k)
  BY DEF Printed, new
<1> HIDE DEF all
<1>6. PICK l \in Nat : l = Len(buf)
  BY <1>1
<1>7. Len(all) = l + n /\ k = l + n /\ l + n \in Int
  BY <1>4, <1>6
<1> HIDE DEF k
<1>8. \A p \in 1 .. l + n : all[p] \in Byte \cup {Junk}
  BY <1>4, <1>7, ElementOfSeq
<1>9. /\ SubSeq(all, 1, l + n) \in Seq(Byte \cup {Junk})
      /\ Len(SubSeq(all, 1, l + n)) = IF 1 <= l + n THEN l + n - 1 + 1 ELSE 0
      /\ \A p \in 1 .. l + n - 1 + 1 : SubSeq(all, 1, l + n)[p] = all[1 + p - 1]
  BY <1>7, <1>8, SubSeqProperties
<1>a. Printed = SubSeq(all, 1, l + n)
  BY <1>5, <1>7
<1>b. PICK m \in Nat : m = l + n
  OBVIOUS
<1>c. Len(Printed) = IF 1 <= m THEN m - 1 + 1 ELSE 0
  BY <1>9, <1>a, <1>b
<1>d. Len(Printed) = m
  BY <1>c
<1>10. Printed \in Seq(Byte \cup {Junk}) /\ Len(Printed) = l + n
  BY <1>9, <1>a, <1>b, <1>d
<1>11. \A p \in 1 .. l + n : Printed[p] = all[p]
  BY <1>5, <1>7, <1>9
<1>12. \A p \in 1 .. l : Printed[p] = buf[p]
  BY <1>4, <1>6, <1>11
<1>13. \A o \in 0 .. n - 1 : Printed[l + o + 1] = data[cur][o]
  <2> SUFFICES ASSUME NEW o \in 0 .. n - 1 PROVE Printed[l + o + 1] = data[cur][o]
    OBVIOUS
  <2>1. l + o + 1 \in 1 .. l + n /\ ~(l + o + 1 <= l) /\ l + o + 1 - l = o + 1
    OBVIOUS
  <2>2. all[l + o + 1] = new[o + 1]
    BY <1>4, <1>6, <2>1
  <2> QED BY <1>3, <1>11, <2>1, <2>2
<1> QED BY <1>6, <1>10, <1>12, <1>13

-----------------------------------------------------------------------------
(* The pages of a file, one after the other: way[s][k] is the k-th of the   *)
(* file in slot s, and num[s] tells how many there are.                    *)

Laid(way, num, s) ==
  /\ way[s][0] = entries[s].start
  /\ \A k \in 0 .. num[s] - 1 : ~Free(way[s][k])
  /\ \A k \in 1 .. num[s] - 1 : index[way[s][k - 1]] = way[s][k]

\* While a write adds pages the last one has no end mark,
Ended(way, num, s) == index[way[s][num[s] - 1]] = END \/ (pc = "alloc" /\ s = ent)

\* and until it is done the size is the old one.
Counted(num, s) ==
  num[s] = NumBlocksOf(entries[s].size) \/ (pc \in {"seek", "alloc", "skip"} /\ s = ent)

\* Two places are two pages.
Apart(way, num) ==
  \A s, t \in Slot : Holds(s) /\ Holds(t) =>
    \A k \in 0 .. num[s] - 1, l \in 0 .. num[t] - 1 : way[s][k] = way[t][l] => s = t /\ k = l

Chains(way, num) ==
  /\ \A s \in Slot : Holds(s) => Laid(way, num, s) /\ Ended(way, num, s) /\ Counted(num, s)
  /\ Apart(way, num)

\* The running call is at the k-th page of its file.
At(way, num, k) == k \in 0 .. num[ent] - 1 /\ cur = way[ent][k]

AtSeek(way, num) ==
  pc = "seek" =>
    /\ \E k \in 0 .. num[ent] - 1 : At(way, num, k)
    /\ num[ent] = NumBlocksOf(entries[ent].size)
    /\ num[ent] + cnt = BlocksFor(pos + Len(buf))
    /\ pos <= entries[ent].size

\* Pages that were added are linked, but not counted in the size.
AtAlloc(way, num) ==
  pc = "alloc" =>
    /\ At(way, num, num[ent] - 1)
    /\ num[ent] >= NumBlocksOf(entries[ent].size)
    /\ index[cur] = END => num[ent] = NumBlocksOf(entries[ent].size)
    /\ num[ent] + cnt = BlocksFor(pos + Len(buf))
    /\ pos <= entries[ent].size

\* Only behind the last page, and only at the end, is the cursor nowhere.
AtSkip(way, num) ==
  pc = "skip" =>
    /\ num[ent] = Larger(NumBlocksOf(entries[ent].size), BlocksFor(pos + Len(buf)))
    /\ pos <= entries[ent].size
    /\ \/ \E k \in 0 .. num[ent] - 1 : At(way, num, k) /\ k + cnt = pos \div DataSize
       \/ cur = WILD /\ cnt = 0 /\ pos \div DataSize = num[ent]

AtCopy(way, num) ==
  pc = "copy" =>
    /\ pos + Len(buf) <= entries[ent].size
    /\ buf # <<>> => \E k \in 0 .. num[ent] - 1 : At(way, num, k) /\ k * DataSize + wp = pos

\* What fs_read has printed are the first bytes of the file.
AtRead(way, num) ==
  pc = "read" =>
    /\ \E k \in 0 .. num[ent] - 1 :
         At(way, num, k) /\ cnt + k * DataSize = entries[ent].size /\ Len(buf) = k * DataSize
    /\ \A p \in 0 .. Len(buf) - 1 :
         buf[p + 1] = data[way[ent][p \div DataSize]][p % DataSize]

Place(way, num) ==
  /\ AtSeek(way, num) /\ AtAlloc(way, num) /\ AtSkip(way, num) /\ AtCopy(way, num)
  /\ AtRead(way, num)
  /\ pc = "idle" => buf = <<>>


Types(way, num) == way \in [Slot -> [Nat -> Block]] /\ num \in [Slot -> Nat \ {0}]

Numbered(way, num) == Types(way, num) /\ Chains(way, num) /\ Place(way, num)

HasChains == \E way, num : Numbered(way, num)

ChainInv == Sound => pc # "crash" /\ HasChains

LEMMA OnWay ==
  ASSUME NEW way, NEW num, Types(way, num), NEW s \in Slot
  PROVE  /\ num[s] \in Nat \ {0} /\ num[s] - 1 \in 0 .. num[s] - 1
         /\ 0 \in 0 .. num[s] - 1
         /\ \A k \in Nat : way[s][k] \in Block
         /\ \A k \in 0 .. num[s] - 1 : k \in Nat /\ way[s][k] \in Block
<1>1. num[s] \in Nat \ {0} /\ way[s] \in [Nat -> Block]
  BY DEF Types
<1> QED BY <1>1

\* A step that leaves every page of a file, and its index, as it is.
LEMMA ChainsKept ==
  ASSUME NEW way, NEW num, Types(way, num), Chains(way, num), UNCHANGED index,
         \A b \in Block : Free(b)' => Free(b),
         \A s \in Slot : Holds(s)' =>
           Holds(s) /\ entries'[s].start = entries[s].start
           /\ Ended(way, num, s)' /\ Counted(num, s)'
  PROVE  Chains(way, num)'
<1>1. ASSUME NEW s \in Slot, Holds(s)'
      PROVE  Laid(way, num, s)' /\ Ended(way, num, s)' /\ Counted(num, s)'
  <2>1. Laid(way, num, s) /\ entries'[s].start = entries[s].start
    BY <1>1 DEF Chains
  <2>2. \A k \in 0 .. num[s] - 1 : ~Free(way[s][k])'
    BY <2>1, OnWay DEF Laid
  <2>3. Laid(way, num, s)'
    BY <2>1, <2>2 DEF Laid
  <2> QED BY <1>1, <2>3
<1>2. Apart(way, num)'
  <2>1. Apart(way, num)
    BY DEF Chains
  <2> QED BY <2>1 DEF Apart
<1> QED BY <1>1, <1>2 DEF Chains

\* A step of a call that adds no page to its file.
LEMMA ChainsQuiet ==
  ASSUME NEW way, NEW num, Types(way, num), Chains(way, num), UNCHANGED <<next, index>>,
         pc # "alloc",
         \A s \in Slot : Holds(s)' =>
           Holds(s) /\ entries'[s].start = entries[s].start /\ Counted(num, s)'
  PROVE  Chains(way, num)'
<1>1. \A b \in Block : Free(b)' => Free(b)
  BY DEF Free
<1>2. \A s \in Slot : Holds(s)' => Ended(way, num, s)'
  BY DEF Chains, Ended
<1> QED BY <1>1, <1>2, ChainsKept

LEMMA NoPlace ==
  ASSUME NEW way, NEW num, pc' \notin {"seek", "alloc", "skip", "copy", "read"},
         pc' = "idle" => buf' = <<>>
  PROVE  Place(way, num)'
BY DEF Place, AtSeek, AtAlloc, AtSkip, AtCopy, AtRead

\* A call returns, and leaves the files as it finds them.
LEMMA ChainsReturn ==
  ASSUME NEW way, NEW num, Numbered(way, num), UNCHANGED <<next, index>>,
         NEW v, Return(v), pc \notin {"seek", "alloc", "skip"},
         \A s \in Slot : Holds(s)' =>
           Holds(s) /\ entries'[s].start = entries[s].start /\ entries'[s].size = entries[s].size
  PROVE  pc' # "crash" /\ Numbered(way, num)'
<1>1. pc' = "idle" /\ buf' = <<>> /\ Types(way, num) /\ Chains(way, num)
  BY DEF Return, Numbered
<1>2. \A s \in Slot : Holds(s)' => Counted(num, s)'
  BY <1>1 DEF Chains, Counted
<1>3. Chains(way, num)'
  BY <1>1, <1>2, ChainsQuiet
<1> QED BY <1>1, <1>3, NoPlace DEF Numbered, Types

\* The call goes on reading the files, or begins to give one up.
LEMMA ChainsRead ==
  ASSUME NEW way, NEW num, Numbered(way, num), UNCHANGED <<next, index, table>>,
         pc \in {"idle", "read"}, pc' \in {"read", "delete"}
  PROVE  Types(way, num) /\ Chains(way, num)'
<1>1. Types(way, num) /\ Chains(way, num)
  BY DEF Numbered
<1>2. \A s \in Slot : Holds(s)' =>
        Holds(s) /\ entries'[s].start = entries[s].start /\ Counted(num, s)'
  BY <1>1 DEF Chains, Counted, Holds, table
<1> QED BY <1>1, <1>2, ChainsQuiet

LEMMA SameFiles ==
  ASSUME UNCHANGED table, pc # "delete"
  PROVE  \A s \in Slot : Holds(s)' =>
           Holds(s) /\ entries'[s].start = entries[s].start /\ entries'[s].size = entries[s].size
BY DEF Holds, table


-----------------------------------------------------------------------------
(* One lemma per action: the call goes on, and the files keep their pages.  *)

Fit(way, num) == TypeInv /\ Structure /\ DescriptorsLive /\ Sound /\ Numbered(way, num)

\* The files keep the pages they have.
Keeps(way, num, way2) ==
  \A s \in Slot : Holds(s) => \A k \in 0 .. num[s] - 1 : way2[s][k] = way[s][k]

Goes(way, num) ==
  pc' # "crash" /\ \E way2, num2 : Numbered(way2, num2)' /\ Keeps(way, num, way2)

LEMMA GoesOn ==
  ASSUME NEW way, NEW num, pc' # "crash" /\ Numbered(way, num)'
  PROVE  Goes(way, num)
BY DEF Goes, Keeps

LEMMA FitFile ==
  ASSUME NEW way, NEW num, Fit(way, num), NEW s \in Slot, Holds(s)
  PROVE  /\ Laid(way, num, s) /\ Ended(way, num, s) /\ Counted(num, s)
         /\ \A t \in Slot : Holds(t) =>
              \A k \in 0 .. num[s] - 1, l \in 0 .. num[t] - 1 :
                way[s][k] = way[t][l] => s = t /\ k = l
BY DEF Fit, Numbered, Chains, Apart

LEMMA FitTypes ==
  ASSUME NEW way, NEW num, Fit(way, num)
  PROVE  /\ TypeInv /\ PoolOK /\ TableOK /\ CallOK /\ Locals /\ Types(way, num)
         /\ Chains(way, num) /\ Apart(way, num)
BY DEF Fit, TypeInv, TypeOK, Numbered, Chains

\* The first page of the free list becomes the only page of a new file.
LEMMA ChainsOpenNew ==
  ASSUME NEW way, NEW num, Fit(way, num), NEW n \in Name, pc = "idle", OpenNew(n)
  PROVE  Goes(way, num)
<1>a. free_list \in Block /\ next_entry \in Slot
  BY FitTypes DEF OpenNew, TableOK, Slot
<1>b. PICK h \in Block : h = free_list
  BY <1>a
<1>c. PICK e \in Slot : e = next_entry
  BY <1>a
<1>1. /\ Free(h) /\ ~Holds(e)
      /\ next' = [next EXCEPT ![h] = WILD]
      /\ index' = [index EXCEPT ![h] = END]
      /\ entries' = [entries EXCEPT ![e] = [name |-> n, start |-> h, size |-> 0]]
      /\ next_entry' = e + 1
      /\ pc' = "idle"
  BY <1>b, <1>c DEF OpenNew, AfterHead, LastMark, Return, FreeListDisjoint, Structure, Slot,
                   Holds, Fit
<1>d. buf' = <<>>
  BY DEF OpenNew, Return
<1>2. PoolOK /\ TableOK /\ Types(way, num)
  BY FitTypes
<1>3. \A b \in Block : ~Free(b) => ~Free(b)' /\ b # h /\ index'[b] = index[b]
  BY <1>1, <1>2 DEF Free, PoolOK
<1>4. ~Free(h)' /\ index'[h] = END
  BY <1>1, <1>2 DEF Free, PoolOK
<1>5. /\ \A s \in Slot : Holds(s)' => s = e \/ Holds(s)
      /\ \A s \in Slot : s # e => entries'[s] = entries[s]
      /\ entries'[e].start = h /\ entries'[e].size = 0
  BY <1>1, <1>2, <1>c DEF Holds, TableOK, Slot
<1>6. PICK way2 \in [Slot -> [Nat -> Block]] :
        \A s \in Slot : \A k \in Nat : way2[s][k] = IF s = e THEN h ELSE way[s][k]
  <2>1. \A s \in Slot : [k \in Nat |-> IF s = e THEN h ELSE way[s][k]] \in [Nat -> Block]
    BY <1>1, <1>2, OnWay
  <2>2. [s \in Slot |-> [k \in Nat |-> IF s = e THEN h ELSE way[s][k]]] \in [Slot -> [Nat -> Block]]
    BY <2>1
  <2> QED BY <2>2
<1>7. PICK num2 \in [Slot -> Nat \ {0}] : \A s \in Slot : num2[s] = IF s = e THEN 1 ELSE num[s]
  <2>1. [s \in Slot |-> IF s = e THEN 1 ELSE num[s]] \in [Slot -> Nat \ {0}]
    BY <1>2, OnWay
  <2> QED BY <2>1
<1>8. Types(way2, num2)
  BY <1>6, <1>7 DEF Types
<1>9. ASSUME NEW s \in Slot, Holds(s)', s # e
      PROVE  /\ Laid(way2, num2, s)' /\ Ended(way2, num2, s)' /\ Counted(num2, s)'
             /\ num2[s] = num[s]
             /\ \A k \in 0 .. num[s] - 1 : way2[s][k] = way[s][k] /\ way[s][k] # h
  <2>1. Holds(s) /\ entries'[s] = entries[s] /\ num2[s] = num[s]
    BY <1>5, <1>7, <1>9
  <2>2. Laid(way, num, s) /\ Ended(way, num, s) /\ Counted(num, s)
    BY <2>1, FitFile
  <2>3. /\ \A k \in 0 .. num[s] - 1 : way2[s][k] = way[s][k] /\ way[s][k] \in Block
        /\ \A k \in 1 .. num[s] - 1 : k - 1 \in 0 .. num[s] - 1 /\ k \in 0 .. num[s] - 1
        /\ 0 \in 0 .. num[s] - 1 /\ num[s] - 1 \in 0 .. num[s] - 1
    BY <1>2, <1>6, <1>9, OnWay
  <2>4. \A k \in 0 .. num[s] - 1 : /\ ~Free(way2[s][k])' /\ way[s][k] # h
                                   /\ index'[way2[s][k]] = index[way[s][k]]
    BY <1>3, <2>2, <2>3 DEF Laid
  <2>5. Laid(way2, num2, s)'
    BY <2>1, <2>2, <2>3, <2>4 DEF Laid
  <2>6. Ended(way2, num2, s)' /\ Counted(num2, s)'
    BY <1>1, <2>1, <2>2, <2>3, <2>4 DEF Ended, Counted
  <2> QED BY <2>1, <2>3, <2>4, <2>5, <2>6
<1>10. /\ num2[e] = 1 /\ 0 .. 0 = {0} /\ \A k \in 0 .. 0 : way2[e][k] = h
  BY <1>1, <1>6, <1>7
<1>11. Laid(way2, num2, e)' /\ Ended(way2, num2, e)' /\ Counted(num2, e)'
  <2>1. Laid(way2, num2, e)'
    BY <1>1, <1>4, <1>5, <1>10 DEF Laid
  <2>2. Ended(way2, num2, e)'
    BY <1>4, <1>10 DEF Ended
  <2>3. Counted(num2, e)'
    BY <1>5, <1>10, NoBytes DEF Counted
  <2> QED BY <2>1, <2>2, <2>3
<1>12. Apart(way2, num2)'
  <2> SUFFICES ASSUME NEW s \in Slot, NEW t \in Slot, Holds(s)', Holds(t)',
                      NEW k \in 0 .. num2[s] - 1, NEW l \in 0 .. num2[t] - 1,
                      way2[s][k] = way2[t][l]
               PROVE  s = t /\ k = l
    BY DEF Apart
  <2>1. CASE s = e /\ t = e
    BY <1>10, <2>1
  <2>2. CASE s = e /\ t # e
    BY <1>9, <1>10, <2>2
  <2>3. CASE s # e /\ t = e
    BY <1>9, <1>10, <2>3
  <2>4. CASE s # e /\ t # e
    <3>1. Holds(s) /\ Holds(t)
      BY <1>5, <2>4
    <3>2. k \in 0 .. num[s] - 1 /\ l \in 0 .. num[t] - 1 /\ way[s][k] = way[t][l]
      BY <1>9, <2>4
    <3> QED BY <3>1, <3>2, FitFile
  <2> QED BY <2>1, <2>2, <2>3, <2>4
<1>13. Chains(way2, num2)'
  BY <1>9, <1>11, <1>12 DEF Chains
<1>14. Numbered(way2, num2)'
  BY <1>1, <1>8, <1>13, <1>d, NoPlace DEF Numbered, Types
<1>15. Keeps(way, num, way2)
  <2>1. \A s \in Slot : Holds(s) => s # e
    BY <1>1
  <2> QED BY <1>2, <1>6, <2>1, OnWay DEF Keeps
<1> QED BY <1>1, <1>14, <1>15 DEF Goes


\* The size of a file, and what the running call has of its bytes.
LEMMA FitNumbers ==
  ASSUME NEW way, NEW num, Fit(way, num)
  PROVE  /\ cnt \in Nat /\ pos \in Nat /\ Len(buf) \in Nat /\ pos + Len(buf) \in Nat
         /\ ent \in Slot /\ entries[ent].start \in Block
         /\ entries[ent].size \in Nat /\ entries[ent].size <= MaxLen
         /\ num[ent] \in Nat \ {0} /\ num[ent] \in Int
         /\ BlocksFor(pos + Len(buf)) \in Nat
         /\ NumBlocksOf(entries[ent].size) \in Nat \ {0}
<1>1. cnt \in Nat /\ pos \in Nat /\ Len(buf) \in Nat /\ ent \in Slot
  BY FitTypes, LenProperties DEF CallOK
<1>2. pos + Len(buf) \in Nat
  BY <1>1
<1>3. entries[ent].start \in Block /\ entries[ent].size \in Nat /\ entries[ent].size <= MaxLen
  BY <1>1, FitTypes DEF TableOK, Entry
<1>4. num[ent] \in Nat \ {0} /\ num[ent] \in Int
  BY <1>1, FitTypes, OnWay
<1>5. BlocksFor(pos + Len(buf)) \in Nat /\ NumBlocksOf(entries[ent].size) \in Nat \ {0}
  BY <1>2, <1>3, NumBlocksRange
<1> QED BY <1>1, <1>2, <1>3, <1>4, <1>5

\* One page more, behind the last one of the file.
LEMMA ChainsAllocBlock ==
  ASSUME NEW way, NEW num, Fit(way, num), pc = "alloc", AllocBlock
  PROVE  Goes(way, num)
<1>a. free_list \in Block /\ ent \in Slot /\ cur \in Block /\ Free(free_list) /\ free_list # cur
  BY FitTypes DEF AllocBlock, CallOK, Locals, Fit, Structure, FreeListDisjoint, Free
<1>b. PICK h \in Block : h = free_list
  BY <1>a
<1>c. PICK e \in Slot : e = ent
  BY <1>a
<1>d. PICK c \in Block : c = cur
  BY <1>a
<1>e. PICK n \in Nat \ {0} : n = num[e]
  BY FitTypes, OnWay
<1>1. /\ Free(h) /\ h # c
      /\ next' = [next EXCEPT ![c] = WILD, ![h] = IF cnt = 1 THEN WILD ELSE @]
      /\ index' = [index EXCEPT ![c] = h, ![h] = IF cnt = 1 THEN END ELSE @]
      /\ UNCHANGED <<entries, next_entry, ent, pos, buf>>
      /\ cnt = 1 => pc' = "skip" /\ cur' = entries[ent].start /\ cnt' = pos \div DataSize
      /\ cnt # 1 => pc' = "alloc" /\ cur' = h /\ cnt' = cnt - 1
  BY <1>a, <1>b, <1>d DEF AllocBlock, LastMark, table
<1>2. PoolOK /\ TableOK /\ Types(way, num)
  BY FitTypes
<1>3. \A b \in Block : ~Free(b) => ~Free(b)' /\ b # h
  BY <1>1, <1>2, <1>d DEF Free, PoolOK
<1>4. ~Free(h)'
  BY <1>1, <1>2 DEF Free, PoolOK
<1>5. \A b \in Block : index'[b] = IF b = c THEN h ELSE IF b = h /\ cnt = 1 THEN END ELSE index[b]
  BY <1>1, <1>2 DEF PoolOK
<1>6. index[h] # END
  <2>1. ~Owned(h) /\ ViewsAgree
    BY <1>1 DEF Free, Owned, Fit, Structure
  <2> QED BY <2>1 DEF ViewsAgree, AsIndex, END, WILD
<1>7. \A s \in Slot : (Holds(s)' <=> Holds(s)) /\ entries'[s] = entries[s]
  BY <1>1 DEF Holds
<1>8. Holds(e)
  BY <1>c DEF Fit, Structure, EntryInUse, Holds
<1>9. /\ n - 1 \in 0 .. n - 1 /\ c = way[e][n - 1]
      /\ n >= NumBlocksOf(entries[e].size)
      /\ n + cnt = BlocksFor(pos + Len(buf))
      /\ pos <= entries[e].size
  BY <1>c, <1>d, <1>e DEF Fit, Numbered, Place, AtAlloc, At
<1>10. PICK way2 \in [Slot -> [Nat -> Block]] :
        \A s \in Slot : \A k \in Nat : way2[s][k] = IF s = e /\ k = n THEN h ELSE way[s][k]
  <2>1. \A s \in Slot :
          [k \in Nat |-> IF s = e /\ k = n THEN h ELSE way[s][k]] \in [Nat -> Block]
    BY <1>2, OnWay
  <2>2. [s \in Slot |-> [k \in Nat |-> IF s = e /\ k = n THEN h ELSE way[s][k]]]
          \in [Slot -> [Nat -> Block]]
    BY <2>1
  <2> QED BY <2>2
<1>11. PICK num2 \in [Slot -> Nat \ {0}] : \A s \in Slot : num2[s] = IF s = e THEN n + 1 ELSE num[s]
  <2>1. [s \in Slot |-> IF s = e THEN n + 1 ELSE num[s]] \in [Slot -> Nat \ {0}]
    BY <1>2, OnWay
  <2> QED BY <2>1
<1>12. Types(way2, num2)
  BY <1>10, <1>11 DEF Types
<1>13. ASSUME NEW s \in Slot, Holds(s)
       PROVE  /\ way2[s][0] = entries[s].start
              /\ \A k \in 0 .. num[s] - 1 :
                   way2[s][k] = way[s][k] /\ way[s][k] \in Block /\ ~Free(way[s][k])
              /\ \A k \in 0 .. num[s] - 1 : way[s][k] = c => s = e /\ k = n - 1
              /\ \A k \in 1 .. num[s] - 1 : index[way[s][k - 1]] = way[s][k]
              /\ num[s] \in Nat \ {0}
  <2>1. Laid(way, num, s)
    BY <1>13, FitFile
  <2>2. \A k \in 0 .. num[s] - 1 : way[s][k] \in Block
    BY <1>2, OnWay
  <2>3. num[s] \in Nat \ {0}
    BY <1>2, OnWay
  <2>4. \A k \in 0 .. num[s] - 1 : way2[s][k] = way[s][k]
    BY <1>10, <1>e, <2>3
  <2>5. \A k \in 0 .. num[s] - 1 : way[s][k] = way[e][n - 1] => s = e /\ k = n - 1
    BY <1>8, <1>9, <1>13, <1>e, FitFile
  <2>6. way2[s][0] = way[s][0]
    BY <2>3, <2>4
  <2> QED BY <1>9, <2>1, <2>2, <2>3, <2>4, <2>5, <2>6 DEF Laid
<1>14. ASSUME NEW s \in Slot, Holds(s)', s # e
      PROVE  /\ Laid(way2, num2, s)' /\ Ended(way2, num2, s)' /\ Counted(num2, s)'
             /\ num2[s] = num[s]
             /\ \A k \in 0 .. num[s] - 1 : way2[s][k] = way[s][k] /\ way[s][k] # h
  <2>1. Holds(s) /\ entries'[s] = entries[s] /\ num2[s] = num[s]
    BY <1>7, <1>11, <1>14
  <2>2. Ended(way, num, s) /\ Counted(num, s)
    BY <2>1, FitFile
  <2>3. /\ \A k \in 0 .. num[s] - 1 : way2[s][k] = way[s][k] /\ way[s][k] \in Block
        /\ \A k \in 1 .. num[s] - 1 : k - 1 \in 0 .. num[s] - 1 /\ k \in 0 .. num[s] - 1
        /\ num[s] - 1 \in 0 .. num[s] - 1
    BY <1>13, <2>1
  <2>4. \A k \in 0 .. num[s] - 1 : /\ ~Free(way2[s][k])' /\ way[s][k] # h
                                   /\ index'[way2[s][k]] = index[way[s][k]]
    BY <1>3, <1>5, <1>13, <1>14, <2>1
  <2>5. Laid(way2, num2, s)'
    BY <1>13, <2>1, <2>3, <2>4 DEF Laid
  <2>6. Ended(way2, num2, s)' /\ Counted(num2, s)'
    BY <1>1, <1>14, <1>c, <2>1, <2>2, <2>3, <2>4 DEF Ended, Counted
  <2> QED BY <2>1, <2>3, <2>4, <2>5, <2>6
<1>15. /\ num2[e] = n + 1 /\ way2[e][n] = h
       /\ 0 .. num2[e] - 1 = 0 .. n /\ 1 .. num2[e] - 1 = 1 .. n
       /\ \A k \in 0 .. n - 1 : way2[e][k] = way[e][k] /\ way[e][k] \in Block /\ way[e][k] # h
                               /\ ~Free(way[e][k])'
  BY <1>3, <1>8, <1>10, <1>11, <1>13, <1>e
<1>16. Laid(way2, num2, e)'
  <2>1. way2[e][0] = entries'[e].start
    BY <1>7, <1>8, <1>13
  <2>2. \A k \in 0 .. n : ~Free(way2[e][k])'
    <3>1. \A k \in 0 .. n : k = n \/ k \in 0 .. n - 1
      OBVIOUS
    <3> QED BY <1>4, <1>15, <3>1
  <2>3. \A k \in 1 .. n : index'[way2[e][k - 1]] = way2[e][k]
    <3> SUFFICES ASSUME NEW k \in 1 .. n PROVE index'[way2[e][k - 1]] = way2[e][k]
      OBVIOUS
    <3>1. k - 1 \in 0 .. n - 1
      OBVIOUS
    <3>2. CASE k = n
      BY <1>5, <1>9, <1>15, <3>1, <3>2
    <3>3. CASE k # n
      <4>1. k \in 0 .. n - 1 /\ k \in 1 .. n - 1 /\ k - 1 # n - 1
        BY <3>3
      <4>2. index[way[e][k - 1]] = way[e][k] /\ way[e][k - 1] # c
        BY <1>8, <1>13, <1>e, <3>1, <4>1
      <4> QED BY <1>5, <1>15, <3>1, <4>1, <4>2
    <3> QED BY <3>2, <3>3
  <2> QED BY <1>15, <2>1, <2>2, <2>3 DEF Laid
<1>17. Ended(way2, num2, e)' /\ Counted(num2, e)'
  <2>1. num2[e] - 1 = n
    BY <1>15
  <2>2. cnt = 1 => index'[h] = END
    BY <1>1, <1>5
  <2> QED BY <1>1, <1>15, <1>c, <2>1, <2>2 DEF Ended, Counted
<1>18. Apart(way2, num2)'
  <2> SUFFICES ASSUME NEW s \in Slot, NEW t \in Slot, Holds(s)', Holds(t)',
                      NEW k \in 0 .. num2[s] - 1, NEW l \in 0 .. num2[t] - 1,
                      way2[s][k] = way2[t][l]
               PROVE  s = t /\ k = l
    BY DEF Apart
  <2>1. Holds(s) /\ Holds(t)
    BY <1>7
  <2>2. ASSUME NEW r \in Slot, Holds(r), NEW m \in 0 .. num2[r] - 1
        PROVE  \/ r = e /\ m = n /\ way2[r][m] = h
               \/ m \in 0 .. num[r] - 1 /\ way2[r][m] = way[r][m] /\ way[r][m] # h
    <3>1. CASE r = e
      BY <1>15, <1>e, <3>1
    <3>2. CASE r # e
      <4>1. Holds(r)'
        BY <1>7, <2>2
      <4> QED BY <1>14, <3>2, <4>1
    <3> QED BY <3>1, <3>2
  <2>a. \/ s = e /\ k = n /\ way2[s][k] = h
        \/ k \in 0 .. num[s] - 1 /\ way2[s][k] = way[s][k] /\ way[s][k] # h
    BY <2>1, <2>2
  <2>b. \/ t = e /\ l = n /\ way2[t][l] = h
        \/ l \in 0 .. num[t] - 1 /\ way2[t][l] = way[t][l] /\ way[t][l] # h
    BY <2>1, <2>2
  <2>3. CASE way2[s][k] = h
    BY <2>a, <2>b, <2>3
  <2>4. CASE way2[s][k] # h
    <3>1. k \in 0 .. num[s] - 1 /\ l \in 0 .. num[t] - 1 /\ way[s][k] = way[t][l]
      BY <2>a, <2>b, <2>4
    <3> QED BY <2>1, <3>1, FitFile
  <2> QED BY <2>3, <2>4
<1>19. Chains(way2, num2)'
  BY <1>14, <1>16, <1>17, <1>18 DEF Chains
<1>f. Keeps(way, num, way2)
  BY <1>13 DEF Keeps
<1>20. /\ n \in Nat /\ n >= 1 /\ cnt \in Nat /\ n + cnt = BlocksFor(pos + Len(buf))
       /\ BlocksFor(pos + Len(buf)) \in Nat /\ NumBlocksOf(entries[e].size) \in Nat
       /\ pos \div DataSize \in Nat
  <2>1. cnt \in Nat /\ pos \in Nat /\ BlocksFor(pos + Len(buf)) \in Nat
        /\ NumBlocksOf(entries[e].size) \in Nat
    BY <1>c, FitNumbers
  <2>2. pos \div DataSize \in Nat
    BY <2>1, DivNat
  <2>3. n \in Nat /\ n >= 1
    OBVIOUS
  <2> QED BY <1>9, <2>1, <2>2, <2>3
<1>21. CASE cnt = 1
  <2>1. pc' = "skip" /\ cur' = way2[e][0] /\ cnt' = pos \div DataSize
    BY <1>1, <1>8, <1>13, <1>21, <1>c
  <2>2. num2[e] = Larger(NumBlocksOf(entries[e].size), BlocksFor(pos + Len(buf)))
    BY <1>9, <1>15, <1>20, <1>21 DEF Larger
  <2>3. 0 \in 0 .. num2[e] - 1 /\ 0 + cnt' = pos \div DataSize
    BY <1>15, <1>20, <2>1
  <2>4. \E k \in 0 .. num2[ent'] - 1 : At(way2, num2, k)' /\ k + cnt' = pos' \div DataSize
    BY <1>1, <1>c, <2>1, <2>3 DEF At
  <2>5. AtSkip(way2, num2)'
    BY <1>1, <1>9, <1>c, <2>2, <2>4 DEF AtSkip
  <2>6. Place(way2, num2)'
    BY <2>1, <2>5 DEF Place, AtSeek, AtAlloc, AtCopy, AtRead
  <2> QED BY <1>12, <1>19, <1>f, <2>1, <2>6 DEF Goes, Numbered, Types
<1>22. CASE cnt # 1
  <2>1. pc' = "alloc" /\ cur' = h /\ cnt' = cnt - 1
    BY <1>1, <1>22
  <2>2. num2[e] >= NumBlocksOf(entries[e].size) /\ num2[e] + cnt' = BlocksFor(pos + Len(buf))
    BY <1>9, <1>15, <1>20, <2>1
  <2>3. At(way2, num2, num2[ent] - 1)'
    BY <1>1, <1>15, <1>20, <1>c, <2>1 DEF At
  <2>4. index'[cur'] # END
    BY <1>1, <1>5, <1>6, <1>22, <2>1
  <2>5. AtAlloc(way2, num2)'
    BY <1>1, <1>9, <1>c, <2>2, <2>3, <2>4 DEF AtAlloc
  <2>6. Place(way2, num2)'
    BY <2>1, <2>5 DEF Place, AtSeek, AtSkip, AtCopy, AtRead
  <2> QED BY <1>12, <1>19, <1>f, <2>1, <2>6 DEF Goes, Numbered, Types
<1> QED BY <1>21, <1>22


\* The pool runs dry.  No page was added, or Sound' would not hold.
LEMMA ChainsAllocFails ==
  ASSUME NEW way, NEW num, Fit(way, num), pc = "alloc", AllocFails, Sound'
  PROVE  pc' # "crash" /\ Numbered(way, num)'
<1>1. /\ index[cur] = END /\ pc' = "idle" /\ buf' = <<>>
      /\ UNCHANGED <<next, index, free_list, entries, next_entry>>
  BY DEF AllocFails, Happened, Sound, Return, pool, table
<1>2. cur \in Block /\ ent \in Slot /\ Types(way, num) /\ Chains(way, num)
  BY FitTypes DEF Locals, CallOK
<1>3. Owned(cur)
  BY <1>1, <1>2 DEF Fit, Structure, ViewsAgree, AsIndex, END, WILD
<1>4. /\ cur = way[ent][num[ent] - 1]
      /\ num[ent] = NumBlocksOf(entries[ent].size)
  BY <1>1 DEF Fit, Numbered, Place, AtAlloc, At
<1>5. \A b \in Block : Free(b)' => Free(b)
  BY <1>1, <1>3 DEF Free, Owned
<1>6. \A s \in Slot : Holds(s)' => Holds(s) /\ entries'[s].start = entries[s].start
  BY <1>1 DEF Holds
<1>7. \A s \in Slot : Holds(s)' => Ended(way, num, s)'
  BY <1>1, <1>2, <1>4, <1>6 DEF Chains, Ended
<1>8. \A s \in Slot : Holds(s)' => Counted(num, s)'
  BY <1>1, <1>2, <1>4, <1>6 DEF Chains, Counted
<1>9. Chains(way, num)'
  BY <1>1, <1>2, <1>5, <1>6, <1>7, <1>8, ChainsKept
<1> QED BY <1>1, <1>2, <1>9, NoPlace DEF Numbered, Types

\* A write begins at the first page of its file.
LEMMA ChainsWriteBegin ==
  ASSUME NEW way, NEW num, Fit(way, num), pc = "idle",
         NEW d \in Fd, NEW i \in 0 .. MaxLen, NEW b \in Buffer, WriteBegin(d, i, b)
  PROVE  pc' # "crash" /\ Numbered(way, num)'
<1>1. find_fd(d) \in Slot /\ Holds(find_fd(d))
  BY DescribedFile DEF WriteBegin, Writable, Fit
<1>2. PICK e \in Slot : e = find_fd(d)
  BY <1>1
<1>3. PICK size \in Nat : size = entries[e].size
  BY FitTypes DEF TableOK, Entry
<1>4. /\ i <= size /\ ent' = e /\ cur' = entries[e].start /\ pos' = i /\ buf' = b
      /\ UNCHANGED <<next, index, entries, next_entry>>
      /\ pc' = IF Missing(size, i + Len(b)) > 0 THEN "seek" ELSE "skip"
      /\ cnt' = IF Missing(size, i + Len(b)) > 0 THEN Missing(size, i + Len(b)) ELSE i \div DataSize
  BY <1>2, <1>3 DEF WriteBegin, Writable, pool, table
<1>5. PICK n \in Nat : n = i + Len(b)
  BY BufferSeq
<1>6. /\ num[e] = NumBlocksOf(size) /\ num[e] \in Nat \ {0}
      /\ 0 \in 0 .. num[e] - 1 /\ way[e][0] = entries[e].start
      /\ Types(way, num) /\ Chains(way, num)
  <2>1. Laid(way, num, e) /\ Counted(num, e)
    BY <1>1, <1>2, FitFile
  <2> QED BY <1>3, <2>1, FitTypes, OnWay DEF Laid, Counted
<1>7. Chains(way, num)'
  <2>1. \A s \in Slot : Holds(s)' =>
          Holds(s) /\ entries'[s].start = entries[s].start /\ Counted(num, s)'
    BY <1>4, <1>6 DEF Chains, Counted, Holds
  <2> QED BY <1>4, <1>6, <2>1, ChainsQuiet
<1>8. At(way, num, 0)'
  BY <1>4, <1>6 DEF At
<1>9. /\ i \in Nat /\ i \div DataSize \in Nat /\ BlocksFor(n) \in Nat
      /\ NumBlocksOf(size) \in Nat \ {0}
      /\ Missing(size, n) = BlocksFor(n) - NumBlocksOf(size)
  BY DivNat, NumBlocksRange DEF Missing
<1>10. CASE Missing(size, n) > 0
  <2>1. pc' = "seek" /\ cnt' = Missing(size, n)
    BY <1>4, <1>5, <1>10
  <2>2. num[e] + cnt' = BlocksFor(n)
    BY <1>6, <1>9, <2>1
  <2>3. AtSeek(way, num)'
    BY <1>3, <1>4, <1>5, <1>6, <1>8, <2>2 DEF AtSeek
  <2>4. Place(way, num)'
    BY <2>1, <2>3 DEF Place, AtAlloc, AtSkip, AtCopy, AtRead
  <2> QED BY <1>6, <1>7, <2>1, <2>4 DEF Numbered, Types
<1>11. CASE ~(Missing(size, n) > 0)
  <2>1. pc' = "skip" /\ cnt' = i \div DataSize
    BY <1>4, <1>5, <1>11
  <2>2. num[e] = Larger(NumBlocksOf(size), BlocksFor(n))
    BY <1>6, <1>9, <1>11 DEF Larger
  <2>3. 0 + cnt' = i \div DataSize
    BY <1>9, <2>1
  <2>4. AtSkip(way, num)'
    BY <1>3, <1>4, <1>5, <1>6, <1>8, <2>2, <2>3 DEF AtSkip
  <2>5. Place(way, num)'
    BY <2>1, <2>4 DEF Place, AtAlloc, AtSeek, AtCopy, AtRead
  <2> QED BY <1>6, <1>7, <2>1, <2>5 DEF Numbered, Types
<1> QED BY <1>10, <1>11

LEMMA ChainsWriteAt ==
  ASSUME NEW way, NEW num, Fit(way, num),
         NEW d \in Fd, NEW i \in 0 .. MaxLen, NEW b \in Buffer, fs_write_at(d, i, b)
  PROVE  pc' # "crash" /\ Numbered(way, num)'
<1>1. CASE WriteRefused(d, i)
  BY <1>1, SameFiles, ChainsReturn DEF Fit, fs_write_at, WriteRefused, pool
<1>2. CASE WriteBegin(d, i, b)
  BY <1>2, ChainsWriteBegin DEF fs_write_at
<1> QED BY <1>1, <1>2 DEF fs_write_at

LEMMA ChainsWrite ==
  ASSUME NEW way, NEW num, Fit(way, num), NEW d \in Fd, NEW b \in Buffer,
         fs_write(d, b) \/ fs_append(d, b)
  PROVE  pc' # "crash" /\ Numbered(way, num)'
<1>1. CASE fs_write(d, b)
  BY <1>1, ChainsWriteAt DEF fs_write
<1>2. CASE fs_append(d, b) /\ find_fd(d) = NULL
  BY <1>2, ChainsWriteAt DEF fs_append, fs_write_at
<1>3. CASE fs_append(d, b) /\ find_fd(d) # NULL
  <2>1. find_fd(d) \in Slot
    BY <1>3, FitTypes DEF find_fd, TableOK
  <2>2. entries[find_fd(d)].size \in 0 .. MaxLen
    BY <2>1, FitTypes DEF TableOK, Entry
  <2> QED BY <1>3, <2>2, ChainsWriteAt DEF fs_append
<1> QED BY <1>1, <1>2, <1>3

\* The walk of a call goes from one page to the next, and ends at the last.
LEMMA WalkOn ==
  ASSUME NEW way, NEW num, Fit(way, num), NEW s \in Slot, Holds(s),
         NEW k \in 0 .. num[s] - 1, pc # "alloc"
  PROVE  /\ k + 1 < num[s] => index[way[s][k]] = way[s][k + 1] /\ way[s][k + 1] \in Block
         /\ k + 1 = num[s] => index[way[s][k]] = END
<1>1. Laid(way, num, s) /\ Ended(way, num, s) /\ num[s] \in Nat \ {0} /\ Types(way, num)
  BY FitFile, FitTypes, OnWay
<1>2. k \in Nat /\ num[s] \in Int /\ k + 1 - 1 = k
  BY <1>1
<1>3. ASSUME k + 1 < num[s]
      PROVE  index[way[s][k]] = way[s][k + 1] /\ way[s][k + 1] \in Block
  <2>1. k + 1 \in 1 .. num[s] - 1 /\ k + 1 \in Nat
    BY <1>1, <1>2, <1>3
  <2>2. index[way[s][k + 1 - 1]] = way[s][k + 1]
    BY <1>1, <2>1 DEF Laid
  <2>3. way[s][k + 1] \in Block
    BY <1>1, <2>1, OnWay
  <2> QED BY <1>2, <2>2, <2>3
<1>4. ASSUME k + 1 = num[s]
      PROVE  index[way[s][k]] = END
  <2>1. num[s] - 1 = k
    BY <1>2, <1>4
  <2> QED BY <1>1, <2>1 DEF Ended
<1> QED BY <1>3, <1>4

LEMMA WorksOnFile ==
  ASSUME NEW way, NEW num, Fit(way, num), pc \in {"seek", "alloc", "skip", "copy", "read"}
  PROVE  ent \in Slot /\ Holds(ent)
<1>1. EntryInUse /\ ent \in Slot
  BY FitTypes DEF Fit, Structure, CallOK
<1> QED BY <1>1 DEF EntryInUse, Holds

LEMMA ChainsSeek ==
  ASSUME NEW way, NEW num, Fit(way, num), Seek
  PROVE  pc' # "crash" /\ Numbered(way, num)'
<1>1. pc = "seek" /\ ent \in Slot /\ Holds(ent)
  BY WorksOnFile DEF Seek
<1>2. PICK e \in Slot : e = ent
  BY <1>1
<1>3. PICK k \in 0 .. num[e] - 1 : cur = way[e][k]
  BY <1>1, <1>2 DEF Fit, Numbered, Place, AtSeek, At
<1>4. /\ num[e] = NumBlocksOf(entries[e].size)
      /\ num[e] + cnt = BlocksFor(pos + Len(buf))
      /\ pos <= entries[e].size
      /\ num[e] \in Nat \ {0} /\ num[e] \in Int /\ Types(way, num) /\ Chains(way, num)
  BY <1>1, <1>2, FitTypes, OnWay DEF Fit, Numbered, Place, AtSeek
<1>5. index[cur] = END \/ (k + 1 \in 0 .. num[e] - 1 /\ index[cur] = way[e][k + 1])
  <2>1. k + 1 < num[e] \/ k + 1 = num[e]
    BY <1>4
  <2>2. k + 1 < num[e] => k + 1 \in 0 .. num[e] - 1
    BY <1>4
  <2> QED BY <1>1, <1>2, <1>3, <2>1, <2>2, WalkOn
<1>6. /\ UNCHANGED <<next, index, entries, next_entry, ent, cnt, pos, buf>>
      /\ \/ pc' = "seek" /\ index[cur] \in Block /\ cur' = index[cur]
         \/ pc' = "alloc" /\ index[cur] = END /\ cur' = cur
  <2>1. index[cur] # WILD
    <3>1. way[e][k + 1] \in Block \/ index[cur] = END
      BY <1>4, <1>5, OnWay
    <3> QED BY <1>5, <3>1 DEF END, WILD, Block
  <2> QED BY <1>1, <2>1 DEF Seek, pool, table
<1>7. Chains(way, num)'
  <2>1. \A s \in Slot : Holds(s)' =>
          Holds(s) /\ entries'[s].start = entries[s].start /\ Counted(num, s)'
    BY <1>1, <1>4, <1>6 DEF Chains, Counted, Holds
  <2> QED BY <1>1, <1>4, <1>6, <2>1, ChainsQuiet
<1>8. CASE pc' = "seek"
  <2>1. cur' = way[e][k + 1] /\ k + 1 \in 0 .. num[e] - 1
    BY <1>5, <1>6, <1>8 DEF END, Block
  <2>2. At(way, num, k + 1)'
    BY <1>2, <1>6, <2>1 DEF At
  <2>3. \E l \in 0 .. num[ent'] - 1 : At(way, num, l)'
    BY <1>2, <1>6, <2>1, <2>2
  <2>4. AtSeek(way, num)'
    BY <1>2, <1>4, <1>6, <2>3 DEF AtSeek
  <2>5. Place(way, num)'
    BY <1>8, <2>4 DEF Place, AtAlloc, AtSkip, AtCopy, AtRead
  <2> QED BY <1>4, <1>7, <1>8, <2>5 DEF Numbered, Types
<1>9. CASE pc' = "alloc"
  <2>1. index[cur] = END /\ cur' = cur
    BY <1>6, <1>9
  <2>2. k = num[e] - 1
    <3>1. k + 1 < num[e] => index[cur] \in Block
      BY <1>1, <1>2, <1>3, WalkOn
    <3>2. ~(k + 1 < num[e])
      BY <2>1, <3>1 DEF END, Block
    <3> QED BY <1>4, <3>2
  <2>3. At(way, num, num[ent] - 1)'
    BY <1>2, <1>3, <1>6, <2>1, <2>2 DEF At
  <2>4. num[e] >= NumBlocksOf(entries[e].size)
    BY <1>4
  <2>5. AtAlloc(way, num)'
    BY <1>2, <1>4, <1>6, <2>3, <2>4 DEF AtAlloc
  <2>6. Place(way, num)'
    BY <1>9, <2>5 DEF Place, AtSeek, AtSkip, AtCopy, AtRead
  <2> QED BY <1>4, <1>7, <1>9, <2>6 DEF Numbered, Types
<1> QED BY <1>6, <1>8, <1>9


LEMMA ChainsSkipBlock ==
  ASSUME NEW way, NEW num, Fit(way, num), pc = "skip", SkipBlock
  PROVE  pc' # "crash" /\ Numbered(way, num)'
<1>1. ent \in Slot /\ Holds(ent)
  BY WorksOnFile
<1>2. PICK e \in Slot : e = ent
  BY <1>1
<1>3. /\ cnt > 0 /\ cnt' = cnt - 1 /\ pc' = "skip"
      /\ cur' = IF index[cur] \in Block THEN index[cur] ELSE WILD
      /\ UNCHANGED <<next, index, entries, next_entry, ent, pos, buf>>
  BY DEF SkipBlock, pool, table
<1>4. /\ num[e] = Larger(NumBlocksOf(entries[e].size), BlocksFor(pos + Len(buf)))
      /\ pos <= entries[e].size
  BY <1>2 DEF Fit, Numbered, Place, AtSkip
<1>5. PICK k \in 0 .. num[e] - 1 : cur = way[e][k] /\ k + cnt = pos \div DataSize
  BY <1>2, <1>3 DEF Fit, Numbered, Place, AtSkip, At
<1>6. /\ pos \in Nat /\ entries[e].size \in Nat /\ cnt \in Nat
      /\ BlocksFor(pos + Len(buf)) \in Nat /\ NumBlocksOf(entries[e].size) \in Nat
      /\ num[e] \in Nat \ {0} /\ k \in Nat /\ Types(way, num) /\ Chains(way, num)
  BY <1>2, FitNumbers, FitTypes
<1>7. pos \div DataSize \in Nat /\ pos \div DataSize <= num[e]
  <2>1. /\ pos \div DataSize \in Nat /\ pos \div DataSize <= BlocksFor(entries[e].size)
        /\ BlocksFor(entries[e].size) \in Nat
        /\ NumBlocksOf(entries[e].size) >= BlocksFor(entries[e].size)
    BY <1>4, <1>6, BlockOf, NumBlocksRange
  <2> QED BY <1>4, <1>6, <2>1 DEF Larger
<1>8. \/ \E l \in 0 .. num[e] - 1 : cur' = way[e][l] /\ l + cnt' = pos \div DataSize
      \/ cur' = WILD /\ cnt' = 0 /\ pos \div DataSize = num[e]
  <2>1. CASE k + 1 < num[e]
    <3>1. index[cur] = way[e][k + 1] /\ way[e][k + 1] \in Block
      BY <1>1, <1>2, <1>5, <2>1, WalkOn
    <3>2. k + 1 \in 0 .. num[e] - 1 /\ k + 1 + cnt' = pos \div DataSize
      BY <1>3, <1>5, <1>6, <2>1
    <3>3. cur' = way[e][k + 1]
      BY <1>3, <3>1
    <3> QED BY <3>2, <3>3
  <2>2. CASE k + 1 = num[e]
    <3>1. index[cur] = END
      BY <1>1, <1>2, <1>5, <2>2, WalkOn
    <3>2. cur' = WILD
      BY <1>3, <3>1 DEF END, Block
    <3>3. cnt' = 0 /\ pos \div DataSize = num[e]
      BY <1>3, <1>5, <1>6, <1>7, <2>2
    <3> QED BY <3>2, <3>3
  <2> QED BY <1>6, <2>1, <2>2
<1>9. AtSkip(way, num)'
  BY <1>2, <1>3, <1>4, <1>8 DEF AtSkip, At
<1>10. Place(way, num)'
  BY <1>3, <1>9 DEF Place, AtSeek, AtAlloc, AtCopy, AtRead
<1>11. Chains(way, num)'
  <2>1. \A s \in Slot : Holds(s)' =>
          Holds(s) /\ entries'[s].start = entries[s].start /\ Counted(num, s)'
    BY <1>3, <1>6 DEF Chains, Counted, Holds
  <2> QED BY <1>3, <1>6, <2>1, ChainsQuiet
<1> QED BY <1>3, <1>6, <1>10, <1>11 DEF Numbered, Types

\* The size is brought up to what the file has now: its pages are counted.
LEMMA ChainsSkipDone ==
  ASSUME NEW way, NEW num, Fit(way, num), pc = "skip", SkipDone
  PROVE  pc' # "crash" /\ Numbered(way, num)'
<1>1. ent \in Slot /\ Holds(ent)
  BY WorksOnFile
<1>2. PICK e \in Slot : e = ent
  BY <1>1
<1>3. /\ cnt = 0 /\ pc' = "copy" /\ wp' = pos % DataSize
      /\ entries' = [entries EXCEPT ![e].size = Larger(pos + Len(buf), @)]
      /\ UNCHANGED <<next, index, next_entry, ent, cur, pos, buf>>
  BY <1>2 DEF SkipDone, pool
<1>4. /\ num[e] = Larger(NumBlocksOf(entries[e].size), BlocksFor(pos + Len(buf)))
      /\ pos <= entries[e].size
      /\ \/ \E k \in 0 .. num[e] - 1 : cur = way[e][k] /\ k + cnt = pos \div DataSize
         \/ pos \div DataSize = num[e]
  BY <1>2 DEF Fit, Numbered, Place, AtSkip, At
<1>5. /\ pos \in Nat /\ entries[e].size \in Nat /\ Len(buf) \in Nat /\ pos + Len(buf) \in Nat
      /\ BlocksFor(pos + Len(buf)) \in Nat /\ NumBlocksOf(entries[e].size) \in Nat
      /\ num[e] \in Nat \ {0} /\ Types(way, num) /\ Chains(way, num) /\ TableOK
  BY <1>2, FitNumbers, FitTypes
<1>6. /\ entries'[e].size = Larger(pos + Len(buf), entries[e].size)
      /\ \A s \in Slot : /\ entries'[s].start = entries[s].start
                         /\ entries'[s].name = entries[s].name
                         /\ s # e => entries'[s].size = entries[s].size
  BY <1>3, <1>5 DEF TableOK, Entry
<1>7. num[e] = NumBlocksOf(entries'[e].size)
  BY <1>4, <1>5, <1>6, NumLarger
<1>8. Chains(way, num)'
  <2>1. \A s \in Slot : Holds(s)' => Holds(s)
    BY <1>3, <1>6 DEF Holds
  <2>2. \A s \in Slot : Holds(s)' => Counted(num, s)'
    BY <1>2, <1>3, <1>5, <1>6, <1>7, <2>1 DEF Chains, Counted
  <2> QED BY <1>3, <1>5, <1>6, <2>1, <2>2, ChainsQuiet
<1>9. pos + Len(buf) <= entries'[e].size
  BY <1>5, <1>6 DEF Larger
<1>10. buf # <<>> => \E k \in 0 .. num[e] - 1 : cur = way[e][k] /\ k * DataSize + wp' = pos
  <2> SUFFICES ASSUME buf # <<>>
               PROVE  \E k \in 0 .. num[e] - 1 : cur = way[e][k] /\ k * DataSize + wp' = pos
    OBVIOUS
  <2>1. pos < pos + Len(buf)
    <3>1. Len(buf) # 0
      BY FitTypes, EmptySeq DEF CallOK
    <3> QED BY <1>5, <3>1
  <2>2. /\ pos \div DataSize < BlocksFor(pos + Len(buf))
        /\ pos = (pos \div DataSize) * DataSize + (pos % DataSize)
        /\ pos \div DataSize \in Nat
    <3>1. PICK n \in Nat : n = pos + Len(buf)
      BY <1>5
    <3>2. pos < n /\ pos <= n
      BY <1>5, <2>1, <3>1
    <3>3. pos \div DataSize < BlocksFor(n)
      BY <1>5, <3>2, BlockOf
    <3>4. /\ pos = (pos \div DataSize) * DataSize + (pos % DataSize)
          /\ pos \div DataSize \in Nat
      BY <1>5, <3>2, BlockOf
    <3> QED BY <3>1, <3>3, <3>4
  <2>3. pos \div DataSize # num[e]
    BY <1>4, <1>5, <2>2 DEF Larger
  <2>4. PICK k \in 0 .. num[e] - 1 : cur = way[e][k] /\ k + cnt = pos \div DataSize
    BY <1>4, <2>3
  <2>5. k = pos \div DataSize
    BY <1>3, <2>2, <2>4
  <2> QED BY <1>3, <2>2, <2>4, <2>5
<1>11. AtCopy(way, num)'
  BY <1>2, <1>3, <1>9, <1>10 DEF AtCopy, At
<1>12. Place(way, num)'
  BY <1>3, <1>11 DEF Place, AtSeek, AtAlloc, AtSkip, AtRead
<1> QED BY <1>3, <1>5, <1>8, <1>12 DEF Numbered, Types

LEMMA ChainsSkip ==
  ASSUME NEW way, NEW num, Fit(way, num), Skip
  PROVE  pc' # "crash" /\ Numbered(way, num)'
<1>1. ~(cnt > 0 /\ cur = WILD)
  <2>1. pc = "skip" /\ ent \in Slot
    BY WorksOnFile DEF Skip
  <2>2. cur = WILD => cnt = 0
    <3>1. \A k \in 0 .. num[ent] - 1 : way[ent][k] \in Block
      BY <2>1, FitTypes, OnWay
    <3> QED BY <2>1, <3>1 DEF Fit, Numbered, Place, AtSkip, At, WILD, Block
  <2> QED BY <2>2
<1> QED BY <1>1, ChainsSkipBlock, ChainsSkipDone DEF Skip

\* A write never needs a page that is not there.
LEMMA TargetOnWay ==
  ASSUME NEW way, NEW num, Fit(way, num), pc = "copy", buf # <<>>
  PROVE  /\ Target \in Block
         /\ \E k \in 0 .. num[ent] - 1 :
              Target = way[ent][k]
              /\ k * DataSize + (IF wp < DataSize THEN wp ELSE 0) = pos
<1>1. ent \in Slot /\ Holds(ent)
  BY WorksOnFile
<1>2. PICK e \in Slot : e = ent
  BY <1>1
<1>3. PICK k \in 0 .. num[e] - 1 : cur = way[e][k] /\ k * DataSize + wp = pos
  BY <1>2 DEF Fit, Numbered, Place, AtCopy, At
<1>4. /\ pos \in Nat /\ entries[e].size \in Nat /\ Len(buf) \in Nat
      /\ num[e] \in Nat \ {0} /\ k \in Nat /\ wp \in 0 .. DataSize
      /\ pos + Len(buf) <= entries[e].size
      /\ num[e] = NumBlocksOf(entries[e].size)
      /\ cur \in Block
  <2>1. Counted(num, e)
    BY <1>1, <1>2, FitFile
  <2>2. num[e] = NumBlocksOf(entries[e].size)
    BY <2>1 DEF Counted
  <2>3. pos + Len(buf) <= entries[e].size
    BY <1>2 DEF Fit, Numbered, Place, AtCopy
  <2>4. wp \in 0 .. DataSize
    BY FitTypes DEF CallOK
  <2>5. cur \in Block
    BY <1>3, FitTypes, OnWay
  <2>6. pos \in Nat /\ entries[e].size \in Nat /\ Len(buf) \in Nat /\ num[e] \in Nat \ {0}
    BY <1>2, FitNumbers
  <2> QED BY <2>2, <2>3, <2>4, <2>5, <2>6
<1>5. CASE wp < DataSize
  BY <1>2, <1>3, <1>4, <1>5 DEF Target
<1>6. CASE ~(wp < DataSize)
  <2>1. wp = DataSize
    BY <1>4, <1>6
  <2>2. (k + 1) * DataSize = pos /\ DataSize * (k + 1) = pos
    <3>1. DataSize * (k + 1) = DataSize * k + DataSize
      BY <1>4, TimesPlus
    <3>2. k * DataSize = DataSize * k /\ (k + 1) * DataSize = DataSize * (k + 1)
      BY <1>4
    <3> QED BY <1>3, <2>1, <3>1, <3>2
  <2>3. Len(buf) # 0
    BY FitTypes, EmptySeq DEF CallOK
  <2>4. PICK y \in Nat : y = BlocksFor(entries[e].size)
    BY <1>4, BlocksRange
  <2>5. /\ entries[e].size <= DataSize * y /\ DataSize * y \in Int
        /\ y <= num[e]
    BY <1>4, <2>4, BlocksRange, NumBlocksRange
  <2>6. DataSize * (k + 1) < DataSize * y
    <3>1. PICK z \in Int : z = DataSize * y
      BY <2>5
    <3>2. PICK m \in Nat, p \in Nat : m = entries[e].size /\ p = pos
      BY <1>4
    <3>3. p < m
      BY <1>4, <2>3, <3>2
    <3>4. m <= z
      BY <2>5, <3>1, <3>2
    <3>5. p < z
      BY <3>3, <3>4
    <3> QED BY <2>2, <3>1, <3>2, <3>5
  <2>7. k + 1 < y
    BY <1>4, <2>6, FewerBlocks
  <2>8. k + 1 < num[e] /\ k + 1 \in 0 .. num[e] - 1
    BY <1>4, <2>5, <2>7
  <2>9. index[cur] = way[e][k + 1] /\ way[e][k + 1] \in Block
    BY <1>1, <1>2, <1>3, <2>8, WalkOn
  <2>10. Target = way[e][k + 1] /\ Target \in Block
    BY <1>4, <1>6, <2>9 DEF Target
  <2>11. (k + 1) * DataSize + (IF wp < DataSize THEN wp ELSE 0) = pos
    BY <1>4, <1>6, <2>2
  <2> QED BY <1>2, <2>8, <2>10, <2>11
<1> QED BY <1>5, <1>6

LEMMA ChainsCopy ==
  ASSUME NEW way, NEW num, Fit(way, num), Copy
  PROVE  pc' # "crash" /\ Numbered(way, num)'
<1>1. pc = "copy" /\ ent \in Slot /\ Holds(ent) /\ Types(way, num) /\ Chains(way, num)
  BY WorksOnFile, FitTypes DEF Copy
<1>2. CASE CopyDone
  BY <1>1, <1>2, SameFiles, ChainsReturn DEF Fit, CopyDone, pool
<1>3. CASE buf # <<>> /\ Target = WILD /\ Crash
  BY <1>1, <1>3, TargetOnWay DEF WILD, Block
<1>4. CASE CopyByte
  <2>1. PICK e \in Slot : e = ent
    BY <1>1
  <2>2. PICK o \in Int : o = IF wp < DataSize THEN wp ELSE 0
    BY FitTypes DEF CallOK
  <2>3. PICK k \in 0 .. num[e] - 1 : Target = way[e][k] /\ k * DataSize + o = pos
    BY <1>1, <1>4, <2>1, <2>2, TargetOnWay DEF CopyByte
  <2>4. /\ buf # <<>> /\ pc' = "copy" /\ cur' = Target /\ pos' = pos + 1
        /\ wp' = o + 1 /\ buf' = Tail(buf)
        /\ UNCHANGED <<index, free_list, entries, next_entry, ent>>
        /\ Target \in Block
    BY <1>1, <1>4, <2>2 DEF CopyByte, table
  <2>5. next' = next
    <3>1. ~Free(Target)
      BY <1>1, <2>1, <2>3, FitFile DEF Laid
    <3>2. Owned(Target)
      BY <1>1, <3>1 DEF Free, Owned
    <3> QED BY <1>4, <2>4, <3>2, FitTypes DEF CopyByte, Owned, PoolOK
  <2>6. Chains(way, num)'
    <3>1. \A s \in Slot : Holds(s)' =>
            Holds(s) /\ entries'[s].start = entries[s].start /\ Counted(num, s)'
      BY <1>1, <2>4 DEF Chains, Counted, Holds
    <3> QED BY <1>1, <2>4, <2>5, <3>1, ChainsQuiet
  <2>7. pos' + Len(buf') = pos + Len(buf)
    <3>1. buf \in Seq(Byte \cup {Junk}) /\ pos \in Nat
      BY FitTypes DEF CallOK
    <3>2. Len(Tail(buf)) = Len(buf) - 1 /\ Len(buf) \in Nat
      BY <2>4, <3>1, HeadTailProperties, LenProperties
    <3> QED BY <2>4, <3>1, <3>2
  <2>8. pos + Len(buf) <= entries[e].size
    BY <1>1, <2>1 DEF Fit, Numbered, Place, AtCopy
  <2>9. k * DataSize + wp' = pos'
    <3>1. k * DataSize \in Int /\ pos \in Nat
      BY FitNumbers
    <3> QED BY <2>3, <2>4, <3>1
  <2>10. cur' = way[e][k]
    BY <2>3, <2>4
  <2>11. AtCopy(way, num)'
    BY <2>1, <2>4, <2>7, <2>8, <2>9, <2>10 DEF AtCopy, At
  <2>12. Place(way, num)'
    BY <2>4, <2>11 DEF Place, AtSeek, AtAlloc, AtSkip, AtRead
  <2> QED BY <1>1, <2>4, <2>6, <2>12 DEF Numbered, Types
<1> QED BY <1>2, <1>3, <1>4 DEF Copy


\* The next block is printed, and the walk goes on.
LEMMA ChainsReadOn ==
  ASSUME NEW way, NEW num, Fit(way, num), ReadBlock, index[cur] # END
  PROVE  pc' # "crash" /\ Numbered(way, num)'
<1>1. pc = "read" /\ ent \in Slot /\ Holds(ent)
  BY WorksOnFile DEF ReadBlock
<1>2. PICK e \in Slot : e = ent
  BY <1>1
<1>3. PICK k \in 0 .. num[e] - 1 :
        cur = way[e][k] /\ cnt + k * DataSize = entries[e].size /\ Len(buf) = k * DataSize
  BY <1>1, <1>2 DEF Fit, Numbered, Place, AtRead, At
<1>4. \A p \in 0 .. Len(buf) - 1 : buf[p + 1] = data[way[e][p \div DataSize]][p % DataSize]
  BY <1>1, <1>2 DEF Fit, Numbered, Place, AtRead
<1>5. /\ num[e] \in Nat \ {0} /\ k \in Nat /\ cnt \in Nat /\ cur \in Block
      /\ entries[e].size \in Nat /\ entries[e].size <= MaxLen
      /\ Types(way, num) /\ Chains(way, num) /\ TypeInv
      /\ num[e] = NumBlocksOf(entries[e].size)
  <2>1. Counted(num, e)
    BY <1>1, <1>2, FitFile
  <2>2. num[e] = NumBlocksOf(entries[e].size)
    BY <1>1, <2>1 DEF Counted
  <2>3. cur \in Block
    BY <1>3, FitTypes, OnWay
  <2>4. k \in Nat
    OBVIOUS
  <2> QED BY <1>2, <2>2, <2>3, <2>4, FitNumbers, FitTypes
<1>6. k + 1 < num[e] /\ k + 1 \in 0 .. num[e] - 1 /\ index[cur] = way[e][k + 1]
      /\ way[e][k + 1] \in Block
  <2>1. k + 1 < num[e] \/ k + 1 = num[e]
    BY <1>5
  <2>2. k + 1 < num[e]
    BY <1>1, <1>2, <1>3, <2>1, WalkOn
  <2>3. k + 1 \in 0 .. num[e] - 1
    BY <1>5, <2>2
  <2> QED BY <1>1, <1>2, <1>3, <2>2, <2>3, WalkOn
<1>7. /\ pc' = "read" /\ cur' = way[e][k + 1] /\ buf' = Printed /\ cnt' = LessBlock(cnt)
      /\ UNCHANGED <<next, index, data, table, ent>>
  BY <1>6 DEF ReadBlock, pool, WILD, Block
<1>8. PICK z \in Nat : z = k * DataSize
  BY <1>5
<1>9. PICK size \in Nat : size = entries[e].size
  BY <1>5
<1>10. cnt + z = size /\ z + DataSize < size /\ size <= MaxLen
  BY <1>3, <1>5, <1>6, <1>8, <1>9, FullBlock
<1>11. cnt' = cnt - DataSize /\ ~(cnt < DataSize)
  <2>1. PICK c \in Nat : c = cnt
    BY <1>5
  <2>2. DataSize \in Nat /\ MaxLen \in Nat
    BY PoolAssumption, BoundAssumption
  <2>3. c + z = size /\ z + DataSize < size /\ size <= MaxLen
    BY <1>10, <2>1
  <2>4. c \in DataSize .. MaxLen /\ ~(c < DataSize)
    BY <2>2, <2>3
  <2>5. LessBlock(c) = c - DataSize
    BY <2>4 DEF LessBlock
  <2> QED BY <1>7, <2>1, <2>4, <2>5
<1>12. (k + 1) * DataSize = z + DataSize
  <2>1. DataSize * (k + 1) = DataSize * k + DataSize * 1
    BY <1>5, TimesPlus
  <2> QED BY <1>5, <1>8, <2>1
<1>13. /\ Len(Printed) = z + DataSize
       /\ \A p \in 1 .. z : Printed[p] = buf[p]
       /\ \A o \in 0 .. DataSize - 1 : Printed[z + o + 1] = data[cur][o]
  <2>1. Len(buf) = z /\ z + DataSize <= MaxLen
    BY <1>3, <1>8, <1>10
  <2>2. DataSize \in Nat /\ DataSize = IF cnt < DataSize THEN cnt ELSE DataSize
    BY <1>11
  <2> QED BY <1>5, <2>1, <2>2, PrintedIs
<1>14. ASSUME NEW p \in 0 .. z + DataSize - 1
       PROVE  Printed[p + 1] = data[way[e][p \div DataSize]][p % DataSize]
  <2>1. CASE p < z
    <3>1. p \in 0 .. Len(buf) - 1 /\ p + 1 \in 1 .. z
      BY <1>3, <1>8, <2>1
    <3> QED BY <1>4, <1>13, <3>1
  <2>2. CASE ~(p < z)
    <3>1. PICK o \in Offset : o = p - z
      BY <2>2 DEF Offset
    <3>2. p = k * DataSize + o /\ p + 1 = z + o + 1 /\ o \in 0 .. DataSize - 1
      BY <1>8, <3>1 DEF Offset
    <3>3. p \div DataSize = k /\ p % DataSize = o
      BY <1>5, <3>2, DigitsOf
    <3>4. Printed[z + o + 1] = data[cur][o]
      BY <1>13, <3>2
    <3> QED BY <1>3, <3>2, <3>3, <3>4
  <2> QED BY <2>1, <2>2
<1>15. AtRead(way, num)'
  <2>1. Len(buf') = z + DataSize /\ cnt' + (k + 1) * DataSize = entries'[e].size
    BY <1>5, <1>7, <1>9, <1>10, <1>11, <1>12, <1>13 DEF table
  <2>2. \A p \in 0 .. Len(buf') - 1 :
          buf'[p + 1] = data'[way[e][p \div DataSize]][p % DataSize]
    BY <1>7, <1>13, <1>14
  <2>3. At(way, num, k + 1)'
    BY <1>2, <1>6, <1>7 DEF At
  <2>4. Len(buf') = (k + 1) * DataSize
    BY <1>12, <2>1
  <2> QED BY <1>2, <1>6, <1>7, <2>1, <2>2, <2>3, <2>4 DEF AtRead
<1>16. Place(way, num)'
  BY <1>7, <1>15 DEF Place, AtSeek, AtAlloc, AtSkip, AtCopy
<1>17. Chains(way, num)'
  BY <1>1, <1>7, ChainsRead DEF Fit
<1> QED BY <1>5, <1>7, <1>16, <1>17 DEF Numbered, Types

LEMMA ChainsReadBlock ==
  ASSUME NEW way, NEW num, Fit(way, num), ReadBlock
  PROVE  pc' # "crash" /\ Numbered(way, num)'
<1>1. CASE index[cur] = END
  BY <1>1, SameFiles, ChainsReturn DEF Fit, ReadBlock, pool
<1> QED BY <1>1, ChainsReadOn

\* The page that fs_delete pushes is on nobody's way.
\* The page that fs_delete is about to push is on no file's way.
LEMMA CursorApart ==
  ASSUME NEW way, NEW num, Fit(way, num), pc = "delete", NEW s \in Slot, Holds(s),
         NEW k \in 0 .. num[s] - 1
  PROVE  way[s][k] \in Block /\ way[s][k] # cur /\ ~Free(way[s][k])
<1>1. Laid(way, num, s) /\ Types(way, num)
  BY FitFile, FitTypes
<1>2. k \in Nat /\ way[s][k] \in Block
  BY <1>1, OnWay
<1>3. CASE k = 0
  BY <1>1, <1>2, <1>3 DEF Fit, Structure, CursorUnclaimed, Laid
<1>4. CASE k # 0
  <2>1. k \in 1 .. num[s] - 1 /\ k - 1 \in 0 .. num[s] - 1
    BY <1>1, <1>2, <1>4, OnWay
  <2>2. index[way[s][k - 1]] = way[s][k] /\ ~Free(way[s][k - 1]) /\ way[s][k - 1] \in Block
    BY <1>1, <2>1, OnWay DEF Laid
  <2>3. Owned(way[s][k - 1])
    BY <2>2 DEF Free, Owned
  <2> QED BY <1>1, <1>2, <2>2, <2>3 DEF Fit, Structure, CursorUnclaimed, Laid
<1> QED BY <1>3, <1>4

LEMMA ChainsDeleteBlock ==
  ASSUME NEW way, NEW num, Fit(way, num), pc = "delete", DeleteBlock, Sound'
  PROVE  pc' # "crash" /\ Numbered(way, num)'
<1>1. cur \in Block /\ Owned(cur) /\ Types(way, num) /\ Chains(way, num) /\ PoolOK /\ free_list # WILD
  BY FitTypes DEF Fit, Structure, CursorOwned, Locals, FreeListDisjoint
<1>2. PICK how \in DeleteReads :
        /\ cur' = DeleteNext(how)
        /\ pc' = IF DeleteNext(how) = WILD THEN "crash" ELSE "delete"
        /\ Happened("reread", how = "reread")
  BY DEF DeleteBlock
<1>3. how = "kept"
  BY <1>2 DEF Happened, Sound
<1>4. pc' = "delete"
  <2>1. index[cur] \in Block
    BY <1>1 DEF DeleteBlock, Fit, Structure, ViewsAgree
  <2> QED BY <1>2, <1>3, <2>1 DEF DeleteNext, WILD, Block
<1>5. PICK c \in Block : c = cur
  BY <1>1
<1>6. /\ next' = [next EXCEPT ![c] = free_list]
      /\ index' = [index EXCEPT ![c] = AsIndex(free_list)]
      /\ UNCHANGED <<entries, next_entry, ent>>
  BY <1>5 DEF DeleteBlock, SetNext, table
<1>7. \A b \in Block : b # c => (Free(b)' => Free(b)) /\ index'[b] = index[b]
  BY <1>1, <1>4, <1>6 DEF Free, PoolOK
<1>8. \A s \in Slot : Holds(s)' => Holds(s) /\ entries'[s] = entries[s]
  BY <1>4, <1>6 DEF Holds
<1>9. ASSUME NEW s \in Slot, Holds(s)
      PROVE  \A k \in 0 .. num[s] - 1 : way[s][k] \in Block /\ way[s][k] # c /\ ~Free(way[s][k])
  BY <1>5, <1>9, CursorApart
<1>10. ASSUME NEW s \in Slot, Holds(s)'
       PROVE  Laid(way, num, s)' /\ Ended(way, num, s)' /\ Counted(num, s)'
  <2>1. Holds(s) /\ entries'[s] = entries[s]
    BY <1>8, <1>10
  <2>2. Laid(way, num, s) /\ Ended(way, num, s) /\ Counted(num, s)
    BY <2>1, FitFile
  <2>3. /\ \A k \in 0 .. num[s] - 1 : ~Free(way[s][k])' /\ index'[way[s][k]] = index[way[s][k]]
        /\ \A k \in 1 .. num[s] - 1 : k - 1 \in 0 .. num[s] - 1
        /\ num[s] - 1 \in 0 .. num[s] - 1
    BY <1>1, <1>7, <1>9, <2>1, OnWay
  <2>4. Laid(way, num, s)'
    BY <2>1, <2>2, <2>3 DEF Laid
  <2> QED BY <1>4, <2>1, <2>2, <2>3, <2>4 DEF Ended, Counted
<1>11. Apart(way, num)'
  BY <1>1, <1>8 DEF Chains, Apart
<1>12. Chains(way, num)'
  BY <1>10, <1>11 DEF Chains
<1> QED BY <1>1, <1>4, <1>12, NoPlace DEF Numbered, Types

LEMMA ChainsDelete ==
  ASSUME NEW way, NEW num, Fit(way, num), Delete, Sound'
  PROVE  pc' # "crash" /\ Numbered(way, num)'
<1>1. CASE DeleteBlock
  BY <1>1, ChainsDeleteBlock DEF Delete
<1>2. CASE DeleteDone
  <2>1. \A s \in Slot : s # ent => entries'[s] = entries[s]
    BY <1>2, FitTypes DEF DeleteDone, TableOK, CallOK
  <2>2. entries'[ent].name = NoName
    BY <1>2, FitTypes DEF DeleteDone, TableOK, CallOK
  <2>3. \A s \in Slot : Holds(s)' => Holds(s) /\ entries'[s].start = entries[s].start
                                     /\ entries'[s].size = entries[s].size
    BY <1>2, <2>1, <2>2 DEF DeleteDone, Holds
  <2> QED BY <1>2, <2>3, ChainsReturn DEF Fit, Delete, DeleteDone, pool
<1> QED BY <1>1, <1>2 DEF Delete

LEMMA ChainsRename ==
  ASSUME NEW way, NEW num, Fit(way, num), NEW old \in Name, NEW new \in Name,
         fs_rename(old, new), Sound'
  PROVE  pc' # "crash" /\ Numbered(way, num)'
<1>1. \A s \in Slot : Holds(s)' => Holds(s) /\ entries'[s].start = entries[s].start
                                   /\ entries'[s].size = entries[s].size
  <2>1. CASE UNCHANGED entries
    BY <2>1, SameFiles DEF fs_rename, table
  <2>2. ASSUME NEW s \in First(Named(old)), entries' = [entries EXCEPT ![s].name = new],
               NoName \notin {old, new}
        PROVE  \A t \in Slot : Holds(t)' => Holds(t) /\ entries'[t].start = entries[t].start
                                            /\ entries'[t].size = entries[t].size
    BY <2>2, FoundSlot, FitTypes
       DEF fs_rename, Return, Holds, TypeInv, TypeOK, TableOK, Entry
  <2> QED BY <2>1, <2>2 DEF fs_rename, Sound
<1> QED BY <1>1, ChainsReturn DEF Fit, fs_rename, pool

LEMMA ChainsOpen ==
  ASSUME NEW way, NEW num, Fit(way, num), NEW n \in Name, fs_open(n)
  PROVE  Goes(way, num)
<1>1. CASE OpenRefused(n) \/ OpenExisting(n)
  <2>1. pc' # "crash" /\ Numbered(way, num)'
    BY <1>1, SameFiles, ChainsReturn DEF Fit, fs_open, OpenRefused, OpenExisting, pool
  <2> QED BY <2>1, GoesOn
<1>2. CASE OpenNew(n)
  BY <1>2, ChainsOpenNew DEF fs_open
<1>3. CASE OpenWild(n)
  BY <1>3 DEF OpenWild, Fit, Structure, FreeListDisjoint
<1> QED BY <1>1, <1>2, <1>3 DEF fs_open

LEMMA ChainsReadBegin ==
  ASSUME NEW way, NEW num, Fit(way, num), NEW d \in Fd, fs_read(d)
  PROVE  pc' # "crash" /\ Numbered(way, num)'
<1>1. CASE find_fd(d) = NULL
  BY <1>1, SameFiles, ChainsReturn DEF Fit, fs_read, pool
<1>2. CASE find_fd(d) # NULL
  <2>1. /\ pc = "idle" /\ pc' = "read" /\ UNCHANGED <<next, index, data, table, buf>>
        /\ ent' = find_fd(d) /\ cnt' = entries[find_fd(d)].size
        /\ cur' = entries[find_fd(d)].start
    BY <1>2 DEF fs_read, pool
  <2>2. PICK e \in Slot : e = find_fd(d) /\ Holds(e)
    BY <1>2, <2>1, DescribedFile DEF Fit
  <2>3. Chains(way, num)' /\ Types(way, num)
    BY <2>1, ChainsRead DEF Fit
  <2>4. Laid(way, num, e) /\ 0 \in 0 .. num[e] - 1 /\ entries[e].size \in Nat
    BY <2>2, <2>3, FitFile, FitTypes, OnWay DEF TableOK, Entry
  <2>5. buf' = <<>> /\ Len(buf') = 0
    BY <2>1, EmptySeq DEF Fit, Numbered, Place
  <2>6. At(way, num, 0)'
    BY <2>1, <2>2, <2>4 DEF At, Laid
  <2>7. cnt' + 0 * DataSize = entries'[e].size /\ Len(buf') = 0 * DataSize
    <3>1. 0 * DataSize = 0
      OBVIOUS
    <3>2. cnt' = entries'[e].size /\ cnt' \in Nat
      BY <2>1, <2>2, <2>4 DEF table
    <3> QED BY <2>5, <3>1, <3>2
  <2>8. AtRead(way, num)'
    BY <2>1, <2>2, <2>4, <2>5, <2>6, <2>7 DEF AtRead
  <2>9. Place(way, num)'
    BY <2>1, <2>8 DEF Place, AtSeek, AtAlloc, AtSkip, AtCopy
  <2> QED BY <2>1, <2>3, <2>9 DEF Numbered, Types
<1> QED BY <1>1, <1>2

LEMMA ChainsDeleteBegin ==
  ASSUME NEW way, NEW num, Fit(way, num), NEW d \in Fd, fs_delete(d)
  PROVE  pc' # "crash" /\ Numbered(way, num)'
<1>1. CASE find_fd(d) = NULL
  BY <1>1, SameFiles, ChainsReturn DEF Fit, fs_delete, pool
<1>2. CASE find_fd(d) # NULL
  <2>1. pc = "idle" /\ pc' = "delete" /\ UNCHANGED <<next, index, table>>
    BY <1>2 DEF fs_delete, pool
  <2>2. Chains(way, num)' /\ Types(way, num)
    BY <2>1, ChainsRead DEF Fit
  <2> QED BY <2>1, <2>2, NoPlace DEF Numbered, Types
<1> QED BY <1>1, <1>2

LEMMA ChainsAlloc ==
  ASSUME NEW way, NEW num, Fit(way, num), Alloc, Sound'
  PROVE  Goes(way, num)
<1>1. CASE AllocFails
  BY <1>1, ChainsAllocFails, GoesOn DEF Alloc
<1>2. CASE AllocBlock
  BY <1>2, ChainsAllocBlock DEF Alloc
<1>3. free_list # WILD
  BY DEF Fit, Structure, FreeListDisjoint
<1> QED BY <1>1, <1>2, <1>3 DEF Alloc

LEMMA ChainsInit == Init => ChainInv
<1> SUFFICES ASSUME Init PROVE HasChains /\ pc # "crash"
  BY DEF ChainInv
<1>1. PICK way \in [Slot -> [Nat -> Block]] : \A s \in Slot : \A k \in Nat : way[s][k] = 0
  <2>1. [s \in Slot |-> [k \in Nat |-> 0]] \in [Slot -> [Nat -> Block]]
    BY DEF Block
  <2> QED BY <2>1
<1>2. PICK num \in [Slot -> Nat \ {0}] : \A s \in Slot : num[s] = 1
  <2>1. [s \in Slot |-> 1] \in [Slot -> Nat \ {0}]
    OBVIOUS
  <2> QED BY <2>1
<1>3. \A s \in Slot : ~Holds(s)
  BY DEF Init, Holds, Slot
<1>4. Numbered(way, num)
  BY <1>1, <1>2, <1>3 DEF Numbered, Types, Chains, Apart, Place, AtSeek, AtAlloc, AtSkip, AtCopy, AtRead, Init
<1> QED BY <1>4 DEF HasChains, Init

LEMMA ChainsStutter ==
  ASSUME HasChains, UNCHANGED vars
  PROVE  HasChains'
<1>1. PICK way, num : Numbered(way, num)
  BY DEF HasChains
<1>2. Types(way, num) /\ Chains(way, num) /\ Place(way, num)
  BY <1>1 DEF Numbered
<1>3. /\ \A s : Holds(s)' <=> Holds(s)
      /\ \A b : Free(b)' <=> Free(b)
      /\ UNCHANGED <<index, data, entries, pc, ent, cur, cnt, wp, pos, buf>>
  BY DEF vars, pool, table, Holds, Free
<1>4. Chains(way, num)'
  <2>1. \A s : /\ Laid(way, num, s) => Laid(way, num, s)'
               /\ Ended(way, num, s) => Ended(way, num, s)'
               /\ Counted(num, s) => Counted(num, s)'
    BY <1>3 DEF Laid, Ended, Counted
  <2>2. Apart(way, num)'
    BY <1>2, <1>3 DEF Chains, Apart
  <2> QED BY <1>2, <1>3, <2>1, <2>2 DEF Chains
<1>5. Place(way, num)'
  <2>1. AtSeek(way, num)' /\ AtAlloc(way, num)'
    BY <1>2, <1>3 DEF Place, AtSeek, AtAlloc, At
  <2>2. AtSkip(way, num)' /\ AtCopy(way, num)'
    BY <1>2, <1>3 DEF Place, AtSkip, AtCopy, At
  <2>3. AtRead(way, num)'
    BY <1>2, <1>3 DEF Place, AtRead, At
  <2> QED BY <1>2, <1>3, <2>1, <2>2, <2>3 DEF Place
<1>6. Numbered(way, num)'
  BY <1>2, <1>4, <1>5 DEF Numbered, Types
<1> QED BY <1>6 DEF HasChains

\* Every step, until the next event of harm.
LEMMA ChainsNext ==
  ASSUME NEW way, NEW num, Fit(way, num), Next, Sound'
  PROVE  Goes(way, num)
<1>1. ASSUME NEW n \in Name, fs_open(n) PROVE Goes(way, num)
  BY <1>1, ChainsOpen
<1>2. ASSUME NEW d \in Fd, NEW b \in Buffer, NEW i \in 0 .. MaxLen, fs_write_at(d, i, b)
      PROVE  Goes(way, num)
  BY <1>2, ChainsWriteAt, GoesOn
<1>3. ASSUME NEW d \in Fd, NEW b \in Buffer, fs_write(d, b) \/ fs_append(d, b)
      PROVE  Goes(way, num)
  BY <1>3, ChainsWrite, GoesOn
<1>4. ASSUME NEW d \in Fd, fs_read(d) \/ fs_delete(d) PROVE Goes(way, num)
  BY <1>4, ChainsReadBegin, ChainsDeleteBegin, GoesOn
<1>5. ASSUME NEW old \in Name, NEW new \in Name, fs_rename(old, new) PROVE Goes(way, num)
  BY <1>5, ChainsRename, GoesOn
<1>6. CASE Begin
  BY <1>1, <1>2, <1>3, <1>4, <1>5, <1>6 DEF Begin
<1>7. Seek => Goes(way, num)
  BY ChainsSeek, GoesOn
<1>8. Alloc => Goes(way, num)
  BY ChainsAlloc
<1>9. Skip => Goes(way, num)
  BY ChainsSkip, GoesOn
<1>10. Copy => Goes(way, num)
  BY ChainsCopy, GoesOn
<1>11. ReadBlock => Goes(way, num)
  BY ChainsReadBlock, GoesOn
<1>12. Delete => Goes(way, num)
  BY ChainsDelete, GoesOn
<1> QED BY <1>6, <1>7, <1>8, <1>9, <1>10, <1>11, <1>12 DEF Next, Step

LEMMA ChainsStep == TypeInv /\ IInv /\ ChainInv /\ [Next]_vars => ChainInv'
<1> SUFFICES ASSUME TypeInv, IInv, ChainInv, [Next]_vars, Sound'
             PROVE  pc' # "crash" /\ HasChains'
  BY DEF ChainInv
<1>1. Sound /\ pc # "crash" /\ HasChains
  BY SoundBefore DEF ChainInv
<1>2. CASE UNCHANGED vars
  BY <1>1, <1>2, ChainsStutter DEF vars
<1>3. CASE Next
  <2>1. PICK way, num : Numbered(way, num)
    BY <1>1 DEF HasChains
  <2>2. Goes(way, num)
    BY <1>1, <1>3, <2>1, ChainsNext DEF Fit, IInv
  <2> QED BY <2>2 DEF Goes, HasChains
<1> QED BY <1>2, <1>3

THEOREM ChainsInductive == Spec => []ChainInv
  BY ChainsInit, ChainsStep, Inductive, PTL DEF Spec

\* No call of the file system leaves the pool, unless an event of harm has
\* happened: every index and every pointer that one of the loops follows is
\* that of a page.
THEOREM NothingCrashes == Spec => []NoCrash
<1>1. ChainInv => NoCrash
  BY DEF ChainInv, NoCrash
<1> QED BY <1>1, ChainsInductive, PTL


-----------------------------------------------------------------------------
(* The property speaks of the chain that the indices make.                 *)

\* A file has no more pages than there are.
LEMMA PagesBound ==
  ASSUME NEW way, NEW num, Types(way, num), Apart(way, num), NEW s \in Slot, Holds(s)
  PROVE  num[s] <= NumBlocks
<1>1. PICK n \in Nat \ {0} : n = num[s]
  BY OnWay
<1>2. IsFiniteSet(0 .. n - 1) /\ Cardinality(0 .. n - 1) = n
  BY FS_Interval
<1>3. IsFiniteSet(Block) /\ Cardinality(Block) = NumBlocks
  BY FS_Interval DEF Block
<1> DEFINE f == [k \in 0 .. n - 1 |-> way[s][k]]
<1>4. f \in [0 .. n - 1 -> Block]
  BY <1>1, OnWay
<1>5. \A k, l \in 0 .. n - 1 : f[k] = f[l] => k = l
  BY <1>1 DEF Apart
<1> HIDE DEF f
<1>6. ~(NumBlocks < n)
  <2>1. SUFFICES ASSUME Cardinality(Block) < Cardinality(0 .. n - 1) PROVE FALSE
    BY <1>2, <1>3
  <2>2. \E k, l \in 0 .. n - 1 : k # l /\ f[k] = f[l]
    BY Zenon, <2>1, <1>2, <1>3, <1>4, FS_PigeonHole
  <2> QED BY <2>2, <1>5
<1> QED BY <1>1, <1>6

\* The pages that links lead to are there, whatever the links are.
LEMMA Follows ==
  ASSUME NEW f, NEW b, NEW k \in 0 .. NumBlocks
  PROVE  Follow(f, b)[k] = IF k = 0 THEN b
                           ELSE IF Follow(f, b)[k - 1] \in Block THEN f[Follow(f, b)[k - 1]]
                           ELSE Follow(f, b)[k - 1]
<1> DEFINE After(c, i) ==
             IF i = 0 THEN b ELSE IF c[i - 1] \in Block THEN f[c[i - 1]] ELSE c[i - 1]
           Partial(c, m) == \A i \in 0 .. m : c[i] = After(c, i)
           IsChain(c) == c = [i \in 0 .. NumBlocks |-> After(c, i)]
           None == {m \in Nat : ~ \E c : Partial(c, m)}
<1>1. Follow(f, b) = CHOOSE c : IsChain(c)
  BY DEF Follow
<1>2. None = {}
  <2>1. SUFFICES ASSUME None # {} PROVE FALSE
    OBVIOUS
  <2>2. PICK x \in None : \A y \in None : x <= y
    <3>1. None \in SUBSET Nat
      OBVIOUS
    <3> HIDE DEF None
    <3> QED BY <3>1, <2>1, Least
  <2>3. x \in Nat /\ ~ \E c : Partial(c, x)
    OBVIOUS
  <2>4. CASE x = 0
    <3> DEFINE c == [i \in 0 .. 0 |-> b]
    <3>1. Partial(c, 0)
      OBVIOUS
    <3> QED BY <2>3, <2>4, <3>1
  <2>5. CASE x # 0
    <3>1. x - 1 \in Nat /\ x - 1 \notin None
      BY <2>2, <2>3, <2>5
    <3>2. PICK c : Partial(c, x - 1)
      BY <3>1
    <3>3. PICK z : z = After(c, x)
      OBVIOUS
    <3> DEFINE d == [i \in 0 .. x |-> IF i = x THEN z ELSE c[i]]
    <3>4. \A i \in 0 .. x - 1 : d[i] = c[i]
      BY <2>3
    <3>5. d[x] = z
      BY <2>3
    <3> HIDE DEF d
    <3>6. \A i \in 0 .. x - 1 : d[i] = After(d, i)
      BY <2>3, <3>2, <3>4
    <3>7. d[x] = After(d, x)
      BY <2>3, <2>5, <3>3, <3>4, <3>5
    <3>8. Partial(d, x)
      BY <2>3, <3>6, <3>7
    <3> QED BY <2>3, <3>8
  <2> QED BY <2>4, <2>5
<1>3. PICK c : Partial(c, NumBlocks)
  BY <1>2
<1> DEFINE w == [i \in 0 .. NumBlocks |-> c[i]]
<1>4. \A i \in 0 .. NumBlocks : w[i] = After(w, i)
  BY <1>3
<1>5. w = [i \in 0 .. NumBlocks |-> w[i]]
  OBVIOUS
<1> HIDE DEF w, After
<1>6. w = [i \in 0 .. NumBlocks |-> After(w, i)]
  BY <1>4, <1>5
<1>7. IsChain(w)
  BY <1>6
<1> HIDE DEF IsChain
<1>8. IsChain(Follow(f, b))
  BY <1>1, <1>7
<1>9. PICK v : v = Follow(f, b)
  OBVIOUS
<1>10. v = [i \in 0 .. NumBlocks |-> After(v, i)]
  BY <1>8, <1>9 DEF IsChain
<1>11. v[k] = After(v, k)
  BY <1>10
<1> QED BY <1>9, <1>11 DEF After

LEMMA ChainFollows ==
  ASSUME NEW b, NEW k \in 0 .. NumBlocks
  PROVE  Chain(b)[k] = IF k = 0 THEN b
                       ELSE IF Chain(b)[k - 1] \in Block THEN index[Chain(b)[k - 1]]
                       ELSE Chain(b)[k - 1]
BY Follows DEF Chain

\* The chain that starts at the first page of a file is the way through it,
LEMMA ChainWay ==
  ASSUME NEW way, NEW num, Fit(way, num), NEW s \in Slot, Holds(s), NEW k \in 0 .. num[s] - 1
  PROVE  k \in 0 .. NumBlocks - 1 /\ Chain(entries[s].start)[k] = way[s][k]
<1>1. PICK n \in Nat \ {0} : n = num[s]
  BY FitTypes, OnWay
<1>2. PICK c : c = Chain(entries[s].start)
  OBVIOUS
<1>3. n <= NumBlocks
  BY <1>1, FitTypes, PagesBound
<1>4. \A i \in 0 .. n - 1 : c[i] = IF i = 0 THEN entries[s].start
                            ELSE IF c[i - 1] \in Block THEN index[c[i - 1]] ELSE c[i - 1]
  <2>1. \A i \in 0 .. n - 1 : i \in 0 .. NumBlocks
    BY <1>3
  <2> QED BY <1>2, <2>1, ChainFollows
<1>5. /\ way[s][0] = entries[s].start
      /\ \A i \in 0 .. n - 1 : way[s][i] \in Block
      /\ \A i \in 1 .. n - 1 : index[way[s][i - 1]] = way[s][i]
  BY <1>1, FitFile, FitTypes, OnWay DEF Laid
<1>6. \A i \in 0 .. n - 1 : c[i] = way[s][i]
  <2> DEFINE D == {i \in 0 .. n - 1 : c[i] # way[s][i]}
  <2>1. SUFFICES ASSUME D # {} PROVE FALSE
    OBVIOUS
  <2>2. PICK x \in D : \A y \in D : x <= y
    <3>1. D \in SUBSET Nat
      OBVIOUS
    <3> HIDE DEF D
    <3> QED BY <3>1, <2>1, Least
  <2>3. x \in 0 .. n - 1 /\ c[x] # way[s][x]
    OBVIOUS
  <2>4. CASE x = 0
    BY <1>4, <1>5, <2>3, <2>4
  <2>5. CASE x # 0
    <3>1. x - 1 \in 0 .. n - 1 /\ x \in 1 .. n - 1 /\ x - 1 \notin D
      BY <2>2, <2>3, <2>5
    <3>2. c[x - 1] = way[s][x - 1] /\ way[s][x - 1] \in Block
      BY <1>5, <3>1
    <3> QED BY <1>4, <1>5, <2>3, <2>5, <3>1, <3>2
  <2> QED BY <2>4, <2>5
<1> QED BY <1>1, <1>2, <1>3, <1>6

\* and behind the last page it is at the end.
LEMMA ChainEnd ==
  ASSUME NEW way, NEW num, Fit(way, num), pc = "idle", NEW s \in Slot, Holds(s)
  PROVE  num[s] \in 1 .. NumBlocks /\ Chain(entries[s].start)[num[s]] = END
<1>1. PICK n \in Nat \ {0} : n = num[s]
  BY FitTypes, OnWay
<1>2. n - 1 \in 0 .. n - 1 /\ n <= NumBlocks /\ way[s][n - 1] \in Block
  BY <1>1, FitTypes, OnWay, PagesBound
<1>3. Chain(entries[s].start)[n - 1] = way[s][n - 1]
  BY <1>1, <1>2, ChainWay
<1>4. index[way[s][n - 1]] = END
  <2>1. n - 1 + 1 = n
    OBVIOUS
  <2> QED BY <1>1, <1>2, <2>1, WalkOn
<1>5. n \in 0 .. NumBlocks /\ n # 0
  BY <1>2
<1> QED BY <1>1, <1>2, <1>3, <1>4, <1>5, ChainFollows

\* Between calls a file has exactly the pages its size asks for, one behind
\* the other and ended by the mark, for every pool, table and history of
\* calls without an event of harm: every walk finds its page and ends.
THEOREM SizesAreKept == Spec => []ChainsMatchSizes
<1>1. TypeInv /\ IInv /\ ChainInv => ChainsMatchSizes
  <2> SUFFICES ASSUME TypeInv, IInv, ChainInv, Sound, pc = "idle", NEW s \in Slot, Holds(s)
               PROVE  /\ Chain(entries[s].start)[NumBlocksOf(entries[s].size)] = END
                      /\ Chain(entries[s].start)[NumBlocksOf(entries[s].size) - 1] \in Block
    BY DEF ChainsMatchSizes
  <2>1. PICK way, num : Numbered(way, num)
    BY DEF ChainInv, HasChains
  <2>2. Fit(way, num)
    BY <2>1 DEF Fit, IInv
  <2>3. num[s] = NumBlocksOf(entries[s].size)
    BY <2>2, FitFile DEF Counted
  <2>4. num[s] - 1 \in 0 .. num[s] - 1 /\ way[s][num[s] - 1] \in Block
    BY <2>2, FitTypes, OnWay
  <2>5. /\ Chain(entries[s].start)[num[s]] = END
        /\ Chain(entries[s].start)[num[s] - 1] = way[s][num[s] - 1]
    BY <2>2, <2>4, ChainWay, ChainEnd
  <2> QED BY <2>3, <2>4, <2>5
<1> QED BY <1>1, Inductive, ChainsInductive, PTL

-----------------------------------------------------------------------------
(* What fs.c promises: FileStore.  A file's bytes, read along its way.     *)

\* A byte that fs_write_at has counted but not copied yet is still in buf.
TextOf(way, s) ==
  /\ Bytes(s) \in Seq(Byte \cup {Junk})
  /\ Len(Bytes(s)) = entries[s].size
  /\ \A p \in 1 .. entries[s].size :
       Bytes(s)[p] = IF Pending(s, p - 1) THEN buf[p - pos]
                     ELSE data[way[s][(p - 1) \div DataSize]][(p - 1) % DataSize]

Readable == \A way, num : Fit(way, num) => \A s \in Slot : Holds(s) => TextOf(way, s)

\* Also while a write adds pages, a file has those that its size asks for.
LEMMA InSize ==
  ASSUME NEW way, NEW num, Fit(way, num), NEW s \in Slot, Holds(s),
         NEW p \in 1 .. entries[s].size
  PROVE  (p - 1) \div DataSize \in 0 .. num[s] - 1 /\ (p - 1) % DataSize \in Offset
<1>1. PICK size \in Nat : size = entries[s].size
  BY FitTypes DEF TableOK, Entry
<1>2. PICK n \in Nat \ {0} : n = num[s]
  BY FitTypes, OnWay
<1>3. n >= NumBlocksOf(size)
  <2>1. CASE num[s] = NumBlocksOf(size)
    BY <1>1, <1>2, <2>1, NumBlocksRange
  <2>2. CASE num[s] # NumBlocksOf(size)
    <3>1. pc \in {"seek", "alloc", "skip"} /\ s = ent
      BY <1>1, <2>2, FitFile DEF Counted
    <3>2. BlocksFor(pos + Len(buf)) \in Nat /\ NumBlocksOf(size) \in Nat
      BY <1>1, FitNumbers, NumBlocksRange
    <3>3. num[s] >= NumBlocksOf(size)
      BY <1>1, <3>1, <3>2 DEF Fit, Numbered, Place, AtSeek, AtAlloc, AtSkip, Larger
    <3> QED BY <1>2, <3>3
  <2> QED BY <2>1, <2>2
<1>4. p - 1 \in Nat /\ p - 1 < size /\ p - 1 <= size
  BY <1>1
<1>5. (p - 1) \div DataSize \in Nat /\ (p - 1) \div DataSize < BlocksFor(size)
  BY <1>1, <1>4, BlockOf
<1>6. BlocksFor(size) \in Nat /\ BlocksFor(size) <= NumBlocksOf(size) /\ NumBlocksOf(size) \in Nat
  BY <1>1, NumBlocksRange
<1>7. (p - 1) % DataSize \in Offset
  BY <1>4, DivNat DEF Offset
<1> QED BY <1>2, <1>3, <1>5, <1>6, <1>7

LEMMA BytesAre == Readable
<1> SUFFICES ASSUME NEW way, NEW num, Fit(way, num), NEW s \in Slot, Holds(s)
             PROVE  TextOf(way, s)
  BY DEF Readable
<1>1. PICK size \in Nat : size = entries[s].size
  BY FitTypes DEF TableOK, Entry
<1> DEFINE Text(p) == IF Pending(s, p - 1) THEN buf[p - pos]
                      ELSE data[way[s][(p - 1) \div DataSize]][(p - 1) % DataSize]
<1>2. ASSUME NEW p \in 1 .. size
      PROVE  /\ Text(p) \in Byte \cup {Junk}
             /\ Text(p) = IF Pending(s, p - 1) THEN buf[p - pos] ELSE ByteAt(s, p - 1)
  <2>1. PICK k \in 0 .. num[s] - 1 : k = (p - 1) \div DataSize
    BY <1>1, InSize
  <2>2. PICK o \in Offset : o = (p - 1) % DataSize
    BY <1>1, InSize
  <2>3. Chain(entries[s].start)[k] = way[s][k]
    BY ChainWay
  <2>4. ByteAt(s, p - 1) = data[way[s][k]][o]
    BY <2>1, <2>2, <2>3 DEF ByteAt
  <2>5. data[way[s][k]][o] \in Byte \cup {Junk}
    <3>1. way[s][k] \in Block
      BY FitTypes, OnWay
    <3> QED BY <3>1, FitTypes DEF PoolOK
  <2>6. Pending(s, p - 1) => buf[p - pos] \in Byte \cup {Junk}
    <3>1. SUFFICES ASSUME Pending(s, p - 1) PROVE buf[p - pos] \in Byte \cup {Junk}
      OBVIOUS
    <3>2. p - pos \in 1 .. Len(buf)
      BY <3>1, FitNumbers DEF Pending
    <3> QED BY <3>2, FitTypes, ElementOfSeq DEF CallOK
  <2> QED BY <2>1, <2>2, <2>4, <2>5, <2>6
<1> HIDE DEF Text
<1>3. Bytes(s) = [p \in 1 .. size |-> Text(p)]
  BY <1>1, <1>2 DEF Bytes
<1>4. Bytes(s) \in [1 .. size -> Byte \cup {Junk}] /\ \A p \in 1 .. size : Bytes(s)[p] = Text(p)
  BY <1>2, <1>3
<1>5. Bytes(s) \in Seq(Byte \cup {Junk}) /\ Len(Bytes(s)) = size
  BY <1>4
<1>6. \A p \in 1 .. size : Bytes(s)[p] = Text(p)
  BY <1>4
<1> QED BY <1>1, <1>5, <1>6 DEF TextOf, Text

-----------------------------------------------------------------------------
(* What a step shows of the files, the descriptors and the reply.          *)

Moves(way, num, way2, num2) ==
  /\ Fit(way, num) /\ Fit(way2, num2)' /\ Keeps(way, num, way2)
  /\ Readable /\ Readable'

\* A file whose pages hold what they held.
LEMMA SameBytes ==
  ASSUME NEW way, NEW num, NEW way2, NEW num2, Moves(way, num, way2, num2),
         NEW s \in Slot, Holds(s), Holds(s)', entries'[s].size = entries[s].size,
         \A p \in Nat : ~Pending(s, p), \A p \in Nat : ~Pending(s, p)',
         \A k \in 0 .. num[s] - 1 : data'[way[s][k]] = data[way[s][k]]
  PROVE  Bytes(s)' = Bytes(s)
<1>1. Fit(way, num) /\ TextOf(way, s) /\ TextOf(way2, s)'
  BY DEF Moves, Readable
<1>2. PICK size \in Nat : size = entries[s].size
  BY <1>1, FitTypes DEF TableOK, Entry
<1>3. PICK b, c : b = Bytes(s) /\ c = Bytes(s)'
  OBVIOUS
<1>4. ASSUME NEW p \in 1 .. size
      PROVE  c[p] = b[p]
  <2>1. PICK k \in 0 .. num[s] - 1 : k = (p - 1) \div DataSize
    BY <1>1, <1>2, InSize
  <2>2. PICK o : o = (p - 1) % DataSize
    OBVIOUS
  <2>a. p \in 1 .. entries[s].size /\ p \in 1 .. entries'[s].size /\ p - 1 \in Nat
    BY <1>2
  <2>b. ~Pending(s, p - 1) /\ ~Pending(s, p - 1)'
    BY <2>a
  <2>3. b[p] = data[way[s][k]][o]
    <3>1. Bytes(s)[p] = IF Pending(s, p - 1) THEN buf[p - pos]
                        ELSE data[way[s][(p - 1) \div DataSize]][(p - 1) % DataSize]
      BY <1>1, <2>a DEF TextOf
    <3> QED BY <3>1, <1>3, <2>1, <2>2, <2>b
  <2>4. c[p] = data'[way2[s][k]][o]
    BY <1>1, <1>2, <1>3, <2>1, <2>2, <2>b DEF TextOf
  <2>5. way2[s][k] = way[s][k]
    BY DEF Moves, Keeps
  <2> QED BY <2>3, <2>4, <2>5
<1>5. b \in Seq(Byte \cup {Junk}) /\ c \in Seq(Byte \cup {Junk}) /\ Len(b) = size /\ Len(c) = size
  BY <1>1, <1>2, <1>3 DEF TextOf
<1> QED BY <1>3, <1>4, <1>5, SeqEqual

LEMMA SameFile ==
  ASSUME NEW s \in Slot, (Holds(s)' <=> Holds(s)),
         Holds(s) => entries'[s].name = entries[s].name /\ Bytes(s)' = Bytes(s)
  PROVE  FileSeen(s)' = FileSeen(s)
BY DEF FileSeen

LEMMA FilesUnseen ==
  ASSUME \A s \in Slot : FileSeen(s)' = FileSeen(s)
  PROVE  FilesSeen' = FilesSeen
BY DEF FilesSeen

LEMMA HandlesUnseen ==
  ASSUME \A d \in Fd : HandleSeen(d)' = HandleSeen(d)
  PROVE  HandlesSeen' = HandlesSeen
BY DEF HandlesSeen

SeenSame ==
  FilesSeen' = FilesSeen /\ HandlesSeen' = HandlesSeen /\ UNCHANGED <<next_entry, next_fd>>

\* A step of fs.c is a step of FileStore, or shows nothing.
StoreMoves == Store!Next \/ UNCHANGED Store!vars

\* A step that leaves the bytes, the tables and the files' names alone.
LEMMA QuietSeen ==
  ASSUME NEW way, NEW num, NEW way2, NEW num2, Moves(way, num, way2, num2),
         pc \notin {"copy", "delete"}, pc' \notin {"copy", "delete"},
         UNCHANGED <<data, entries, next_entry, fd_list, next_fd>>
  PROVE  SeenSame /\ ReplySeen = ret /\ ReplySeen' = ret'
<1>1. ASSUME NEW s \in Slot PROVE FileSeen(s)' = FileSeen(s)
  <2>1. Holds(s)' <=> Holds(s)
    BY DEF Holds
  <2>2. Holds(s) => Bytes(s)' = Bytes(s)
    BY <2>1, SameBytes DEF Pending
  <2> QED BY <2>1, <2>2, SameFile
<1>2. ASSUME NEW d \in Fd PROVE HandleSeen(d)' = HandleSeen(d)
  BY DEF HandleSeen, Going, find_fd
<1> QED BY <1>1, <1>2, FilesUnseen, HandlesUnseen DEF SeenSame, ReplySeen

LEMMA StoreSame ==
  ASSUME SeenSame, ReplySeen' = ReplySeen
  PROVE  StoreMoves
BY DEF SeenSame, StoreMoves, Store!vars

\* A call that fails, and changes nothing.
LEMMA StoreFails ==
  ASSUME SeenSame,
         \/ \E d \in Fd : ReplySeen' = <<"write", FALSE>>
         \/ \E n \in Name : /\ ReplySeen' = <<"open", -1>>
                            /\ next_entry = MaxFiles \/ Store!Named(n) = {}
         \/ \E d \in Fd : ReplySeen' = <<"warning">> /\ HandlesSeen[d] = NoFile
         \/ \E old, new \in Name : ReplySeen' = <<"rename", FALSE>> /\ Store!Named(old) = {}
  PROVE  StoreMoves
<1>1. ASSUME NEW d \in Fd, ReplySeen' = <<"write", FALSE>> PROVE Store!Next
  <2>1. Store!WriteFails(d)
    BY <1>1 DEF Store!WriteFails, SeenSame
  <2> QED BY <2>1 DEF Store!Next, Store!Fd, Fd
<1>2. ASSUME NEW n \in Name, ReplySeen' = <<"open", -1>>,
             next_entry = MaxFiles \/ Store!Named(n) = {}
      PROVE  Store!Next
  <2>1. Store!OpenFails(n)
    BY <1>2 DEF Store!OpenFails, SeenSame
  <2> QED BY <2>1 DEF Store!Next
<1>3. ASSUME NEW d \in Fd, ReplySeen' = <<"warning">>, HandlesSeen[d] = NoFile
      PROVE  Store!Next
  <2>1. Store!Read(d)
    BY <1>3 DEF Store!Read, SeenSame
  <2> QED BY <2>1 DEF Store!Next, Store!Fd, Fd
<1>4. ASSUME NEW old \in Name, NEW new \in Name, ReplySeen' = <<"rename", FALSE>>,
             Store!Named(old) = {}
      PROVE  Store!Next
  <2>1. Store!Rename(old, new)
    BY <1>4 DEF Store!Rename, SeenSame
  <2> QED BY <2>1 DEF Store!Next
<1> QED BY <1>1, <1>2, <1>3, <1>4 DEF StoreMoves

\* The slots that FileStore sees under a name are those the table has.
LEMMA SeenNamed ==
  ASSUME TypeInv, NEW n \in Name, pc # "delete",
         \A s \in Slot : Holds(s) => Bytes(s) \in Seq(Byte \cup {Junk})
  PROVE  /\ Store!Named(n) \subseteq Named(n)
         /\ n # NoName => Store!Named(n) = Named(n)
<1>1. ASSUME NEW s \in Slot
      PROVE  /\ FilesSeen[s] # NoFile <=> Holds(s)
             /\ Holds(s) => FilesSeen[s].name = entries[s].name
  <2>1. FilesSeen[s] = FileSeen(s)
    BY DEF FilesSeen
  <2>2. Holds(s) => entries[s].name \in Name
    BY DEF TypeInv, TypeOK, TableOK, Entry
  <2> QED BY <2>1, <2>2, NoFileAssumption DEF FileSeen
<1>2. Store!Named(n) = {s \in Slot : Holds(s) /\ entries[s].name = n}
  BY <1>1 DEF Store!Named, Store!Slot, Slot
<1>3. next_entry \in 0 .. MaxFiles
  BY DEF TypeInv, TypeOK, TableOK
<1> QED BY <1>2, <1>3 DEF Named, Holds, Slot

LEMMA SeenBytes ==
  ASSUME NEW way, NEW num, Fit(way, num), Readable
  PROVE  \A s \in Slot : Holds(s) => Bytes(s) \in Seq(Byte \cup {Junk})
BY DEF Readable, TextOf

-----------------------------------------------------------------------------
(* Step by step.                                                           *)

LEMMA StoreOpens ==
  ASSUME NEW way, NEW num, NEW way2, NEW num2, Moves(way, num, way2, num2), Sound',
         NEW n \in Name, pc = "idle", OpenRefused(n) \/ OpenExisting(n)
  PROVE  StoreMoves
<1>1. pc' = "idle" /\ UNCHANGED <<data, entries, next_entry>> /\ TypeInv /\ Fit(way, num)
  BY FitTypes DEF OpenRefused, OpenExisting, Return, pool, table, Moves
<1>2. /\ Store!Named(n) \subseteq Named(n)
      /\ n # NoName => Store!Named(n) = Named(n)
  BY <1>1, SeenBytes, SeenNamed DEF Moves
<1>3. CASE OpenRefused(n)
  <2>1. SeenSame /\ ReplySeen' = ret' /\ ret' = <<"open", -1>>
    BY <1>1, <1>3, QuietSeen DEF OpenRefused, Return, fds
  <2>2. next_entry = MaxFiles \/ Store!Named(n) = {}
    BY <1>1, <1>2, <1>3 DEF OpenRefused, TypeInv, TypeOK, TableOK
  <2> QED BY <2>1, <2>2, StoreFails
<1>4. CASE OpenExisting(n)
  <2>1. n # NoName
    BY <1>4 DEF OpenExisting, Happened, Sound
  <2>2. PICK s \in First(Named(n)) : create_fd(s)
    BY <1>4 DEF OpenExisting
  <2>3. PICK f \in Nat : f = next_fd
    BY <1>1 DEF TypeInv, TypeOK, TableOK
  <2>4. s \in Slot /\ s \in Named(n) /\ \A t \in Named(n) : s <= t
    BY <1>1, <2>2, FoundSlot DEF First, TypeInv
  <2>5. f \in Fd /\ fd_list' = [fd_list EXCEPT ![f] = s] /\ next_fd' = f + 1
    BY <2>2, <2>3 DEF create_fd, Fd
  <2>6. ret' = <<"open", f>>
    BY <1>4, <2>3 DEF OpenExisting, Return
  <2>7. FilesSeen' = FilesSeen
    <3>1. ASSUME NEW t \in Slot PROVE FileSeen(t)' = FileSeen(t)
      <4>1. Holds(t)' <=> Holds(t)
        BY <1>1 DEF Holds
      <4>2. Holds(t) => Bytes(t)' = Bytes(t)
        BY <1>1, <4>1, SameBytes DEF Pending
      <4> QED BY <1>1, <4>1, <4>2, SameFile
    <3> QED BY <3>1, FilesUnseen
  <2>8. ASSUME NEW d \in Fd
        PROVE  HandleSeen(d)' = IF d = f THEN s ELSE HandleSeen(d)
    <3>1. fd_list \in [Fd -> Slot \cup {NULL}]
      BY <1>1 DEF TypeInv, TypeOK, TableOK
    <3>2. fd_list'[d] = IF d = f THEN s ELSE fd_list[d]
      BY <2>5, <3>1
    <3>3. s # NULL
      BY <2>4 DEF NULL, Slot
    <3> QED BY <1>1, <3>2, <3>3 DEF HandleSeen, Going, find_fd
  <2>9. HandlesSeen' = [HandlesSeen EXCEPT ![f] = s]
    BY <2>8 DEF HandlesSeen
  <2>10. ReplySeen' = <<"open", f>>
    BY <1>1, <2>6 DEF ReplySeen
  <2>11. Store!First(Store!Named(n)) = s
    <3>1. \A t \in Named(n) : t \in Int
      BY <1>1 DEF Named, TypeInv, TypeOK, TableOK
    <3>2. \A t \in Named(n) : (\A u \in Named(n) : t <= u) => t = s
      BY <2>4, <3>1
    <3> QED BY <1>2, <2>1, <2>4, <3>2 DEF Store!First
  <2>12. Store!Named(n) # {} /\ next_entry < MaxFiles
    BY <1>2, <1>4, <2>1, <2>4 DEF OpenExisting
  <2>13. Store!OpenFile(n)
    <3>1. Store!Attach(s)
      BY <2>3, <2>5, <2>9, <2>10 DEF Store!Attach, Fd
    <3> QED BY <1>1, <2>7, <2>11, <2>12, <3>1 DEF Store!OpenFile
  <2> QED BY <2>13 DEF StoreMoves, Store!Next
<1> QED BY <1>3, <1>4

LEMMA StoreCreates ==
  ASSUME NEW way, NEW num, NEW way2, NEW num2, Moves(way, num, way2, num2), Sound',
         NEW n \in Name, pc = "idle", OpenNew(n)
  PROVE  StoreMoves
<1>1. /\ TypeInv /\ Fit(way, num) /\ next_entry \in Slot /\ pc' = "idle"
      /\ UNCHANGED data /\ next_fd \in Fd /\ Fit(way2, num2)' /\ TypeInv'
  BY FitTypes DEF OpenNew, Return, Moves, Fit, TypeInv, TypeOK, TableOK, Slot, create_fd, Fd
<1>2. PICK e \in Slot : e = next_entry
  BY <1>1
<1>3. PICK f \in Fd : f = next_fd
  BY <1>1
<1>4. /\ n # NoName
      /\ next_entry' = e + 1 /\ entries'[e].name = n /\ entries'[e].size = 0
      /\ \A s \in Slot : s # e => entries'[s] = entries[s]
      /\ fd_list' = [fd_list EXCEPT ![f] = e] /\ next_fd' = f + 1
      /\ ret' = <<"open", f>>
  BY <1>1, <1>2, <1>3 DEF OpenNew, Happened, Sound, create_fd, Return, TypeInv, TypeOK, TableOK
<1>5. Store!Named(n) = {}
  <2>1. Store!Named(n) \subseteq Named(n)
    BY <1>1, SeenBytes, SeenNamed DEF Moves
  <2> QED BY <2>1 DEF OpenNew
<1>6. ASSUME NEW s \in Slot, s # e
      PROVE  FileSeen(s)' = FileSeen(s)
  <2>1. Holds(s)' <=> Holds(s)
    BY <1>1, <1>2, <1>4, <1>6 DEF Holds, Slot
  <2>2. Holds(s) => Bytes(s)' = Bytes(s)
    BY <1>1, <1>4, <1>6, <2>1, SameBytes DEF Pending
  <2> QED BY <1>4, <1>6, <2>1, <2>2, SameFile
<1>7. FileSeen(e)' = [name |-> n, bytes |-> <<>>]
  <2>1. Holds(e)'
    BY <1>1, <1>2, <1>4 DEF Holds, Slot
  <2>2. TextOf(way2, e)'
    BY <1>1, <2>1 DEF Moves, Readable
  <2>3. PICK b : b = Bytes(e)'
    OBVIOUS
  <2>4. b \in Seq(Byte \cup {Junk}) /\ Len(b) = 0
    BY <1>4, <2>2, <2>3 DEF TextOf
  <2>5. b = <<>>
    BY <2>4, EmptySeq
  <2> QED BY <1>4, <2>1, <2>3, <2>5 DEF FileSeen
<1>8. FilesSeen' = [FilesSeen EXCEPT ![e] = [name |-> n, bytes |-> <<>>]]
  BY <1>6, <1>7 DEF FilesSeen
<1>9. ASSUME NEW d \in Fd
      PROVE  HandleSeen(d)' = IF d = f THEN e ELSE HandleSeen(d)
  <2>1. fd_list \in [Fd -> Slot \cup {NULL}]
    BY <1>1 DEF TypeInv, TypeOK, TableOK
  <2>2. fd_list'[d] = IF d = f THEN e ELSE fd_list[d]
    BY <1>4, <2>1
  <2>3. e # NULL
    BY DEF NULL, Slot
  <2> QED BY <1>1, <2>2, <2>3 DEF HandleSeen, Going, find_fd
<1>10. HandlesSeen' = [HandlesSeen EXCEPT ![f] = e]
  BY <1>9 DEF HandlesSeen
<1>11. ReplySeen' = <<"open", f>>
  BY <1>1, <1>4 DEF ReplySeen
<1>12. Store!Attach(e)
  BY <1>3, <1>4, <1>10, <1>11 DEF Store!Attach, Fd
<1>13. next_entry < MaxFiles
  BY DEF OpenNew
<1>14. Store!Create(n)
  BY <1>2, <1>4, <1>5, <1>8, <1>12, <1>13 DEF Store!Create
<1> QED BY <1>14 DEF StoreMoves, Store!Next

LEMMA StoreRenames ==
  ASSUME NEW way, NEW num, NEW way2, NEW num2, Moves(way, num, way2, num2), Sound',
         NEW old \in Name, NEW new \in Name, fs_rename(old, new)
  PROVE  StoreMoves
<1>1. /\ TypeInv /\ Fit(way, num) /\ pc = "idle" /\ pc' = "idle"
      /\ UNCHANGED <<data, next_entry, fd_list, next_fd>>
  BY FitTypes DEF fs_rename, Return, Moves, pool, fds
<1>2. /\ Store!Named(old) \subseteq Named(old)
      /\ old # NoName => Store!Named(old) = Named(old)
  BY <1>1, SeenBytes, SeenNamed DEF Moves
<1>3. CASE Named(old) = {}
  <2>1. UNCHANGED entries /\ ret' = <<"rename", FALSE>>
    BY <1>3 DEF fs_rename, Return, First
  <2>2. SeenSame /\ ReplySeen' = <<"rename", FALSE>>
    BY <1>1, <2>1, QuietSeen
  <2> QED BY <1>2, <1>3, <2>2, StoreFails
<1>4. CASE Named(old) # {}
  <2>1. PICK s \in First(Named(old)) : entries' = [entries EXCEPT ![s].name = new]
    BY <1>4 DEF fs_rename
  <2>2. ret' = <<"rename", TRUE>> /\ old # NoName /\ new # NoName
    <3>1. harm' = harm \cup (IF NoName \in {old, new} THEN {"nameless"} ELSE {})
                       \cup (IF new # old /\ Named(new) # {} THEN {"shadowed"} ELSE {})
      BY <1>4 DEF fs_rename
    <3>2. NoName \notin {old, new}
      BY <3>1 DEF Sound
    <3>3. ret' = <<"rename", TRUE>>
      BY <1>4 DEF fs_rename, Return
    <3> QED BY <3>2, <3>3
  <2>3. s \in Slot /\ s \in Named(old) /\ \A t \in Named(old) : s <= t
    BY <1>1, <2>1, FoundSlot DEF First, TypeInv
  <2>4. /\ entries'[s].name = new /\ entries'[s].size = entries[s].size
        /\ \A t \in Slot : t # s => entries'[t] = entries[t]
        /\ entries[s].name = old /\ s < next_entry
    BY <1>1, <2>1, <2>3 DEF Named, TypeInv, TypeOK, TableOK, Entry
  <2>5. \A t \in Slot : Holds(t)' <=> Holds(t)
    BY <1>1, <2>2, <2>3, <2>4 DEF Holds
  <2>6. \A t \in Slot : Holds(t) => Bytes(t)' = Bytes(t)
    BY <1>1, <2>4, <2>5, SameBytes DEF Pending
  <2>7. \A t \in Slot : t # s => FileSeen(t)' = FileSeen(t)
    BY <2>4, <2>5, <2>6, SameFile
  <2>8. Holds(s) /\ Holds(s)'
    BY <1>1, <2>2, <2>4, <2>5, <2>3 DEF Holds
  <2>9. PICK b : b = Bytes(s)
    OBVIOUS
  <2>10. FileSeen(s) = [name |-> old, bytes |-> b] /\ FileSeen(s)' = [name |-> new, bytes |-> b]
    BY <2>3, <2>4, <2>6, <2>8, <2>9 DEF FileSeen
  <2>11. FilesSeen' = [FilesSeen EXCEPT ![s].name = new]
    <3>1. [FileSeen(s) EXCEPT !.name = new] = [name |-> new, bytes |-> b]
      BY <2>10
    <3>2. \A t \in Slot : FilesSeen[t] = FileSeen(t) /\ FilesSeen'[t] = FileSeen(t)'
      BY DEF FilesSeen
    <3>3. FilesSeen'[s] = [FilesSeen[s] EXCEPT !.name = new]
      BY <2>3, <2>10, <3>1, <3>2
    <3>4. \A t \in Slot : t # s => FilesSeen'[t] = FilesSeen[t]
      BY <2>7, <3>2
    <3>5. FilesSeen' = [t \in Slot |-> FilesSeen'[t]] /\ FilesSeen = [t \in Slot |-> FilesSeen[t]]
      BY DEF FilesSeen
    <3> QED BY <2>3, <3>3, <3>4, <3>5
  <2>12. HandlesSeen' = HandlesSeen
    <3>1. ASSUME NEW d \in Fd PROVE HandleSeen(d)' = HandleSeen(d)
      BY <1>1 DEF HandleSeen, Going, find_fd
    <3> QED BY <3>1, HandlesUnseen
  <2>13. ReplySeen' = <<"rename", TRUE>>
    BY <1>1, <2>2 DEF ReplySeen
  <2>14. Store!First(Store!Named(old)) = s
    <3>1. \A t \in Named(old) : t \in Int
      BY <1>1 DEF Named, TypeInv, TypeOK, TableOK
    <3>2. \A t \in Named(old) : (\A u \in Named(old) : t <= u) => t = s
      BY <2>3, <3>1
    <3> QED BY <1>2, <2>2, <2>3, <3>2 DEF Store!First
  <2>15. Store!Named(old) # {}
    BY <1>2, <2>2, <2>3
  <2>16. Store!Rename(old, new)
    BY <1>1, <2>11, <2>12, <2>13, <2>14, <2>15 DEF Store!Rename
  <2> QED BY <2>16 DEF StoreMoves, Store!Next
<1> QED BY <1>3, <1>4

-----------------------------------------------------------------------------
(* The running call's file is one that a descriptor leads to.              *)

Reached ==
  /\ pc \in {"seek", "alloc", "skip", "copy", "read"} => \E d \in Fd : fd_list[d] = ent
  /\ pc = "delete" => fd \in Fd /\ fd_list[fd] = ent
  /\ pc \in {"seek", "alloc", "skip"} => buf \in Buffer

LEMMA ReachedQuiet ==
  ASSUME Reached, UNCHANGED <<fd_list, fd, ent>>,
         \/ pc' \in {"idle", "crash"}
         \/ pc' = pc /\ (buf' = buf \/ pc \in {"copy", "read", "delete"})
         \/ pc \in {"seek", "alloc"} /\ pc' \in {"alloc", "skip"} /\ buf' = buf
         \/ pc = "skip" /\ pc' = "copy"
  PROVE  Reached'
BY DEF Reached

LEMMA ReachedIdle ==
  ASSUME pc' \in {"idle", "crash"}
  PROVE  Reached'
BY DEF Reached

LEMMA ReachedWrite ==
  ASSUME Reached, NEW d \in Fd, NEW i, NEW b \in Buffer, fs_write_at(d, i, b)
  PROVE  Reached'
<1>1. CASE WriteRefused(d, i)
  BY <1>1, ReachedIdle DEF WriteRefused, Return
<1>2. CASE WriteBegin(d, i, b)
  <2>1. fd_list'[d] = ent' /\ buf' = b /\ pc' \in {"seek", "skip"}
    BY <1>2 DEF WriteBegin, find_fd, fds
  <2> QED BY <2>1 DEF Reached
<1> QED BY <1>1, <1>2 DEF fs_write_at

LEMMA ReachedBegin ==
  ASSUME Reached, Begin
  PROVE  Reached'
<1>1. ASSUME NEW n \in Name, fs_open(n) PROVE Reached'
  BY <1>1, ReachedIdle
     DEF fs_open, OpenRefused, OpenExisting, OpenNew, OpenWild, Return, Crash
<1>2. ASSUME NEW d \in Fd, NEW b \in Buffer, fs_append(d, b) PROVE Reached'
  <2>1. CASE find_fd(d) = NULL
    BY <1>2, <2>1, ReachedIdle DEF fs_append, WriteRefused, Return
  <2>2. CASE find_fd(d) # NULL
    BY <1>2, <2>2, ReachedWrite DEF fs_append
  <2> QED BY <2>1, <2>2
<1>3. ASSUME NEW d \in Fd, fs_read(d) PROVE Reached'
  <2>1. CASE find_fd(d) = NULL
    BY <1>3, <2>1, ReachedIdle DEF fs_read, Return
  <2>2. CASE find_fd(d) # NULL
    <3>1. fd_list'[d] = ent' /\ pc' = "read"
      BY <1>3, <2>2 DEF fs_read, find_fd, fds
    <3> QED BY <3>1 DEF Reached
  <2> QED BY <2>1, <2>2
<1>4. ASSUME NEW d \in Fd, fs_delete(d) PROVE Reached'
  <2>1. CASE find_fd(d) = NULL
    BY <1>4, <2>1, ReachedIdle DEF fs_delete, Return
  <2>2. CASE find_fd(d) # NULL
    <3>1. fd_list'[d] = ent' /\ pc' = "delete" /\ fd' = d
      BY <1>4, <2>2 DEF fs_delete, find_fd, fds
    <3> QED BY <3>1 DEF Reached
  <2> QED BY <2>1, <2>2
<1>5. ASSUME NEW old \in Name, NEW new \in Name, fs_rename(old, new) PROVE Reached'
  BY <1>5, ReachedIdle DEF fs_rename, Return
<1> QED BY <1>1, <1>2, <1>3, <1>4, <1>5, ReachedWrite DEF Begin, fs_write

LEMMA ReachedStep == Reached /\ [Next]_vars => Reached'
<1> SUFFICES ASSUME Reached, [Next]_vars PROVE Reached'
  OBVIOUS
<1>1. CASE UNCHANGED vars
  BY <1>1 DEF vars, fds, Reached
<1>2. CASE Begin
  BY <1>2, ReachedBegin
<1>3. CASE Seek
  BY <1>3, ReachedQuiet DEF Seek, Crash, fds
<1>4. CASE Alloc
  BY <1>4, ReachedQuiet, ReachedIdle DEF Alloc, AllocFails, AllocBlock, Crash, Return, fds
<1>5. CASE Skip
  BY <1>5, ReachedQuiet DEF Skip, SkipBlock, SkipDone, Crash, fds
<1>6. CASE Copy
  BY <1>6, ReachedQuiet, ReachedIdle DEF Copy, CopyByte, CopyDone, Crash, Return, fds
<1>7. CASE ReadBlock
  BY <1>7, ReachedQuiet, ReachedIdle DEF ReadBlock, Return, fds
<1>8. CASE Delete
  <2>1. CASE DeleteDone
    BY <2>1, ReachedIdle DEF DeleteDone, Return
  <2>2. CASE DeleteBlock
    BY <1>8, <2>2, ReachedQuiet DEF Delete, DeleteBlock, fds
  <2> QED BY <1>8, <2>1, <2>2 DEF Delete
<1> QED BY <1>1, <1>2, <1>3, <1>4, <1>5, <1>6, <1>7, <1>8 DEF Next, Step

-----------------------------------------------------------------------------
(* The rest of the calls.                                                  *)

\* What a descriptor of the running call's file shows.
LEMMA HandleOfCall ==
  ASSUME NEW way, NEW num, Fit(way, num), Reached,
         pc \in {"seek", "alloc", "skip", "copy", "read"}
  PROVE  \E d \in Fd : HandlesSeen[d] = ent /\ ent \in Slot /\ ent # NoFile
<1>1. PICK d \in Fd : fd_list[d] = ent
  BY DEF Reached
<1>2. ent \in Slot /\ ent # NULL
  BY WorksOnFile DEF NULL, Slot
<1>3. HandlesSeen[d] = ent
  BY <1>1, <1>2 DEF HandlesSeen, HandleSeen, Going, find_fd
<1> QED BY <1>2, <1>3, NoFileAssumption

\* fs_read has printed the bytes of the file.
LEMMA StorePrints ==
  ASSUME NEW way, NEW num, NEW way2, NEW num2, Moves(way, num, way2, num2), Reached,
         ReadBlock, index[cur] = END
  PROVE  StoreMoves
<1>1. /\ Fit(way, num) /\ TypeInv /\ pc = "read" /\ pc' = "idle" /\ ret' = <<"read", Printed>>
      /\ UNCHANGED <<data, entries, next_entry, fd_list, next_fd>>
  BY FitTypes DEF Moves, ReadBlock, Return, pool, table, fds
<1>2. PICK e \in Slot : e = ent /\ Holds(e)
  BY <1>1, WorksOnFile
<1>3. PICK d \in Fd : HandlesSeen[d] = e /\ e # NoFile
  BY <1>1, <1>2, HandleOfCall
<1>4. PICK k \in 0 .. num[e] - 1 :
        cur = way[e][k] /\ cnt + k * DataSize = entries[e].size /\ Len(buf) = k * DataSize
  BY <1>1, <1>2 DEF Fit, Numbered, Place, AtRead, At
<1>5. \A p \in 0 .. Len(buf) - 1 : buf[p + 1] = data[way[e][p \div DataSize]][p % DataSize]
  BY <1>1, <1>2 DEF Fit, Numbered, Place, AtRead
<1>6. PICK size \in Nat : size = entries[e].size /\ size <= MaxLen /\ num[e] = NumBlocksOf(size)
  BY <1>1, <1>2, FitNumbers, FitFile DEF Counted
<1>7. k \in Nat /\ k + 1 = num[e] /\ cnt \in Nat /\ cur \in Block
  <2>1. num[e] \in Nat \ {0} /\ k \in Nat /\ way[e][k] \in Block
    BY <1>1, FitTypes, OnWay
  <2>2. k + 1 < num[e] => index[cur] \in Block
    BY <1>1, <1>2, <1>4, WalkOn
  <2>3. ~(k + 1 < num[e])
    BY <2>2 DEF END, Block
  <2>4. k + 1 = num[e]
    BY <2>1, <2>3
  <2> QED BY <1>1, <1>4, <2>1, <2>4, FitNumbers
<1>8. PICK z \in Nat : z = k * DataSize
  BY <1>7
<1>9. size <= z + DataSize
  BY <1>6, <1>7, <1>8, LastBlock
<1>10. PICK n \in Nat : n = cnt
  BY <1>7
<1>11. n + z = size /\ n = (IF n < DataSize THEN n ELSE DataSize) /\ Len(buf) = z
  BY <1>4, <1>6, <1>8, <1>9, <1>10
<1>12. /\ Printed \in Seq(Byte \cup {Junk}) /\ Len(Printed) = size
       /\ \A p \in 1 .. z : Printed[p] = buf[p]
       /\ \A o \in 0 .. n - 1 : Printed[z + o + 1] = data[cur][o]
  <2>1. n = (IF cnt < DataSize THEN cnt ELSE DataSize) /\ Len(buf) + n <= MaxLen
    BY <1>6, <1>10, <1>11
  <2>2. Len(buf) + n = size
    BY <1>11
  <2> QED BY <1>1, <1>7, <1>11, <2>1, <2>2, PrintedIs
<1>13. TextOf(way, e)
  BY <1>1, <1>2 DEF Moves, Readable
<1>14. PICK b : b = Bytes(e)
  OBVIOUS
<1>15. ASSUME NEW p \in 1 .. size PROVE Printed[p] = b[p]
  <2>1. b[p] = data[way[e][(p - 1) \div DataSize]][(p - 1) % DataSize]
    BY <1>1, <1>6, <1>13, <1>14 DEF TextOf, Pending
  <2>2. CASE p <= z
    <3>1. PICK q \in 0 .. z - 1 : q = p - 1
      BY <2>2
    <3>2. q \in 0 .. Len(buf) - 1 /\ q + 1 = p /\ p \in 1 .. z
      BY <1>11, <2>2, <3>1
    <3>3. buf[p] = data[way[e][q \div DataSize]][q % DataSize]
      BY <1>5, <3>2
    <3> QED BY <1>12, <2>1, <3>1, <3>2, <3>3
  <2>3. CASE ~(p <= z)
    <3>1. PICK o \in 0 .. n - 1 : p = z + o + 1
      <4>1. p - 1 - z \in 0 .. n - 1 /\ p = z + (p - 1 - z) + 1
        BY <1>11, <2>3
      <4> QED BY <4>1
    <3>2. o \in Offset
      BY <1>11, <3>1 DEF Offset
    <3>3. p - 1 = k * DataSize + o
      BY <1>8, <3>1
    <3>4. (p - 1) \div DataSize = k /\ (p - 1) % DataSize = o
      BY <1>7, <3>2, <3>3, DigitsOf
    <3> QED BY <1>4, <1>12, <2>1, <3>1, <3>4
  <2> QED BY <2>2, <2>3
<1>16. Printed = b
  BY <1>6, <1>12, <1>13, <1>14, <1>15, SeqEqual DEF TextOf
<1>17. SeenSame /\ ReplySeen' = <<"read", b>>
  BY <1>1, <1>16, QuietSeen
<1>18. FilesSeen[e].bytes = b
  BY <1>2, <1>14 DEF FilesSeen, FileSeen
<1>19. Store!Read(d)
  BY <1>3, <1>17, <1>18 DEF Store!Read, SeenSame
<1> QED BY <1>19 DEF StoreMoves, Store!Next, Store!Fd, Fd

\* After fs_delete has begun the file is gone, and no descriptor leads to it.
LEMMA StoreDeletes ==
  ASSUME NEW way, NEW num, NEW way2, NEW num2, Moves(way, num, way2, num2),
         NEW d \in Fd, fs_delete(d)
  PROVE  StoreMoves
<1>1. /\ Fit(way, num) /\ TypeInv /\ pc = "idle"
      /\ UNCHANGED <<data, entries, next_entry, fd_list, next_fd>>
  BY FitTypes DEF Moves, fs_delete, pool, table, fds
<1>2. CASE find_fd(d) = NULL
  <2>1. SeenSame /\ ReplySeen' = <<"warning">>
    BY <1>1, <1>2, QuietSeen DEF fs_delete, Return
  <2>2. HandlesSeen[d] = NoFile
    BY <1>2 DEF HandlesSeen, HandleSeen
  <2> QED BY <2>1, <2>2, StoreFails
<1>3. CASE find_fd(d) # NULL
  <2>1. PICK e \in Slot : e = find_fd(d) /\ Holds(e) /\ e # NULL /\ e # NoFile
    BY <1>1, <1>3, DescribedFile, NoFileAssumption DEF Fit, NULL
  <2>2. pc' = "delete" /\ ent' = e
    BY <1>3, <2>1 DEF fs_delete
  <2>3. ASSUME NEW s \in Slot PROVE FileSeen(s)' = IF s = e THEN NoFile ELSE FileSeen(s)
    <3>1. CASE s = e
      BY <2>2, <3>1 DEF FileSeen, Holds
    <3>2. CASE s # e
      <4>1. Holds(s)' <=> Holds(s)
        BY <1>1, <2>2, <3>2 DEF Holds
      <4>2. Holds(s) => Bytes(s)' = Bytes(s)
        BY <1>1, <2>2, <4>1, SameBytes DEF Pending
      <4> QED BY <1>1, <3>2, <4>1, <4>2, SameFile
    <3> QED BY <3>1, <3>2
  <2>4. ASSUME NEW h \in Fd
        PROVE  /\ HandleSeen(h)' = IF HandleSeen(h) = e THEN NoFile ELSE HandleSeen(h)
    BY <1>1, <2>1, <2>2 DEF HandleSeen, Going, find_fd
  <2>5. HandlesSeen[d] = e
    BY <1>1, <2>1 DEF HandlesSeen, HandleSeen, Going
  <2>6. FilesSeen' = [FilesSeen EXCEPT ![e] = NoFile]
    BY <2>3 DEF FilesSeen
  <2>7. HandlesSeen' = [h \in Fd |-> IF HandlesSeen[h] = e THEN NoFile ELSE HandlesSeen[h]]
    BY <2>4 DEF HandlesSeen
  <2>8. ReplySeen' = <<"delete">>
    BY <2>2 DEF ReplySeen
  <2>9. Store!Delete(d)
    BY <1>1, <2>1, <2>5, <2>6, <2>7, <2>8 DEF Store!Delete, Store!Fd, Fd
  <2> QED BY <2>9 DEF StoreMoves, Store!Next, Store!Fd, Fd
<1> QED BY <1>2, <1>3

\* The loop of fs_delete shows nothing.
LEMMA StorePushes ==
  ASSUME NEW way, NEW num, NEW way2, NEW num2, Moves(way, num, way2, num2),
         pc = "delete", pc' # "crash", DeleteBlock
  PROVE  StoreMoves
<1>1. /\ Fit(way, num) /\ TypeInv /\ pc' = "delete" /\ ent' = ent
      /\ UNCHANGED <<entries, next_entry, fd_list, next_fd>>
  BY FitTypes DEF Moves, DeleteBlock, table, fds
<1>2. \A b \in Block : b # cur => data'[b] = data[b]
  BY <1>1 DEF DeleteBlock, SetNext, TypeInv, TypeOK, PoolOK
<1>3. ASSUME NEW s \in Slot PROVE FileSeen(s)' = FileSeen(s)
  <2>1. Holds(s)' <=> Holds(s)
    BY <1>1 DEF Holds
  <2>2. Holds(s) => \A k \in 0 .. num[s] - 1 : data'[way[s][k]] = data[way[s][k]]
    BY <1>1, <1>2, CursorApart
  <2>3. Holds(s) => Bytes(s)' = Bytes(s)
    BY <1>1, <2>1, <2>2, SameBytes DEF Pending
  <2> QED BY <1>1, <2>1, <2>3, SameFile
<1>4. ASSUME NEW d \in Fd PROVE HandleSeen(d)' = HandleSeen(d)
  BY <1>1 DEF HandleSeen, Going, find_fd
<1>5. SeenSame /\ ReplySeen' = ReplySeen
  BY <1>1, <1>3, <1>4, FilesUnseen, HandlesUnseen DEF SeenSame, ReplySeen
<1> QED BY <1>5, StoreSame

LEMMA StoreDeleted ==
  ASSUME NEW way, NEW num, NEW way2, NEW num2, Moves(way, num, way2, num2), Reached, Sound',
         pc = "delete", DeleteDone
  PROVE  StoreMoves
<1>1. /\ Fit(way, num) /\ TypeInv /\ pc' = "idle" /\ UNCHANGED <<data, next_entry, next_fd>>
      /\ ret' = <<"delete">>
  BY FitTypes DEF Moves, DeleteDone, Return, pool
<1>2. PICK e \in Slot : e = ent
  BY <1>1 DEF TypeInv, TypeOK, CallOK
<1>3. PICK f \in Fd : f = fd /\ fd_list[f] = e
  BY <1>2 DEF Reached
<1>4. /\ \A s \in Slot : s # e => entries'[s] = entries[s]
      /\ entries'[e].name = NoName
      /\ \A d \in Fd : fd_list'[d] = IF d = f THEN NULL ELSE fd_list[d]
  BY <1>1, <1>2, <1>3 DEF DeleteDone, remove_fd, TypeInv, TypeOK, TableOK
<1>5. \A d \in Fd : d # f => fd_list[d] # e
  BY <1>2, <1>3 DEF DeleteDone, Happened, Sound
<1>6. ASSUME NEW s \in Slot PROVE FileSeen(s)' = FileSeen(s)
  <2>1. Holds(s)' <=> Holds(s)
    BY <1>1, <1>2, <1>4 DEF Holds
  <2>2. Holds(s) => s # e
    BY <1>2 DEF Holds
  <2>3. Holds(s) => Bytes(s)' = Bytes(s)
    BY <1>1, <1>4, <2>1, <2>2, SameBytes DEF Pending
  <2> QED BY <1>4, <2>1, <2>2, <2>3, SameFile
<1>7. ASSUME NEW d \in Fd PROVE HandleSeen(d)' = HandleSeen(d)
  BY <1>1, <1>2, <1>3, <1>4, <1>5 DEF HandleSeen, Going, find_fd
<1>8. SeenSame /\ ReplySeen' = ReplySeen
  BY <1>1, <1>6, <1>7, FilesUnseen, HandlesUnseen DEF SeenSame, ReplySeen
<1> QED BY <1>8, StoreSame

\* fs_write_at counts the bytes: they show before they are copied.
LEMMA StoreWrites ==
  ASSUME NEW way, NEW num, NEW way2, NEW num2, Moves(way, num, way2, num2), Reached,
         pc = "skip", SkipDone
  PROVE  StoreMoves
<1>1. /\ Fit(way, num) /\ Fit(way2, num2)' /\ TypeInv /\ pc' = "copy"
      /\ ent' = ent /\ pos' = pos /\ buf' = buf
      /\ UNCHANGED <<data, next_entry, fd_list, next_fd>>
  BY FitTypes DEF Moves, SkipDone, pool, fds
<1>2. PICK e \in Slot : e = ent /\ Holds(e)
  BY <1>1, WorksOnFile
<1>3. PICK d \in Fd : HandlesSeen[d] = e /\ e # NoFile
  BY <1>1, <1>2, HandleOfCall
<1>4. PICK i \in Nat : i = pos
  BY <1>1, FitNumbers
<1>5. PICK w \in Buffer : w = buf
  BY DEF Reached
<1>6. PICK l \in Nat : l = Len(w)
  BY <1>1, <1>5, FitNumbers
<1>7. PICK size \in Nat : size = entries[e].size /\ i <= size
  BY <1>1, <1>2, <1>4, FitNumbers DEF Fit, Numbered, Place, AtSkip
<1>8. i + l <= MaxLen /\ i \in 0 .. MaxLen
  <2>1. i + l <= MaxLen
    BY <1>1, <1>4, <1>5, <1>6 DEF TypeInv, Locals
  <2> QED BY <2>1
<1>9. PICK total \in Nat : total = IF i + l > size THEN i + l ELSE size
  OBVIOUS
<1>10. /\ entries'[e].size = total /\ entries'[e].name = entries[e].name
       /\ \A s \in Slot : s # e => entries'[s] = entries[s]
  BY <1>1, <1>2, <1>4, <1>5, <1>6, <1>7, <1>9
     DEF SkipDone, Larger, TypeInv, TypeOK, TableOK, Entry
<1>11. Holds(e)' /\ \A s \in Slot : Holds(s)' <=> Holds(s)
  BY <1>1, <1>2, <1>10 DEF Holds
<1>12. ASSUME NEW s \in Slot, s # e PROVE FileSeen(s)' = FileSeen(s)
  <2>1. Holds(s) => Bytes(s)' = Bytes(s)
    BY <1>1, <1>2, <1>10, <1>11, <1>12, SameBytes DEF Pending
  <2> QED BY <1>10, <1>11, <1>12, <2>1, SameFile
<1>13. TextOf(way, e) /\ TextOf(way2, e)'
  BY <1>1, <1>2, <1>11 DEF Moves, Readable
<1>14. PICK b : b = Bytes(e)
  OBVIOUS
<1>15. PICK c : c = Bytes(e)'
  OBVIOUS
<1>16. /\ b \in Seq(Byte \cup {Junk}) /\ Len(b) = size
       /\ c \in Seq(Byte \cup {Junk}) /\ Len(c) = total
  BY <1>7, <1>10, <1>13, <1>14, <1>15 DEF TextOf
<1>17. ASSUME NEW p \in 1 .. total
       PROVE  c[p] = IF p > i /\ p <= i + l THEN w[p - i] ELSE b[p]
  <2>1. c[p] = IF Pending(e, p - 1)' THEN buf'[p - pos']
               ELSE data'[way2[e][(p - 1) \div DataSize]][(p - 1) % DataSize]
    BY <1>10, <1>13, <1>15 DEF TextOf
  <2>2. Pending(e, p - 1)' <=> p > i /\ p <= i + l
    BY <1>1, <1>2, <1>4, <1>5, <1>6 DEF Pending
  <2>3. CASE p > i /\ p <= i + l
    BY <1>1, <1>4, <1>5, <2>1, <2>2, <2>3
  <2>4. CASE ~(p > i /\ p <= i + l)
    <3>1. p \in 1 .. size
      BY <1>7, <1>9, <2>4
    <3>2. b[p] = data[way[e][(p - 1) \div DataSize]][(p - 1) % DataSize]
      BY <1>7, <1>13, <1>14, <3>1 DEF TextOf, Pending
    <3>3. PICK k \in 0 .. num[e] - 1 : k = (p - 1) \div DataSize
      BY <1>1, <1>2, <1>7, <3>1, InSize
    <3>4. way2[e][k] = way[e][k]
      BY <1>2 DEF Moves, Keeps
    <3> QED BY <1>1, <2>1, <2>2, <2>4, <3>2, <3>3, <3>4
  <2> QED BY <2>3, <2>4
<1>18. c = Store!Overlay(b, i, w)
  <2>1. c = [p \in 1 .. total |-> c[p]]
    BY <1>16
  <2>2. c = [p \in 1 .. total |-> IF p > i /\ p <= i + l THEN w[p - i] ELSE b[p]]
    BY <1>17, <2>1
  <2> QED BY <1>6, <1>9, <1>16, <2>2 DEF Store!Overlay
<1>19. PICK nm : nm = entries[e].name
  OBVIOUS
<1>20. FileSeen(e) = [name |-> nm, bytes |-> b] /\ FileSeen(e)' = [name |-> nm, bytes |-> c]
  BY <1>2, <1>10, <1>11, <1>14, <1>15, <1>19 DEF FileSeen
<1>21. FilesSeen[e].bytes = b
  BY <1>20 DEF FilesSeen
<1>22. FilesSeen' = [FilesSeen EXCEPT ![e].bytes = Store!Overlay(@, i, w)]
  <2>1. [FileSeen(e) EXCEPT !.bytes = c] = [name |-> nm, bytes |-> c]
    BY <1>20
  <2>2. \A s \in Slot : FilesSeen[s] = FileSeen(s) /\ FilesSeen'[s] = FileSeen(s)'
    BY DEF FilesSeen
  <2>3. FilesSeen'[e] = [FilesSeen[e] EXCEPT !.bytes = Store!Overlay(b, i, w)]
    BY <1>18, <1>20, <2>1, <2>2
  <2>4. \A s \in Slot : s # e => FilesSeen'[s] = FilesSeen[s]
    BY <1>12, <2>2
  <2>5. FilesSeen' = [s \in Slot |-> FilesSeen'[s]] /\ FilesSeen = [s \in Slot |-> FilesSeen[s]]
    BY DEF FilesSeen
  <2> QED BY <1>21, <2>3, <2>4, <2>5
<1>23. HandlesSeen' = HandlesSeen
  <2>1. ASSUME NEW h \in Fd PROVE HandleSeen(h)' = HandleSeen(h)
    BY <1>1 DEF HandleSeen, Going, find_fd
  <2> QED BY <2>1, HandlesUnseen
<1>24. ReplySeen' = <<"write", TRUE>>
  BY <1>1 DEF ReplySeen
<1>25. Store!Write(d, i, w)
  BY <1>1, <1>3, <1>6, <1>7, <1>8, <1>16, <1>21, <1>22, <1>23, <1>24 DEF Store!Write
<1>26. w \in Store!Buffer
  BY DEF Store!Buffer, Buffer
<1> QED BY <1>8, <1>25, <1>26 DEF StoreMoves, Store!Next, Store!Fd, Fd

\* Copying moves a byte from buf to the place it already shows at.
LEMMA StoreCopies ==
  ASSUME NEW way, NEW num, NEW way2, NEW num2, Moves(way, num, way2, num2),
         pc = "copy", CopyByte
  PROVE  StoreMoves
<1>1. /\ Fit(way, num) /\ Fit(way2, num2)' /\ TypeInv /\ pc' = "copy" /\ ent' = ent
      /\ buf # <<>> /\ pos' = pos + 1 /\ buf' = Tail(buf)
      /\ UNCHANGED <<entries, next_entry, fd_list, next_fd>>
  BY FitTypes DEF Moves, CopyByte, table, fds
<1>2. PICK e \in Slot : e = ent /\ Holds(e)
  BY <1>1, WorksOnFile
<1>3. PICK o \in Offset : o = IF wp < DataSize THEN wp ELSE 0
  BY <1>1 DEF Offset, TypeInv, TypeOK, CallOK
<1>4. PICK k \in 0 .. num[e] - 1 : Target = way[e][k] /\ k * DataSize + o = pos
  BY <1>1, <1>2, <1>3, TargetOnWay
<1>5. PICK h \in Block : h = Target
  BY DEF CopyByte
<1>6. /\ data' = [data EXCEPT ![h][o] = Head(buf)]
      /\ k \in Nat /\ way[e][k] = h /\ data \in [Block -> [Offset -> Byte \cup {Junk}]]
  BY <1>1, <1>3, <1>4, <1>5 DEF CopyByte, TypeInv, TypeOK, PoolOK
<1>7. /\ \A x \in Block : x # h => data'[x] = data[x]
      /\ data'[h][o] = Head(buf)
      /\ \A u \in Offset : u # o => data'[h][u] = data[h][u]
  BY <1>6
<1>8. \A s \in Slot : Holds(s)' <=> Holds(s)
  BY <1>1 DEF Holds
<1>9. ASSUME NEW s \in Slot, Holds(s), NEW l \in 0 .. num[s] - 1
      PROVE  /\ way[s][l] \in Block
             /\ way[s][l] = h => s = e /\ l = k
  BY <1>1, <1>2, <1>4, <1>5, <1>9, FitFile, FitTypes, OnWay
<1>10. ASSUME NEW s \in Slot, s # e PROVE FileSeen(s)' = FileSeen(s)
  <2>1. Holds(s) => Bytes(s)' = Bytes(s)
    BY <1>1, <1>2, <1>7, <1>8, <1>9, <1>10, SameBytes DEF Pending
  <2> QED BY <1>1, <1>8, <1>10, <2>1, SameFile
<1>11. TextOf(way, e) /\ TextOf(way2, e)'
  BY <1>1, <1>2, <1>8 DEF Moves, Readable
<1>12. PICK size \in Nat : size = entries[e].size
  BY <1>1, <1>2, FitNumbers
<1>13. PICK i \in Nat : i = pos
  BY <1>1, FitNumbers
<1>14. PICK w : w = buf
  OBVIOUS
<1>15. w \in Seq(Byte \cup {Junk}) /\ w # <<>> /\ buf' = Tail(w)
  BY <1>1, <1>14 DEF TypeInv, TypeOK, CallOK
<1>16. PICK l \in Nat : l = Len(w) /\ l > 0
  BY <1>15, EmptySeq
<1>17. Len(buf') = l - 1 /\ \A x \in 1 .. l - 1 : buf'[x] = w[x + 1]
  BY <1>15, <1>16, HeadTailProperties
<1>18. Head(w) = w[1]
  BY <1>15
<1>19. PICK b : b = Bytes(e)
  OBVIOUS
<1>20. PICK c : c = Bytes(e)'
  OBVIOUS
<1>21. ASSUME NEW p \in 1 .. size PROVE c[p] = b[p]
  <2>1. b[p] = IF Pending(e, p - 1) THEN w[p - i]
               ELSE data[way[e][(p - 1) \div DataSize]][(p - 1) % DataSize]
    BY <1>11, <1>12, <1>13, <1>14, <1>19 DEF TextOf
  <2>2. c[p] = IF Pending(e, p - 1)' THEN buf'[p - pos']
               ELSE data'[way2[e][(p - 1) \div DataSize]][(p - 1) % DataSize]
    BY <1>1, <1>11, <1>12, <1>20 DEF TextOf
  <2>3. Pending(e, p - 1) <=> p > i /\ p <= i + l
    BY <1>2, <1>13, <1>14, <1>16 DEF Pending
  <2>4. Pending(e, p - 1)' <=> p > i + 1 /\ p <= i + l
    BY <1>1, <1>2, <1>13, <1>17 DEF Pending
  <2>5. PICK m \in 0 .. num[e] - 1 : m = (p - 1) \div DataSize
    BY <1>1, <1>2, <1>12, InSize
  <2>6. PICK u \in Offset : u = (p - 1) % DataSize
    BY <1>1, <1>2, <1>12, InSize
  <2>7. way2[e][m] = way[e][m] /\ way[e][m] \in Block
    BY <1>2, <1>9 DEF Moves, Keeps
  <2>8. CASE p = i + 1
    <3>1. p - 1 = k * DataSize + o
      BY <1>4, <1>13, <2>8
    <3>2. (p - 1) \div DataSize = k /\ (p - 1) % DataSize = o
      BY <1>3, <1>6, <3>1, DigitsOf
    <3>3. c[p] = data'[h][o]
      <4>1. ~Pending(e, p - 1)'
        BY <2>4, <2>8
      <4>2. m = k
        BY <2>5, <3>2
      <4>3. c[p] = data'[way2[e][m]][o]
        BY <2>2, <2>5, <3>2, <4>1
      <4> QED BY <1>6, <2>7, <4>2, <4>3
    <3>4. b[p] = w[1]
      <4>1. Pending(e, p - 1)
        BY <1>16, <2>3, <2>8
      <4>2. p - i = 1
        BY <2>8
      <4> QED BY <2>1, <4>1, <4>2
    <3> QED BY <1>7, <1>14, <1>18, <3>3, <3>4
  <2>9. CASE p > i + 1 /\ p <= i + l
    <3>1. PICK x \in 1 .. l - 1 : x = p - (i + 1)
      BY <2>9
    <3>2. c[p] = buf'[x] /\ b[p] = w[x + 1]
      <4>1. p - pos' = x /\ p - i = x + 1
        BY <1>1, <1>13, <3>1
      <4> QED BY <2>1, <2>2, <2>3, <2>4, <2>9, <4>1
    <3> QED BY <1>17, <3>2
  <2>10. CASE ~(p > i /\ p <= i + l)
    <3>1. c[p] = data'[way[e][m]][u] /\ b[p] = data[way[e][m]][u]
      BY <2>1, <2>2, <2>3, <2>4, <2>5, <2>6, <2>7, <2>10
    <3>2. way[e][m] = h => u # o
      <4>1. SUFFICES ASSUME way[e][m] = h, u = o PROVE FALSE
        OBVIOUS
      <4>2. m = k
        BY <1>2, <1>9, <4>1
      <4>3. p - 1 = m * DataSize + u
        <5>1. p - 1 \in Nat /\ p - 1 <= size
          OBVIOUS
        <5>2. p - 1 = ((p - 1) \div DataSize) * DataSize + ((p - 1) % DataSize)
          BY <1>12, <5>1, BlockOf
        <5> QED BY <2>5, <2>6, <5>2
      <4>4. p - 1 = i
        BY <1>4, <1>13, <4>1, <4>2, <4>3
      <4> QED BY <1>16, <2>10, <4>4
    <3> QED BY <1>7, <2>7, <3>1, <3>2
  <2> QED BY <2>8, <2>9, <2>10
<1>22. c = b
  <2>1. /\ b \in Seq(Byte \cup {Junk}) /\ c \in Seq(Byte \cup {Junk})
        /\ Len(b) = size /\ Len(c) = size
    BY <1>1, <1>11, <1>12, <1>19, <1>20 DEF TextOf
  <2> QED BY <1>21, <2>1, SeqEqual
<1>23. FileSeen(e)' = FileSeen(e)
  BY <1>1, <1>8, <1>19, <1>20, <1>22, SameFile
<1>24. ASSUME NEW d \in Fd PROVE HandleSeen(d)' = HandleSeen(d)
  BY <1>1 DEF HandleSeen, Going, find_fd
<1>25. SeenSame /\ ReplySeen' = ReplySeen
  BY <1>1, <1>10, <1>23, <1>24, FilesUnseen, HandlesUnseen DEF SeenSame, ReplySeen
<1> QED BY <1>25, StoreSame

LEMMA StoreCopied ==
  ASSUME NEW way, NEW num, NEW way2, NEW num2, Moves(way, num, way2, num2),
         pc = "copy", CopyDone
  PROVE  StoreMoves
<1>1. /\ Fit(way, num) /\ pc' = "idle" /\ ret' = <<"write", TRUE>> /\ Len(buf) = 0
      /\ pos \in Nat /\ UNCHANGED <<data, entries, next_entry, fd_list, next_fd>>
  BY FitNumbers, EmptySeq DEF Moves, CopyDone, Return, pool, table, fds
<1>2. ASSUME NEW s \in Slot PROVE FileSeen(s)' = FileSeen(s)
  <2>1. Holds(s)' <=> Holds(s)
    BY <1>1 DEF Holds
  <2>2. \A p \in Nat : ~Pending(s, p)
    BY <1>1 DEF Pending
  <2>3. \A p \in Nat : ~Pending(s, p)'
    BY <1>1 DEF Pending
  <2>4. Holds(s) => Bytes(s)' = Bytes(s)
    BY <1>1, <2>1, <2>2, <2>3, SameBytes
  <2> QED BY <1>1, <2>1, <2>4, SameFile
<1>3. ASSUME NEW d \in Fd PROVE HandleSeen(d)' = HandleSeen(d)
  BY <1>1 DEF HandleSeen, Going, find_fd
<1>4. SeenSame /\ ReplySeen' = ReplySeen
  BY <1>1, <1>2, <1>3, FilesUnseen, HandlesUnseen DEF SeenSame, ReplySeen
<1> QED BY <1>4, StoreSame

-----------------------------------------------------------------------------
(* The refinement.                                                         *)

\* A step of a loop that neither changes bytes nor returns.
LEMMA StoreQuiet ==
  ASSUME NEW way, NEW num, NEW way2, NEW num2, Moves(way, num, way2, num2),
         pc \notin {"copy", "delete"}, pc' \notin {"copy", "delete"},
         UNCHANGED <<data, entries, next_entry, fd_list, next_fd, ret>>
  PROVE  StoreMoves
<1>1. SeenSame /\ ReplySeen' = ReplySeen
  BY QuietSeen
<1> QED BY <1>1, StoreSame

LEMMA StoreWriteAt ==
  ASSUME NEW way, NEW num, NEW way2, NEW num2, Moves(way, num, way2, num2),
         NEW d \in Fd, NEW i, NEW b, fs_write_at(d, i, b)
  PROVE  StoreMoves
<1>1. CASE WriteRefused(d, i)
  <2>1. SeenSame /\ ReplySeen' = <<"write", FALSE>>
    BY <1>1, QuietSeen DEF fs_write_at, WriteRefused, Return, pool, table, fds
  <2> QED BY <2>1, StoreFails
<1>2. CASE WriteBegin(d, i, b)
  BY <1>2, StoreQuiet DEF fs_write_at, WriteBegin, pool, table, fds
<1> QED BY <1>1, <1>2 DEF fs_write_at

LEMMA StoreBegins ==
  ASSUME NEW way, NEW num, NEW way2, NEW num2, Moves(way, num, way2, num2), Sound', Begin
  PROVE  StoreMoves
<1>1. ASSUME NEW n \in Name, fs_open(n) PROVE StoreMoves
  <2>1. free_list # WILD
    BY DEF Moves, Fit, Structure, FreeListDisjoint
  <2> QED BY <1>1, <2>1, StoreOpens, StoreCreates DEF fs_open, OpenWild
<1>2. ASSUME NEW d \in Fd, NEW b \in Buffer, fs_append(d, b) PROVE StoreMoves
  <2>1. CASE find_fd(d) = NULL
    BY <1>2, <2>1, StoreWriteAt DEF fs_append, fs_write_at
  <2>2. CASE find_fd(d) # NULL
    BY <1>2, <2>2, StoreWriteAt DEF fs_append
  <2> QED BY <2>1, <2>2
<1>3. ASSUME NEW d \in Fd, fs_read(d) PROVE StoreMoves
  <2>1. pc = "idle" /\ UNCHANGED <<data, entries, next_entry, fd_list, next_fd>>
    BY <1>3 DEF fs_read, pool, table, fds
  <2>2. CASE find_fd(d) = NULL
    <3>1. SeenSame /\ ReplySeen' = <<"warning">>
      BY <1>3, <2>1, <2>2, QuietSeen DEF fs_read, Return
    <3>2. HandlesSeen[d] = NoFile
      BY <2>2 DEF HandlesSeen, HandleSeen
    <3> QED BY <3>1, <3>2, StoreFails
  <2>3. CASE find_fd(d) # NULL
    BY <1>3, <2>1, <2>3, StoreQuiet DEF fs_read
  <2> QED BY <2>2, <2>3
<1>4. ASSUME NEW d \in Fd, fs_delete(d) PROVE StoreMoves
  BY <1>4, StoreDeletes
<1>5. ASSUME NEW old \in Name, NEW new \in Name, fs_rename(old, new) PROVE StoreMoves
  BY <1>5, StoreRenames
<1>6. ASSUME NEW d \in Fd, NEW b \in Buffer, NEW i \in 0 .. MaxLen,
             fs_write_at(d, i, b) \/ fs_write(d, b)
      PROVE  StoreMoves
  BY <1>6, StoreWriteAt DEF fs_write
<1> QED BY <1>1, <1>2, <1>3, <1>4, <1>5, <1>6 DEF Begin

LEMMA StoreNext ==
  ASSUME NEW way, NEW num, NEW way2, NEW num2, Moves(way, num, way2, num2), Reached, Sound',
         pc' # "crash", Next
  PROVE  StoreMoves
<1>1. CASE Begin
  BY <1>1, StoreBegins
<1>2. CASE Seek
  BY <1>2, StoreQuiet DEF Seek, Crash, pool, table, fds
<1>3. CASE Alloc
  <2>1. CASE AllocFails
    <3>1. SeenSame /\ ReplySeen' = <<"write", FALSE>>
      BY <1>3, <2>1, QuietSeen DEF Alloc, AllocFails, Return, pool, table, fds
    <3>2. \E d \in Fd : fd_list[d] = ent
      BY <1>3 DEF Alloc, Reached
    <3> QED BY <3>1, <3>2, StoreFails
  <2>2. CASE AllocBlock
    BY <1>3, <2>2, StoreQuiet DEF Alloc, AllocBlock, table, fds
  <2> QED BY <1>3, <2>1, <2>2 DEF Alloc, Crash
<1>4. CASE Skip
  <2>1. CASE SkipBlock
    BY <1>4, <2>1, StoreQuiet DEF Skip, SkipBlock, pool, table, fds
  <2>2. CASE SkipDone
    BY <1>4, <2>2, StoreWrites DEF Skip
  <2> QED BY <1>4, <2>1, <2>2 DEF Skip, Crash
<1>5. CASE Copy
  BY <1>5, StoreCopies, StoreCopied DEF Copy, Crash
<1>6. CASE ReadBlock
  <2>1. CASE index[cur] = END
    BY <1>6, <2>1, StorePrints
  <2>2. CASE index[cur] # END
    BY <1>6, <2>2, StoreQuiet DEF ReadBlock, pool, table, fds
  <2> QED BY <2>1, <2>2
<1>7. CASE Delete
  BY <1>7, StorePushes, StoreDeleted DEF Delete
<1> QED BY <1>1, <1>2, <1>3, <1>4, <1>5, <1>6, <1>7 DEF Next, Step

LEMMA StoreInit == Init => Store!Init
<1> SUFFICES ASSUME Init PROVE Store!Init
  OBVIOUS
<1>1. \A s \in Slot : FileSeen(s) = NoFile
  BY DEF Init, FileSeen, Holds, Slot
<1>2. \A d \in Fd : HandleSeen(d) = NoFile
  BY DEF Init, HandleSeen, find_fd
<1>3. FilesSeen = [s \in Slot |-> NoFile] /\ HandlesSeen = [d \in Fd |-> NoFile]
  BY <1>1, <1>2 DEF FilesSeen, HandlesSeen
<1>4. ReplySeen = <<"init">> /\ next_entry = 0 /\ next_fd = 0
  BY DEF Init, ReplySeen
<1> QED BY <1>3, <1>4 DEF Store!Init, Store!Slot, Store!Fd, Slot, Fd

LEMMA StoreStep ==
  ASSUME TypeInv, IInv, ChainInv, Reached, Readable, TypeInv', IInv', Readable', Sound',
         [Next]_vars
  PROVE  StoreMoves
<1>1. CASE UNCHANGED vars
  <2>1. \A s : (Holds(s)' <=> Holds(s)) /\ (Chain(s)' = Chain(s))
    BY <1>1 DEF vars, pool, table, Holds, Chain
  <2>2. ASSUME NEW s \in Slot PROVE FileSeen(s)' = FileSeen(s)
    BY <1>1, <2>1 DEF vars, pool, table, FileSeen, Holds, Bytes, ByteAt, Pending, Chain
  <2>3. ASSUME NEW d \in Fd PROVE HandleSeen(d)' = HandleSeen(d)
    BY <1>1 DEF vars, fds, HandleSeen, Going, find_fd
  <2>4. SeenSame /\ ReplySeen' = ReplySeen
    BY <1>1, <2>2, <2>3, FilesUnseen, HandlesUnseen DEF SeenSame, ReplySeen, vars, table, fds
  <2> QED BY <2>4, StoreSame
<1>2. CASE Next
  <2>1. Sound /\ pc # "crash" /\ HasChains
    BY SoundBefore DEF ChainInv
  <2>2. PICK way, num : Numbered(way, num)
    BY <2>1 DEF HasChains
  <2>3. Fit(way, num)
    BY <2>1, <2>2 DEF Fit, IInv
  <2>4. pc' # "crash"
    BY <1>2, <2>3, ChainsNext DEF Goes
  <2>5. PICK way2, num2 : Numbered(way2, num2)' /\ Keeps(way, num, way2)
    BY <1>2, <2>3, ChainsNext DEF Goes
  <2>6. Fit(way2, num2)'
    BY <2>4, <2>5 DEF Fit, IInv
  <2>7. Moves(way, num, way2, num2)
    BY <2>3, <2>5, <2>6 DEF Moves
  <2> QED BY <1>2, <2>4, <2>7, StoreNext
<1> QED BY <1>1, <1>2

\* The file system keeps what kernel/fs.h promises, for every pool, table and
\* set of names, until an event of harm: what was written is read back, a call
\* on one file leaves the others alone, and a call that fails changes nothing
\* (fs.c:35-255).
THEOREM FilesImplementStore == Spec => ImplementsFileStore
<1>1. Init => Reached
  BY DEF Init, Reached
<1>2. Init => Store!Init
  BY StoreInit
<1>3. TypeInv /\ IInv /\ ChainInv /\ Reached /\ Readable /\ TypeInv' /\ IInv' /\ Readable'
        /\ [Next]_vars => [~Sound' \/ UNCHANGED Store!vars \/ Store!Next]_(Store!vars)
  BY StoreStep DEF StoreMoves
<1> QED BY <1>1, <1>2, <1>3, BytesAre, ReachedStep, Inductive, ChainsInductive, PTL
        DEF Spec, ImplementsFileStore

-----------------------------------------------------------------------------
(* The pages, counted: no page is lost but the last one of a deleted file.  *)

\* How many pages the file in slot s has, also while a write adds some.
Pages(s) ==
  IF pc = "alloc" /\ s = ent THEN BlocksFor(pos + Len(buf)) - cnt
  ELSE IF pc = "skip" /\ s = ent
  THEN Larger(NumBlocksOf(entries[s].size), BlocksFor(pos + Len(buf)))
  ELSE NumBlocksOf(entries[s].size)

Placed == {p \in Slot \X Nat : Holds(p[1]) /\ p[2] < Pages(p[1])}

\* The slots of deleted files, and of the one fs_delete works on.
Gone == {s \in Slot : s < next_entry /\ ~Holds(s)}

\* The free list from its end to its head: lst[0], ..., lst[m - 1].
Listed(lst, m) ==
  /\ lst \in [Nat -> Block] /\ m \in Nat
  /\ free_list = IF m = 0 THEN NULL ELSE lst[m - 1]
  /\ \A k \in 0 .. m - 1 :
       /\ Free(lst[k])
       /\ next[lst[k]] = IF k = 0 THEN NULL ELSE lst[k - 1]
  /\ \A k, l \in 0 .. m - 1 : lst[k] = lst[l] => k = l

\* The n pages of the file that fs_delete works on: it is at the j-th.
Rest(tail, n, j) ==
  /\ tail \in [Nat -> Block] /\ n \in Nat \ {0} /\ j \in 0 .. n - 1
  /\ pc # "delete" => j = n - 1
  /\ pc = "delete" =>
       /\ cur = tail[j]
       /\ index[tail[n - 1]] = END
       /\ \A k \in 0 .. n - 2 : k >= j => index[tail[k]] = tail[k + 1]
       /\ \A k, l \in 0 .. n - 1 : tail[k] = tail[l] => k = l

Sums(m, left) ==
  /\ IsFiniteSet(Placed)
  /\ m + Cardinality(Placed) + Cardinality(Gone) + left = NumBlocks

Counts(lst, m, tail, n, j) == Listed(lst, m) /\ Rest(tail, n, j) /\ Sums(m, n - 1 - j)

AllCounted == \E lst, m, tail, n, j : Counts(lst, m, tail, n, j)

\* The pages of a file are those on its way.
Agree == \A way, num : Numbered(way, num) /\ TypeInv =>
           \A s \in Slot : Holds(s) => Pages(s) = num[s]

LEMMA PagesAgree == Agree
<1> SUFFICES ASSUME NEW way, NEW num, Numbered(way, num), TypeInv, NEW s \in Slot, Holds(s)
             PROVE  Pages(s) = num[s]
  BY DEF Agree
<1>1. num[s] \in Nat \ {0} /\ Counted(num, s)
  BY OnWay DEF Numbered, Chains
<1>2. CASE pc = "alloc" /\ s = ent
  <2>1. num[s] + cnt = BlocksFor(pos + Len(buf)) /\ cnt \in Nat
    BY <1>2 DEF Numbered, Place, AtAlloc, TypeInv, TypeOK, CallOK
  <2> QED BY <1>1, <1>2, <2>1 DEF Pages
<1>3. CASE pc = "skip" /\ s = ent
  BY <1>3 DEF Pages, Numbered, Place, AtSkip
<1>4. CASE ~(pc = "alloc" /\ s = ent) /\ ~(pc = "skip" /\ s = ent)
  <2>1. num[s] = NumBlocksOf(entries[s].size)
    BY <1>1, <1>4 DEF Counted, Numbered, Place, AtSeek
  <2> QED BY <1>4, <2>1 DEF Pages
<1> QED BY <1>2, <1>3, <1>4

LEMMA GoneFinite == IsFiniteSet(Gone) /\ Cardinality(Gone) \in Nat
<1>1. IsFiniteSet(Slot) /\ Gone \in SUBSET Slot
  BY FS_Interval DEF Slot, Gone
<1> QED BY <1>1, FS_Subset, FS_CardinalityType

\* A step that takes no page and gives none back.
Still ==
  /\ UNCHANGED <<next, free_list, next_entry>>
  /\ pc # "delete" /\ pc' # "delete"
  /\ \A s \in Slot : Holds(s)' <=> Holds(s)
  /\ \A b \in Block : Free(b) => Free(b)'

LEMMA CountsStill ==
  ASSUME NEW lst, NEW m, NEW tail, NEW n, NEW j, Counts(lst, m, tail, n, j), Still,
         \A s \in Slot : Holds(s) => Pages(s)' = Pages(s)
  PROVE  Counts(lst, m, tail, n, j)'
<1>1. Placed' = Placed
  BY DEF Placed, Still
<1>2. Gone' = Gone
  BY DEF Gone, Still
<1>3. Listed(lst, m)'
  <2>1. /\ lst \in [Nat -> Block] /\ m \in Nat
        /\ free_list = IF m = 0 THEN NULL ELSE lst[m - 1]
        /\ \A k \in 0 .. m - 1 :
             Free(lst[k]) /\ next[lst[k]] = IF k = 0 THEN NULL ELSE lst[k - 1]
        /\ \A k, l \in 0 .. m - 1 : lst[k] = lst[l] => k = l
    BY DEF Counts, Listed
  <2>2. \A k \in 0 .. m - 1 : Free(lst[k])'
    BY <2>1 DEF Still
  <2> QED BY <2>1, <2>2 DEF Listed, Still
<1>4. Rest(tail, n, j)'
  BY DEF Counts, Rest, Still
<1>5. Sums(m, n - 1 - j)'
  BY <1>1, <1>2 DEF Counts, Sums
<1> QED BY <1>3, <1>4, <1>5 DEF Counts

\* So where the ways stay as they are nothing is to be counted anew.
LEMMA SameWay ==
  ASSUME NEW way, NEW num, Fit(way, num), Numbered(way, num)', TypeInv', Agree, Agree', Still,
         NEW lst, NEW m, NEW tail, NEW n, NEW j, Counts(lst, m, tail, n, j)
  PROVE  Counts(lst, m, tail, n, j)'
<1>1. \A s \in Slot : Holds(s) => Pages(s) = num[s]
  BY FitTypes DEF Agree, Fit
<1>2. \A s \in Slot : Holds(s)' => Pages(s)' = num[s]
  BY DEF Agree
<1>3. \A s \in Slot : Holds(s) => Pages(s)' = Pages(s)
  BY <1>1, <1>2 DEF Still
<1> QED BY <1>3, CountsStill

LEMMA CountsInit == Init => AllCounted
<1> SUFFICES ASSUME Init PROVE AllCounted
  OBVIOUS
<1>1. PICK lst \in [Nat -> Block] : \A k \in 0 .. NumBlocks - 1 : lst[k] = k
  <2>1. PICK lst : lst = [k \in Nat |-> IF k \in 0 .. NumBlocks - 1 THEN k ELSE 0]
    OBVIOUS
  <2>2. lst \in [Nat -> Block] /\ \A k \in 0 .. NumBlocks - 1 : lst[k] = k
    BY <2>1 DEF Block
  <2> QED BY <2>2
<1>2. \A s \in Slot : ~Holds(s)
  BY DEF Init, Holds, Slot
<1>3. \A b \in Block : Free(b)
  BY DEF Init, Free, Block, NULL, WILD
<1>4. Listed(lst, NumBlocks)
  <2>1. NumBlocks \in Nat /\ free_list = IF NumBlocks = 0 THEN NULL ELSE lst[NumBlocks - 1]
    BY <1>1 DEF Init
  <2>2. \A k \in 0 .. NumBlocks - 1 :
          Free(lst[k]) /\ next[lst[k]] = IF k = 0 THEN NULL ELSE lst[k - 1]
    BY <1>1, <1>3 DEF Init, Block
  <2> QED BY <1>1, <2>1, <2>2 DEF Listed
<1>5. Rest(lst, 1, 0)
  BY <1>1 DEF Init, Rest
<1>6. Placed = {} /\ Gone = {}
  BY <1>2 DEF Placed, Gone, Init, Slot
<1>7. Sums(NumBlocks, 1 - 1 - 0)
  BY <1>6, FS_EmptySet DEF Sums
<1> QED BY <1>4, <1>5, <1>7 DEF AllCounted, Counts

\* The head of the list is taken,
LEMMA ListPopped ==
  ASSUME NEW lst, NEW m, Listed(lst, m), free_list \in Block, free_list' = next[free_list],
         \A b \in Block : Free(b) /\ b # free_list => Free(b)' /\ next'[b] = next[b]
  PROVE  m - 1 \in Nat /\ Listed(lst, m - 1)'
<1>1. /\ lst \in [Nat -> Block] /\ m \in Nat
      /\ free_list = IF m = 0 THEN NULL ELSE lst[m - 1]
      /\ \A k \in 0 .. m - 1 :
           Free(lst[k]) /\ next[lst[k]] = IF k = 0 THEN NULL ELSE lst[k - 1]
      /\ \A k, l \in 0 .. m - 1 : lst[k] = lst[l] => k = l
  BY DEF Listed
<1>2. m # 0 /\ m - 1 \in 0 .. m - 1 /\ m - 1 \in Nat /\ free_list = lst[m - 1]
  BY <1>1 DEF NULL, Block
<1>3. free_list' = IF m - 1 = 0 THEN NULL ELSE lst[m - 1 - 1]
  BY <1>1, <1>2
<1>4. ASSUME NEW k \in 0 .. m - 1 - 1
      PROVE  Free(lst[k])' /\ next'[lst[k]] = IF k = 0 THEN NULL ELSE lst[k - 1]
  <2>1. k \in 0 .. m - 1 /\ k # m - 1 /\ lst[k] \in Block
    BY <1>1, <1>2
  <2>2. lst[k] # free_list
    BY <1>1, <1>2, <2>1
  <2> QED BY <1>1, <2>1, <2>2
<1>5. \A k, l \in 0 .. m - 1 - 1 : lst[k] = lst[l] => k = l
  BY <1>1, <1>2
<1> QED BY <1>1, <1>2, <1>3, <1>4, <1>5 DEF Listed

\* or a page is put before it.
LEMMA ListPushed ==
  ASSUME NEW lst, NEW m, Listed(lst, m), NEW c \in Block, ~Free(c), Free(c)',
         free_list' = c, next'[c] = free_list,
         \A b \in Block : Free(b) => Free(b)' /\ next'[b] = next[b]
  PROVE  m + 1 \in Nat /\ \E lst2 : Listed(lst2, m + 1)'
<1>1. /\ lst \in [Nat -> Block] /\ m \in Nat
      /\ free_list = IF m = 0 THEN NULL ELSE lst[m - 1]
      /\ \A k \in 0 .. m - 1 :
           Free(lst[k]) /\ next[lst[k]] = IF k = 0 THEN NULL ELSE lst[k - 1]
      /\ \A k, l \in 0 .. m - 1 : lst[k] = lst[l] => k = l
  BY DEF Listed
<1>2. PICK lst2 : lst2 = [k \in Nat |-> IF k = m THEN c ELSE lst[k]]
  OBVIOUS
<1>3. /\ lst2 \in [Nat -> Block] /\ lst2[m] = c
      /\ \A k \in 0 .. m - 1 : lst2[k] = lst[k] /\ lst[k] \in Block /\ lst[k] # c
  BY <1>1, <1>2
<1>4. free_list' = IF m + 1 = 0 THEN NULL ELSE lst2[m + 1 - 1]
  BY <1>1, <1>3
<1>5. ASSUME NEW k \in 0 .. m + 1 - 1
      PROVE  Free(lst2[k])' /\ next'[lst2[k]] = IF k = 0 THEN NULL ELSE lst2[k - 1]
  <2>1. CASE k = m
    <3>1. free_list = IF m = 0 THEN NULL ELSE lst2[m - 1]
      BY <1>1, <1>3
    <3> QED BY <1>3, <2>1, <3>1
  <2>2. CASE k # m
    <3>1. k \in 0 .. m - 1 /\ lst2[k] = lst[k] /\ lst[k] \in Block
      BY <1>1, <1>3, <2>2
    <3>2. k # 0 => lst2[k - 1] = lst[k - 1]
      BY <1>1, <1>3, <3>1
    <3>3. Free(lst[k])' /\ next'[lst[k]] = next[lst[k]]
      BY <1>1, <3>1
    <3> QED BY <1>1, <3>1, <3>2, <3>3
  <2> QED BY <2>1, <2>2
<1>6. \A k, l \in 0 .. m + 1 - 1 : lst2[k] = lst2[l] => k = l
  <2>1. \A k \in 0 .. m + 1 - 1 : k = m \/ k \in 0 .. m - 1
    BY <1>1
  <2> QED BY <1>1, <1>3, <2>1
<1>7. m + 1 \in Nat /\ Listed(lst2, m + 1)'
  BY <1>1, <1>3, <1>4, <1>5, <1>6 DEF Listed
<1> QED BY <1>7

\* A page goes from the list to a file.
LEMMA OneTaken ==
  ASSUME NEW m \in Nat, NEW left \in Nat, Sums(m, left), NEW p, p \notin Placed,
         Placed' = Placed \cup {p}, Gone' = Gone
  PROVE  Sums(m - 1, left)'
<1>1. IsFiniteSet(Placed') /\ Cardinality(Placed') = Cardinality(Placed) + 1
      /\ Cardinality(Placed) \in Nat /\ Cardinality(Gone) \in Nat
  BY FS_AddElement, FS_CardinalityType, GoneFinite DEF Sums
<1>2. m - 1 + (Cardinality(Placed) + 1) + Cardinality(Gone) + left
        = m + Cardinality(Placed) + Cardinality(Gone) + left
  BY <1>1
<1> QED BY <1>1, <1>2 DEF Sums

LEMMA CountsOpenNew ==
  ASSUME NEW way, NEW num, Fit(way, num), Agree, NEW name \in Name, pc = "idle",
         OpenNew(name), Sound',
         NEW lst, NEW m, NEW tail, NEW n, NEW j, Counts(lst, m, tail, n, j)
  PROVE  AllCounted'
<1>a. free_list \in Block /\ next_entry \in Slot
  BY FitTypes DEF OpenNew, TableOK, Slot
<1>b. PICK h \in Block : h = free_list
  BY <1>a
<1>c. PICK e \in Slot : e = next_entry
  BY <1>a
<1>1. /\ name # NoName /\ ~Holds(e)
      /\ next' = [next EXCEPT ![h] = WILD] /\ free_list' = next[h]
      /\ entries' = [entries EXCEPT ![e] = [name |-> name, start |-> h, size |-> 0]]
      /\ next_entry' = e + 1
      /\ pc' = "idle"
  <2>1. name # NoName
    BY DEF OpenNew, Happened, Sound
  <2>2. ~Holds(e)
    BY <1>c DEF Holds, Slot
  <2>3. /\ next' = [next EXCEPT ![h] = WILD] /\ free_list' = next[h]
        /\ entries' = [entries EXCEPT ![e] = [name |-> name, start |-> h, size |-> 0]]
        /\ next_entry' = e + 1
        /\ pc' = "idle"
    BY <1>b, <1>c DEF OpenNew, AfterHead, Return
  <2> QED BY <2>1, <2>2, <2>3
<1>2. PoolOK /\ TableOK
  BY FitTypes
<1>3. Listed(lst, m) /\ Rest(tail, n, j) /\ Sums(m, n - 1 - j) /\ m \in Nat /\ n - 1 - j \in Nat
  BY DEF Counts, Listed, Rest
<1>4. m - 1 \in Nat /\ Listed(lst, m - 1)'
  <2>1. \A b \in Block : Free(b) /\ b # h => Free(b)' /\ next'[b] = next[b]
    BY <1>1, <1>2 DEF Free, PoolOK
  <2> QED BY <1>1, <1>3, <1>b, <2>1, ListPopped
<1>5. /\ \A s \in Slot : Holds(s)' <=> s = e \/ Holds(s)
      /\ \A s \in Slot : s # e => entries'[s] = entries[s]
      /\ entries'[e].size = 0
  BY <1>1, <1>2, <1>c DEF Holds, TableOK, Slot
<1>6. Pages(e)' = 1 /\ \A s \in Slot : s # e => Pages(s)' = Pages(s)
  BY <1>1, <1>5, NoBytes DEF Pages
<1>7. <<e, 0>> \notin Placed /\ Placed' = Placed \cup {<<e, 0>>}
  <2>1. \A p \in Slot \X Nat : p[1] = e /\ p[2] < 1 <=> p = <<e, 0>>
    OBVIOUS
  <2>2. \A p \in Slot \X Nat : Holds(p[1])' /\ p[2] < Pages(p[1])'
                                <=> p = <<e, 0>> \/ (Holds(p[1]) /\ p[2] < Pages(p[1]))
    <3> SUFFICES ASSUME NEW p \in Slot \X Nat
                 PROVE  Holds(p[1])' /\ p[2] < Pages(p[1])'
                          <=> p = <<e, 0>> \/ (Holds(p[1]) /\ p[2] < Pages(p[1]))
      OBVIOUS
    <3>1. PICK s \in Slot, k \in Nat : s = p[1] /\ k = p[2]
      OBVIOUS
    <3>2. CASE s = e
      BY <1>1, <1>5, <1>6, <2>1, <3>1, <3>2
    <3>3. CASE s # e
      BY <1>5, <1>6, <2>1, <3>1, <3>3
    <3> QED BY <3>2, <3>3
  <2> QED BY <1>1, <2>2 DEF Placed
<1>8. Gone' = Gone
  <2>1. \A s \in Slot : s < next_entry' /\ ~Holds(s)' <=> s < next_entry /\ ~Holds(s)
    BY <1>1, <1>5, <1>c DEF Slot
  <2> QED BY <2>1 DEF Gone
<1>9. Sums(m - 1, n - 1 - j)'
  BY <1>3, <1>7, <1>8, OneTaken
<1>10. Rest(tail, n, j)'
  BY <1>1, <1>3 DEF Rest
<1> QED BY <1>4, <1>9, <1>10 DEF AllCounted, Counts

LEMMA CountsAllocBlock ==
  ASSUME NEW way, NEW num, Fit(way, num), Agree, pc = "alloc", AllocBlock,
         NEW lst, NEW m, NEW tail, NEW n, NEW j, Counts(lst, m, tail, n, j)
  PROVE  AllCounted'
<1>a. free_list \in Block /\ ent \in Slot /\ cur \in Block /\ Free(free_list) /\ free_list # cur
  BY FitTypes DEF AllocBlock, CallOK, Locals, Fit, Structure, FreeListDisjoint, Free
<1>b. PICK h \in Block : h = free_list
  BY <1>a
<1>c. PICK e \in Slot : e = ent
  BY <1>a
<1>d. PICK c \in Block : c = cur
  BY <1>a
<1>1. /\ next' = [next EXCEPT ![c] = WILD, ![h] = IF cnt = 1 THEN WILD ELSE @]
      /\ free_list' = next[h] /\ h # c
      /\ UNCHANGED <<entries, next_entry, ent, pos, buf>>
      /\ cnt = 1 => pc' = "skip"
      /\ cnt # 1 => pc' = "alloc" /\ cur' = h /\ cnt' = cnt - 1
  BY <1>a, <1>b, <1>d DEF AllocBlock, AfterHead, table
<1>2. PoolOK /\ cnt \in Nat /\ BlocksFor(pos + Len(buf)) \in Nat
      /\ NumBlocksOf(entries[e].size) \in Nat /\ num[e] \in Nat \ {0}
  BY <1>c, FitTypes, FitNumbers
<1>3. Listed(lst, m) /\ Rest(tail, n, j) /\ Sums(m, n - 1 - j) /\ m \in Nat /\ n - 1 - j \in Nat
  BY DEF Counts, Listed, Rest
<1>4. m - 1 \in Nat /\ Listed(lst, m - 1)'
  <2>1. \A b \in Block : Free(b) /\ b # h => b # c /\ Free(b)' /\ next'[b] = next[b]
    BY <1>1, <1>2, <1>d DEF Free, PoolOK
  <2> QED BY <1>1, <1>3, <1>b, <2>1, ListPopped
<1>5. Holds(e) /\ \A s \in Slot : Holds(s)' <=> Holds(s)
  <2>1. Holds(e)
    BY <1>c, WorksOnFile
  <2> QED BY <1>1, <2>1 DEF Holds
<1>6. Pages(e) = num[e] /\ Pages(e)' = num[e] + 1
  <2>1. num[e] + cnt = BlocksFor(pos + Len(buf)) /\ num[e] >= NumBlocksOf(entries[e].size)
    BY <1>c DEF Fit, Numbered, Place, AtAlloc
  <2>2. Pages(e) = num[e]
    BY <1>5 DEF Agree, Fit
  <2>3. CASE cnt = 1
    BY <1>1, <1>2, <1>c, <2>1, <2>2, <2>3 DEF Pages, Larger
  <2>4. CASE cnt # 1
    BY <1>1, <1>2, <1>c, <2>1, <2>2, <2>4 DEF Pages
  <2> QED BY <2>3, <2>4, <2>2
<1>7. \A s \in Slot : s # e => Pages(s)' = Pages(s)
  BY <1>1, <1>c DEF Pages
<1>8. <<e, num[e]>> \notin Placed /\ Placed' = Placed \cup {<<e, num[e]>>}
  <2>1. PICK z \in Nat : z = num[e]
    BY <1>2
  <2>2. \A p \in Slot \X Nat : p = <<e, z>> <=> p[1] = e /\ p[2] = z
    OBVIOUS
  <2>3. \A p \in Slot \X Nat : Holds(p[1])' /\ p[2] < Pages(p[1])'
                                <=> p = <<e, z>> \/ (Holds(p[1]) /\ p[2] < Pages(p[1]))
    <3> SUFFICES ASSUME NEW p \in Slot \X Nat
                 PROVE  Holds(p[1])' /\ p[2] < Pages(p[1])'
                          <=> p = <<e, z>> \/ (Holds(p[1]) /\ p[2] < Pages(p[1]))
      OBVIOUS
    <3>1. PICK s \in Slot, k \in Nat : s = p[1] /\ k = p[2]
      OBVIOUS
    <3>2. CASE s = e
      <4>1. k < z + 1 <=> k = z \/ k < z
        OBVIOUS
      <4> QED BY <1>5, <1>6, <2>1, <2>2, <3>1, <3>2, <4>1
    <3>3. CASE s # e
      BY <1>5, <1>7, <2>2, <3>1, <3>3
    <3> QED BY <3>2, <3>3
  <2>4. <<e, z>> \notin Placed
    BY <1>6, <2>1 DEF Placed
  <2> QED BY <2>1, <2>3, <2>4 DEF Placed
<1>9. Gone' = Gone
  BY <1>1, <1>5 DEF Gone
<1>10. Sums(m - 1, n - 1 - j)'
  BY <1>3, <1>8, <1>9, OneTaken
<1>11. Rest(tail, n, j)'
  BY <1>1, <1>3 DEF Rest
<1> QED BY <1>4, <1>10, <1>11 DEF AllCounted, Counts

\* A deleted file: its pages are no places any more, and one of them is lost.
LEMMA CountsDeleteBegin ==
  ASSUME NEW way, NEW num, Fit(way, num), Agree, NEW d \in Fd, fs_delete(d),
         find_fd(d) # NULL,
         NEW lst, NEW m, NEW tail, NEW n, NEW j, Counts(lst, m, tail, n, j)
  PROVE  AllCounted'
<1>1. /\ pc = "idle" /\ pc' = "delete"
      /\ UNCHANGED <<next, index, free_list, entries, next_entry>>
      /\ ent' = find_fd(d) /\ cur' = entries[find_fd(d)].start
  BY DEF fs_delete, pool, table
<1>2. PICK e \in Slot : e = find_fd(d) /\ Holds(e)
  BY <1>1, DescribedFile DEF Fit
<1>3. Listed(lst, m) /\ Rest(tail, n, j) /\ Sums(m, n - 1 - j) /\ m \in Nat /\ n - 1 - j = 0
  BY <1>1 DEF Counts, Listed, Rest
<1>4. PICK z \in Nat \ {0} : z = num[e]
  BY FitTypes, OnWay
<1>5. Listed(lst, m)'
  <2>1. \A b \in Block : Free(b)' <=> Free(b)
    BY <1>1 DEF Free
  <2> QED BY <1>1, <1>3, <2>1 DEF Listed
<1>6. Rest(way[e], z, 0)'
  <2>1. /\ Laid(way, num, e) /\ Ended(way, num, e) /\ way[e] \in [Nat -> Block]
        /\ \A k, l \in 0 .. z - 1 : way[e][k] = way[e][l] => k = l
    BY <1>2, <1>4, FitFile, FitTypes DEF Types
  <2>2. way[e][0] = entries[e].start /\ index[way[e][z - 1]] = END
    BY <1>1, <1>4, <2>1 DEF Laid, Ended
  <2>3. \A k \in 0 .. z - 2 : index[way[e][k]] = way[e][k + 1]
    <3> SUFFICES ASSUME NEW k \in 0 .. z - 2 PROVE index[way[e][k]] = way[e][k + 1]
      OBVIOUS
    <3>1. k + 1 \in 1 .. num[e] - 1 /\ k + 1 - 1 = k
      BY <1>4
    <3> QED BY <2>1, <3>1 DEF Laid
  <2> QED BY <1>1, <1>2, <1>4, <2>1, <2>2, <2>3 DEF Rest
<1>7. \A s \in Slot : (Holds(s)' <=> Holds(s) /\ s # e) /\ Pages(s)' = Pages(s)
  BY <1>1, <1>2 DEF Holds, Pages
<1>8. Pages(e) = z
  BY <1>2, <1>4 DEF Agree, Fit
<1> DEFINE D == {e} \X (0 .. z - 1)
<1>9. IsFiniteSet(D) /\ Cardinality(D) = z
  <2>1. IsFiniteSet({e}) /\ Cardinality({e}) = 1
    BY FS_Singleton
  <2>2. IsFiniteSet(0 .. z - 1) /\ Cardinality(0 .. z - 1) = z
    BY FS_Interval
  <2>3. IsFiniteSet(D) /\ Cardinality(D) = Cardinality({e}) * Cardinality(0 .. z - 1)
    BY <2>1, <2>2, FS_Product
  <2> QED BY <2>1, <2>2, <2>3
<1>10. Placed' = Placed \ D /\ Placed \cap D = D
  <2>1. \A p \in Slot \X Nat : p \in D <=> p[1] = e /\ p[2] < z
    OBVIOUS
  <2>2. D \subseteq Slot \X Nat
    OBVIOUS
  <2>3. \A p \in Slot \X Nat : p \in Placed <=> Holds(p[1]) /\ p[2] < Pages(p[1])
    BY DEF Placed
  <2>4. \A p \in Slot \X Nat : p \in Placed' <=> Holds(p[1])' /\ p[2] < Pages(p[1])'
    BY DEF Placed
  <2>5. \A p \in Slot \X Nat : p \in Placed' <=> p \in Placed /\ p \notin D
    <3> SUFFICES ASSUME NEW p \in Slot \X Nat
                 PROVE  p \in Placed' <=> p \in Placed /\ p \notin D
      OBVIOUS
    <3>1. p[1] \in Slot
      OBVIOUS
    <3> HIDE DEF D
    <3> QED BY <1>7, <1>8, <2>1, <2>3, <2>4, <3>1
  <2>6. \A p \in D : p \in Placed
    <3> HIDE DEF D
    <3> QED BY <1>2, <1>8, <2>1, <2>2, <2>3
  <2>7. Placed \subseteq Slot \X Nat /\ Placed' \subseteq Slot \X Nat
    BY DEF Placed
  <2> HIDE DEF D
  <2> QED BY <2>2, <2>5, <2>6, <2>7
<1> HIDE DEF D
<1>11. e \notin Gone /\ Gone' = Gone \cup {e}
  BY <1>1, <1>2, <1>7 DEF Gone, Holds
<1>12. Cardinality(Gone') = Cardinality(Gone) + 1 /\ Cardinality(Gone) \in Nat
  BY <1>11, GoneFinite, FS_AddElement
<1>13. /\ IsFiniteSet(Placed') /\ Cardinality(Placed') = Cardinality(Placed) - z
       /\ Cardinality(Placed) \in Nat
  <2>1. IsFiniteSet(Placed) /\ Cardinality(Placed) \in Nat
    BY <1>3, FS_CardinalityType DEF Sums
  <2>2. IsFiniteSet(Placed \ D) /\ Cardinality(Placed \ D) = Cardinality(Placed) - Cardinality(Placed \cap D)
    BY <2>1, FS_Difference
  <2> QED BY <1>9, <1>10, <2>1, <2>2
<1>14. Sums(m, z - 1 - 0)'
  <2>1. m + Cardinality(Placed) + Cardinality(Gone) + 0 = NumBlocks
    BY <1>3 DEF Sums
  <2>2. m + (Cardinality(Placed) - z) + (Cardinality(Gone) + 1) + (z - 1 - 0) = NumBlocks
    BY <1>3, <1>12, <1>13, <2>1
  <2> QED BY <1>12, <1>13, <2>2 DEF Sums
<1> QED BY <1>5, <1>6, <1>14 DEF AllCounted, Counts

LEMMA CountsDeleteBlock ==
  ASSUME NEW way, NEW num, Fit(way, num), pc = "delete", DeleteBlock, Sound',
         NEW lst, NEW m, NEW tail, NEW n, NEW j, Counts(lst, m, tail, n, j)
  PROVE  AllCounted'
<1>1. cur \in Block /\ Owned(cur) /\ PoolOK /\ free_list # WILD
  BY FitTypes DEF Fit, Structure, CursorOwned, Locals, FreeListDisjoint
<1>2. PICK how \in DeleteReads :
        /\ cur' = DeleteNext(how)
        /\ pc' = IF DeleteNext(how) = WILD THEN "crash" ELSE "delete"
        /\ Happened("reread", how = "reread")
  BY DEF DeleteBlock
<1>3. how = "kept" /\ index[cur] \in Block
  <2>1. how = "kept"
    BY <1>2 DEF Happened, Sound
  <2> QED BY <1>1, <2>1 DEF DeleteBlock, Fit, Structure, ViewsAgree
<1>4. pc' = "delete" /\ cur' = index[cur]
  BY <1>2, <1>3 DEF DeleteNext, WILD, Block
<1>5. PICK c \in Block : c = cur
  BY <1>1
<1>6. /\ next' = [next EXCEPT ![c] = free_list]
      /\ index' = [index EXCEPT ![c] = AsIndex(free_list)]
      /\ free_list' = c
      /\ UNCHANGED <<entries, next_entry, ent>>
  BY <1>5 DEF DeleteBlock, SetNext, table
<1>7. Listed(lst, m) /\ Rest(tail, n, j) /\ Sums(m, n - 1 - j) /\ m \in Nat
  BY DEF Counts, Listed
<1>8. PICK lst2 : m + 1 \in Nat /\ Listed(lst2, m + 1)'
  <2>1. ~Free(c) /\ Free(c)' /\ next'[c] = free_list
    BY <1>1, <1>4, <1>5, <1>6 DEF Free, Owned, PoolOK
  <2>2. \A b \in Block : Free(b) => Free(b)' /\ next'[b] = next[b]
    BY <1>1, <1>4, <1>5, <1>6, <2>1 DEF Free, PoolOK
  <2> QED BY <1>6, <1>7, <2>1, <2>2, ListPushed
<1>9. /\ tail \in [Nat -> Block] /\ n \in Nat \ {0} /\ j \in 0 .. n - 1 /\ c = tail[j]
      /\ index[tail[n - 1]] = END
      /\ \A k \in 0 .. n - 2 : k >= j => index[tail[k]] = tail[k + 1]
      /\ \A k, l \in 0 .. n - 1 : tail[k] = tail[l] => k = l
  BY <1>5, <1>7 DEF Rest
<1>10. j \in 0 .. n - 2 /\ j + 1 \in 0 .. n - 1 /\ n - 1 \in 0 .. n - 1
  <2>1. j # n - 1
    BY <1>3, <1>5, <1>9 DEF END, Block
  <2> QED BY <1>9, <2>1
<1>11. \A k \in 0 .. n - 1 : k # j => tail[k] \in Block /\ index'[tail[k]] = index[tail[k]]
  BY <1>1, <1>6, <1>9 DEF PoolOK
<1>12. Rest(tail, n, j + 1)'
  <2>1. cur' = tail[j + 1]
    BY <1>4, <1>5, <1>9, <1>10
  <2>2. index'[tail[n - 1]] = END
    <3>1. n - 1 # j
      BY <1>9, <1>10
    <3> QED BY <1>9, <1>10, <1>11, <3>1
  <2>3. \A k \in 0 .. n - 2 : k >= j + 1 => index'[tail[k]] = tail[k + 1]
    BY <1>9, <1>10, <1>11
  <2> QED BY <1>4, <1>9, <1>10, <2>1, <2>2, <2>3 DEF Rest
<1>13. Placed' = Placed /\ Gone' = Gone
  <2>1. \A s \in Slot : (Holds(s)' <=> Holds(s)) /\ Pages(s)' = Pages(s)
    BY <1>4, <1>6 DEF Holds, Pages
  <2> QED BY <1>6, <2>1 DEF Placed, Gone
<1>14. Sums(m + 1, n - 1 - (j + 1))'
  <2>1. Cardinality(Placed) \in Nat /\ Cardinality(Gone) \in Nat
    BY <1>7, GoneFinite, FS_CardinalityType DEF Sums
  <2>2. m + Cardinality(Placed) + Cardinality(Gone) + (n - 1 - j)
          = m + 1 + Cardinality(Placed) + Cardinality(Gone) + (n - 1 - (j + 1))
    BY <1>7, <1>9, <2>1
  <2> QED BY <1>7, <1>13, <2>2 DEF Sums
<1> QED BY <1>8, <1>12, <1>14 DEF AllCounted, Counts

LEMMA CountsDeleteDone ==
  ASSUME NEW way, NEW num, Fit(way, num), pc = "delete", DeleteDone,
         NEW lst, NEW m, NEW tail, NEW n, NEW j, Counts(lst, m, tail, n, j)
  PROVE  AllCounted'
<1>1. /\ pc' = "idle" /\ index[cur] = END
      /\ UNCHANGED <<next, index, free_list, next_entry>>
  BY DEF DeleteDone, Return, pool
<1>2. Listed(lst, m) /\ Rest(tail, n, j) /\ Sums(m, n - 1 - j)
  BY DEF Counts
<1>3. j = n - 1
  <2>1. /\ tail \in [Nat -> Block] /\ n \in Nat \ {0} /\ j \in 0 .. n - 1 /\ cur = tail[j]
        /\ \A k \in 0 .. n - 2 : k >= j => index[tail[k]] = tail[k + 1]
    BY <1>2 DEF Rest
  <2>2. j \in 0 .. n - 2 => index[cur] \in Block
    BY <2>1
  <2> QED BY <1>1, <2>1, <2>2 DEF END, Block
<1>4. \A s \in Slot : Holds(s)' <=> Holds(s)
  <2>1. /\ \A s \in Slot : s # ent => entries'[s] = entries[s]
        /\ entries'[ent].name = NoName
    BY FitTypes DEF DeleteDone, TableOK, CallOK
  <2> QED BY <1>1, <2>1 DEF Holds
<1>5. \A s \in Slot : Holds(s) => Pages(s)' = Pages(s)
  <2>1. \A s \in Slot : s # ent => entries'[s] = entries[s]
    BY FitTypes DEF DeleteDone, TableOK, CallOK
  <2> QED BY <1>1, <2>1 DEF Pages, Holds
<1>6. Placed' = Placed /\ Gone' = Gone
  BY <1>1, <1>4, <1>5 DEF Placed, Gone
<1>7. Sums(m, n - 1 - j)'
  BY <1>2, <1>6 DEF Sums
<1>8. Listed(lst, m)'
  <2>1. \A b \in Block : Free(b)' <=> Free(b)
    BY <1>1 DEF Free
  <2> QED BY <1>1, <1>2, <2>1 DEF Listed
<1>9. Rest(tail, n, j)'
  BY <1>1, <1>2, <1>3 DEF Rest
<1> QED BY <1>7, <1>8, <1>9 DEF AllCounted, Counts

-----------------------------------------------------------------------------
(* All other steps take no page and give none back.                        *)

\* A call starts, goes on or returns, and the table stays as it is.
LEMMA StillCall ==
  ASSUME UNCHANGED <<next, free_list, table>>, pc \notin {"delete", "alloc"},
         pc' \notin {"delete", "alloc"}
  PROVE  Still
BY DEF Still, Holds, Free, table

LEMMA StillRename ==
  ASSUME NEW way, NEW num, Fit(way, num), NEW old \in Name, NEW new \in Name,
         fs_rename(old, new), Sound'
  PROVE  Still
<1>1. /\ pc = "idle" /\ pc' = "idle" /\ UNCHANGED <<next, free_list, next_entry>>
  BY DEF fs_rename, Return, pool
<1>2. \A s \in Slot : Holds(s)' <=> Holds(s)
  <2>1. CASE UNCHANGED entries
    BY <1>1, <2>1 DEF Holds
  <2>2. ASSUME NEW s \in First(Named(old)), entries' = [entries EXCEPT ![s].name = new],
               NoName \notin {old, new}
        PROVE  \A t \in Slot : Holds(t)' <=> Holds(t)
    <3>1. s \in Slot /\ s < next_entry /\ entries[s].name = old
      BY FoundSlot, FitTypes DEF TypeInv
    <3>2. /\ entries'[s].name = new
          /\ \A t \in Slot : t # s => entries'[t] = entries[t]
      BY <2>2, <3>1, FitTypes DEF TableOK, Entry
    <3> QED BY <1>1, <2>2, <3>1, <3>2 DEF Holds
  <2> QED BY <2>1, <2>2 DEF fs_rename, Sound
<1>3. \A b \in Block : Free(b) => Free(b)'
  BY <1>1 DEF Free
<1> QED BY <1>1, <1>2, <1>3 DEF Still

\* The last page of the file is found: it is no free one.
LEMMA StillSeek ==
  ASSUME NEW way, NEW num, Fit(way, num), Seek
  PROVE  Still
<1>1. pc = "seek" /\ pc' \in {"seek", "alloc", "crash"} /\ UNCHANGED <<next, free_list, table>>
  BY DEF Seek, Crash, pool
<1>2. pc' = "alloc" => cur' = cur
  BY <1>1 DEF Seek, Crash
<1>3. Owned(cur)
  BY <1>1 DEF Fit, Structure, CursorOwned
<1>4. \A b \in Block : Free(b) => Free(b)'
  BY <1>1, <1>2, <1>3 DEF Free, Owned
<1> QED BY <1>1, <1>4 DEF Still, Holds, table

LEMMA StillSkip ==
  ASSUME NEW way, NEW num, Fit(way, num), Skip
  PROVE  Still
<1>1. pc = "skip" /\ pc' \in {"skip", "copy", "crash"} /\ UNCHANGED <<next, free_list, next_entry>>
  BY DEF Skip, SkipBlock, SkipDone, Crash, pool, table
<1>2. \A s \in Slot : entries'[s].name = entries[s].name
  <2>1. entries \in [Slot -> [name : Name, start : Block, size : 0 .. MaxLen]] /\ ent \in Slot
    BY FitTypes DEF TableOK, Entry, CallOK
  <2>2. CASE SkipDone
    <3>1. PICK e \in Slot : \E z : entries' = [entries EXCEPT ![e].size = z]
      BY <2>1, <2>2 DEF SkipDone
    <3> QED BY <2>1, <3>1
  <2> QED BY <2>2 DEF Skip, SkipBlock, Crash, table
<1> QED BY <1>1, <1>2 DEF Still, Holds, Free

\* The page that is written to is no free one.
LEMMA StillCopy ==
  ASSUME NEW way, NEW num, Fit(way, num), Copy
  PROVE  Still
<1>1. pc = "copy" /\ pc' \in {"copy", "idle", "crash"} /\ UNCHANGED <<free_list, table>>
  BY DEF Copy, CopyByte, CopyDone, Crash, Return, pool
<1>2. next' = next
  <2>1. CASE CopyByte
    <3>1. buf # <<>>
      BY <2>1 DEF CopyByte
    <3>2. PICK k \in 0 .. num[ent] - 1 : Target = way[ent][k]
      BY <1>1, <3>1, TargetOnWay
    <3>3. Target \in Block /\ ~Free(Target)
      <4>1. Laid(way, num, ent)
        BY <1>1, WorksOnFile, FitFile
      <4> QED BY <1>1, <3>1, <3>2, <4>1, TargetOnWay DEF Laid
    <3>4. Owned(Target)
      BY <1>1, <3>3 DEF Free, Owned
    <3> QED BY <2>1, <3>3, <3>4, FitTypes DEF CopyByte, Owned, PoolOK
  <2> QED BY <1>1, <2>1 DEF Copy, CopyDone, Crash, pool
<1> QED BY <1>1, <1>2, StillCall

LEMMA StillAllocFails ==
  ASSUME NEW way, NEW num, Fit(way, num), pc = "alloc", AllocFails
  PROVE  Still
<1>1. pc' = "idle" /\ UNCHANGED <<next, free_list, entries, next_entry>>
  BY DEF AllocFails, Return, pool, table
<1> QED BY <1>1 DEF Still, Holds, Free

-----------------------------------------------------------------------------
(* Every step, until the next event of harm.                               *)

LEMMA CountsBegin ==
  ASSUME NEW way, NEW num, Fit(way, num), Begin, Sound', pc' # "crash", TypeInv',
         Agree, Agree',
         NEW lst, NEW m, NEW tail, NEW n, NEW j, Counts(lst, m, tail, n, j)
  PROVE  AllCounted'
<1>1. Numbered(way, num)' /\ Still => AllCounted'
  BY SameWay DEF AllCounted
<1>2. ASSUME NEW name \in Name, fs_open(name) PROVE AllCounted'
  <2>1. CASE OpenNew(name)
    BY <1>2, <2>1, CountsOpenNew DEF fs_open
  <2>2. CASE OpenRefused(name) \/ OpenExisting(name)
    <3>1. Numbered(way, num)'
      BY <1>2, <2>2, SameFiles, ChainsReturn DEF Fit, fs_open, OpenRefused, OpenExisting, pool
    <3>2. Still
      BY <1>2, <2>2, StillCall DEF fs_open, OpenRefused, OpenExisting, Return, pool
    <3> QED BY <1>1, <3>1, <3>2
  <2> QED BY <1>2, <2>1, <2>2 DEF fs_open, OpenWild, Crash
<1>3. ASSUME NEW d \in Fd, NEW b \in Buffer, NEW i \in 0 .. MaxLen, fs_write_at(d, i, b)
      PROVE  AllCounted'
  <2>1. Still
    BY <1>3, StillCall DEF fs_write_at, WriteRefused, WriteBegin, Return, pool
  <2> QED BY <1>1, <1>3, <2>1, ChainsWriteAt
<1>4. ASSUME NEW d \in Fd, NEW b \in Buffer, fs_write(d, b) \/ fs_append(d, b)
      PROVE  AllCounted'
  <2>1. Still
    BY <1>4, StillCall
       DEF fs_write, fs_append, fs_write_at, WriteRefused, WriteBegin, Return, pool
  <2> QED BY <1>1, <1>4, <2>1, ChainsWrite
<1>5. ASSUME NEW d \in Fd, fs_read(d) PROVE AllCounted'
  <2>1. Still
    BY <1>5, StillCall DEF fs_read, Return, pool
  <2> QED BY <1>1, <1>5, <2>1, ChainsReadBegin
<1>6. ASSUME NEW d \in Fd, fs_delete(d) PROVE AllCounted'
  <2>1. CASE find_fd(d) = NULL
    <3>1. Still
      BY <1>6, <2>1, StillCall DEF fs_delete, Return, pool
    <3> QED BY <1>1, <1>6, <3>1, ChainsDeleteBegin
  <2> QED BY <1>6, <2>1, CountsDeleteBegin
<1>7. ASSUME NEW old \in Name, NEW new \in Name, fs_rename(old, new) PROVE AllCounted'
  BY <1>1, <1>7, ChainsRename, StillRename
<1> QED BY <1>2, <1>3, <1>4, <1>5, <1>6, <1>7 DEF Begin

LEMMA CountsLoop ==
  ASSUME NEW way, NEW num, Fit(way, num), Step, Sound', pc' # "crash", TypeInv',
         Agree, Agree',
         NEW lst, NEW m, NEW tail, NEW n, NEW j, Counts(lst, m, tail, n, j)
  PROVE  AllCounted'
<1>1. Numbered(way, num)' /\ Still => AllCounted'
  BY SameWay DEF AllCounted
<1>2. CASE Seek
  BY <1>1, <1>2, ChainsSeek, StillSeek
<1>3. CASE Alloc
  <2>1. CASE AllocFails
    BY <1>1, <1>3, <2>1, ChainsAllocFails, StillAllocFails DEF Alloc
  <2>2. CASE AllocBlock
    BY <1>3, <2>2, CountsAllocBlock DEF Alloc
  <2> QED BY <1>3, <2>1, <2>2 DEF Alloc, Crash
<1>4. CASE Skip
  BY <1>1, <1>4, ChainsSkip, StillSkip
<1>5. CASE Copy
  BY <1>1, <1>5, ChainsCopy, StillCopy
<1>6. CASE ReadBlock
  <2>1. Still
    BY <1>6, StillCall DEF ReadBlock, Return, pool
  <2> QED BY <1>1, <1>6, <2>1, ChainsReadBlock
<1>7. CASE Delete
  BY <1>7, CountsDeleteBlock, CountsDeleteDone DEF Delete
<1> QED BY <1>2, <1>3, <1>4, <1>5, <1>6, <1>7 DEF Step

CountInv == Sound => AllCounted

LEMMA CountsStep ==
  ASSUME TypeInv, IInv, ChainInv, CountInv, Agree, TypeInv', Agree', ChainInv', [Next]_vars
  PROVE  CountInv'
<1> SUFFICES ASSUME Sound' PROVE AllCounted'
  BY DEF CountInv
<1>1. Sound /\ pc # "crash" /\ HasChains /\ AllCounted /\ pc' # "crash"
  BY SoundBefore DEF ChainInv, CountInv
<1>2. PICK lst, m, tail, n, j : Counts(lst, m, tail, n, j)
  BY <1>1 DEF AllCounted
<1>3. CASE UNCHANGED vars
  <2>1. /\ \A s : Holds(s)' <=> Holds(s)
        /\ \A b : Free(b)' <=> Free(b)
        /\ \A s : Pages(s)' = Pages(s)
        /\ UNCHANGED <<next, index, free_list, next_entry, pc, cur>>
    BY <1>3 DEF vars, pool, table, Holds, Free, Pages
  <2>2. Placed' = Placed /\ Gone' = Gone
    BY <2>1 DEF Placed, Gone
  <2>3. Listed(lst, m)'
    BY <1>2, <2>1 DEF Counts, Listed
  <2>4. Rest(tail, n, j)'
    BY <1>2, <2>1 DEF Counts, Rest
  <2>5. Sums(m, n - 1 - j)'
    BY <1>2, <2>2 DEF Counts, Sums
  <2> QED BY <2>3, <2>4, <2>5 DEF AllCounted, Counts
<1>4. CASE Next
  <2>1. PICK way, num : Numbered(way, num)
    BY <1>1 DEF HasChains
  <2>2. Fit(way, num)
    BY <1>1, <2>1 DEF Fit, IInv
  <2> QED BY <1>1, <1>2, <1>4, <2>2, CountsBegin, CountsLoop DEF Next
<1> QED BY <1>3, <1>4

THEOREM CountsInductive == Spec => []CountInv
<1>1. Init => CountInv
  BY CountsInit DEF CountInv
<1>2. TypeInv /\ IInv /\ ChainInv /\ CountInv /\ Agree /\ TypeInv' /\ Agree' /\ ChainInv'
        /\ [Next]_vars => CountInv'
  BY CountsStep
<1> QED BY <1>1, <1>2, PagesAgree, Inductive, ChainsInductive, PTL DEF Spec

-----------------------------------------------------------------------------
(* The property counts what the list and the chains say.                   *)

\* From the head of the free list the pages come in turn, then NULL.
LEMMA ListFollows ==
  ASSUME TypeOK, NEW lst, NEW m, Listed(lst, m)
  PROVE  /\ IsFiniteSet(FreePages) /\ Cardinality(FreePages) = m
<1>1. /\ lst \in [Nat -> Block] /\ m \in Nat
      /\ free_list = IF m = 0 THEN NULL ELSE lst[m - 1]
      /\ \A k \in 0 .. m - 1 : next[lst[k]] = IF k = 0 THEN NULL ELSE lst[k - 1]
      /\ \A k, l \in 0 .. m - 1 : lst[k] = lst[l] => k = l
  BY DEF Listed
<1>2. IsFiniteSet(0 .. m - 1) /\ Cardinality(0 .. m - 1) = m
  <2>1. m - 1 \in Int /\ m - 1 - 0 + 1 = m /\ (0 > m - 1 <=> m = 0)
    BY <1>1
  <2> QED BY <2>1, FS_Interval
<1>3. IsFiniteSet(Block) /\ Cardinality(Block) = NumBlocks
  BY FS_Interval DEF Block
<1>4. m <= NumBlocks
  <2>1. PICK f : f = [k \in 0 .. m - 1 |-> lst[k]]
    OBVIOUS
  <2>2. f \in [0 .. m - 1 -> Block] /\ \A k, l \in 0 .. m - 1 : f[k] = f[l] => k = l
    BY <1>1, <2>1
  <2>3. ~(Cardinality(Block) < Cardinality(0 .. m - 1))
    <3> SUFFICES ASSUME Cardinality(Block) < Cardinality(0 .. m - 1) PROVE FALSE
      OBVIOUS
    <3>1. \E k, l \in 0 .. m - 1 : k # l /\ f[k] = f[l]
      BY Zenon, <1>2, <1>3, <2>2, FS_PigeonHole
    <3> QED BY <2>2, <3>1
  <2> QED BY <1>1, <1>2, <1>3, <2>3
<1>5. PICK c : c = Follow(next, free_list)
  OBVIOUS
<1>6. \A i \in 0 .. NumBlocks :
        c[i] = IF i = 0 THEN free_list ELSE IF c[i - 1] \in Block THEN next[c[i - 1]] ELSE c[i - 1]
  BY <1>5, Follows
<1>7. \A i \in 0 .. NumBlocks : c[i] = IF i < m THEN lst[m - 1 - i] ELSE NULL
  <2> DEFINE D == {i \in 0 .. NumBlocks : c[i] # IF i < m THEN lst[m - 1 - i] ELSE NULL}
  <2>1. SUFFICES ASSUME D # {} PROVE FALSE
    OBVIOUS
  <2>2. PICK x \in D : \A y \in D : x <= y
    <3>1. D \in SUBSET Nat
      OBVIOUS
    <3> HIDE DEF D
    <3> QED BY <3>1, <2>1, Least
  <2>3. x \in 0 .. NumBlocks /\ c[x] # IF x < m THEN lst[m - 1 - x] ELSE NULL
    OBVIOUS
  <2>4. CASE x = 0
    BY <1>1, <1>6, <2>3, <2>4
  <2>5. CASE x # 0
    <3>1. x - 1 \in 0 .. NumBlocks /\ x - 1 \notin D
      BY <2>2, <2>3, <2>5
    <3>2. c[x - 1] = IF x - 1 < m THEN lst[m - 1 - (x - 1)] ELSE NULL
      BY <3>1
    <3>3. CASE x - 1 < m
      <4>1. m - 1 - (x - 1) \in 0 .. m - 1 /\ m - 1 - (x - 1) - 1 = m - 1 - x
            /\ (m - 1 - (x - 1) = 0 <=> ~(x < m))
        BY <1>1, <2>3, <2>5, <3>3
      <4>2. c[x] = next[lst[m - 1 - (x - 1)]]
        BY <1>1, <1>6, <2>3, <2>5, <3>2, <3>3, <4>1
      <4> QED BY <1>1, <2>3, <4>1, <4>2
    <3>4. CASE ~(x - 1 < m)
      <4>1. c[x] = NULL
        BY <1>6, <2>3, <2>5, <3>2, <3>4 DEF NULL, Block
      <4> QED BY <1>1, <2>3, <3>4, <4>1
    <3> QED BY <3>3, <3>4
  <2> QED BY <2>4, <2>5
<1>8. FreePages = {lst[k] : k \in 0 .. m - 1}
  <2>1. FreePages = {c[i] : i \in 0 .. NumBlocks} \cap Block
    BY <1>5 DEF FreePages
  <2>2. ASSUME NEW k \in 0 .. m - 1 PROVE lst[k] \in FreePages
    <3>1. m - 1 - k \in 0 .. NumBlocks /\ m - 1 - k < m /\ m - 1 - (m - 1 - k) = k
      BY <1>1, <1>4
    <3> QED BY <1>1, <1>7, <2>1, <3>1
  <2>3. ASSUME NEW i \in 0 .. NumBlocks, c[i] \in Block
        PROVE  \E k \in 0 .. m - 1 : c[i] = lst[k]
    <3>1. i < m
      BY <1>7, <2>3 DEF NULL, Block
    <3>2. m - 1 - i \in 0 .. m - 1 /\ c[i] = lst[m - 1 - i]
      BY <1>1, <1>7, <3>1
    <3> QED BY <3>2
  <2> QED BY <2>1, <2>2, <2>3
<1>9. PICK g : g = [k \in 0 .. m - 1 |-> lst[k]]
  OBVIOUS
<1>10. g \in Bijection(0 .. m - 1, FreePages)
  <2>1. g \in [0 .. m - 1 -> FreePages]
    BY <1>8, <1>9
  <2>2. \A k, l \in 0 .. m - 1 : g[k] = g[l] => k = l
    BY <1>1, <1>9
  <2>3. \A b \in FreePages : \E k \in 0 .. m - 1 : g[k] = b
    BY <1>8, <1>9
  <2> QED BY <2>1, <2>2, <2>3 DEF Bijection, Injection, Surjection, IsInjective
<1> QED BY <1>2, <1>10, FS_Bijection DEF ExistsBijection

LEMMA PlacesAre ==
  ASSUME TypeOK, pc = "idle"
  PROVE  Places = Placed
<1>1. \A s \in Slot : Pages(s) \in Nat /\ Pages(s) = NumBlocksOf(entries[s].size)
  <2>1. \A s \in Slot : entries[s].size \in Nat
    BY DEF TypeOK, TableOK, Entry
  <2> QED BY <2>1, NumBlocksRange DEF Pages
<1>2. Places = UNION {{s} \X (0 .. Pages(s) - 1) : s \in Files}
  BY <1>1 DEF Places, Files
<1>3. ASSUME NEW p \in Placed PROVE p \in Places
  <2>1. p[1] \in Files /\ p[2] \in 0 .. Pages(p[1]) - 1 /\ p = <<p[1], p[2]>>
    BY <1>1 DEF Placed, Files
  <2>2. p \in {p[1]} \X (0 .. Pages(p[1]) - 1)
    BY <2>1
  <2> QED BY <1>2, <2>1, <2>2
<1>4. ASSUME NEW p \in Places PROVE p \in Placed
  <2>1. PICK s \in Files : p \in {s} \X (0 .. Pages(s) - 1)
    BY <1>2
  <2>2. s \in Slot /\ Holds(s) /\ Pages(s) \in Nat
    BY <1>1, <2>1 DEF Files
  <2>3. p[1] = s /\ p[2] \in 0 .. Pages(s) - 1 /\ p = <<p[1], p[2]>>
    BY <2>1
  <2> QED BY <2>2, <2>3 DEF Placed
<1> QED BY <1>3, <1>4

\* Between calls every page is on the free list, in the chain of a file, or
\* the last page of a deleted file, which fs_delete does not give back
\* (fs.c:181): no other page is lost, for every pool, table and history of
\* calls without an event of harm.
THEOREM NoPageForgotten == Spec => []PagesAccounted
<1>1. TypeInv /\ CountInv => PagesAccounted
  <2> SUFFICES ASSUME TypeInv, CountInv, Sound, pc = "idle"
               PROVE  Cardinality(FreePages) + Cardinality(Places)
                        + Cardinality(0 .. next_entry - 1 \ Files) = NumBlocks
    BY DEF PagesAccounted
  <2>1. PICK lst, m, tail, n, j : Counts(lst, m, tail, n, j)
    BY DEF CountInv, AllCounted
  <2>2. TypeOK /\ Listed(lst, m) /\ Sums(m, n - 1 - j) /\ n - 1 - j = 0
    BY <2>1 DEF TypeInv, Counts, Rest
  <2>3. 0 .. next_entry - 1 \ Files = Gone
    BY <2>2 DEF Gone, Files, Slot, TypeOK, TableOK
  <2>4. Cardinality(FreePages) = m /\ Places = Placed /\ m \in Nat
    BY <2>2, ListFollows, PlacesAre DEF Listed
  <2>5. m + Cardinality(Placed) + Cardinality(Gone) + 0 = NumBlocks
    BY <2>2 DEF Sums
  <2>6. Cardinality(Placed) \in Nat /\ Cardinality(Gone) \in Nat
    BY <2>2, GoneFinite, FS_CardinalityType DEF Sums
  <2>7. Cardinality(Placed) = Cardinality(Places)
    BY <2>4
  <2>8. m + Cardinality(Placed) + Cardinality(Gone) = NumBlocks
    BY <2>4, <2>5, <2>6
  <2> QED BY <2>3, <2>4, <2>7, <2>8
<1> QED BY <1>1, Inductive, CountsInductive, PTL
=============================================================================
