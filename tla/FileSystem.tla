----------------------------- MODULE FileSystem -----------------------------
(***************************************************************************)
(* The in-memory file system of the kernel: kernel/fs.c, and the file      *)
(* descriptors of kernel/fd.c.                                             *)
(*                                                                         *)
(* A pool of pages holds the data blocks.  The first eight bytes of a page *)
(* are used in two ways: a FREE page starts with a node_t, a pointer to    *)
(* the next free page, and a page that belongs to a file starts with the   *)
(* 32-bit index of the file's next block, followed by the file's bytes.    *)
(* The two views overlap and the code casts between them, so the model     *)
(* keeps both (next, index) and every write through one view updates the   *)
(* other.                                                                  *)
(*                                                                         *)
(* The calls of fs.c run one at a time (one CPU, no scheduler), but their  *)
(* loops need not end, so a loop iteration is a step and pc says which     *)
(* loop the running call is in.                                            *)
(***************************************************************************)
EXTENDS Integers, Sequences

CONSTANTS
  NumBlocks,    \* pages in the pool (MAX_BLOCK_SIZE + 1, 129)
  DataSize,     \* bytes of file data in a block (BLOCK_DATA_SIZE, 124)
  PtrTail,      \* data bytes that node_t's pointer overlaps (8 - 4)
  MaxFiles,     \* slots of the entries table (MAX_FILE_SIZE, 256)
  Name,         \* file names
  NoName,       \* the empty name "", which fs_delete leaves in a slot
  Byte,         \* values of a byte that a program writes
  Junk,         \* a byte nobody wrote: part of a pointer, or never set
  DeleteReads,  \* which index fs_delete follows, see DeleteNext
  MaxFd,        \* model bound: descriptors handed out (next_fd only grows)
  MaxLen        \* model bound: the length of a file, in bytes

ASSUME PoolAssumption ==
  /\ NumBlocks \in Nat \ {0}
  /\ DataSize \in Nat \ {0}
  /\ PtrTail \in 1 .. DataSize
  /\ MaxFiles \in Nat \ {0}
ASSUME BoundAssumption == MaxFd \in Nat /\ MaxLen \in Nat
ASSUME ValueAssumption ==
  /\ NoName \in Name
  /\ Junk \notin Byte
  /\ DeleteReads \subseteq {"kept", "reread"}

Block  == 0 .. NumBlocks - 1
Slot   == 0 .. MaxFiles - 1
Fd     == 0 .. MaxFd - 1
Offset == 0 .. DataSize - 1

END  == -1   \* BLOCK_INDEX_END, UINT32_MAX
NULL == -2
WILD == -3   \* a pointer or an index that leads outside the pool

VARIABLES
  next,        \* next[b]: the first eight bytes of page b, read as node_t.next
  index,       \* index[b]: its first four bytes, read as data_block_t.index
  data,        \* data[b]: the DataSize bytes behind the index
  free_list,
  entries,
  next_entry,
  fd_list,     \* the list of fd_nodes, as a function: descriptors are unique
  next_fd,
  pc,          \* the loop the running call is in, "idle" between calls
  fd, ent, cur, cnt, wp, pos, buf,   \* locals of the running call
  ret,         \* what the last call returned, or printed
  harm         \* history: what has happened that the code does not survive

pool  == <<next, index, data, free_list>>
table == <<entries, next_entry>>
fds   == <<fd_list, next_fd>>
vars  == <<pool, table, fds, pc, fd, ent, cur, cnt, wp, pos, buf, ret, harm>>

Entry == [name : Name, start : Block, size : 0 .. MaxLen]
HUGE  == MaxLen + DataSize   \* a size_t that wrapped below zero
Call  == {"idle", "seek", "alloc", "skip", "copy", "read", "delete", "crash"}
Harm  == {"torn", "dangling", "nameless", "reread", "shadowed"}

-----------------------------------------------------------------------------
(* The two views of a page.                                                *)

\* A node pointer read as an index: NULL is index 0, and the low half of a
\* page's address is an index far outside the pool.
AsIndex(p) == IF p = NULL THEN 0 ELSE WILD

\* node->next = p: the pointer also overwrites the index and PtrTail bytes.
SetNext(b, p) ==
  /\ next' = [next EXCEPT ![b] = p]
  /\ index' = [index EXCEPT ![b] = AsIndex(p)]
  /\ data' = [data EXCEPT ![b] = [o \in Offset |-> IF o < PtrTail THEN Junk ELSE @[o]]]

\* Mutant: rounds down.
BlocksForFloor(n) == n \div DataSize
BlocksFor(n) == (n + DataSize - 1) \div DataSize

AtLeastOne(n) == IF n > 1 THEN n ELSE 1

\* Mutants: a write adds to the size; a write inside the file cuts it short.
LargerSum(m, n) == m + n
LargerNew(m, n) == m
Larger(m, n) == IF m > n THEN m ELSE n

\* The blocks a write counts the file as having, from its size.
NumBlocksOf(size) == AtLeastOne(BlocksFor(size))

\* The blocks a write up to offset n has to add (none, if negative).
\* Mutant: the block that an empty file already has is forgotten.
MissingAll(size, n) == BlocksFor(n) - BlocksFor(size)
Missing(size, n) == BlocksFor(n) - NumBlocksOf(size)

\* Taking the first free page.  Mutant: the head stays where it is.
HeadKept == free_list
AfterHead == next[free_list]

\* The index that marks the last block.  Mutant: a new block starts at 0.
ZeroMark == 0
LastMark == END

-----------------------------------------------------------------------------
(* fs_init: the pages are pushed one by one, so the last one is the head.  *)
Init ==
  /\ next = [b \in Block |-> IF b = 0 THEN NULL ELSE b - 1]
  /\ index = [b \in Block |-> IF b = 0 THEN AsIndex(NULL) ELSE AsIndex(b - 1)]
  /\ data = [b \in Block |-> [o \in Offset |-> Junk]]
  /\ free_list = NumBlocks - 1
  /\ entries = [s \in Slot |-> [name |-> NoName, start |-> 0, size |-> 0]]
  /\ next_entry = 0
  /\ fd_list = [d \in Fd |-> NULL]
  /\ next_fd = 0
  /\ pc = "idle"
  /\ fd = 0 /\ ent = 0 /\ cur = NULL /\ cnt = 0 /\ wp = 0 /\ pos = 0 /\ buf = <<>>
  /\ ret = <<"init">>
  /\ harm = {}

\* The call returns v (or prints it) and its locals die.
Return(v) ==
  /\ pc' = "idle"
  /\ ret' = v
  /\ fd' = 0 /\ ent' = 0 /\ cur' = NULL /\ cnt' = 0 /\ wp' = 0 /\ pos' = 0 /\ buf' = <<>>

\* A dereference outside the pool: page_fault_handler halts the machine.
Crash ==
  /\ pc' = "crash"
  /\ UNCHANGED <<pool, table, fds, fd, ent, cur, cnt, wp, pos, buf, ret, harm>>

Happened(what, cond) == harm' = harm \cup (IF cond THEN {what} ELSE {})

-----------------------------------------------------------------------------
(* kernel/fd.c                                                             *)

create_fd(s) ==
  /\ next_fd < MaxFd
  /\ fd_list' = [fd_list EXCEPT ![next_fd] = s]
  /\ next_fd' = next_fd + 1

find_fd(d) == fd_list[d]

\* Mutant: the node stays in the list.
remove_fd_kept(d) == fd_list' = fd_list
remove_fd(d) == fd_list' = [fd_list EXCEPT ![d] = NULL]

-----------------------------------------------------------------------------
(* fs_open: a descriptor for the first entry of that name, or a new file.  *)

\* Mutant: the search stops one entry early.
NamedShort(n) == {s \in 0 .. next_entry - 2 : entries[s].name = n}
Named(n) == {s \in 0 .. next_entry - 1 : entries[s].name = n}

\* The slot a search from the start of the table stops at, if there is one.
First(S) == {s \in S : \A t \in S : s <= t}

OpenRefused(n) ==
  /\ next_entry >= MaxFiles \/ (Named(n) = {} /\ free_list = NULL)
  /\ Return(<<"open", -1>>)
  /\ UNCHANGED <<pool, table, fds, harm>>

OpenExisting(n) ==
  /\ next_entry < MaxFiles
  /\ \E s \in First(Named(n)) : create_fd(s)
  /\ Return(<<"open", next_fd>>)
  /\ Happened("nameless", n = NoName)
  /\ UNCHANGED <<pool, table>>

OpenNew(n) ==
  /\ next_entry < MaxFiles
  /\ Named(n) = {}
  /\ free_list \in Block
  /\ entries' = [entries EXCEPT ![next_entry] =
                   [name |-> n, start |-> free_list, size |-> 0]]
  /\ next_entry' = next_entry + 1
  /\ free_list' = AfterHead
  /\ index' = [index EXCEPT ![free_list] = LastMark]
  /\ next' = [next EXCEPT ![free_list] = WILD]
  /\ create_fd(next_entry)
  /\ Return(<<"open", next_fd>>)
  /\ Happened("nameless", n = NoName)
  /\ UNCHANGED data

OpenWild(n) ==
  /\ next_entry < MaxFiles
  /\ Named(n) = {}
  /\ free_list = WILD
  /\ Crash

fs_open(n) ==
  /\ pc = "idle"
  /\ OpenRefused(n) \/ OpenExisting(n) \/ OpenNew(n) \/ OpenWild(n)

-----------------------------------------------------------------------------
(* fs_write_at: extend the chain if needed, walk to the block of index i,  *)
(* copy byte by byte.                                                      *)

Writable(d, i) == find_fd(d) # NULL /\ i <= entries[find_fd(d)].size

WriteRefused(d, i) ==
  /\ ~Writable(d, i)
  /\ Return(<<"write", FALSE>>)
  /\ UNCHANGED <<pool, table, fds, harm>>

WriteBegin(d, i, b) ==
  LET e == entries[find_fd(d)]
      missing == Missing(e.size, i + Len(b))
  IN  /\ Writable(d, i)
      /\ i + Len(b) <= MaxLen
      /\ ent' = find_fd(d)
      /\ cur' = e.start
      /\ pc' = IF missing > 0 THEN "seek" ELSE "skip"
      /\ cnt' = IF missing > 0 THEN missing ELSE i \div DataSize
      /\ pos' = i
      /\ buf' = b
      /\ UNCHANGED <<pool, table, fds, fd, wp, ret, harm>>

fs_write_at(d, i, b) ==
  /\ pc = "idle"
  /\ WriteRefused(d, i) \/ WriteBegin(d, i, b)

fs_write(d, b) == fs_write_at(d, 0, b)

fs_append(d, b) ==
  IF find_fd(d) = NULL
  THEN pc = "idle" /\ WriteRefused(d, 0)
  ELSE fs_write_at(d, entries[find_fd(d)].size, b)

\* "go to the end of data block of file"
Seek ==
  /\ pc = "seek"
  /\ \/ /\ index[cur] \in Block
        /\ cur' = index[cur]
        /\ UNCHANGED <<pc, pool, table, fds, fd, ent, cnt, wp, pos, buf, ret, harm>>
     \/ /\ index[cur] = END
        /\ pc' = "alloc"
        /\ UNCHANGED <<pool, table, fds, fd, ent, cur, cnt, wp, pos, buf, ret, harm>>
     \/ index[cur] = WILD /\ Crash

\* One iteration of "allocate new block".  Only the last block gets the end
\* mark: if the pool runs dry before it, the blocks linked so far stay linked
\* and the index of the last one is what is left of its node pointer.
AllocFails ==
  /\ free_list = NULL
  /\ Happened("torn", index[cur] # END)
  /\ Return(<<"write", FALSE>>)
  /\ UNCHANGED <<pool, table, fds>>

AllocBlock ==
  LET b == free_list IN
  /\ b \in Block
  /\ free_list' = AfterHead
  /\ index' = [index EXCEPT ![cur] = b, ![b] = IF cnt = 1 THEN LastMark ELSE @]
  /\ next' = [next EXCEPT ![cur] = WILD, ![b] = IF cnt = 1 THEN WILD ELSE @]
  /\ IF cnt = 1
     THEN /\ pc' = "skip"
          /\ cur' = entries[ent].start
          /\ cnt' = pos \div DataSize
     ELSE /\ pc' = "alloc"
          /\ cur' = b
          /\ cnt' = cnt - 1
  /\ UNCHANGED <<data, table, fds, fd, ent, wp, pos, buf, ret, harm>>

Alloc ==
  /\ pc = "alloc"
  /\ AllocFails \/ AllocBlock \/ (free_list = WILD /\ Crash)

\* "Skip number of blocks to get to index to start writing at."  Past the end
\* of the chain the address is computed but not yet dereferenced.
SkipBlock ==
  /\ cnt > 0
  /\ cur \in Block
  /\ cur' = IF index[cur] \in Block THEN index[cur] ELSE WILD
  /\ cnt' = cnt - 1
  /\ UNCHANGED <<pc, pool, table, fds, fd, ent, wp, pos, buf, ret, harm>>

SkipDone ==
  /\ cnt = 0
  /\ entries' = [entries EXCEPT ![ent].size = Larger(pos + Len(buf), @)]
  /\ wp' = pos % DataSize
  /\ pc' = "copy"
  /\ UNCHANGED <<pool, next_entry, fds, fd, ent, cur, cnt, pos, buf, ret, harm>>

Skip ==
  /\ pc = "skip"
  /\ SkipBlock \/ SkipDone \/ (cnt > 0 /\ cur = WILD /\ Crash)

\* The block the next byte goes to: the following one when this one is full.
Target ==
  IF wp < DataSize THEN cur
  ELSE IF cur \in Block /\ index[cur] \in Block THEN index[cur] ELSE WILD

CopyByte ==
  LET o == IF wp < DataSize THEN wp ELSE 0 IN
  /\ buf # <<>>
  /\ Target \in Block
  /\ data' = [data EXCEPT ![Target][o] = Head(buf)]
  /\ next' = [next EXCEPT ![Target] = IF o < PtrTail THEN WILD ELSE @]
  /\ cur' = Target
  /\ wp' = o + 1
  /\ pos' = pos + 1
  /\ buf' = Tail(buf)
  /\ UNCHANGED <<pc, index, free_list, table, fds, fd, ent, cnt, ret, harm>>

CopyDone ==
  /\ buf = <<>>
  /\ Return(<<"write", TRUE>>)
  /\ UNCHANGED <<pool, table, fds, harm>>

Copy ==
  /\ pc = "copy"
  /\ CopyByte \/ CopyDone \/ (buf # <<>> /\ Target = WILD /\ Crash)

-----------------------------------------------------------------------------
(* fs_read prints the file block by block; buf collects what it prints.    *)

fs_read(d) ==
  /\ pc = "idle"
  /\ \/ /\ find_fd(d) = NULL
        /\ Return(<<"warning">>)
     \/ /\ find_fd(d) # NULL
        /\ pc' = "read"
        /\ ent' = find_fd(d)
        /\ cnt' = entries[find_fd(d)].size
        /\ cur' = entries[find_fd(d)].start
        /\ UNCHANGED <<fd, wp, pos, buf, ret>>
  /\ UNCHANGED <<pool, table, fds, harm>>

\* total_size -= BLOCK_DATA_SIZE on a size_t
\* Mutant: what a block printed is not subtracted.
LessNothing(n) == n
LessBlock(n) == IF n \in DataSize .. MaxLen THEN n - DataSize ELSE HUGE

\* The bytes one block contributes.  The model keeps one byte more than the
\* longest file, so that a print that runs on shows and stays finite.
Printed ==
  LET n == IF cnt < DataSize THEN cnt ELSE DataSize
      all == buf \o [o \in 1 .. n |-> data[cur][o - 1]]
  IN  SubSeq(all, 1, IF Len(all) > MaxLen THEN MaxLen + 1 ELSE Len(all))

ReadBlock ==
  /\ pc = "read"
  /\ \/ /\ index[cur] = END
        /\ Return(<<"read", Printed>>)
     \/ /\ index[cur] # END
        /\ cur' = index[cur]
        /\ pc' = IF index[cur] = WILD THEN "crash" ELSE "read"
        /\ buf' = Printed
        /\ cnt' = LessBlock(cnt)
        /\ UNCHANGED <<fd, ent, wp, pos, ret>>
  /\ UNCHANGED <<pool, table, fds, harm>>

-----------------------------------------------------------------------------
(* fs_delete pushes the blocks of the chain, up to but without the last.   *)

fs_delete(d) ==
  /\ pc = "idle"
  /\ \/ /\ find_fd(d) = NULL
        /\ Return(<<"warning">>)
     \/ /\ find_fd(d) # NULL
        /\ pc' = "delete"
        /\ fd' = d
        /\ ent' = find_fd(d)
        /\ cur' = entries[find_fd(d)].start
        /\ UNCHANGED <<cnt, wp, pos, buf, ret>>
  /\ UNCHANGED <<pool, table, fds, harm>>

\* The loop reads curr_block->index after curr_node->next overwrote it.  The
\* pointer and the index have types that may not alias, so an optimising
\* compiler may keep the value the loop test loaded; otherwise the new bytes
\* are read.  DeleteReads holds the outcomes a build has.
DeleteNext(how) == IF how = "kept" THEN index[cur] ELSE AsIndex(free_list)

DeleteBlock ==
  /\ index[cur] # END
  /\ SetNext(cur, free_list)
  /\ free_list' = cur
  /\ \E how \in DeleteReads :
       /\ cur' = DeleteNext(how)
       /\ pc' = IF DeleteNext(how) = WILD THEN "crash" ELSE "delete"
       /\ Happened("reread", how = "reread")
  /\ UNCHANGED <<table, fds, fd, ent, cnt, wp, pos, buf, ret>>

DeleteDone ==
  /\ index[cur] = END
  /\ entries' = [entries EXCEPT ![ent] = [name |-> NoName, start |-> 0, size |-> 0]]
  /\ remove_fd(fd)
  /\ Happened("dangling", \E d \in Fd \ {fd} : fd_list[d] = ent)
  /\ Return(<<"delete">>)
  /\ UNCHANGED <<pool, next_entry, next_fd>>

Delete == pc = "delete" /\ (DeleteBlock \/ DeleteDone)

-----------------------------------------------------------------------------
fs_rename(old, new) ==
  /\ pc = "idle"
  /\ \/ /\ Named(old) = {}
        /\ Return(<<"rename", FALSE>>)
        /\ UNCHANGED <<entries, harm>>
     \/ /\ \E s \in First(Named(old)) : entries' = [entries EXCEPT ![s].name = new]
        /\ harm' = harm \cup (IF NoName \in {old, new} THEN {"nameless"} ELSE {})
                        \cup (IF new # old /\ Named(new) # {} THEN {"shadowed"} ELSE {})
        /\ Return(<<"rename", TRUE>>)
  /\ UNCHANGED <<pool, next_entry, fds>>

-----------------------------------------------------------------------------
\* What a program may ask for.
Buffer == UNION {[1 .. n -> Byte] : n \in 0 .. MaxLen}

Begin ==
  \/ \E n \in Name : fs_open(n)
  \/ \E d \in Fd, b \in Buffer, i \in 0 .. MaxLen : fs_write_at(d, i, b)
  \/ \E d \in Fd, b \in Buffer : fs_write(d, b)
  \/ \E d \in Fd, b \in Buffer : fs_append(d, b)
  \/ \E d \in Fd : fs_read(d)
  \/ \E d \in Fd : fs_delete(d)
  \/ \E old, new \in Name : fs_rename(old, new)

\* The running call's next loop iteration.
Step == Seek \/ Alloc \/ Skip \/ Copy \/ ReadBlock \/ Delete

Next == Begin \/ Step

Spec == Init /\ [][Next]_vars

\* The CPU keeps executing the call it is in; no program is obliged to call.
FairSpec == Spec /\ WF_vars(Step)

-----------------------------------------------------------------------------
(* Properties.  Five events break the structures the code relies on; harm  *)
(* remembers which have happened:                                          *)
(*   torn      a write ran out of pages after it had linked some           *)
(*   dangling  a file was deleted that another descriptor still refers to  *)
(*   nameless  the empty name, which marks a deleted entry, was used       *)
(*   reread    the build re-reads the index that fs_delete overwrote       *)
(*   shadowed  a file was renamed to the name of another one               *)
(* The last one leaves memory intact.                                      *)
Sound == harm \subseteq {"shadowed"}

PoolOK ==
  /\ next \in [Block -> Block \cup {NULL, WILD}]
  /\ index \in [Block -> Block \cup {END, WILD}]
  /\ data \in [Block -> [Offset -> Byte \cup {Junk}]]
  /\ free_list \in Block \cup {NULL, WILD}

TableOK ==
  /\ entries \in [Slot -> Entry]
  /\ next_entry \in 0 .. MaxFiles
  /\ fd_list \in [Fd -> Slot \cup {NULL}]
  /\ next_fd \in 0 .. MaxFd

CallOK ==
  /\ pc \in Call
  /\ fd \in 0 .. MaxFd
  /\ ent \in Slot
  /\ cur \in Block \cup {NULL, WILD}
  /\ cnt \in Nat
  /\ wp \in 0 .. DataSize
  /\ pos \in Nat
  /\ buf \in Seq(Byte \cup {Junk})
  /\ harm \subseteq Harm

\* Every variable keeps its type: no call stores an index outside its table.
TypeOK == PoolOK /\ TableOK /\ CallOK

\* A page by its contents: on the free list, or with a file's index in it.  A
\* page that a write has just taken, but not yet marked, is neither.
Owned(b) == next[b] = WILD
Free(b)  == next[b] # WILD /\ ~(pc = "alloc" /\ b = cur)

\* A slot that holds a file; the one fs_delete is working on no longer does.
Holds(s) == s < next_entry /\ entries[s].name # NoName /\ ~(pc = "delete" /\ s = ent)

\* The free list never reaches a page of a file, and a page is the successor
\* of at most one page (or the head of one list): what fs_open and the loops
\* of fs_write_at and fs_delete rely on when they cast one view to the other.
FreeListDisjoint ==
  /\ free_list # WILD
  /\ \A b \in Block : free_list = b => Free(b)
  /\ \A b, c \in Block : Free(b) /\ next[b] = c => Free(c) /\ free_list # c
  /\ \A b, c \in Block :
       Free(b) /\ Free(c) /\ next[b] = next[c] /\ next[b] # NULL => b = c
  /\ \A b, c \in Block : Owned(b) /\ index[b] = c => ~Free(c)
  /\ \A s \in Slot, b \in Block : Holds(s) /\ entries[s].start = b => Owned(b)

\* No block belongs to two files, or twice to one.
FilesDisjoint ==
  /\ \A b, c \in Block :
       Owned(b) /\ Owned(c) /\ index[b] = index[c] /\ index[b] \in Block => b = c
  /\ \A s, t \in Slot :
       Holds(s) /\ Holds(t) /\ entries[s].start = entries[t].start => s = t
  /\ \A s \in Slot, b \in Block :
       Holds(s) /\ Owned(b) => entries[s].start # index[b]

\* While nothing has broken the structures, the free list and the chains of
\* the files share no page (fs.c casts a page from one use to the other).
NoSharing == Sound /\ pc # "crash" => FreeListDisjoint /\ FilesDisjoint

\* Every descriptor refers to a file that is there, so that no call works on
\* a cleared entry (whose start index is block 0).
DescriptorsLive ==
  Sound => \A d \in Fd : find_fd(d) # NULL =>
             Holds(find_fd(d)) \/ (pc = "delete" /\ find_fd(d) = ent)

\* No call follows a pointer or an index out of the pool.
NoCrash == Sound => pc # "crash"

\* The pages from b on, each telling by f which one comes next: the n-th counted
\* from 0, or what the last page before it says.
Follow(f, b) ==
  LET c[n \in 0 .. NumBlocks] ==
        IF n = 0 THEN b ELSE IF c[n - 1] \in Block THEN f[c[n - 1]] ELSE c[n - 1]
  IN  c

\* The blocks of the chain that starts at b.
Chain(b) == Follow(index, b)

\* Between calls a file has exactly the blocks its size asks for, and they
\* end with the end mark: a call finds the byte it looks for, and every walk
\* ends.
ChainsMatchSizes ==
  Sound /\ pc = "idle" =>
    \A s \in Slot : Holds(s) =>
      LET c == Chain(entries[s].start)
          n == NumBlocksOf(entries[s].size)
      IN  c[n] = END /\ c[n - 1] \in Block

\* Every call returns, unless the structures are already broken.
CallsReturn == (pc # "idle") ~> (pc = "idle" \/ ~Sound)

\* As long as nobody renames a file to another one's name, a name leads to at
\* most one file: fs_open never makes a second file of a name.
NamesUnique ==
  harm = {} => \A s, t \in Slot :
    Holds(s) /\ Holds(t) /\ entries[s].name = entries[t].name => s = t

-----------------------------------------------------------------------------
(* What makes NoSharing and DescriptorsLive inductive.                     *)

\* The two views of a page agree: bytes that are a pointer are not an end
\* mark, and a page of a file holds an index that can be followed.
ViewsAgree ==
  \A b \in Block : IF Owned(b) THEN index[b] \in Block \cup {END}
                   ELSE index[b] = AsIndex(next[b])

\* A loop that reads an index, or writes data, is at a page of a file.
CursorOwned ==
  /\ pc \in {"seek", "read", "delete"} => Owned(cur)
  /\ pc \in {"skip", "copy"} /\ cur \in Block => Owned(cur)

\* A call works on a slot that is in use.
EntryInUse ==
  pc \in {"seek", "alloc", "skip", "copy", "read", "delete"} =>
    ent < next_entry /\ entries[ent].name # NoName

\* The page that fs_delete is about to push is in no other chain.
CursorUnclaimed ==
  pc = "delete" =>
    /\ \A s \in Slot : Holds(s) => entries[s].start # cur
    /\ \A b \in Block : Owned(b) => index[b] # cur

Structure ==
  /\ FreeListDisjoint
  /\ FilesDisjoint
  /\ ViewsAgree
  /\ CursorOwned
  /\ EntryInUse
  /\ CursorUnclaimed

IInv == (Sound /\ pc # "crash" => Structure) /\ DescriptorsLive
=============================================================================
