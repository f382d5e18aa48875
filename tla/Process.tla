-------------------------------- MODULE Process --------------------------------
(***************************************************************************)
(* Programs: the rest of _start (boot.c), exec, exit and mmap              *)
(* (interrupts.c), load_module (modules.c), malloc (stdlib/mem.c) and the  *)
(* shell (init.c).                                                         *)
(*                                                                         *)
(* There is one program at a time; it calls the kernel, which may replace  *)
(* it.  The address space is that of module AddressSpace: pages mapped or  *)
(* not; what they hold is left out.  Memory is asked for page tables only, *)
(* and may be short at any time.  Addresses and lengths wrap at Word.      *)
(***************************************************************************)
EXTENDS Boot, Format, Syscalls

CONSTANTS
  Word,              \* addresses and lengths are numbers below it (2^64)
  MaxInt,            \* the largest int (2^31 - 1)
  PAGESIZE,
  TableSize,         \* pages mapped by one page table (512)
  ALIGN,             \* what malloc rounds to (16)
  Upper,             \* pages of the kernel's half
  Stack,             \* pages of the user stack
  MMAP_MEM_START,
  Modules,           \* of the boot loader: a sequence of [string, segments, bss]
  InitName,          \* "init"
  pos,               \* the names the shell knows
  BUFFER_SIZE, Newline, NUL,
  Protection, All, ReadWrite, Unmapped,
  Key,               \* model bounds: characters typed,
  Sizes,             \*   arguments of malloc,
  Lengths, Places,   \*   and of mmap;
  MaxLine,           \*   characters of a line,
  MaxCalls,          \*   calls of malloc and mmap by a program,
  MaxDepth           \*   programs started from one another

Address == 0 .. Word - 1
Page    == 0 .. (Word \div PAGESIZE) - 1
String  == Seq(Key \cup {Newline, NUL})
Nobody  == <<>>     \* the name of no program

ASSUME ProcessAssumption ==
  /\ Word \in Nat /\ MaxInt \in Nat /\ PAGESIZE \in Nat \ {0} /\ ALIGN \in Nat \ {0}
  /\ TableSize \in Nat \ {0} /\ BUFFER_SIZE \in Address \ {0}
  /\ Word % PAGESIZE = 0 /\ PAGESIZE % ALIGN = 0
  /\ MMAP_MEM_START \in Address \ {0} /\ MMAP_MEM_START % PAGESIZE = 0
  /\ \A p \in Upper : MMAP_MEM_START <= p * PAGESIZE
  /\ Upper \subseteq Page /\ Upper # {} /\ Stack \subseteq Page /\ Stack # {} /\ Stack \cap Upper = {}
  /\ {All, ReadWrite} \subseteq Protection /\ Unmapped \notin Protection
  /\ Sizes \subseteq Address /\ Lengths \cup Places \subseteq Address \ {0}
  /\ MaxDepth \in Nat

\* Programs are linked into the lower half.
ASSUME ProgramAssumption ==
  /\ InitName \in String
  /\ Modules \in Seq([string : String, segments : Seq([page : Page, pages : Nat]),
                     bss : [bump : Address, space_remaining : Address]])
  /\ \A n \in DOMAIN Modules : \A k \in DOMAIN Modules[n].segments :
       LET seg == Modules[n].segments[k]
       IN  seg.pages > 0 /\ seg.page .. seg.page + seg.pages - 1 \subseteq Page \ Upper

\* Images and stack lie below the regions (init/linker.ld:21, boot.c:139).
ASSUME LayoutAssumption ==
  LET first == MMAP_MEM_START \div PAGESIZE IN
  /\ \A p \in Stack : p < first
  /\ \A n \in DOMAIN Modules : \A k \in DOMAIN Modules[n].segments :
       LET seg == Modules[n].segments[k] IN seg.page + seg.pages <= first

\* Characters are numbers, and nobody types the one that ends a string.
ASSUME CharacterAssumption ==
  Key \subseteq Nat /\ NUL \notin Key /\ pos \in Seq(Seq(Nat))

VARIABLES
  pc,          \* "boot"; a program is to "run"; it waits for "mmap"; "halt";
               \*   "wild": the shell has overwritten itself
  program,     \* name of the program
  depth,       \* calls of exec whose frames are on the interrupt stack
  space,       \* space[p]: protection of a page, or Unmapped
  mem_start,
  request,     \* the mmap call that is running
  bump, space_remaining,
  buffer, i,   \* of the shell
  heap,        \* history: blocks malloc gave to this program, and whether the
               \*   space they were taken from had been asked for,
  regions,     \*   regions mmap gave to it,
  overdrawn,   \*   it asked for more than mmap can give,
  short,       \*   a page of its stack or regions was not mapped for want of memory,
  line         \*   what was typed since the last newline

shell   == <<buffer, i, line>>
memory  == <<space, mem_start, regions, overdrawn, short>>
library == <<bump, space_remaining, heap>>
vars == <<bootVars, pc, program, depth, memory, request, library, shell>>

PageOf(address) == address \div PAGESIZE
NoRequest == [at |-> 0, left |-> 0, prot |-> All, result |-> 0, sz |-> 0]

-----------------------------------------------------------------------------
(* string.c                                                                *)

\* Mutant: a string equals those it begins.
strcmpPrefix(s1, s2) == IF IsPrefix(s1, s2) THEN 0 ELSE 1

strcmp(s1, s2) ==
  LET differ == {n \in DOMAIN s1 \cap DOMAIN s2 : s1[n] # s2[n]} IN
  IF differ # {} THEN s1[Min(differ)] - s2[Min(differ)]
  ELSE CASE Len(s1) = Len(s2) -> 0
         [] Len(s1) < Len(s2) -> -1
         [] Len(s1) > Len(s2) -> 1

-----------------------------------------------------------------------------
(* modules.c                                                               *)

Found(name) == {n \in DOMAIN Modules : strcmp(Modules[n].string, name) = 0}
Segments(name) == Modules[Min(Found(name))].segments

\* A segment is given one page, the first; memcpy fills all it has.
Given(name) == {seg.page : seg \in Range(Segments(name))}
Image(name) == UNION {seg.page .. seg.page + seg.pages - 1 : seg \in Range(Segments(name))}

\* The module is there, none of its pages is taken, and the copy of no segment
\* touches a page that is not mapped.
Loads(s, name) ==
  /\ Found(name) # {}
  /\ LET seg == Segments(name) IN
     \A n \in DOMAIN seg :
       /\ s[seg[n].page] = Unmapped
       /\ \A m \in 1 .. n - 1 : seg[m].page # seg[n].page
       /\ \A p \in seg[n].page .. seg[n].page + seg[n].pages - 1 :
            s[p] # Unmapped \/ \E m \in 1 .. n : seg[m].page = p

\* All p_memsz bytes of a segment come from the file, and none is cleared: the
\* variables of .bss hold what follows the initialised data there.
Leftover(name) == Modules[Min(Found(name))].bss

load_module(s, name) == [p \in Page |-> IF p \in Given(name) THEN All ELSE s[p]]

unmap_lower_half(s) == [p \in Page |-> IF p \in Upper THEN s[p] ELSE Unmapped]

-----------------------------------------------------------------------------
(* Programs come and go.                                                   *)

\* A program's variables are part of its image: malloc's are in .bss.
Enter(name, s) ==
  /\ pc' = "run"
  /\ program' = name
  /\ space' = s
  /\ mem_start' = MMAP_MEM_START
  /\ regions' = {} /\ overdrawn' = FALSE
  /\ heap' = {} /\ bump' = Leftover(name).bump /\ space_remaining' = Leftover(name).space_remaining
  /\ buffer' = [n \in 0 .. BUFFER_SIZE - 1 |-> NUL] /\ i' = 0 /\ line' = <<>>
  /\ request' = NoRequest

\* A handler prints its message and halts.
Halt ==
  /\ pc' = "halt"
  /\ UNCHANGED <<memory, request, library, shell>>

\* The interrupt flag while a system call runs.
FlagInCall == enabled /\ idt[SYSCALL_INTERRUPT].type = "trap"

\* The program is called as a function, in the kernel: nothing on the interrupt
\* stack is given back.  A module that is not there is called at -1.
SYS_exec(name) ==
  /\ depth < MaxDepth
  /\ depth' = depth + 1
  /\ ring' = 0
  /\ enabled' = FlagInCall
  /\ UNCHANGED <<todo, tables, pic>>
  /\ LET s == unmap_lower_half(space) IN
     \/ /\ Loads(s, name)
        /\ Enter(name, load_module(s, name))
        /\ short' = FALSE
     \/ /\ program' = name
        /\ Halt

\* Mutant: the pages below the stack pointer's are left out.
TopOnly == {Max(Stack)}
StackPages == Stack

\* The flags stay as they are; the next interrupt starts from the top of the
\* interrupt stack.
usermode_entry == ring' = 3 /\ depth' = 0

\* The end of _start, and SYS_exit: init gets a stack and runs in user mode.
\* One page table maps the stack, or none does.
EnterInit ==
  LET s == unmap_lower_half(space) IN
  /\ UNCHANGED <<todo, tables, pic>>
  /\ \/ /\ Loads(s, InitName)
        /\ \E missing \in {{}, StackPages} :
             /\ Enter(InitName,
                      [p \in Page |-> IF p \in StackPages \ missing THEN ReadWrite
                                      ELSE load_module(s, InitName)[p]])
             /\ short' = (missing # {})
        /\ usermode_entry
     \/ /\ Halt
        /\ UNCHANGED <<ring, depth, program>>

Start ==
  /\ pc = "boot" /\ todo = <<>>
  /\ EnterInit
  /\ UNCHANGED enabled

\* Mutant: the call is not dispatched, and returns.
NotDispatched == UNCHANGED vars

SYS_exit ==
  /\ EnterInit
  /\ enabled' = FlagInCall

-----------------------------------------------------------------------------
(* mmap.  That a page is mapped already, or cannot be, is printed and      *)
(* otherwise ignored.                                                      *)

Running == pc = "run" /\ (ring = 3 => space[Max(Stack)] # Unmapped)

HasTable(p) == \E q \in Page : space[q] # Unmapped /\ q \div TableSize = p \div TableSize

vm_map(p, prot) ==
  \/ space[p] # Unmapped /\ UNCHANGED <<space, short>>
  \/ /\ space[p] = Unmapped /\ (HasTable(p) \/ ~short)
     /\ space' = [space EXCEPT ![p] = prot]
     /\ UNCHANGED short
  \/ /\ space[p] = Unmapped /\ ~HasTable(p)
     /\ short' = TRUE
     /\ UNCHANGED space

PagesIn(length) == (length + PAGESIZE - 1) \div PAGESIZE

\* The pages its bytes lie on; they may wrap.
Region(address, length, prot, kind) ==
  [pages |-> {PageOf((address + n) % Word) : n \in 0 .. length - 1}, prot |-> prot, kind |-> kind]

PagesBytes(length) == PagesIn(length) * PAGESIZE

\* Mutant: one page is reckoned for every request.
OnePage(length) == {PAGESIZE}
\* What mem_start is moved by.  The number of pages is cut to an int, and so may
\* be its product with the size of a page: it is an int that overflows.
AsInt(n) == ((n + MaxInt + 1) % (2 * (MaxInt + 1))) - (MaxInt + 1)
Reckoned(length) ==
  LET bytes == AsInt(PagesIn(length)) * PAGESIZE IN {bytes, AsInt(bytes)}

\* Between MMAP_MEM_START and the kernel's half.
Top  == Min(Upper) * PAGESIZE
Room == Top - MMAP_MEM_START

\* The call for malloc's sz bytes, or for the program itself: sz = 0.
MmapAnywhere(length, prot, sz) ==
  /\ pc' = "mmap"
  /\ \E n \in Reckoned(length) : mem_start' = (mem_start + n) % Word
  /\ request' = [at |-> mem_start, left |-> length, prot |-> prot, result |-> mem_start, sz |-> sz]
  /\ regions' = regions \cup {Region(mem_start, length, prot, IF sz = 0 THEN "own" ELSE "heap")}
  /\ overdrawn' = (overdrawn \/ PagesBytes(length) > MaxInt \/ mem_start + PagesBytes(length) > Top)
  /\ UNCHANGED <<space, short>>

\* The first page is given every right, and its part of the length is taken
\* off without asking whether there is as much.
MmapPlaced(address, length, prot) ==
  /\ pc' = "mmap"
  /\ vm_map(PageOf(address), All)
  /\ LET aligned == PageOf(address) * PAGESIZE
         first_len == PAGESIZE - (address - aligned)
     IN  request' = [at |-> (aligned + PAGESIZE) % Word, left |-> (length - first_len) % Word,
                     prot |-> prot, result |-> address, sz |-> 0]
  /\ regions' = regions \cup {Region(address, length, prot, "placed")}
  /\ UNCHANGED <<mem_start, overdrawn>>

SYS_mmap(address, length, prot) ==
  /\ IF address = 0 THEN MmapAnywhere(length, prot, 0) ELSE MmapPlaced(address, length, prot)
  /\ UNCHANGED library

\* Mutant: what is left is not counted down.
SameLeft(length) == length
LessPage(length) == (length - PAGESIZE) % Word

MmapPage ==
  /\ pc = "mmap" /\ request.left # 0
  /\ vm_map(PageOf(request.at), request.prot)
  /\ request' = [request EXCEPT !.at = (@ + PAGESIZE) % Word, !.left = LessPage(@)]
  /\ UNCHANGED <<bootVars, pc, program, depth, mem_start, regions, overdrawn, library, shell>>

-----------------------------------------------------------------------------
(* malloc                                                                  *)

ROUND_UP(x, y) == IF x % y = 0 THEN x ELSE (x + (y - (x % y))) % Word

\* The block of sz bytes is taken from the space bytes at from.  Mutant: what
\* is left is where it was.
GrabOnly(from, sz) == from
Behind(from, sz) == (from + sz) % Word

Grab(from, left, sz, asked) ==
  /\ bump' = Behind(from, ROUND_UP(sz, ALIGN))
  /\ space_remaining' = (left - ROUND_UP(sz, ALIGN)) % Word
  /\ heap' = heap \cup {[at |-> from, size |-> sz, asked |-> asked]}

\* Malloc has had space from mmap.
Grown == \E b \in heap : b.asked

Refused(length) == length = 0      \* by mmap, which says -1; malloc looks for NULL

malloc(sz) ==
  LET rounded_up == ROUND_UP(ROUND_UP(sz, ALIGN), PAGESIZE) IN
  \/ /\ space_remaining >= ROUND_UP(sz, ALIGN)
     /\ Grab(bump, space_remaining, sz, Grown)
     /\ UNCHANGED <<pc, memory, request>>
  \/ /\ space_remaining < ROUND_UP(sz, ALIGN)
     /\ Refused(rounded_up)
     /\ Grab(Word - 1, 0, sz, FALSE)
     /\ UNCHANGED <<pc, memory, request>>
  \/ /\ space_remaining < ROUND_UP(sz, ALIGN)
     /\ ~Refused(rounded_up)
     /\ MmapAnywhere(rounded_up, ReadWrite, sz)
     /\ UNCHANGED library

MmapReturn ==
  /\ pc = "mmap" /\ request.left = 0
  /\ pc' = "run"
  /\ request' = NoRequest
  /\ LET sz == request.sz IN
     IF sz # 0 /\ request.result # 0
     THEN Grab(request.result, ROUND_UP(ROUND_UP(sz, ALIGN), PAGESIZE), sz, TRUE)
     ELSE UNCHANGED library
  /\ UNCHANGED <<bootVars, program, depth, memory, shell>>

-----------------------------------------------------------------------------
(* Programs other than the shell call what they like; hello_world and      *)
(* test_mod end with SYS_exit.                                             *)

Calls == Cardinality(heap) + Cardinality(regions)

Client ==
  /\ Running /\ program # InitName
  /\ \/ /\ Calls < MaxCalls
        /\ \/ \E sz \in Sizes : malloc(sz)
           \/ \E a \in Places \cup {0}, n \in Lengths, prot \in Protection : SYS_mmap(a, n, prot)
        /\ UNCHANGED <<bootVars, program, depth, shell>>
     \/ \E name \in {m.string : m \in Range(Modules)} \cup {Nobody} : SYS_exec(name)

Exit == Running /\ program # InitName /\ SYS_exit

\* Without its stack a program faults at once.
Fault ==
  /\ pc = "run" /\ ~Running
  /\ Halt
  /\ UNCHANGED <<bootVars, program, depth>>

-----------------------------------------------------------------------------
(* The shell, one turn of its loop for each character that read returns.   *)

ShellStart ==
  /\ Running /\ program = InitName /\ heap = {}
  /\ malloc(BUFFER_SIZE)
  /\ UNCHANGED <<bootVars, program, depth, shell>>

InBuffer(p) == \E b \in heap : p \in PageOf(b.at) .. PageOf(b.at + BUFFER_SIZE - 1)
OwnMemory == UNION {r.pages : r \in regions}
Prompt ==
  /\ Running /\ program = InitName /\ heap # {}
  /\ \A p \in Page : InBuffer(p) => p \in OwnMemory /\ space[p] # Unmapped

\* Mutant: the buffer is reset one character late.
LateReset(n) == IF n > BUFFER_SIZE THEN 0 ELSE n
Reset(n) == IF n = BUFFER_SIZE THEN 0 ELSE n

ReadChar(c) ==
  /\ c # Newline /\ Len(line) < MaxLine
  /\ buffer' = [buffer EXCEPT ![Reset(i)] = c]
  /\ i' = Reset(i) + 1
  /\ line' = Append(line, c)
  /\ UNCHANGED <<bootVars, pc, program, depth, memory, request, library>>

\* The string in the buffer once the character at position n is cleared.
StringTo(n) ==
  LET end == Min({m \in 0 .. n : m = n \/ buffer[m] = NUL})
  IN  [m \in 1 .. end |-> buffer[m - 1]]

Command == \E n \in DOMAIN pos : strcmp(pos[n], StringTo(Reset(i))) = 0

ReadNewline ==
  \/ /\ Command
     /\ SYS_exec(StringTo(Reset(i)))
  \/ /\ ~Command
     /\ buffer' = [buffer EXCEPT ![Reset(i)] = NUL]
     /\ i' = 0
     /\ line' = <<>>
     /\ UNCHANGED <<bootVars, pc, program, depth, memory, request, library>>

Shell == Prompt /\ (ReadNewline \/ \E c \in Key : ReadChar(c))

\* The buffer is not mapped, or is where the shell has its code or its stack (or
\* the kernel its own): what is typed is written over it.
ShellFault ==
  /\ Running /\ program = InitName /\ heap # {} /\ ~Prompt
  /\ pc' = IF \E p \in Page \ OwnMemory : InBuffer(p) /\ space[p] # Unmapped THEN "wild" ELSE "halt"
  /\ UNCHANGED <<bootVars, program, depth, memory, request, library, shell>>

-----------------------------------------------------------------------------
Init ==
  /\ BootInit
  /\ pc = "boot"
  /\ program = Nobody
  /\ depth = 0
  /\ space = [p \in Page |-> All]
  /\ mem_start = MMAP_MEM_START
  /\ request = NoRequest
  /\ bump = 0 /\ space_remaining = 0
  /\ buffer = [n \in 0 .. BUFFER_SIZE - 1 |-> NUL] /\ i = 0
  /\ heap = {} /\ regions = {} /\ overdrawn = FALSE /\ short = FALSE /\ line = <<>>

Boot == pc = "boot" /\ BootStep /\ UNCHANGED <<pc, program, depth, memory, request, library, shell>>
Mmap == MmapPage \/ MmapReturn

Next == Boot \/ Start \/ Client \/ Exit \/ Fault \/ Mmap \/ ShellStart \/ Shell \/ ShellFault

\* The processor goes on; a program that keeps returning from its calls comes
\* to its SYS_exit at last.  Nobody has to type.
Fairness ==
  /\ WF_vars(Boot) /\ WF_vars(Start) /\ WF_vars(Mmap) /\ WF_vars(Fault)
  /\ SF_vars(Exit)

Spec == Init /\ [][Next]_vars /\ Fairness

-----------------------------------------------------------------------------
(* Properties.                                                             *)

Regions == [pages : SUBSET Page, prot : Protection, kind : {"own", "heap", "placed"}]

TypeOK ==
  /\ pc \in {"boot", "run", "mmap", "halt", "wild"}
  /\ program \in String
  /\ depth \in 0 .. MaxDepth
  /\ space \in [Page -> Protection \cup {Unmapped}]
  /\ mem_start \in Address
  /\ request \in [at : Address, left : Address, prot : Protection, result : Address, sz : Address]
  /\ bump \in Address /\ space_remaining \in Address
  /\ buffer \in [0 .. BUFFER_SIZE - 1 -> Key \cup {NUL}] /\ i \in 0 .. BUFFER_SIZE
  /\ heap \subseteq [at : Address, size : Address, asked : BOOLEAN]
  /\ regions \subseteq Regions
  /\ overdrawn \in BOOLEAN /\ short \in BOOLEAN
  /\ line \in Seq(Key)

Placed == UNION {r.pages : r \in {s \in regions : s.kind = "placed"}}
Chosen == {r \in regions : r.kind # "placed"}
Lower(s) == {p \in Page \ Upper : s[p] # Unmapped}

\* The program has asked for more than there is, or than an int counts, or for
\* a block whose size wraps when it is rounded; nothing in the code stops it.
Overdrawn == overdrawn \/ \E b \in heap : b.size > Room

\* A program finds its image and, in user mode, its stack mapped, and besides
\* them only what it asked for: nothing of the programs before it, whatever
\* they mapped and however they ended.  User mode always starts with an empty
\* interrupt stack (interrupts.c:356-394, boot.c:136-157, modules.c:79-131).
OwnPages ==
  pc = "run" =>
    /\ Image(program) \subseteq Lower(space)
    /\ ring = 3 /\ ~short => Stack \subseteq Lower(space)
    /\ Lower(space) \subseteq
         Image(program) \cup (UNION {r.pages : r \in regions})
           \cup (IF ring = 3 THEN Stack ELSE {})
    /\ ring = 3 => depth = 0

\* A block is in a region that malloc has asked for.
InRegion(b) ==
  \E r \in regions : r.kind = "heap" /\ PageOf(b.at) .. PageOf(b.at + b.size - 1) \subseteq r.pages

\* Regions chosen by the kernel share no page with one another and lie between
\* MMAP_MEM_START and the kernel's half; from its first call of mmap on, blocks
\* of malloc share no byte and lie in regions malloc asked for; and only the
\* leftovers of a file in .bss can make it do without that call
\* (interrupts.c:328-352, mem.c:58-88).
HeapApart ==
  ~Overdrawn =>
    LET given == {b \in heap : b.asked} IN
    /\ \A r, t \in Chosen : r # t => r.pages \cap t.pages = {}
    /\ \A r \in Chosen : r.pages \subseteq PageOf(MMAP_MEM_START) .. PageOf(Top) - 1
    /\ \A a, b \in given : a # b => a.at + a.size <= b.at \/ b.at + b.size <= a.at
    /\ \A b \in given : b.size > 0 => InRegion(b)
    /\ \A b \in heap \ given : b.size > 0 /\ pc \in {"run", "mmap"} =>
         Leftover(program).space_remaining >= b.size

\* When mmap returns, all pages of the region are mapped, with the protection
\* asked for where the kernel chose them, unless memory was short or the
\* program had placed a mapping of its own there (interrupts.c:292-354).
RegionsMapped ==
  pc = "run" /\ ~short /\ ~Overdrawn =>
    /\ \A r \in Chosen : \A p \in r.pages \ Placed : space[p] = r.prot
    /\ Placed \subseteq {p \in Page : space[p] # Unmapped}

\* The shell runs a command only if it is known and was typed: the whole line,
\* or, since the buffer starts again when it is full, what came after its last
\* full buffer.  It runs every such command (init.c:24-64, string.c:11-35).
LastTyped ==
  SubSeq(line, (Len(line) \div BUFFER_SIZE) * BUFFER_SIZE + 1, Len(line))
CommandRun ==
  [][/\ Prompt /\ depth' = depth + 1 => program' = LastTyped /\ program' \in Range(pos)
     /\ Prompt /\ line # <<>> /\ line' = <<>> /\ depth' = depth =>
          LastTyped \notin Range(pos)]_vars

\* While the shell waits for a key the keyboard can interrupt, in every mode
\* and at every depth, or kgetc would poll for ever (interrupts.c:150-154,
\* 490; usermode_entry.s:17).
KeysArrive ==
  Prompt => FlagInCall /\ Unmasked(1) /\ Served(VectorOf(1))

\* A call of a program is served by the function of the kernel it is meant for,
\* with its arguments in their places, and gets its result (stdlib/io.c:14-23,
\* mem.c:55, fs.c:16-42, interrupts.c:162-200).  The calls of fs.h that do not
\* are the subject of FileCallsArrive.
CallsArrive ==
  pc = "run" =>
    /\ Served(SYSCALL_INTERRUPT) /\ idt[SYSCALL_INTERRUPT].handler = "syscall_entry"
    /\ AllArrive

\* "bool file_write_at(int fd, size_t index, uint8_t* buff, size_t size)" and
\* "bool file_rename(...)" (stdlib/fs.h:8, 16): every call of fs.h reaches the
\* function of the file system of that name with the arguments it is declared
\* with, and returns the result it is declared with.
FileCallsArrive ==
  pc = "run" => AllFileCallsArrive

\* A request that is a whole number of pages behind the first is answered.
\* (Of any other the length never becomes 0.)  interrupts.c:342-352.
MmapReturns == (pc = "mmap" /\ request.left % PAGESIZE = 0) ~> (pc = "run")

\* After boot, and after every program, the shell is back, unless the kernel
\* halts or the program is caught in such a request.
ShellBack ==
  (program # InitName) ~>
    (\/ program = InitName
     \/ pc = "halt"
     \/ pc = "mmap" /\ request.left % PAGESIZE # 0)
=============================================================================
