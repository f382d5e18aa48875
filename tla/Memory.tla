------------------------------- MODULE Memory -------------------------------
(***************************************************************************)
(* Physical pages and page tables (kernel/memory.c).                       *)
(*                                                                         *)
(* Free memory is a list of chunks; the Node_t of a chunk lies in the      *)
(* chunk's own first page.  Page tables are taken from it, and given back  *)
(* to it when the lower half of the address space is unmapped.  A frame of *)
(* physical memory is what was last written to it, a node or a table, and  *)
(* reading it as the other is what must not happen.                        *)
(*                                                                         *)
(* A walk takes a step per level, unmap_lower_half a step per entry.  No   *)
(* interrupt handler touches any of this, so calls do not overlap.         *)
(***************************************************************************)
EXTENDS Integers, SequencesExt, FiniteSetsExt

CONSTANTS
  NumFrames,   \* frames of physical memory
  Fanout,      \* entries of a table (512)
  Regions,     \* usable memory: a sequence of [base, size], in frames
  Root,        \* the frame CR3 points to
  Boot,        \* what the frames hold before freelist_init
  Address,     \* model bound: the pages that calls are about, see Page
  Protection,  \* protections asked for: [user, writable, no_execute]
  Unmapped     \* what translate finds where nothing is mapped

Frame   == 0 .. NumFrames - 1
Index   == 0 .. Fanout - 1
Lower   == 0 .. Fanout \div 2 - 1
Page    == [1 .. 4 -> Index]    \* by the index at levels 4, 3, 2, 1
Low     == {a \in Address : a[1] \in Lower}
NULL    == -1

Entry == [present : BOOLEAN, page_size : BOOLEAN, prot : Protection, address : Frame]

Content ==
  [is : {"node"}, size : 0 .. NumFrames, next : Frame \cup {NULL}]
    \cup [is : {"table"}, entry : [Index -> Entry]] \cup {[is |-> "other"]}

\* The entries <<f, i>> of the tables in F that lead to a table; all of them.
Links(m, F) ==
  {l \in F \X Index : m[l[1]].entry[l[2]].present /\ ~m[l[1]].entry[l[2]].page_size}
To(m, L) == {m[l[1]].entry[l[2]].address : l \in L}
AllLinks(m) ==
  LET L3 == Links(m, {Root})
      L2 == Links(m, To(m, L3))
      L1 == Links(m, To(m, L2))
  IN  L3 \cup L2 \cup L1
Tables(m) == To(m, AllLinks(m))

Span(n) == Regions[n].base .. Regions[n].base + Regions[n].size - 1
Usable  == UNION {Span(n) : n \in DOMAIN Regions}

ASSUME MemoryAssumption ==
  /\ NumFrames \in Nat \ {0} /\ Fanout \in Nat \ {0} /\ Root \in Frame
  /\ Address \subseteq Page
  /\ Protection # {} /\ Unmapped \notin Protection

\* What the memory map says: usable regions do not overlap.
ASSUME MapAssumption ==
  /\ Regions \in Seq([base : Frame, size : Nat \ {0}])
  /\ Usable \subseteq Frame
  /\ \A n, k \in DOMAIN Regions : n # k => Span(n) \cap Span(k) = {}

\* What the boot loader leaves at CR3: a tree of tables outside of usable
\* memory.  There are no huge pages at level 4, and an entry is zero if it is
\* not present.
ASSUME BootAssumption ==
  /\ Boot \in [Frame -> Content]
  /\ Boot[Root].is = "table" /\ Root \notin Usable
  /\ \A f \in Tables(Boot) : Boot[f].is = "table" /\ f # Root /\ f \notin Usable
  /\ \A k, l \in AllLinks(Boot) :
       Boot[k[1]].entry[k[2]].address = Boot[l[1]].entry[l[2]].address => k = l
  /\ \A f \in {Root} \cup Tables(Boot), i \in Index :
       Boot[f].entry[i].page_size => f # Root /\ Boot[f].entry[i].present

VARIABLES
  mem,         \* mem[f]: a node, a table, or something else
  FREELIST,
  pc,          \* "idle"; "vm_map"; in which loop unmap_lower_half is
  address, prot,         \* arguments of vm_map
  level, cur_table,      \* where vm_map is
  l4_index, l3_index, l2_index,    \* of unmap_lower_half
  ret,         \* what the last call returned or printed
  astray       \* history: a walk took memory under a huge page for a table

args == <<address, prot>>
walk == <<level, cur_table>>
loop == <<l4_index, l3_index, l2_index>>
vars == <<mem, FREELIST, pc, args, walk, loop, ret, astray>>

Node(size, next) == [is |-> "node", size |-> size, next |-> next]
Table(e)         == [is |-> "table", entry |-> e]
Other            == [is |-> "other"]

FirstPage == [n \in 1 .. 4 |-> 0]
AnyProt == CHOOSE p \in Protection : TRUE
Zero    == [present |-> FALSE, page_size |-> FALSE, prot |-> AnyProt, address |-> 0]
Empty   == Table([i \in Index |-> Zero])

\* freelist_init pushes the usable regions in the order of the memory map.
Init ==
  /\ LET At(f) == {n \in DOMAIN Regions : Regions[n].base = f}
     IN  mem = [f \in Frame |->
           IF At(f) = {} THEN Boot[f]
           ELSE LET n == Max(At(f))
                IN  Node(Regions[n].size, IF n = 1 THEN NULL ELSE Regions[n - 1].base)]
  /\ FREELIST = IF Regions = <<>> THEN NULL ELSE Last(Regions).base
  /\ pc = "idle"
  /\ address = FirstPage /\ prot = AnyProt
  /\ level = 0 /\ cur_table = Root
  /\ l4_index = 0 /\ l3_index = 0 /\ l2_index = 0
  /\ ret = <<"boot">>
  /\ astray = FALSE

Return(v) ==
  /\ pc' = "idle"
  /\ ret' = v
  /\ address' = FirstPage /\ prot' = AnyProt
  /\ level' = 0 /\ cur_table' = Root

-----------------------------------------------------------------------------
(* pmem_alloc, pmem_free                                                   *)

\* Chunk[n] is the n-th chunk of the free list, counted from 0.
Chunk ==
  LET c[n \in 0 .. NumFrames] ==
        IF n = 0 THEN FREELIST ELSE IF c[n - 1] = NULL THEN NULL ELSE mem[c[n - 1]].next
  IN  c

\* Positions of chunks of a page or more; pmem_alloc takes the first.
Fitting == LET c == Chunk IN {n \in DOMAIN c : c[n] # NULL /\ mem[c[n]].size >= 1}

\* Mutant: one page past the end.
PastEnd(f) == f + mem[f].size
LastPage(f) == f + mem[f].size - 1

\* Mutant: the page stays in the chunk.
SameSize(size) == size
Shrunk(size) == size - 1

\* Memory after the chunk at position n has lost a page.
Chopped(n) ==
  LET f == Chunk[n]
      left == Shrunk(mem[f].size)
  IN  IF left = 0 /\ n > 0 THEN [mem EXCEPT ![Chunk[n - 1]].next = mem[f].next]
      ELSE [mem EXCEPT ![f].size = left]

FirstChunk(n) ==
  IF Shrunk(mem[Chunk[n]].size) = 0 /\ n = 0 THEN mem[FREELIST].next ELSE FREELIST

\* Mutant: the new chunk does not lead to the others.
NoRest == NULL
Rest == FREELIST

pmem_free(f) ==
  /\ mem' = [mem EXCEPT ![f] = Node(1, Rest)]
  /\ FREELIST' = f

-----------------------------------------------------------------------------
(* vm_map                                                                  *)

vm_map(a, p) ==
  /\ pc = "idle"
  /\ pc' = "vm_map"
  /\ address' = a
  /\ prot' = p
  /\ level' = 4
  /\ cur_table' = Root
  /\ UNCHANGED <<mem, FREELIST, loop, ret, astray>>

\* Mutant: the tables of the last two levels are told apart by one index.
IndexTwice(a, l) == IF l = 1 THEN a[3] ELSE a[5 - l]
IndexAt(a, l) == a[5 - l]

CurEntry == mem[cur_table].entry[IndexAt(address, level)]

Descend ==
  /\ level > 1
  /\ CurEntry.present
  /\ ~CurEntry.page_size
  /\ cur_table' = CurEntry.address
  /\ level' = level - 1
  /\ UNCHANGED <<mem, FREELIST, pc, args, loop, ret, astray>>

\* vm_map does not look at page_size: it goes on with the contents of the
\* huge page.  What comes of it is not modelled further.
DescendAstray ==
  /\ level > 1
  /\ CurEntry.present
  /\ CurEntry.page_size
  /\ astray' = TRUE
  /\ mem' = [mem EXCEPT ![CurEntry.address] = Other]
  /\ \E r \in {"done", "already mapped", "no memory"} : Return(<<"map", r>>)
  /\ UNCHANGED <<FREELIST, loop>>

NewTable ==
  /\ level > 1
  /\ ~CurEntry.present
  /\ Fitting # {}
  /\ LET n    == Min(Fitting)
         page == LastPage(Chunk[n])
     IN  /\ mem' = [Chopped(n) EXCEPT
                      ![page] = Empty,
                      ![cur_table].entry[IndexAt(address, level)] =
                         [@ EXCEPT !.present = TRUE, !.address = page]]
         /\ FREELIST' = FirstChunk(n)
         /\ cur_table' = page
  /\ level' = level - 1
  /\ UNCHANGED <<pc, args, loop, ret, astray>>

\* The tables linked so far stay.
NoMemory ==
  /\ level > 1
  /\ ~CurEntry.present
  /\ Fitting = {}
  /\ Return(<<"map", "no memory">>)
  /\ UNCHANGED <<mem, FREELIST, loop, astray>>

AlreadyMapped ==
  /\ level = 1
  /\ CurEntry.present
  /\ Return(<<"map", "already mapped">>)
  /\ UNCHANGED <<mem, FREELIST, loop, astray>>

\* No address is stored in the entry: it keeps the one it has.
MapLeaf ==
  /\ level = 1
  /\ ~CurEntry.present
  /\ mem' = [mem EXCEPT ![cur_table].entry[IndexAt(address, 1)] =
               [@ EXCEPT !.present = TRUE, !.prot = prot]]
  /\ Return(<<"map", "done">>)
  /\ UNCHANGED <<FREELIST, loop, astray>>

Walk ==
  /\ pc = "vm_map"
  /\ \/ Descend \/ DescendAstray \/ NewTable \/ NoMemory \/ AlreadyMapped \/ MapLeaf

-----------------------------------------------------------------------------
(* vm_protect and translate walk the tables and change nothing.            *)

EntryAt(f, a, l) == IF mem[f].is = "table" THEN mem[f].entry[IndexAt(a, l)] ELSE Zero

\* The entry one level below e on the way to a.
Under(e, a, l) == IF e.present THEN EntryAt(e.address, a, l) ELSE Zero

Entry4(a) == EntryAt(Root, a, 4)
Entry3(a) == Under(Entry4(a), a, 3)
Entry2(a) == Under(Entry3(a), a, 2)
Leaf(a)   == Under(Entry2(a), a, 1)

ThroughHuge(a) == \E e \in {Entry4(a), Entry3(a), Entry2(a)} : e.present /\ e.page_size

\* The flags are set in a copy of the entry.
vm_protect(a, p) ==
  /\ pc = "idle"
  /\ IF ThroughHuge(a) THEN \E ok \in BOOLEAN : Return(<<"protect", ok>>)
     ELSE Return(<<"protect", Leaf(a).present>>)
  /\ astray' = (astray \/ ThroughHuge(a))
  /\ UNCHANGED <<mem, FREELIST, loop>>

translate(a) ==
  /\ pc = "idle"
  /\ Return(<<"translate", IF Leaf(a).present THEN Leaf(a).prot ELSE Unmapped>>)
  /\ astray' = (astray \/ ThroughHuge(a))
  /\ UNCHANGED <<mem, FREELIST, loop>>

-----------------------------------------------------------------------------
(* unmap_lower_half: a turn of one of its three loops is a step.           *)

Turning == UNCHANGED <<mem, FREELIST>>

\* An entry of a table, in the loops below level 4, that leads to a table.
TableBelow(e) == e.present /\ ~e.page_size

\* The tables that the inner loops scan.
L3Table == mem[Root].entry[l4_index].address
L2Table == mem[L3Table].entry[l3_index].address

unmap_lower_half ==
  /\ pc = "idle"
  /\ pc' = "l4"
  /\ l4_index' = 0
  /\ ret' = <<"cleared">>
  /\ UNCHANGED <<mem, FREELIST, args, walk, l3_index, l2_index, astray>>

LoopL4 ==
  /\ pc = "l4"
  /\ \/ /\ l4_index = Fanout \div 2
        /\ pc' = "idle"
        /\ l4_index' = 0
        /\ Turning
     \/ /\ l4_index < Fanout \div 2
        /\ ~mem[Root].entry[l4_index].present
        /\ l4_index' = l4_index + 1
        /\ UNCHANGED pc
        /\ Turning
     \/ /\ l4_index < Fanout \div 2
        /\ mem[Root].entry[l4_index].present
        /\ mem' = [mem EXCEPT ![Root].entry[l4_index].present = FALSE]
        /\ pc' = "l3"
        /\ UNCHANGED <<FREELIST, l4_index>>
  /\ UNCHANGED <<l3_index, l2_index>>

\* Mutant: the table goes before it is scanned.
EnterL2Late == pmem_free(L2Table)
EnterL2 == Turning

LoopL3 ==
  /\ pc = "l3"
  /\ \/ /\ l3_index = Fanout
        /\ pmem_free(L3Table)
        /\ pc' = "l4"
        /\ l4_index' = l4_index + 1
        /\ l3_index' = 0
     \/ /\ l3_index < Fanout
        /\ ~TableBelow(mem[L3Table].entry[l3_index])
        /\ l3_index' = l3_index + 1
        /\ UNCHANGED <<pc, l4_index>>
        /\ Turning
     \/ /\ l3_index < Fanout
        /\ TableBelow(mem[L3Table].entry[l3_index])
        /\ EnterL2
        /\ pc' = "l2"
        /\ UNCHANGED <<l4_index, l3_index>>
  /\ UNCHANGED l2_index

LoopL2 ==
  /\ pc = "l2"
  /\ \/ /\ l2_index = Fanout
        /\ pmem_free(L2Table)
        /\ pc' = "l3"
        /\ l3_index' = l3_index + 1
        /\ l2_index' = 0
     \/ /\ l2_index < Fanout
        /\ IF TableBelow(mem[L2Table].entry[l2_index])
           THEN pmem_free(mem[L2Table].entry[l2_index].address)
           ELSE Turning
        /\ l2_index' = l2_index + 1
        /\ UNCHANGED <<pc, l3_index>>
  /\ UNCHANGED l4_index

Unmap ==
  /\ LoopL4 \/ LoopL3 \/ LoopL2
  /\ UNCHANGED <<args, walk, ret, astray>>

-----------------------------------------------------------------------------
Next ==
  \/ \E a \in Address, p \in Protection : vm_map(a, p) \/ vm_protect(a, p)
  \/ \E a \in Address : translate(a)
  \/ unmap_lower_half
  \/ Walk
  \/ Unmap

Spec == Init /\ [][Next]_vars

-----------------------------------------------------------------------------
(* Properties, until a walk goes astray.                                   *)

TypeOK ==
  /\ mem \in [Frame -> Content]
  /\ FREELIST \in Frame \cup {NULL}
  /\ pc \in {"idle", "vm_map", "l4", "l3", "l2"}
  /\ address \in Page /\ prot \in Protection
  /\ level \in 0 .. 4 /\ cur_table \in Frame
  /\ l4_index \in 0 .. Fanout \div 2 /\ l3_index \in 0 .. Fanout /\ l2_index \in 0 .. Fanout
  /\ astray \in BOOLEAN

Chunks == Range(Chunk) \ {NULL}
Pages(f) == f .. f + mem[f].size - 1
FreePages == UNION {Pages(f) : f \in Chunks}

Unmapping == pc \in {"l4", "l3", "l2"}
Reads == ~astray /\ ~Unmapping

\* What pmem_alloc hands out is nobody else's: no frame is in two chunks, free
\* and a table, or a table in two places; nor is the table at CR3.  So vm_map
\* never clears or links a table in use (memory.c:122-176, 282-304).
PagesApart ==
  Reads =>
    /\ \A f, g \in Chunks : f # g => Pages(f) \cap Pages(g) = {}
    /\ FreePages \cap Tables(mem) = {}
    /\ Cardinality(Tables(mem)) = Cardinality(AllLinks(mem))
    /\ Root \notin FreePages \cup Tables(mem)

\* "We can reclaim memory used to hold page tables" (memory.c:388): every page
\* that was free or a table at boot is one of the two after any number of
\* mappings, failed or not, and unmappings, and no other page becomes free.
PagesKept ==
  Reads =>
    FreePages \cup Tables(mem) = Usable \cup Tables(Boot)

\* A frame is read as what it is: vm_map walks through tables,
\* unmap_lower_half scans none that it has already freed (a freed table's
\* first entries are overwritten by its Node_t), and the free list leads from
\* node to node (memory.c:128-137, 276, 391-431).
ReadAsWritten ==
  ~astray =>
    /\ mem[cur_table].is = "table"
    /\ pc \in {"l3", "l2"} => mem[L3Table].is = "table"
    /\ pc = "l2" => mem[L2Table].is = "table"
    /\ \A f \in Chunks : mem[f].is = "node"

\* While the lower half is being unmapped it counts as unmapped: no other call
\* sees it.  Of an address in a huge page nothing is said, see astray.
Mapping(a) ==
  IF ~ThroughHuge(a) /\ Leaf(a).present /\ ~(Unmapping /\ a \in Low) THEN Leaf(a).prot ELSE Unmapped

Space == INSTANCE AddressSpace WITH
  protection <- [a \in Address |-> Mapping(a)],
  Low        <- Low,
  reply      <- ret

\* A page is mapped with the protection asked for, once, until the lower half
\* is cleared; mapping one page, or failing to, changes no other
\* (memory.c:260-326, 386-434).
ImplementsAddressSpace ==
  Space!Init /\ [][astray' \/ UNCHANGED Space!vars \/ Space!Next]_(Space!vars)

-----------------------------------------------------------------------------
(* What the repository says of the calls, and what they do.                *)

\* vm_protect "Change the protections for a page in a virtual address space
\* ... returns true if successful" (memory.c:329-335): after it has returned
\* true the page has them.
ProtectionChanged ==
  [][\A a \in Address, p \in Protection :
       vm_protect(a, p) /\ ret' = <<"protect", TRUE>> /\ ~astray' => Leaf(a)'.prot = p]_vars

\* vm_map is to "Map a single page of memory" (memory.c:252), one the
\* unmapping does not free ("but NOT the mapped pages", memory.c:388): two
\* mapped pages of the lower half are two pages of memory.
OwnFrame ==
  ~astray => \A a, b \in Low \cap Address :
    Leaf(a).present /\ Leaf(b).present /\ Leaf(a).address = Leaf(b).address => a = b
=============================================================================
