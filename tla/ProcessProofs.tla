----------------------------- MODULE ProcessProofs -----------------------------
(* Proofs about programs.                                                  *)
EXTENDS Process, ModularArithmetic, SequenceTheorems, WellFoundedInduction, TLAPS

-----------------------------------------------------------------------------
(* Numbers                                                                 *)

LEMMA LessThanOn ==
  OpToRel(<, Nat) = {ss \in Nat \X Nat : ss[1] < ss[2]}
  BY Zenon DEF OpToRel

\* A set of numbers that is not empty has a least element.
LEMMA MinIn ==
  ASSUME NEW S \in SUBSET Nat, S # {}
  PROVE  Min(S) \in S /\ \A y \in S : Min(S) <= y
<1>1. PICK x \in S : \A y \in S : ~ <<y, x>> \in OpToRel(<, Nat)
  BY NatLessThanWellFounded, WFMin
<1>2. \A y \in S : x <= y
  <2>1. SUFFICES ASSUME NEW y \in S, ~(x <= y) PROVE FALSE
    OBVIOUS
  <2>2. x \in Nat /\ y \in Nat /\ y < x
    BY <2>1
  <2>3. <<y, x>> \in {ss \in Nat \X Nat : ss[1] < ss[2]}
    BY <2>2
  <2> QED BY <1>1, <2>3, LessThanOn
<1> QED BY <1>2 DEF Min

-----------------------------------------------------------------------------
(* Addresses                                                               *)

\* Addresses wrap at the end of a whole number of pages.
LEMMA WordPages ==
  /\ Word \in Nat \ {0} /\ PAGESIZE \in Nat \ {0}
  /\ Word \div PAGESIZE \in Int
  /\ Word = PAGESIZE * (Word \div PAGESIZE)
<1>1. Word \in Nat \ {0} /\ PAGESIZE \in Nat \ {0} /\ Word % PAGESIZE = 0
  BY ProcessAssumption DEF Address
<1> QED BY <1>1, DivMod

LEMMA Wraps ==
  ASSUME NEW x \in Int
  PROVE  x % Word \in Address
  BY WordPages, DivMod DEF Address

LEMMA WrapsNot ==
  ASSUME NEW x \in Address
  PROVE  x % Word = x
  BY WordPages, ModSmall DEF Address

LEMMA WrapsOnce ==
  ASSUME NEW x \in Int, NEW y \in Int
  PROVE  ((x % Word) + y) % Word = (x + y) % Word
  BY WordPages, ModOnce

LEMMA PageOfAddress ==
  ASSUME NEW a \in Address
  PROVE  PageOf(a) \in Page
<1> DEFINE w == Word \div PAGESIZE
           p == a \div PAGESIZE
           m == a % PAGESIZE
<1>1. /\ w \in Int /\ PAGESIZE \in Nat \ {0} /\ Word = PAGESIZE * w
      /\ Word \in Nat \ {0}
  BY WordPages
<1>2. /\ a \in Int /\ 0 <= a /\ a < Word
      /\ p \in Int /\ m \in 0 .. PAGESIZE - 1
      /\ a = PAGESIZE * p + m
  BY <1>1, DivMod DEF Address
<1> HIDE DEF w, p, m
<1>3. 0 <= p
  <2>1. SUFFICES ASSUME 0 - p >= 1 PROVE FALSE
    BY <1>2
  <2>2. PAGESIZE * (0 - p) >= PAGESIZE
    BY <1>1, <1>2, <2>1, Times
  <2>3. PAGESIZE * (0 - p) = 0 - PAGESIZE * p /\ PAGESIZE * p \in Int
    BY <1>1, <1>2, TimesMinus
  <2> QED BY <1>1, <1>2, <2>2, <2>3
<1>4. p <= w - 1
  <2>1. SUFFICES ASSUME p - w + 1 >= 1 PROVE FALSE
    BY <1>1, <1>2
  <2>2. PAGESIZE * (p - w + 1) >= PAGESIZE
    BY <1>1, <1>2, <2>1, Times
  <2>3. /\ PAGESIZE * (p - w) = PAGESIZE * p - PAGESIZE * w
        /\ PAGESIZE * p \in Int /\ PAGESIZE * w \in Int
    BY <1>1, <1>2, TimesMinus
  <2>4. PAGESIZE * ((p - w) + 1) = PAGESIZE * (p - w) + PAGESIZE * 1
    BY <1>1, <1>2, TimesPlus
  <2> QED BY <1>1, <1>2, <2>2, <2>3, <2>4
<1>5. p \in Page
  BY <1>1, <1>2, <1>3, <1>4 DEF Page, w
<1> QED BY <1>5 DEF PageOf, p

\* Whole pages stay whole pages when a length wraps.
LEMMA WholePages ==
  ASSUME NEW x \in Int
  PROVE  (x % Word) % PAGESIZE = x % PAGESIZE
<1> DEFINE w == Word \div PAGESIZE
           q == x \div Word
           m == x % Word
           p == m \div PAGESIZE
           r == m % PAGESIZE
<1>1. /\ w \in Int /\ PAGESIZE \in Nat \ {0} /\ Word = PAGESIZE * w
      /\ Word \in Nat \ {0}
  BY WordPages
<1>2. q \in Int /\ m \in Int /\ x = Word * q + m
  BY <1>1, DivMod
<1>3. p \in Int /\ r \in 0 .. PAGESIZE - 1 /\ m = PAGESIZE * p + r
  BY <1>1, <1>2, DivMod
<1> HIDE DEF w, q, m, p, r
<1>4. Word * q = PAGESIZE * (w * q) /\ w * q \in Int
  BY <1>1, <1>2
<1>5. /\ PAGESIZE * (w * q) \in Int /\ PAGESIZE * p \in Int /\ PAGESIZE * (w * q + p) \in Int
      /\ PAGESIZE * (w * q + p) = PAGESIZE * (w * q) + PAGESIZE * p
  BY <1>1, <1>3, <1>4, TimesPlus
<1>6. x = PAGESIZE * (w * q + p) + r /\ w * q + p \in Int
  BY <1>1, <1>2, <1>3, <1>4, <1>5
<1>7. x % PAGESIZE = r
  BY <1>1, <1>3, <1>6, DivModUnique
<1> QED BY <1>7 DEF r, m

\* One page less is whole pages only if the length was.
LEMMA OnePageLess ==
  ASSUME NEW x \in Int
  PROVE  (x - PAGESIZE) % PAGESIZE = x % PAGESIZE
<1> DEFINE q == x \div PAGESIZE
           r == x % PAGESIZE
<1>1. PAGESIZE \in Nat \ {0}
  BY WordPages
<1>2. q \in Int /\ r \in 0 .. PAGESIZE - 1 /\ x = PAGESIZE * q + r
  BY <1>1, DivMod
<1> HIDE DEF q, r
<1>3. PAGESIZE * (q - 1) = PAGESIZE * q - PAGESIZE * 1 /\ PAGESIZE * q \in Int /\ PAGESIZE * (q - 1) \in Int
  BY <1>1, <1>2, TimesMinus
<1>4. x - PAGESIZE = PAGESIZE * (q - 1) + r /\ q - 1 \in Int /\ x - PAGESIZE \in Int
  BY <1>1, <1>2, <1>3
<1>5. (x - PAGESIZE) % PAGESIZE = r
  BY <1>1, <1>2, <1>4, DivModUnique
<1> QED BY <1>5 DEF r

\* Less than a page, but something, is no whole number of pages.
LEMMA NotWhole ==
  ASSUME NEW x \in Int, -PAGESIZE < x, x < PAGESIZE, x # 0
  PROVE  x % PAGESIZE # 0
<1> SUFFICES ASSUME x % PAGESIZE = 0 PROVE FALSE
  OBVIOUS
<1>1. PAGESIZE \in Nat \ {0}
  BY WordPages
<1>2. x \div PAGESIZE \in Int /\ x = PAGESIZE * (x \div PAGESIZE)
  BY <1>1, DivMod
<1>3. x \div PAGESIZE = 0
  BY <1>1, <1>2, NoMultipleBetween
<1> QED BY <1>1, <1>2, <1>3

-----------------------------------------------------------------------------
(* Types                                                                   *)

Spaces == [Page -> Protection \cup {Unmapped}]

LEMMA Numbers ==
  /\ Address \subseteq Nat /\ 0 \in Address /\ Word - 1 \in Address
  /\ BUFFER_SIZE \in Nat \ {0} /\ BUFFER_SIZE \in Address
  /\ All \in Protection /\ ReadWrite \in Protection /\ MMAP_MEM_START \in Address
  BY ProcessAssumption, WordPages DEF Address

LEMMA AddressInt ==
  ASSUME NEW x \in Address, NEW y \in Address
  PROVE  x \in Nat /\ x + y \in Int /\ x - y \in Int /\ x + PAGESIZE \in Int /\ x - PAGESIZE \in Int
  BY Numbers, WordPages

\* What the boot loader knows of a program.
Loadable ==
  [string : String, segments : Seq([page : Page, pages : Nat]),
   bss : [bump : Address, space_remaining : Address]]

LEMMA ModulesType == Modules \in Seq(Loadable)
  BY ProgramAssumption DEF Loadable

LEMMA NoRequestType ==
  NoRequest \in [at : Address, left : Address, prot : Protection, result : Address, sz : Address]
  BY Numbers DEF NoRequest

LEMMA HaltType ==
  ASSUME TypeOK, Halt, program' \in String, depth' \in 0 .. MaxDepth
  PROVE  TypeOK'
  BY DEF TypeOK, Halt, memory, library, shell

\* The shell that overwrites itself keeps what it has, and does not go on.
LEMMA WildIs ==
  ASSUME ShellFault
  PROVE  /\ pc = "run" /\ pc' \in {"wild", "halt"}
         /\ UNCHANGED <<bootVars, program, depth, memory, request, library, shell>>
  BY DEF ShellFault, Running

\* The kernel works on the address space of a program.
LEMMA SpaceStep ==
  ASSUME TypeOK, pc' \in {"boot", "run", "mmap", "halt", "wild"}, space' \in Spaces, short' \in BOOLEAN,
         overdrawn' \in BOOLEAN, mem_start' \in Address, regions' \subseteq Regions,
         request' \in [at : Address, left : Address, prot : Protection, result : Address, sz : Address],
         UNCHANGED <<program, depth, library, shell>>
  PROVE  TypeOK'
  BY DEF TypeOK, Spaces, library, shell

LEMMA LibraryStep ==
  ASSUME TypeOK, pc' = "run", bump' \in Address, space_remaining' \in Address,
         heap' \subseteq [at : Address, size : Address, asked : BOOLEAN],
         request' \in [at : Address, left : Address, prot : Protection, result : Address, sz : Address],
         UNCHANGED <<program, depth, memory, shell>>
  PROVE  TypeOK'
  BY DEF TypeOK, memory, shell

LEMMA ShellStep ==
  ASSUME TypeOK, buffer' \in [0 .. BUFFER_SIZE - 1 -> Key \cup {NUL}], i' \in 0 .. BUFFER_SIZE,
         line' \in Seq(Key),
         UNCHANGED <<pc, program, depth, memory, request, library>>
  PROVE  TypeOK'
  BY DEF TypeOK, memory, library

LEMMA SameType ==
  ASSUME TypeOK, UNCHANGED <<pc, program, depth, memory, request, library, shell>>
  PROVE  TypeOK'
  BY DEF TypeOK, memory, library, shell

-----------------------------------------------------------------------------
(* Programs come and go.                                                   *)

LEMMA ElementIn ==
  ASSUME NEW T, NEW s \in Seq(T), NEW k \in DOMAIN s
  PROVE  s[k] \in T
  OBVIOUS

\* The first of the modules of a name is one of the modules.
LEMMA FirstFound ==
  ASSUME NEW name, Found(name) # {}
  PROVE  Min(Found(name)) \in DOMAIN Modules
<1>1. Found(name) \in SUBSET DOMAIN Modules
  BY DEF Found
<1>2. DOMAIN Modules \subseteq Nat
  BY ModulesType
<1> QED BY <1>1, <1>2, MinIn

LEMMA LeftoverType ==
  ASSUME NEW name, Found(name) # {}
  PROVE  Leftover(name).bump \in Address /\ Leftover(name).space_remaining \in Address
<1>1. PICK n : n = Min(Found(name))
  OBVIOUS
<1>2. Modules[n] \in Loadable
  BY <1>1, FirstFound, ModulesType, ElementIn
<1>3. Leftover(name) = Modules[n].bss
  BY <1>1 DEF Leftover
<1> QED BY <1>2, <1>3 DEF Loadable

\* A program that is entered has the types of its variables.
LEMMA EnterType ==
  ASSUME NEW name \in String, NEW s \in Spaces, Enter(name, s), Found(name) # {},
         depth' \in 0 .. MaxDepth, short' \in BOOLEAN
  PROVE  TypeOK'
<1>1. program' \in String /\ mem_start' \in Address
  BY Numbers DEF Enter
<1>2. bump' \in Address /\ space_remaining' \in Address
  BY LeftoverType DEF Enter
<1>3. space' \in Spaces /\ heap' = {} /\ regions' = {} /\ overdrawn' = FALSE
  BY DEF Enter
<1>4. buffer' \in [0 .. BUFFER_SIZE - 1 -> Key \cup {NUL}] /\ i' \in 0 .. BUFFER_SIZE
  BY Numbers DEF Enter
<1>5. line' \in Seq(Key)
  BY DEF Enter
<1>6. request' \in [at : Address, left : Address, prot : Protection, result : Address, sz : Address]
  BY NoRequestType DEF Enter
<1>7. pc' = "run"
  BY DEF Enter
<1> QED BY <1>1, <1>2, <1>3, <1>4, <1>5, <1>6, <1>7 DEF TypeOK, Spaces

LEMMA SegmentTypes ==
  ASSUME NEW name, Found(name) # {}
  PROVE  /\ Segments(name) \in Seq([page : Page, pages : Nat])
         /\ \A k \in DOMAIN Segments(name) :
              LET seg == Segments(name)[k]
              IN  /\ seg.page \in Page /\ seg.pages \in Nat /\ seg.pages > 0
                  /\ seg.page .. seg.page + seg.pages - 1 \subseteq Page \ Upper
<1> DEFINE n == Min(Found(name))
<1>1. Modules \in Seq(Loadable)
  BY ModulesType
<1>2. n \in DOMAIN Modules
  BY FirstFound
<1> HIDE DEF n
<1>3. Modules[n].segments \in Seq([page : Page, pages : Nat])
  <2>1. Modules[n] \in Loadable
    BY <1>1, <1>2, ElementIn
  <2> QED BY <2>1 DEF Loadable
<1>4. ASSUME NEW k \in DOMAIN Modules[n].segments
      PROVE  LET seg == Modules[n].segments[k]
             IN  /\ seg.page \in Page /\ seg.pages \in Nat /\ seg.pages > 0
                 /\ seg.page .. seg.page + seg.pages - 1 \subseteq Page \ Upper
  <2>1. Modules[n].segments[k] \in [page : Page, pages : Nat]
    BY <1>3, <1>4, ElementIn
  <2>2. LET seg == Modules[n].segments[k]
        IN  seg.pages > 0 /\ seg.page .. seg.page + seg.pages - 1 \subseteq Page \ Upper
    BY Zenon, <1>2, <1>4, ProgramAssumption
  <2> QED BY <2>1, <2>2
<1> QED BY <1>3, <1>4 DEF Segments, n

LEMMA UnmapType ==
  ASSUME NEW s \in Spaces
  PROVE  unmap_lower_half(s) \in Spaces
  BY DEF unmap_lower_half, Spaces

LEMMA LoadType ==
  ASSUME NEW s \in Spaces, NEW name
  PROVE  load_module(s, name) \in Spaces
  BY Numbers DEF load_module, Spaces

LEMMA SpaceType ==
  ASSUME TypeOK
  PROVE  space \in Spaces
  BY DEF TypeOK, Spaces

LEMMA DepthType ==
  ASSUME TypeOK
  PROVE  MaxDepth \in Nat /\ depth \in Nat /\ depth \in 0 .. MaxDepth
  BY ProcessAssumption DEF TypeOK

LEMMA ExecType ==
  ASSUME TypeOK, NEW name \in String, SYS_exec(name)
  PROVE  TypeOK'
<1> DEFINE s == unmap_lower_half(space)
<1>1. depth' \in 0 .. MaxDepth
  BY DepthType DEF SYS_exec
<1>2. s \in Spaces /\ load_module(s, name) \in Spaces
  BY SpaceType, UnmapType, LoadType
<1>3. CASE Loads(s, name) /\ Enter(name, load_module(s, name)) /\ short' = FALSE
  <2>1. Found(name) # {}
    BY <1>3 DEF Loads
  <2> HIDE DEF s
  <2> QED BY <1>1, <1>2, <1>3, <2>1, EnterType
<1>4. CASE program' = name /\ Halt
  BY <1>1, <1>4, HaltType
<1> QED BY <1>3, <1>4 DEF SYS_exec

LEMMA EnterInitType ==
  ASSUME TypeOK, EnterInit
  PROVE  TypeOK'
<1> DEFINE s == unmap_lower_half(space)
           t == load_module(s, InitName)
           u(missing) == [p \in Page |-> IF p \in StackPages \ missing THEN ReadWrite ELSE t[p]]
<1>1. t \in Spaces
  BY SpaceType, UnmapType, LoadType
<1>2. ASSUME NEW missing \in {{}, StackPages}, Found(InitName) # {}, Enter(InitName, u(missing)),
             short' = (missing # {}), usermode_entry
      PROVE  TypeOK'
  <2>1. u(missing) \in Spaces
    BY <1>1, Numbers DEF Spaces
  <2>2. depth' \in 0 .. MaxDepth /\ short' \in BOOLEAN /\ InitName \in String
    BY <1>2, DepthType, ProgramAssumption DEF usermode_entry
  <2> HIDE DEF u
  <2> QED BY <1>2, <2>1, <2>2, EnterType
<1>3. CASE Halt /\ UNCHANGED <<ring, depth, program>>
  <2>1. program \in String
    BY DEF TypeOK
  <2> QED BY <1>3, <2>1, DepthType, HaltType
<1>4. \/ \E missing \in {{}, StackPages} :
            /\ Found(InitName) # {} /\ Enter(InitName, u(missing))
            /\ short' = (missing # {}) /\ usermode_entry
      \/ Halt /\ UNCHANGED <<ring, depth, program>>
  BY DEF EnterInit, Loads
<1> QED BY <1>2, <1>3, <1>4

-----------------------------------------------------------------------------
(* mmap and malloc                                                         *)

Requests == [at : Address, left : Address, prot : Protection, result : Address, sz : Address]

LEMMA VmMapType ==
  ASSUME NEW p \in Page, NEW prot \in Protection, space \in Spaces, short \in BOOLEAN,
         vm_map(p, prot)
  PROVE  space' \in Spaces /\ short' \in BOOLEAN
  BY DEF vm_map, Spaces

LEMMA RegionType ==
  ASSUME NEW address \in Address, NEW length \in Address, NEW prot \in Protection,
         NEW kind \in {"own", "heap", "placed"}
  PROVE  Region(address, length, prot, kind) \in Regions
<1>1. ASSUME NEW n \in 0 .. length - 1
      PROVE  PageOf((address + n) % Word) \in Page
  <2>1. address + n \in Int
    BY Numbers
  <2> QED BY <2>1, Wraps, PageOfAddress
<1> QED BY <1>1 DEF Region, Regions

LEMMA PagesBytesInt ==
  ASSUME NEW length \in Address
  PROVE  PagesIn(length) \in Int /\ PagesBytes(length) \in Int
<1>1. PagesIn(length) \in Int
  <2>1. length + PAGESIZE - 1 \in Int
    BY Numbers, WordPages
  <2> QED BY <2>1, WordPages, DivMod DEF PagesIn
<1> QED BY <1>1, WordPages DEF PagesBytes

LEMMA AsIntType ==
  ASSUME NEW n \in Int
  PROVE  AsInt(n) \in Int
<1> DEFINE ints == 2 * (MaxInt + 1)
<1>1. ints \in Nat \ {0} /\ n + MaxInt + 1 \in Int /\ MaxInt \in Nat
  BY ProcessAssumption
<1> HIDE DEF ints
<1>2. (n + MaxInt + 1) % ints \in Int
  BY <1>1, DivMod
<1> QED BY <1>1, <1>2 DEF AsInt, ints

LEMMA ReckonedType ==
  ASSUME NEW start \in Address, NEW length \in Address, NEW n \in Reckoned(length)
  PROVE  (start + n) % Word \in Address
<1> DEFINE pages == AsInt(PagesIn(length))
           bytes == pages * PAGESIZE
<1>1. pages \in Int /\ PAGESIZE \in Int
  BY PagesBytesInt, AsIntType, WordPages
<1>2. n \in {bytes, AsInt(bytes)}
  BY DEF Reckoned
<1> HIDE DEF pages
<1>3. bytes \in Int
  BY <1>1
<1> HIDE DEF bytes
<1>4. n \in Int
  BY <1>2, <1>3, AsIntType
<1>5. start + n \in Int
  BY <1>4, Numbers
<1> QED BY <1>5, Wraps

LEMMA RoundType ==
  ASSUME NEW x \in Address, NEW y \in Nat \ {0}
  PROVE  ROUND_UP(x, y) \in Address
<1>1. x % y \in Int
  BY Numbers, DivMod
<1>2. x + (y - (x % y)) \in Int
  BY <1>1, Numbers
<1>3. (x + (y - (x % y))) % Word \in Address
  BY <1>2, Wraps
<1> QED BY <1>3 DEF ROUND_UP

LEMMA TypeParts ==
  ASSUME TypeOK
  PROVE  /\ program \in String /\ space \in Spaces /\ short \in BOOLEAN /\ overdrawn \in BOOLEAN
         /\ mem_start \in Address /\ request \in Requests /\ bump \in Address /\ space_remaining \in Address
         /\ heap \subseteq [at : Address, size : Address, asked : BOOLEAN] /\ regions \subseteq Regions
  BY DEF TypeOK, Spaces, Requests

LEMMA MmapAnywhereType ==
  ASSUME TypeOK, NEW length \in Address, NEW prot \in Protection, NEW sz \in Address,
         MmapAnywhere(length, prot, sz), UNCHANGED <<program, depth, library, shell>>
  PROVE  TypeOK'
<1>1. mem_start' \in Address
  <2>1. PICK n \in Reckoned(length) : mem_start' = (mem_start + n) % Word
    BY DEF MmapAnywhere
  <2> QED BY <2>1, TypeParts, ReckonedType
<1>7. overdrawn' \in BOOLEAN
  BY TypeParts DEF MmapAnywhere
<1>2. request' \in Requests
  BY TypeParts DEF MmapAnywhere, Requests
<1>3. Region(mem_start, length, prot, IF sz = 0 THEN "own" ELSE "heap") \in Regions
  BY TypeParts, RegionType
<1>4. regions' \subseteq Regions
  BY <1>3, TypeParts DEF MmapAnywhere
<1>5. space' \in Spaces /\ short' \in BOOLEAN /\ pc' = "mmap"
  BY TypeParts DEF MmapAnywhere
<1> QED BY <1>1, <1>2, <1>4, <1>5, <1>7, SpaceStep DEF Requests

LEMMA MmapPlacedType ==
  ASSUME TypeOK, NEW address \in Address, NEW length \in Address, NEW prot \in Protection,
         MmapPlaced(address, length, prot), UNCHANGED <<program, depth, library, shell>>
  PROVE  TypeOK'
<1>1. space' \in Spaces /\ short' \in BOOLEAN
  BY TypeParts, PageOfAddress, Numbers, VmMapType DEF MmapPlaced
<1>2. request' \in Requests
  <2>1. PageOf(address) * PAGESIZE \in Int
    <3>1. PageOf(address) \in Int
      BY PageOfAddress DEF Page
    <3> QED BY <3>1, WordPages
  <2>2. /\ PageOf(address) * PAGESIZE + PAGESIZE \in Int
        /\ length - (PAGESIZE - (address - PageOf(address) * PAGESIZE)) \in Int
    BY <2>1, WordPages, Numbers
  <2>3. /\ (PageOf(address) * PAGESIZE + PAGESIZE) % Word \in Address
        /\ (length - (PAGESIZE - (address - PageOf(address) * PAGESIZE))) % Word \in Address
    BY <2>2, Wraps
  <2>4. request' = [at |-> (PageOf(address) * PAGESIZE + PAGESIZE) % Word,
                    left |-> (length - (PAGESIZE - (address - PageOf(address) * PAGESIZE))) % Word,
                    prot |-> prot, result |-> address, sz |-> 0]
    BY DEF MmapPlaced
  <2> QED BY <2>3, <2>4, Numbers DEF Requests
<1>3. regions' \subseteq Regions
  BY TypeParts, RegionType DEF MmapPlaced
<1>4. mem_start' \in Address /\ pc' = "mmap" /\ overdrawn' \in BOOLEAN
  BY TypeParts DEF MmapPlaced
<1> QED BY <1>1, <1>2, <1>3, <1>4, SpaceStep DEF Requests

LEMMA SYS_mmapType ==
  ASSUME TypeOK, NEW address \in Address, NEW length \in Address, NEW prot \in Protection,
         SYS_mmap(address, length, prot), UNCHANGED <<program, depth, shell>>
  PROVE  TypeOK'
  BY MmapAnywhereType, MmapPlacedType, Numbers DEF SYS_mmap

LEMMA MmapPageType ==
  ASSUME TypeOK, MmapPage
  PROVE  TypeOK'
<1>1. request.at \in Address /\ request.left \in Address /\ request.prot \in Protection
  BY TypeParts DEF Requests
<1>2. space' \in Spaces /\ short' \in BOOLEAN
  BY <1>1, TypeParts, PageOfAddress, VmMapType DEF MmapPage
<1>3. /\ (request.at + PAGESIZE) % Word \in Address
      /\ LessPage(request.left) \in Address
  <2>1. request.at + PAGESIZE \in Int /\ request.left - PAGESIZE \in Int
    BY <1>1, AddressInt
  <2>2. (request.at + PAGESIZE) % Word \in Address
    BY Zenon, <2>1, Wraps
  <2>3. LessPage(request.left) \in Address
    BY Zenon, <2>1, Wraps DEF LessPage
  <2> QED BY <2>2, <2>3
<1>4. request' \in Requests
  BY <1>3, TypeParts DEF MmapPage, Requests
<1>5. pc' = "mmap" /\ mem_start' \in Address /\ regions' \subseteq Regions /\ overdrawn' \in BOOLEAN
  BY TypeParts DEF MmapPage
<1>6. UNCHANGED <<program, depth, library, shell>>
  BY DEF MmapPage
<1> QED BY <1>2, <1>4, <1>5, <1>6, SpaceStep DEF Requests

LEMMA GrabType ==
  ASSUME TypeOK, NEW from \in Address, NEW left \in Address, NEW sz \in Address,
         NEW asked \in BOOLEAN, Grab(from, left, sz, asked)
  PROVE  /\ bump' \in Address /\ space_remaining' \in Address
         /\ heap' \subseteq [at : Address, size : Address, asked : BOOLEAN]
<1>1. ROUND_UP(sz, ALIGN) \in Address
  BY ProcessAssumption, RoundType
<1>2. from + ROUND_UP(sz, ALIGN) \in Int /\ left - ROUND_UP(sz, ALIGN) \in Int
  BY Zenon, <1>1, AddressInt
<1>3. bump' \in Address /\ space_remaining' \in Address
  <2>1. bump' \in Address
    BY Zenon, <1>2, Wraps DEF Grab, Behind
  <2>2. space_remaining' \in Address
    BY Zenon, <1>2, Wraps DEF Grab
  <2> QED BY <2>1, <2>2
<1>4. heap' \subseteq [at : Address, size : Address, asked : BOOLEAN]
  BY TypeParts DEF Grab
<1> QED BY <1>3, <1>4

LEMMA mallocType ==
  ASSUME TypeOK, pc = "run", NEW sz \in Address, malloc(sz), UNCHANGED <<program, depth, shell>>
  PROVE  TypeOK'
<1> DEFINE rounded_up == ROUND_UP(ROUND_UP(sz, ALIGN), PAGESIZE)
<1>1. rounded_up \in Address
  BY ProcessAssumption, RoundType
<1>2. ASSUME NEW from \in Address, NEW left \in Address, NEW asked \in BOOLEAN,
             Grab(from, left, sz, asked), UNCHANGED <<pc, memory, request>>
      PROVE  TypeOK'
  <2>1. request' \in Requests
    BY <1>2, TypeParts
  <2> QED BY <1>2, <2>1, GrabType, LibraryStep DEF Requests
<1>3. CASE Grab(bump, space_remaining, sz, Grown) /\ UNCHANGED <<pc, memory, request>>
  <2>1. Grown \in BOOLEAN
    BY DEF Grown
  <2> QED BY <1>2, <1>3, <2>1, TypeParts
<1>4. CASE Grab(Word - 1, 0, sz, FALSE) /\ UNCHANGED <<pc, memory, request>>
  BY <1>2, <1>4, Numbers
<1>5. CASE MmapAnywhere(rounded_up, ReadWrite, sz) /\ UNCHANGED library
  <2> HIDE DEF rounded_up
  <2> QED BY <1>1, <1>5, Numbers, MmapAnywhereType
<1> QED BY <1>3, <1>4, <1>5 DEF malloc

LEMMA MmapReturnType ==
  ASSUME TypeOK, MmapReturn
  PROVE  TypeOK'
<1>1. request.result \in Address /\ request.sz \in Address
  BY TypeParts DEF Requests
<1>2. ROUND_UP(ROUND_UP(request.sz, ALIGN), PAGESIZE) \in Address
  BY <1>1, ProcessAssumption, RoundType
<1>3. /\ bump' \in Address /\ space_remaining' \in Address
      /\ heap' \subseteq [at : Address, size : Address, asked : BOOLEAN]
  <2>1. CASE request.sz # 0 /\ request.result # 0
    BY <1>1, <1>2, <2>1, GrabType DEF MmapReturn
  <2>2. CASE ~(request.sz # 0 /\ request.result # 0)
    BY <2>2, TypeParts DEF MmapReturn, library
  <2> QED BY <2>1, <2>2
<1>4. request' \in Requests
  BY NoRequestType DEF MmapReturn, Requests
<1>5. pc' = "run" /\ UNCHANGED <<program, depth, memory, shell>>
  BY DEF MmapReturn
<1> QED BY <1>3, <1>4, <1>5, LibraryStep DEF Requests

-----------------------------------------------------------------------------
(* The shell                                                               *)

LEMMA SequenceOf ==
  ASSUME NEW T, NEW n \in Nat, NEW f, \A m \in 1 .. n : f[m] \in T
  PROVE  [m \in 1 .. n |-> f[m]] \in Seq(T)
  OBVIOUS

LEMMA ResetType ==
  ASSUME TypeOK
  PROVE  Reset(i) \in 0 .. BUFFER_SIZE - 1
  BY Numbers DEF TypeOK, Reset

LEMMA StringToType ==
  ASSUME TypeOK, NEW n \in 0 .. BUFFER_SIZE - 1
  PROVE  StringTo(n) \in String
<1> DEFINE ends == {m \in 0 .. n : m = n \/ buffer[m] = NUL}
           end == Min(ends)
<1>1. end \in 0 .. n
  <2>1. ends \in SUBSET Nat /\ n \in ends
    BY Numbers
  <2>2. end \in ends
    BY <2>1, MinIn
  <2> QED BY <2>2
<1>2. StringTo(n) = [m \in 1 .. end |-> buffer[m - 1]]
  BY DEF StringTo
<1> HIDE DEF end
<1>3. ASSUME NEW m \in 1 .. end
      PROVE  buffer[m - 1] \in Key \cup {Newline, NUL}
  <2>1. m - 1 \in 0 .. BUFFER_SIZE - 1
    BY <1>1, <1>3, Numbers
  <2>2. buffer \in [0 .. BUFFER_SIZE - 1 -> Key \cup {NUL}]
    BY DEF TypeOK
  <2> QED BY <2>1, <2>2
<1>4. end \in Nat
  BY <1>1
<1> QED BY <1>2, <1>3, <1>4, SequenceOf DEF String

LEMMA ReadCharType ==
  ASSUME TypeOK, NEW c \in Key, ReadChar(c)
  PROVE  TypeOK'
<1>1. buffer' \in [0 .. BUFFER_SIZE - 1 -> Key \cup {NUL}]
  BY ResetType DEF TypeOK, ReadChar
<1>2. i' \in 0 .. BUFFER_SIZE
  BY ResetType, Numbers DEF ReadChar
<1>3. line' \in Seq(Key)
  <2>1. line \in Seq(Key)
    BY DEF TypeOK
  <2>2. line' = Append(line, c)
    BY DEF ReadChar
  <2> QED BY <2>1, <2>2
<1>4. UNCHANGED <<pc, program, depth, memory, request, library>>
  BY DEF ReadChar
<1> QED BY <1>1, <1>2, <1>3, <1>4, ShellStep

LEMMA ReadNewlineType ==
  ASSUME TypeOK, ReadNewline
  PROVE  TypeOK'
<1>1. CASE SYS_exec(StringTo(Reset(i)))
  BY <1>1, ResetType, StringToType, ExecType
<1>2. CASE /\ buffer' = [buffer EXCEPT ![Reset(i)] = NUL] /\ i' = 0 /\ line' = <<>>
           /\ UNCHANGED <<bootVars, pc, program, depth, memory, request, library>>
  <2>1. buffer' \in [0 .. BUFFER_SIZE - 1 -> Key \cup {NUL}]
    BY <1>2, ResetType DEF TypeOK
  <2>2. i' \in 0 .. BUFFER_SIZE
    BY <1>2, Numbers
  <2>3. line' \in Seq(Key)
    BY <1>2
  <2> QED BY <1>2, <2>1, <2>2, <2>3, ShellStep
<1> QED BY <1>1, <1>2 DEF ReadNewline

LEMMA ClientType ==
  ASSUME TypeOK, Client
  PROVE  TypeOK'
<1>0. pc = "run"
  BY DEF Client, Running
<1>1. ASSUME NEW sz \in Sizes, malloc(sz), UNCHANGED <<bootVars, program, depth, shell>>
      PROVE  TypeOK'
  <2>1. sz \in Address
    BY ProcessAssumption
  <2> QED BY <1>0, <1>1, <2>1, mallocType
<1>2. ASSUME NEW a \in Places \cup {0}, NEW n \in Lengths, NEW prot \in Protection,
             SYS_mmap(a, n, prot), UNCHANGED <<bootVars, program, depth, shell>>
      PROVE  TypeOK'
  <2>1. a \in Address /\ n \in Address
    BY ProcessAssumption, Numbers
  <2> QED BY <1>2, <2>1, SYS_mmapType
<1>3. ASSUME NEW name \in {m.string : m \in Range(Modules)} \cup {Nobody}, SYS_exec(name)
      PROVE  TypeOK'
  <2>1. Nobody \in String
    BY DEF Nobody, String
  <2>2. ASSUME NEW n \in DOMAIN Modules PROVE Modules[n].string \in String
    <3>1. Modules[n] \in Loadable
      BY ModulesType, ElementIn
    <3> QED BY <3>1 DEF Loadable
  <2>3. name \in String
    BY <2>1, <2>2 DEF Range
  <2> QED BY <1>3, <2>3, ExecType
<1> QED BY <1>1, <1>2, <1>3 DEF Client

-----------------------------------------------------------------------------
(* The type invariant                                                      *)

LEMMA InitType == Init => TypeOK
<1> SUFFICES ASSUME Init PROVE TypeOK
  OBVIOUS
<1>1. pc \in {"boot", "run", "mmap", "halt", "wild"} /\ program \in String
      /\ short \in BOOLEAN /\ overdrawn \in BOOLEAN
  <2>1. Nobody \in String
    BY DEF Nobody, String
  <2>2. pc = "boot" /\ program = Nobody /\ short = FALSE /\ overdrawn = FALSE
    BY DEF Init
  <2> QED BY <2>1, <2>2
<1>2. depth \in 0 .. MaxDepth
  BY ProcessAssumption DEF Init
<1>3. space \in [Page -> Protection \cup {Unmapped}]
  BY Numbers DEF Init
<1>4. mem_start \in Address /\ bump \in Address /\ space_remaining \in Address
  BY Numbers DEF Init
<1>5. request \in [at : Address, left : Address, prot : Protection, result : Address, sz : Address]
  BY NoRequestType DEF Init
<1>6. buffer \in [0 .. BUFFER_SIZE - 1 -> Key \cup {NUL}] /\ i \in 0 .. BUFFER_SIZE
  BY Numbers DEF Init
<1>7. heap \subseteq [at : Address, size : Address, asked : BOOLEAN] /\ regions \subseteq Regions
  BY DEF Init
<1>8. line \in Seq(Key)
  BY DEF Init
<1> QED BY Zenon, <1>1, <1>2, <1>3, <1>4, <1>5, <1>6, <1>7, <1>8 DEF TypeOK

\* A character has its type, an address is below Word, a page in its table, the
\* shell's index in its buffer, whatever the programs ask for (interrupts.c:292-394,
\* mem.c:61-88, init.c:24-64).
THEOREM TypeCorrect == Spec => []TypeOK
<1>1. TypeOK /\ [Next]_vars => TypeOK'
  <2> SUFFICES ASSUME TypeOK, [Next]_vars PROVE TypeOK'
    OBVIOUS
  <2>1. CASE Boot
    BY <2>1, SameType DEF Boot
  <2>2. CASE Start
    BY <2>2, EnterInitType DEF Start
  <2>3. CASE Client
    BY <2>3, ClientType
  <2>4. CASE Exit
    BY <2>4, EnterInitType DEF Exit, SYS_exit
  <2>5. CASE Fault
    <3>1. program \in String /\ depth \in 0 .. MaxDepth
      BY DEF TypeOK
    <3>2. Halt /\ UNCHANGED <<program, depth>>
      BY <2>5 DEF Fault
    <3> QED BY <3>1, <3>2, HaltType
  <2>10. CASE ShellFault
    BY <2>10, WildIs DEF TypeOK, memory, library, shell
  <2>6. CASE Mmap
    BY <2>6, MmapPageType, MmapReturnType DEF Mmap
  <2>7. CASE ShellStart
    BY <2>7, mallocType, Numbers DEF ShellStart, Running
  <2>8. CASE Shell
    BY <2>8, ReadNewlineType, ReadCharType DEF Shell
  <2>9. CASE UNCHANGED vars
    BY <2>9, SameType DEF vars
  <2> QED BY <2>1, <2>2, <2>3, <2>4, <2>5, <2>6, <2>7, <2>8, <2>9, <2>10 DEF Next
<1> QED BY InitType, <1>1, PTL DEF Spec

-----------------------------------------------------------------------------
(* What is mapped.  The property speaks of a program that runs; while mmap *)
(* maps pages, one by one, those that are left must be among the pages the *)
(* program asked for.  That fails for a request that is no whole number of *)
(* pages, which maps everything there is and never returns.                *)

Whole == request.left % PAGESIZE = 0
Asked == UNION {r.pages : r \in regions}
Still == {PageOf((request.at + n) % Word) : n \in 0 .. request.left - 1}

ImageMapped == pc \in {"run", "mmap"} => Image(program) \subseteq Lower(space)
StackMapped == pc \in {"run", "mmap"} /\ ring = 3 /\ ~short => Stack \subseteq Lower(space)
OnlyAsked ==
  (pc = "run" \/ (pc = "mmap" /\ Whole)) =>
    Lower(space) \subseteq Image(program) \cup Asked \cup (IF ring = 3 THEN Stack ELSE {})
StillAsked == (pc = "mmap" /\ Whole) => Still \subseteq Asked
UserDepth == ring = 3 => depth = 0

OwnInvariant == ImageMapped /\ StackMapped /\ OnlyAsked /\ StillAsked /\ UserDepth

LEMMA OwnPagesHold == OwnInvariant => OwnPages
<1> SUFFICES ASSUME OwnInvariant, pc = "run" PROVE OwnPages
  BY DEF OwnPages
<1>1. Image(program) \subseteq Lower(space)
  BY DEF OwnInvariant, ImageMapped
<1>2. ring = 3 /\ ~short => Stack \subseteq Lower(space)
  BY DEF OwnInvariant, StackMapped
<1>3. Lower(space) \subseteq
        Image(program) \cup (UNION {r.pages : r \in regions}) \cup (IF ring = 3 THEN Stack ELSE {})
  BY DEF OwnInvariant, OnlyAsked, Asked
<1>4. ring = 3 => depth = 0
  BY DEF OwnInvariant, UserDepth
<1> QED BY <1>1, <1>2, <1>3, <1>4 DEF OwnPages

\* The lower half of the address space of a program that was loaded is its image.
LEMMA LoadedPages ==
  ASSUME NEW s \in Spaces, NEW name, Loads(unmap_lower_half(s), name)
  PROVE  LET t == load_module(unmap_lower_half(s), name)
         IN  t \in Spaces /\ Lower(t) = Image(name)
<1> DEFINE u == unmap_lower_half(s)
           t == load_module(u, name)
<1>1. u \in Spaces /\ t \in Spaces
  BY UnmapType, LoadType
<1>2. \A p \in Page \ Upper : u[p] = Unmapped
  BY DEF unmap_lower_half
<1>3. \A p \in Page : t[p] = IF p \in Given(name) THEN All ELSE u[p]
  BY DEF load_module
<1>4. Found(name) # {} /\ All # Unmapped
  BY ProcessAssumption DEF Loads
<1>5. \A k \in DOMAIN Segments(name) :
        LET seg == Segments(name)[k]
        IN  /\ seg.page \in Page /\ seg.pages \in Nat /\ seg.pages > 0
            /\ seg.page .. seg.page + seg.pages - 1 \subseteq Page \ Upper
  BY <1>4, SegmentTypes
<1>6. \A k \in DOMAIN Segments(name) :
        LET seg == Segments(name)[k]
        IN  \A p \in seg.page .. seg.page + seg.pages - 1 :
              u[p] # Unmapped \/ \E m \in 1 .. k : Segments(name)[m].page = p
  BY DEF Loads
<1>7. ASSUME NEW k \in DOMAIN Segments(name),
             NEW p \in Segments(name)[k].page .. Segments(name)[k].page + Segments(name)[k].pages - 1
      PROVE  p \in Lower(t)
  <2>1. p \in Page \ Upper
    BY <1>5
  <2>2. PICK m \in 1 .. k : Segments(name)[m].page = p
    BY <1>2, <1>6, <2>1
  <2>3. m \in DOMAIN Segments(name)
    <3>1. Segments(name) \in Seq([page : Page, pages : Nat])
      BY <1>4, SegmentTypes
    <3> QED BY <3>1
  <2>4. p \in Given(name)
    BY <2>2, <2>3 DEF Given, Range
  <2> QED BY <1>3, <1>4, <2>1, <2>4 DEF Lower
<1>8. Image(name) \subseteq Lower(t)
  BY <1>7 DEF Image, Range
<1>9. Lower(t) \subseteq Image(name)
  <2>1. SUFFICES ASSUME NEW p \in Lower(t) PROVE p \in Image(name)
    OBVIOUS
  <2>2. p \in Given(name)
    BY <1>2, <1>3, <2>1 DEF Lower
  <2>3. PICK k \in DOMAIN Segments(name) : Segments(name)[k].page = p
    BY <2>2 DEF Given, Range
  <2>4. p \in Segments(name)[k].page .. Segments(name)[k].page + Segments(name)[k].pages - 1
    <3>1. Segments(name)[k].page \in Nat /\ Segments(name)[k].pages \in Nat /\ Segments(name)[k].pages > 0
      BY <1>5 DEF Page
    <3> QED BY <2>3, <3>1
  <2> QED BY <2>4 DEF Image, Range
<1> QED BY <1>1, <1>8, <1>9

LEMMA EnterOwn ==
  ASSUME NEW name, NEW t, Enter(name, t), Image(name) \subseteq Lower(t),
         ring' = 3 /\ ~short' => Stack \subseteq Lower(t),
         Lower(t) \subseteq Image(name) \cup (IF ring' = 3 THEN Stack ELSE {}),
         ring' = 3 => depth' = 0
  PROVE  OwnInvariant'
<1>1. pc' = "run" /\ program' = name /\ space' = t
  BY DEF Enter
<1>2. ImageMapped'
  BY <1>1 DEF ImageMapped, Lower
<1>3. StackMapped'
  BY <1>1 DEF StackMapped, Lower
<1>4. OnlyAsked'
  BY <1>1 DEF OnlyAsked, Lower
<1>5. StillAsked' /\ UserDepth'
  BY <1>1 DEF StillAsked, UserDepth
<1> QED BY <1>2, <1>3, <1>4, <1>5 DEF OwnInvariant

LEMMA HaltOwn ==
  ASSUME Halt, ring' = 3 => depth' = 0
  PROVE  OwnInvariant'
  BY DEF Halt, OwnInvariant, ImageMapped, StackMapped, OnlyAsked, StillAsked, UserDepth

LEMMA ExecOwn ==
  ASSUME TypeOK, NEW name, SYS_exec(name)
  PROVE  OwnInvariant'
<1> DEFINE s == unmap_lower_half(space)
           t == load_module(s, name)
<1>1. ring' = 0
  BY DEF SYS_exec
<1>2. CASE Loads(s, name) /\ Enter(name, t)
  <2>1. Lower(t) = Image(name)
    BY <1>2, SpaceType, LoadedPages
  <2> HIDE DEF t
  <2> QED BY <1>1, <1>2, <2>1, EnterOwn
<1>3. CASE Halt
  BY <1>1, <1>3, HaltOwn
<1> QED BY <1>2, <1>3 DEF SYS_exec

LEMMA EnterInitOwn ==
  ASSUME TypeOK, OwnInvariant, EnterInit
  PROVE  OwnInvariant'
<1> DEFINE s == unmap_lower_half(space)
           t == load_module(s, InitName)
           u(missing) == [p \in Page |-> IF p \in StackPages \ missing THEN ReadWrite ELSE t[p]]
<1>1. ASSUME NEW missing \in {{}, StackPages}, Loads(s, InitName), Enter(InitName, u(missing)),
             short' = (missing # {}), usermode_entry
      PROVE  OwnInvariant'
  <2>1. t \in Spaces /\ Lower(t) = Image(InitName)
    BY <1>1, SpaceType, LoadedPages
  <2>2. ReadWrite # Unmapped /\ Stack \subseteq Page \ Upper /\ Stack # {}
    BY ProcessAssumption
  <2>3. \A p \in Page : u(missing)[p] = IF p \in Stack \ missing THEN ReadWrite ELSE t[p]
    BY DEF StackPages
  <2> HIDE DEF u, t
  <2>4. Lower(u(missing)) = Lower(t) \cup (Stack \ missing)
    BY <2>2, <2>3 DEF Lower
  <2>5. ~short' => missing = {}
    BY <1>1
  <2>6. ring' = 3 /\ depth' = 0
    BY <1>1 DEF usermode_entry
  <2> QED BY <1>1, <2>1, <2>4, <2>5, <2>6, EnterOwn
<1>2. CASE Halt /\ UNCHANGED <<ring, depth, program>>
  <2>1. ring' = 3 => depth' = 0
    BY <1>2 DEF OwnInvariant, UserDepth
  <2> QED BY <1>2, <2>1, HaltOwn
<1>3. \/ \E missing \in {{}, StackPages} :
            /\ Loads(s, InitName) /\ Enter(InitName, u(missing))
            /\ short' = (missing # {}) /\ usermode_entry
      \/ Halt /\ UNCHANGED <<ring, depth, program>>
  BY DEF EnterInit
<1> QED BY <1>1, <1>2, <1>3

\* A step of a program or of mmap unmaps nothing, and maps what was asked for.
LEMMA KeepsOwn ==
  ASSUME OwnInvariant, pc \in {"run", "mmap"}, pc' \in {"run", "mmap"},
         UNCHANGED <<program, ring, depth>>, Lower(space) \subseteq Lower(space'), short => short',
         Asked \subseteq Asked',
         (pc' = "run" \/ Whole') =>
           /\ pc = "run" \/ Whole
           /\ Lower(space') \subseteq Lower(space) \cup Asked'
           /\ pc' = "mmap" => Still' \subseteq Asked',
         short' \in BOOLEAN
  PROVE  OwnInvariant'
<1>1. ImageMapped'
  BY DEF OwnInvariant, ImageMapped, Lower
<1>2. StackMapped'
  BY DEF OwnInvariant, StackMapped, Lower
<1>3. OnlyAsked'
  <2>1. SUFFICES ASSUME pc' = "run" \/ Whole'
                 PROVE  Lower(space') \subseteq
                          Image(program) \cup Asked' \cup (IF ring = 3 THEN Stack ELSE {})
    BY DEF OnlyAsked, Lower
  <2>2. Lower(space) \subseteq Image(program) \cup Asked \cup (IF ring = 3 THEN Stack ELSE {})
    BY <2>1 DEF OwnInvariant, OnlyAsked
  <2> QED BY <2>1, <2>2
<1>4. StillAsked'
  BY DEF StillAsked
<1>5. UserDepth'
  BY DEF OwnInvariant, UserDepth
<1> QED BY <1>1, <1>2, <1>3, <1>4, <1>5 DEF OwnInvariant

LEMMA VmMapPages ==
  ASSUME TypeOK, NEW p \in Page, NEW prot \in Protection, vm_map(p, prot)
  PROVE  /\ Lower(space) \subseteq Lower(space') /\ Lower(space') \subseteq Lower(space) \cup {p}
         /\ short => short'
<1>1. space \in Spaces /\ short \in BOOLEAN
  BY TypeParts
<1>2. prot # Unmapped
  BY ProcessAssumption
<1>3. ASSUME UNCHANGED space
      PROVE  Lower(space') = Lower(space)
  BY <1>3
<1>4. ASSUME space[p] = Unmapped, space' = [space EXCEPT ![p] = prot]
      PROVE  Lower(space) \subseteq Lower(space') /\ Lower(space') \subseteq Lower(space) \cup {p}
  BY <1>1, <1>2, <1>4 DEF Lower, Spaces
<1>5. UNCHANGED space \/ (space[p] = Unmapped /\ space' = [space EXCEPT ![p] = prot])
  BY DEF vm_map
<1>6. short => short'
  BY DEF vm_map
<1> QED BY <1>3, <1>4, <1>5, <1>6

\* A length above 0 includes the first page.
LEMMA FirstPage ==
  ASSUME NEW address \in Address, NEW length \in Address, length # 0
  PROVE  PageOf(address) \in {PageOf((address + n) % Word) : n \in 0 .. length - 1}
<1>1. 0 \in 0 .. length - 1 /\ address + 0 = address
  BY Numbers
<1>2. (address + 0) % Word = address
  BY <1>1, WrapsNot
<1> QED BY <1>1, <1>2

\* What is left of a region behind its first bytes are pages of the region.
LEMMA PagesBehind ==
  ASSUME NEW address \in Address, NEW length \in Address, NEW first \in 0 .. length
  PROVE  {PageOf((((address + first) % Word) + n) % Word) : n \in 0 .. (length - first) - 1}
           \subseteq {PageOf((address + n) % Word) : n \in 0 .. length - 1}
<1> SUFFICES ASSUME NEW n \in 0 .. (length - first) - 1
             PROVE  PageOf((((address + first) % Word) + n) % Word)
                      \in {PageOf((address + m) % Word) : m \in 0 .. length - 1}
  OBVIOUS
<1>1. /\ address + first \in Int /\ n \in Int /\ first + n \in 0 .. length - 1
      /\ (address + first) + n = address + (first + n)
  BY Numbers
<1>2. (((address + first) % Word) + n) % Word = ((address + first) + n) % Word
  BY <1>1, WrapsOnce
<1> QED BY <1>1, <1>2

LEMMA MmapAnywhereOwn ==
  ASSUME TypeOK, OwnInvariant, pc = "run", NEW length \in Address, NEW prot \in Protection,
         NEW sz \in Address, MmapAnywhere(length, prot, sz),
         UNCHANGED <<program, ring, depth>>
  PROVE  OwnInvariant'
<1> DEFINE region == Region(mem_start, length, prot, IF sz = 0 THEN "own" ELSE "heap")
<1>1. /\ pc' = "mmap" /\ regions' = regions \cup {region} /\ UNCHANGED <<space, short>>
      /\ request' = [at |-> mem_start, left |-> length, prot |-> prot, result |-> mem_start, sz |-> sz]
  BY DEF MmapAnywhere
<1>2. Asked' = Asked \cup region.pages
  BY <1>1 DEF Asked
<1>3. Still' = region.pages
  BY <1>1 DEF Still, Region
<1>4. Lower(space') = Lower(space) /\ (short => short') /\ short' \in BOOLEAN
  BY <1>1, TypeParts
<1> HIDE DEF region
<1> QED BY <1>1, <1>2, <1>3, <1>4, KeepsOwn

\* The part of a placed region on its first page, and what is then left of it.
LEMMA PlacedParts ==
  ASSUME NEW address \in Address, NEW length \in Address \ {0}, NEW left,
         left = (length - (PAGESIZE - (address - PageOf(address) * PAGESIZE))) % Word,
         left % PAGESIZE = 0
  PROVE  LET first == PAGESIZE - (address - PageOf(address) * PAGESIZE) IN
         /\ first \in 1 .. PAGESIZE /\ first \in 0 .. length /\ left = length - first
         /\ PageOf(address) * PAGESIZE \in Int
         /\ PageOf(address) * PAGESIZE + PAGESIZE = address + first
<1> DEFINE aligned == PageOf(address) * PAGESIZE
           first == PAGESIZE - (address - aligned)
<1>1. PAGESIZE \in Nat \ {0} /\ address \in Nat /\ length \in Nat /\ length > 0
  BY WordPages, Numbers
<1>2. aligned \in Int /\ address - aligned \in 0 .. PAGESIZE - 1
  <2>1. /\ address \div PAGESIZE \in Int /\ address % PAGESIZE \in 0 .. PAGESIZE - 1
        /\ address = PAGESIZE * (address \div PAGESIZE) + (address % PAGESIZE)
    <3>1. address \in Int
      BY <1>1
    <3> QED BY Zenon, <1>1, <3>1, DivMod
  <2>2. aligned = PAGESIZE * (address \div PAGESIZE) /\ aligned \in Int
    BY <1>1, <2>1 DEF PageOf
  <2> HIDE DEF aligned
  <2> QED BY <1>1, <2>1, <2>2
<1> HIDE DEF aligned
<1>3. first \in 1 .. PAGESIZE /\ aligned + PAGESIZE = address + first
  BY <1>1, <1>2
<1>4. left = (length - first) % Word
  BY Zenon DEF aligned
<1> HIDE DEF first
<1>5. length - first \in Int /\ (length - first) % PAGESIZE = 0
  <2>1. length - first \in Int
    BY <1>1, <1>3
  <2> QED BY <1>4, <2>1, WholePages
<1>6. length - first >= 0
  <2>1. SUFFICES ASSUME length - first < 0 PROVE FALSE
    BY <1>5
  <2>2. -PAGESIZE < length - first /\ length - first < PAGESIZE /\ length - first # 0
    BY <1>1, <1>3, <2>1
  <2> QED BY <1>5, <2>2, NotWhole
<1>7. first \in 0 .. length
  BY <1>1, <1>3, <1>6
<1>8. left = length - first
  <2>1. length - first \in Address
    BY <1>1, <1>3, <1>6, WordPages DEF Address
  <2> QED BY <1>4, <2>1, WrapsNot
<1> QED BY <1>2, <1>3, <1>7, <1>8 DEF first, aligned

LEMMA PlacedPages ==
  ASSUME NEW address \in Address, NEW length \in Address \ {0},
         NEW at, NEW left,
         at = (PageOf(address) * PAGESIZE + PAGESIZE) % Word,
         left = (length - (PAGESIZE - (address - PageOf(address) * PAGESIZE))) % Word,
         left % PAGESIZE = 0
  PROVE  {PageOf((at + n) % Word) : n \in 0 .. left - 1}
           \subseteq {PageOf((address + n) % Word) : n \in 0 .. length - 1}
<1> DEFINE first == PAGESIZE - (address - PageOf(address) * PAGESIZE)
<1>1. /\ first \in 0 .. length /\ left = length - first
      /\ PageOf(address) * PAGESIZE + PAGESIZE = address + first
  BY PlacedParts
<1> HIDE DEF first
<1>2. at = (address + first) % Word /\ length \in Address
  BY <1>1
<1>3. {PageOf((((address + first) % Word) + n) % Word) : n \in 0 .. (length - first) - 1}
        \subseteq {PageOf((address + n) % Word) : n \in 0 .. length - 1}
  BY <1>1, <1>2, PagesBehind
<1> QED BY Zenon, <1>1, <1>2, <1>3

LEMMA MmapPlacedOwn ==
  ASSUME TypeOK, OwnInvariant, pc = "run", NEW address \in Address, NEW length \in Address \ {0},
         NEW prot \in Protection, MmapPlaced(address, length, prot),
         UNCHANGED <<program, ring, depth>>
  PROVE  OwnInvariant'
<1> DEFINE region == Region(address, length, prot, "placed")
<1>1. /\ pc' = "mmap" /\ regions' = regions \cup {region}
      /\ vm_map(PageOf(address), All)
  BY DEF MmapPlaced
<1>2. /\ request'.at = (PageOf(address) * PAGESIZE + PAGESIZE) % Word
      /\ request'.left = (length - (PAGESIZE - (address - PageOf(address) * PAGESIZE))) % Word
  BY DEF MmapPlaced
<1>3. Asked' = Asked \cup region.pages
  BY <1>1 DEF Asked
<1>4. region.pages = {PageOf((address + n) % Word) : n \in 0 .. length - 1}
  BY DEF Region
<1>5. PageOf(address) \in Asked'
  BY <1>3, <1>4, FirstPage
<1>6. /\ Lower(space) \subseteq Lower(space') /\ (short => short') /\ short' \in BOOLEAN
      /\ Lower(space') \subseteq Lower(space) \cup Asked'
  <2>1. PageOf(address) \in Page /\ All \in Protection
    BY PageOfAddress, Numbers
  <2>2. /\ Lower(space) \subseteq Lower(space') /\ Lower(space') \subseteq Lower(space) \cup {PageOf(address)}
        /\ short => short'
    BY <1>1, <2>1, VmMapPages
  <2>3. short' \in BOOLEAN
    BY <1>1, <2>1, TypeParts, VmMapType
  <2> QED BY <1>5, <2>2, <2>3
<1>7. Whole' => Still' \subseteq Asked'
  <2>1. SUFFICES ASSUME request'.left % PAGESIZE = 0 PROVE Still' \subseteq Asked'
    BY DEF Whole
  <2>2. Still' = {PageOf((request'.at + n) % Word) : n \in 0 .. request'.left - 1}
    BY DEF Still
  <2>3. Still' \subseteq region.pages
    BY <1>2, <1>4, <2>1, <2>2, PlacedPages
  <2> QED BY <1>3, <2>3
<1> HIDE DEF region
<1> QED BY <1>1, <1>3, <1>6, <1>7, KeepsOwn

LEMMA SYS_mmapOwn ==
  ASSUME TypeOK, OwnInvariant, pc = "run", NEW address \in Address, NEW length \in Address \ {0},
         NEW prot \in Protection, SYS_mmap(address, length, prot), UNCHANGED <<program, ring, depth>>
  PROVE  OwnInvariant'
  BY MmapAnywhereOwn, MmapPlacedOwn, Numbers DEF SYS_mmap

\* A page is mapped; a length that is whole pages, and not 0, is at least one.
LEMMA OnePageDone ==
  ASSUME TypeOK, MmapPage
  PROVE  /\ request'.at = (request.at + PAGESIZE) % Word /\ request'.prot = request.prot
         /\ Whole' => Whole
         /\ Whole => PAGESIZE <= request.left /\ request'.left = request.left - PAGESIZE
<1> DEFINE left == request.left
<1>1. /\ request'.at = (request.at + PAGESIZE) % Word /\ request'.left = (left - PAGESIZE) % Word
      /\ request'.prot = request.prot
  <2>1. request \in Requests
    BY TypeParts
  <2>2. request' = [request EXCEPT !.at = (@ + PAGESIZE) % Word, !.left = (left - PAGESIZE) % Word]
    BY DEF MmapPage, LessPage
  <2> QED BY <2>1, <2>2 DEF Requests
<1>2. left \in Nat /\ PAGESIZE \in Nat \ {0} /\ left < Word /\ left # 0 /\ Word \in Nat
  <2>1. left \in Address /\ left # 0
    BY TypeParts DEF Requests, MmapPage
  <2> QED BY <2>1, WordPages DEF Address
<1>3. (Whole <=> left % PAGESIZE = 0) /\ (Whole' <=> request'.left % PAGESIZE = 0)
  BY DEF Whole
<1> HIDE DEF left
<1>4. Whole' => Whole
  <2>1. left - PAGESIZE \in Int /\ left \in Int
    BY <1>2
  <2>2. ((left - PAGESIZE) % Word) % PAGESIZE = (left - PAGESIZE) % PAGESIZE
    BY <2>1, WholePages
  <2>3. (left - PAGESIZE) % PAGESIZE = left % PAGESIZE
    BY <2>1, OnePageLess
  <2> QED BY <1>1, <1>3, <2>2, <2>3
<1>5. ASSUME Whole
      PROVE  PAGESIZE <= left /\ request'.left = left - PAGESIZE
  <2>1. left >= PAGESIZE
    <3>1. SUFFICES ASSUME left < PAGESIZE PROVE FALSE
      BY <1>2
    <3>2. -PAGESIZE < left /\ left \in Int
      BY <1>2
    <3> QED BY <1>2, <1>3, <1>5, <3>1, <3>2, NotWhole
  <2>2. left - PAGESIZE \in Address
    BY <1>2, <2>1 DEF Address
  <2> QED BY <1>1, <2>1, <2>2, WrapsNot
<1> QED BY <1>1, <1>4, <1>5 DEF left

LEMMA MmapPageOwn ==
  ASSUME TypeOK, OwnInvariant, MmapPage
  PROVE  OwnInvariant'
<1> DEFINE at == request.at
           left == request.left
<1>1. /\ pc = "mmap" /\ left # 0 /\ pc' = "mmap" /\ vm_map(PageOf(at), request.prot)
      /\ UNCHANGED <<program, ring, depth, regions>>
  BY DEF MmapPage, bootVars
<1>2. at \in Address /\ left \in Address /\ request.prot \in Protection
  BY TypeParts DEF Requests
<1>3. /\ request'.at = (at + PAGESIZE) % Word
      /\ Whole' => Whole
      /\ Whole => PAGESIZE <= left /\ request'.left = left - PAGESIZE
  BY OnePageDone
<1> HIDE DEF at, left
<1>4. Asked' = Asked
  BY <1>1 DEF Asked
<1>5. Still = {PageOf((at + n) % Word) : n \in 0 .. left - 1}
  BY DEF Still, at, left
<1>6. Whole => PageOf(at) \in Asked
  <2>1. PageOf(at) \in Still
    BY <1>1, <1>2, <1>5, FirstPage
  <2> QED BY <1>1, <2>1 DEF OwnInvariant, StillAsked
<1>7. Whole => Still' \subseteq Asked
  <2>1. SUFFICES ASSUME Whole, Still \subseteq Asked PROVE Still' \subseteq Asked
    BY <1>1 DEF OwnInvariant, StillAsked
  <2>2. PAGESIZE \in 0 .. left
    BY <1>2, <1>3, <2>1, WordPages, Numbers
  <2>3. Still' = {PageOf((request'.at + n) % Word) : n \in 0 .. request'.left - 1}
    BY DEF Still
  <2>4. Still' \subseteq Still
    BY <1>2, <1>3, <1>5, <2>1, <2>2, <2>3, PagesBehind
  <2> QED BY <2>1, <2>4
<1>8. /\ Lower(space) \subseteq Lower(space') /\ Lower(space') \subseteq Lower(space) \cup {PageOf(at)}
      /\ short => short'
  BY <1>1, <1>2, PageOfAddress, VmMapPages
<1>9. short' \in BOOLEAN
  BY <1>1, <1>2, PageOfAddress, TypeParts, VmMapType
<1> QED BY <1>1, <1>3, <1>4, <1>6, <1>7, <1>8, <1>9, KeepsOwn

LEMMA MmapReturnOwn ==
  ASSUME TypeOK, OwnInvariant, MmapReturn
  PROVE  OwnInvariant'
<1>1. /\ pc = "mmap" /\ pc' = "run" /\ request.left = 0
      /\ UNCHANGED <<program, ring, depth, space, regions, short>>
  BY DEF MmapReturn, bootVars, memory
<1>2. Whole
  <2>1. 0 \in Int /\ 0 = PAGESIZE * 0 + 0 /\ 0 \in 0 .. PAGESIZE - 1
    BY WordPages
  <2>2. 0 % PAGESIZE = 0
    BY <2>1, WordPages, DivModUnique
  <2> QED BY <1>1, <2>2 DEF Whole
<1>3. Asked' = Asked /\ Lower(space') = Lower(space) /\ short' \in BOOLEAN
  BY <1>1, TypeParts DEF Asked
<1> QED BY <1>1, <1>2, <1>3, KeepsOwn

LEMMA SameOwn ==
  ASSUME TypeOK, OwnInvariant, pc = "run",
         UNCHANGED <<pc, program, ring, depth, space, regions, short>>
  PROVE  OwnInvariant'
<1>1. Asked' = Asked /\ Lower(space') = Lower(space) /\ short' \in BOOLEAN
  BY TypeParts DEF Asked
<1> QED BY <1>1, KeepsOwn

LEMMA mallocOwn ==
  ASSUME TypeOK, OwnInvariant, pc = "run", NEW sz \in Address, malloc(sz),
         UNCHANGED <<program, ring, depth>>
  PROVE  OwnInvariant'
<1> DEFINE rounded_up == ROUND_UP(ROUND_UP(sz, ALIGN), PAGESIZE)
<1>1. CASE UNCHANGED <<pc, memory>>
  BY <1>1, SameOwn DEF memory
<1>2. CASE MmapAnywhere(rounded_up, ReadWrite, sz)
  <2>1. rounded_up \in Address
    BY ProcessAssumption, RoundType
  <2> HIDE DEF rounded_up
  <2> QED BY <1>2, <2>1, Numbers, MmapAnywhereOwn
<1> QED BY <1>1, <1>2 DEF malloc

LEMMA ClientOwn ==
  ASSUME TypeOK, OwnInvariant, Client
  PROVE  OwnInvariant'
<1>0. pc = "run"
  BY DEF Client, Running
<1>1. ASSUME NEW sz \in Sizes, malloc(sz), UNCHANGED <<bootVars, program, depth, shell>>
      PROVE  OwnInvariant'
  <2>1. sz \in Address
    BY ProcessAssumption
  <2> QED BY <1>0, <1>1, <2>1, mallocOwn DEF bootVars
<1>2. ASSUME NEW a \in Places \cup {0}, NEW n \in Lengths, NEW prot \in Protection,
             SYS_mmap(a, n, prot), UNCHANGED <<bootVars, program, depth, shell>>
      PROVE  OwnInvariant'
  <2>1. a \in Address /\ n \in Address \ {0}
    BY ProcessAssumption, Numbers
  <2> QED BY <1>0, <1>2, <2>1, SYS_mmapOwn DEF bootVars
<1>3. ASSUME NEW name, SYS_exec(name)
      PROVE  OwnInvariant'
  BY <1>3, ExecOwn
<1> QED BY <1>1, <1>2, <1>3 DEF Client

LEMMA ShellOwn ==
  ASSUME TypeOK, OwnInvariant, Shell
  PROVE  OwnInvariant'
<1>0. pc = "run"
  BY DEF Shell, Prompt, Running
<1>1. ASSUME NEW c \in Key, ReadChar(c) PROVE OwnInvariant'
  BY <1>0, <1>1, SameOwn DEF ReadChar, bootVars, memory
<1>2. CASE SYS_exec(StringTo(Reset(i)))
  BY <1>2, ExecOwn
<1>3. CASE UNCHANGED <<bootVars, pc, program, depth, memory, request, library>>
  BY <1>0, <1>3, SameOwn DEF bootVars, memory
<1> QED BY <1>1, <1>2, <1>3 DEF Shell, ReadNewline

LEMMA InitOwn == Init => OwnInvariant
  BY DEF Init, BootInit, OwnInvariant, ImageMapped, StackMapped, OnlyAsked, StillAsked, UserDepth

LEMMA NextOwn ==
  ASSUME TypeOK, OwnInvariant, [Next]_vars
  PROVE  OwnInvariant'
<1>1. CASE Boot
  <2>1. pc = "boot" /\ pc' = "boot" /\ UNCHANGED <<ring, depth>>
    BY <1>1 DEF Boot, BootStep
  <2> QED
    BY <2>1 DEF OwnInvariant, ImageMapped, StackMapped, OnlyAsked, StillAsked, UserDepth
<1>2. CASE Start
  BY <1>2, EnterInitOwn DEF Start
<1>3. CASE Client
  BY <1>3, ClientOwn
<1>4. CASE Exit
  BY <1>4, EnterInitOwn DEF Exit, SYS_exit
<1>5. CASE Fault
  <2>1. Halt /\ UNCHANGED <<ring, depth>>
    BY <1>5 DEF Fault, bootVars
  <2>2. ring' = 3 => depth' = 0
    BY <2>1 DEF OwnInvariant, UserDepth
  <2> QED BY <2>1, <2>2, HaltOwn
<1>10. CASE ShellFault
  <2>1. pc' \notin {"run", "mmap"} /\ UNCHANGED <<ring, depth>>
    BY <1>10, WildIs DEF bootVars
  <2> QED BY <2>1 DEF OwnInvariant, ImageMapped, StackMapped, OnlyAsked, StillAsked, UserDepth
<1>6. CASE Mmap
  BY <1>6, MmapPageOwn, MmapReturnOwn DEF Mmap
<1>7. CASE ShellStart
  BY <1>7, mallocOwn, Numbers DEF ShellStart, Running, bootVars
<1>8. CASE Shell
  BY <1>8, ShellOwn
<1>9. CASE UNCHANGED vars
  <2>1. UNCHANGED <<pc, program, ring, depth, space, regions, short, request>>
    BY <1>9 DEF vars, bootVars, memory
  <2>2. Asked' = Asked /\ Still' = Still /\ (Whole' <=> Whole) /\ Lower(space') = Lower(space)
    BY <2>1 DEF Asked, Still, Whole
  <2>3. ImageMapped' /\ StackMapped'
    BY <2>1, <2>2 DEF OwnInvariant, ImageMapped, StackMapped, Lower
  <2>4. OnlyAsked'
    BY <2>1, <2>2 DEF OwnInvariant, OnlyAsked, Lower
  <2>5. StillAsked' /\ UserDepth'
    BY <2>1, <2>2 DEF OwnInvariant, StillAsked, UserDepth
  <2> QED BY <2>3, <2>4, <2>5 DEF OwnInvariant
<1> QED BY <1>1, <1>2, <1>3, <1>4, <1>5, <1>6, <1>7, <1>8, <1>9, <1>10 DEF Next

\* However many pages and programs there are, and wherever they ask for memory,
\* a program that runs has its image and its stack, and nothing mapped that it
\* did not ask for (interrupts.c:292-394, boot.c:136-157, modules.c:79-131).
THEOREM PagesAreOwn == Spec => []OwnPages
<1>1. OwnInvariant /\ TypeOK /\ [Next]_vars => OwnInvariant'
  BY NextOwn
<1> QED BY TypeCorrect, InitOwn, OwnPagesHold, <1>1, PTL DEF Spec

-----------------------------------------------------------------------------
(* The start of _start.  It is a list of calls: what has been set up       *)
(* follows from how many of them have returned.                            *)

Setup == <<<<"gdt_setup">>, <<"idt_setup">>>> \o pic_init \o <<<<"unmask", 1>>>>

Chip(w, b, m) == [icw |-> w, base |-> b, mask |-> m]
Pair(a, b) == pic = [p \in 1 .. 2 |-> IF p = 1 THEN a ELSE b]

\* The controllers after so many calls, one less than the place in the list.
Controllers ==
  <<<<Chip(0, 0, 255), Chip(0, 0, 255)>>, <<Chip(0, 0, 255), Chip(0, 0, 255)>>,
    <<Chip(0, 0, 255), Chip(0, 0, 255)>>, <<Chip(2, 0, 0), Chip(0, 0, 255)>>,
    <<Chip(2, 0, 0), Chip(2, 0, 0)>>, <<Chip(3, 32, 0), Chip(2, 0, 0)>>,
    <<Chip(3, 32, 0), Chip(3, 40, 0)>>, <<Chip(4, 32, 0), Chip(3, 40, 0)>>,
    <<Chip(4, 32, 0), Chip(4, 40, 0)>>, <<Chip(0, 32, 0), Chip(4, 40, 0)>>,
    <<Chip(0, 32, 0), Chip(0, 40, 0)>>, <<Chip(0, 32, 255), Chip(0, 40, 0)>>,
    <<Chip(0, 32, 255), Chip(0, 40, 255)>>, <<Chip(0, 32, 255), Chip(0, 40, 255)>>,
    <<Chip(0, 32, 253), Chip(0, 40, 255)>>>>

\* The calls that are left after the first n.
Left(n, calls) ==
  /\ calls \in Seq({Setup[k] : k \in 1 .. 14})
  /\ Len(calls) = 14 - n
  /\ \A k \in 1 .. 14 - n : calls[k] = Setup[n + k]

Stage(n) ==
  /\ n \in 0 .. 14
  /\ Left(n, todo)
  /\ n >= 1 => gdtr = 88 /\ tr = TSS_SELECTOR /\ rsp0
  /\ n >= 2 => idtr
  /\ Pair(Controllers[n + 1][1], Controllers[n + 1][2])
  /\ (enabled <=> n >= 13)
  /\ ring = 0

\* Two lists behind one another.
Listed(S, s, n) == s \in Seq(S) /\ Len(s) = n /\ n \in Nat
InTurn(u, s, m, t, n) ==
  /\ \A k \in 1 .. m : u[k] = s[k]
  /\ \A k \in m + 1 .. m + n : u[k] = t[k - m]

LEMMA Joined ==
  ASSUME NEW S, NEW s, NEW t, NEW m, NEW n, Listed(S, s, m), Listed(S, t, n), NEW p, p = m + n
  PROVE  Listed(S, s \o t, p) /\ InTurn(s \o t, s, m, t, n)
BY DEF Listed, InTurn

LEMMA OwnElements ==
  ASSUME NEW S, NEW s \in Seq(S)
  PROVE  s \in Seq({s[k] : k \in 1 .. Len(s)})
<1>1. s \in [1 .. Len(s) -> {s[k] : k \in 1 .. Len(s)}] /\ Len(s) \in Nat
  OBVIOUS
<1> QED BY <1>1

LEMMA SetupIs ==
  /\ Len(Setup) = 14 /\ Setup \in Seq({Setup[k] : k \in 1 .. 14})
  /\ Setup[1] = <<"gdt_setup">> /\ Setup[2] = <<"idt_setup">>
  /\ Setup[3] = <<"outb", 1, "command", 17>> /\ Setup[4] = <<"outb", 2, "command", 17>>
  /\ Setup[5] = <<"outb", 1, "data", 32>> /\ Setup[6] = <<"outb", 2, "data", 40>>
  /\ Setup[7] = <<"outb", 1, "data", 4>> /\ Setup[8] = <<"outb", 2, "data", 2>>
  /\ Setup[9] = <<"outb", 1, "data", 1>> /\ Setup[10] = <<"outb", 2, "data", 1>>
  /\ Setup[11] = <<"outb", 1, "data", 255>> /\ Setup[12] = <<"outb", 2, "data", 255>>
  /\ Setup[13] = <<"sti">> /\ Setup[14] = <<"unmask", 1>>
<1> DEFINE a == <<<<"gdt_setup">>, <<"idt_setup">>>>
           b == <<<<"outb", 1, "command", 17>>, <<"outb", 2, "command", 17>>,
                  <<"outb", 1, "data", 32>>, <<"outb", 2, "data", 40>>,
                  <<"outb", 1, "data", 4>>, <<"outb", 2, "data", 2>>,
                  <<"outb", 1, "data", 1>>, <<"outb", 2, "data", 1>>>>
           c == <<<<"outb", 1, "data", 255>>, <<"outb", 2, "data", 255>>>>
           d == <<<<"sti">>>>
           e == <<<<"unmask", 1>>>>
           S == Range(a) \cup Range(b) \cup Range(c) \cup Range(d) \cup Range(e)
<1>1. Setup = a \o (b \o c \o d) \o e
  BY DEF Setup, pic_init, EnabledLast, ICW1_INIT, ICW1_ICW4, IRQ0_INTERRUPT, IRQ8_INTERRUPT, ICW4_8086
<1>2. Listed(S, a, 2) /\ Listed(S, b, 8) /\ Listed(S, c, 2) /\ Listed(S, d, 1) /\ Listed(S, e, 1)
  BY DEF Listed, Range
<1>3. 10 = 8 + 2 /\ 11 = 10 + 1 /\ 13 = 2 + 11 /\ 14 = 13 + 1
  OBVIOUS
<1>4. /\ a[1] = <<"gdt_setup">> /\ a[2] = <<"idt_setup">>
      /\ b[1] = <<"outb", 1, "command", 17>> /\ b[2] = <<"outb", 2, "command", 17>>
      /\ b[3] = <<"outb", 1, "data", 32>> /\ b[4] = <<"outb", 2, "data", 40>>
      /\ b[5] = <<"outb", 1, "data", 4>> /\ b[6] = <<"outb", 2, "data", 2>>
      /\ b[7] = <<"outb", 1, "data", 1>> /\ b[8] = <<"outb", 2, "data", 1>>
      /\ c[1] = <<"outb", 1, "data", 255>> /\ c[2] = <<"outb", 2, "data", 255>>
      /\ d[1] = <<"sti">> /\ e[1] = <<"unmask", 1>>
  OBVIOUS
<1> HIDE DEF a, b, c, d, e, S
<1>5. Listed(S, b \o c, 10) /\ InTurn(b \o c, b, 8, c, 2)
  BY Zenon, <1>2, <1>3, Joined
<1>6. Listed(S, (b \o c) \o d, 11) /\ InTurn((b \o c) \o d, b \o c, 10, d, 1)
  BY Zenon, <1>2, <1>3, <1>5, Joined
<1>7. Listed(S, a \o ((b \o c) \o d), 13) /\ InTurn(a \o ((b \o c) \o d), a, 2, (b \o c) \o d, 11)
  BY Zenon, <1>2, <1>3, <1>6, Joined
<1>8. Listed(S, Setup, 14) /\ InTurn(Setup, a \o ((b \o c) \o d), 13, e, 1)
  BY Zenon, <1>1, <1>2, <1>3, <1>7, Joined
<1>9. Setup \in Seq({Setup[k] : k \in 1 .. 14}) /\ Len(Setup) = 14
  BY <1>8, OwnElements DEF Listed
<1> DEFINE u == b \o c
           v == u \o d
           w == a \o v
<1>10. InTurn(u, b, 8, c, 2) /\ InTurn(v, u, 10, d, 1) /\ InTurn(w, a, 2, v, 11) /\ InTurn(Setup, w, 13, e, 1)
  BY <1>5, <1>6, <1>7, <1>8
<1> HIDE DEF u, v, w
<1>11. /\ u[1] = b[1] /\ u[2] = b[2] /\ u[3] = b[3] /\ u[4] = b[4] /\ u[5] = b[5] /\ u[6] = b[6]
       /\ u[7] = b[7] /\ u[8] = b[8] /\ u[9] = c[1] /\ u[10] = c[2]
  BY <1>10 DEF InTurn
<1>12. /\ v[11] = d[1] /\ \A k \in 1 .. 10 : v[k] = u[k]
  BY <1>10 DEF InTurn
<1>13. w[1] = a[1] /\ w[2] = a[2] /\ \A k \in 3 .. 13 : w[k] = v[k - 2]
  BY <1>10 DEF InTurn
<1>14. Setup[14] = e[1] /\ \A k \in 1 .. 13 : Setup[k] = w[k]
  BY <1>10 DEF InTurn
<1>15. \A k \in 3 .. 12 : Setup[k] = u[k - 2]
  BY <1>12, <1>13, <1>14
<1>16. /\ Setup[1] = a[1] /\ Setup[2] = a[2] /\ Setup[3] = b[1] /\ Setup[4] = b[2] /\ Setup[5] = b[3]
       /\ Setup[6] = b[4] /\ Setup[7] = b[5] /\ Setup[8] = b[6] /\ Setup[9] = b[7]
       /\ Setup[10] = b[8] /\ Setup[11] = c[1] /\ Setup[12] = c[2]
       /\ Setup[13] = d[1] /\ Setup[14] = e[1]
  BY <1>11, <1>12, <1>13, <1>14, <1>15
<1> QED BY <1>4, <1>9, <1>16

LEMMA TableSizes ==
  /\ gdt = {Segment(40, "code", FALSE), Segment(48, "data", FALSE), Segment(56, "code", TRUE),
            Segment(64, "data", TRUE), [at |-> 72, size |-> 16, kind |-> "tss", dpl |-> 0]}
  /\ SizeOf(gdt) = 88
<1>1. gdt = {Segment(40, "code", FALSE), Segment(48, "data", FALSE), Segment(56, "code", TRUE),
            Segment(64, "data", TRUE), [at |-> 72, size |-> 16, kind |-> "tss", dpl |-> 0]}
  BY DEF gdt, Fill, gdt_code_descriptor, gdt_data_descriptor, gdt_tss_descriptor, Segment,
         KERNEL_CODE_SELECTOR, KERNEL_DATA_SELECTOR, USER_CODE_SELECTOR, USER_DATA_SELECTOR, TSS_SELECTOR
<1>2. {d.at + d.size : d \in gdt} = {48, 56, 64, 72, 88}
  BY <1>1 DEF Segment
<1>3. 88 \in {48, 56, 64, 72, 88} /\ \A y \in {48, 56, 64, 72, 88} : 88 >= y
  OBVIOUS
<1>4. Max({48, 56, 64, 72, 88}) = 88
  BY <1>3 DEF Max
<1> QED BY <1>1, <1>2, <1>4 DEF SizeOf

LEMMA StartStage == BootInit => Stage(0)
<1> SUFFICES ASSUME BootInit PROVE Stage(0)
  OBVIOUS
<1>1. todo = Setup
  BY DEF BootInit, Setup
<1>2. Left(0, todo)
  BY <1>1, SetupIs DEF Left
<1>3. Controllers[1][1] = Chip(0, 0, 255) /\ Controllers[1][2] = Chip(0, 0, 255)
  BY DEF Controllers
<1>4. Pair(Controllers[0 + 1][1], Controllers[0 + 1][2])
  BY <1>3 DEF Pair, BootInit, Chip
<1>5. ring = 0 /\ (enabled <=> 0 >= 13)
  BY DEF BootInit
<1> QED BY <1>2, <1>4, <1>5 DEF Stage

\* The list is a call shorter, and the call was the next one.
LEMMA NextCall ==
  ASSUME NEW n, Stage(n), BootStep
  PROVE  n \in 0 .. 13 /\ Head(todo) = Setup[n + 1] /\ Left(n + 1, todo')
<1>1. n \in 0 .. 14 /\ Left(n, todo)
  BY DEF Stage
<1>2. todo # <<>> /\ todo' = Tail(todo)
  BY DEF BootStep
<1> DEFINE S == {Setup[k] : k \in 1 .. 14}
<1>3. todo \in Seq(S) /\ Len(todo) = 14 - n /\ \A k \in 1 .. 14 - n : todo[k] = Setup[n + k]
  BY <1>1 DEF Left
<1> HIDE DEF S
<1>4. n \in 0 .. 13
  BY <1>1, <1>2, <1>3
<1>5. Head(todo) = todo[1] /\ Tail(todo) \in Seq(S) /\ Len(Tail(todo)) = Len(todo) - 1
      /\ \A k \in 1 .. Len(todo) - 1 : Tail(todo)[k] = todo[k + 1]
  BY <1>2, <1>3
<1>6. Head(todo) = Setup[n + 1]
  BY <1>3, <1>4, <1>5
<1>7. \A k \in 1 .. 14 - (n + 1) : todo'[k] = Setup[(n + 1) + k]
  BY <1>2, <1>3, <1>4, <1>5
<1>8. todo' \in Seq(S) /\ Len(todo') = 14 - (n + 1)
  BY <1>2, <1>3, <1>4, <1>5
<1> QED BY <1>4, <1>6, <1>7, <1>8 DEF Left, S

LEMMA Words ==
  ASSUME NEW w, NEW b, NEW m, NEW v
  PROVE  /\ Bit(v, 4) = 1 => Taken(Chip(w, b, m), "command", v) = Chip(2, b, 0)
         /\ Taken(Chip(2, b, m), "data", v) = Chip(3, v, m)
         /\ Taken(Chip(3, b, m), "data", v) = Chip(4, b, m)
         /\ Taken(Chip(4, b, m), "data", v) = Chip(0, b, m)
         /\ Taken(Chip(0, b, m), "data", v) = Chip(0, b, v)
<1>1. ASSUME NEW c, c = Chip(w, b, m), Bit(v, 4) = 1 PROVE Taken(c, "command", v) = Chip(2, b, 0)
  <2>1. Taken(c, "command", v) = [c EXCEPT !.icw = 2, !.mask = 0]
    BY <1>1 DEF Taken
  <2> QED BY <1>1, <2>1 DEF Chip
<1>2. ASSUME NEW c, c = Chip(2, b, m) PROVE Taken(c, "data", v) = Chip(3, v, m)
  <2>1. c.icw = 2
    BY <1>2 DEF Chip
  <2>2. Taken(c, "data", v) = [c EXCEPT !.base = v, !.icw = 3]
    BY <2>1 DEF Taken
  <2> QED BY <1>2, <2>2 DEF Chip
<1>3. ASSUME NEW c, c = Chip(3, b, m) PROVE Taken(c, "data", v) = Chip(4, b, m)
  <2>1. c.icw = 3
    BY <1>3 DEF Chip
  <2>2. Taken(c, "data", v) = [c EXCEPT !.icw = 4]
    BY <2>1 DEF Taken
  <2> QED BY <1>3, <2>2 DEF Chip
<1>4. ASSUME NEW c, c = Chip(4, b, m) PROVE Taken(c, "data", v) = Chip(0, b, m)
  <2>1. c.icw = 4
    BY <1>4 DEF Chip
  <2>2. Taken(c, "data", v) = [c EXCEPT !.icw = 0]
    BY <2>1 DEF Taken
  <2> QED BY <1>4, <2>2 DEF Chip
<1>5. ASSUME NEW c, c = Chip(0, b, m) PROVE Taken(c, "data", v) = Chip(0, b, v)
  <2>1. c.icw = 0
    BY <1>5 DEF Chip
  <2>2. Taken(c, "data", v) = [c EXCEPT !.mask = v]
    BY <2>1 DEF Taken
  <2> QED BY <1>5, <2>2 DEF Chip
<1> QED BY Zenon, <1>1, <1>2, <1>3, <1>4, <1>5

LEMMA OneWord ==
  ASSUME NEW a, NEW b, Pair(a, b), NEW port, NEW v, NEW c
  PROVE  /\ outb(1, port, v) /\ Taken(a, port, v) = c => Pair(c, b)'
         /\ outb(2, port, v) /\ Taken(b, port, v) = c => Pair(a, c)'
BY DEF outb, Pair

\* What a call does to the rest.
LEMMA CallTaken ==
  ASSUME BootStep, NEW c, Head(todo) = c
  PROVE  /\ ring' = ring
         /\ c[1] = "gdt_setup" => gdt_setup /\ pic' = pic /\ enabled' = enabled
         /\ c[1] = "idt_setup" => idt_setup /\ pic' = pic /\ enabled' = enabled
         /\ c[1] = "outb" => outb(c[2], c[3], c[4]) /\ UNCHANGED tables /\ enabled' = enabled
         /\ c[1] = "sti" => enabled' /\ UNCHANGED tables /\ pic' = pic
         /\ c[1] = "unmask" => pic_unmask_irq(c[2]) /\ UNCHANGED tables /\ enabled' = enabled
<1>1. PICK d : d = Head(todo)
  OBVIOUS
<1>2. \/ d[1] = "gdt_setup" /\ gdt_setup /\ UNCHANGED <<pic, enabled>>
      \/ d[1] = "idt_setup" /\ idt_setup /\ UNCHANGED <<pic, enabled>>
      \/ d[1] = "outb" /\ outb(d[2], d[3], d[4]) /\ UNCHANGED <<tables, enabled>>
      \/ d[1] = "sti" /\ enabled' = TRUE /\ UNCHANGED <<tables, pic>>
      \/ d[1] = "unmask" /\ pic_unmask_irq(d[2]) /\ UNCHANGED <<tables, enabled>>
  BY <1>1 DEF BootStep
<1>3. ring' = ring
  BY DEF BootStep
<1>4. d = c
  BY <1>1
<1> QED BY <1>2, <1>3, <1>4

LEMMA Unmasking ==
  ASSUME Pair(Chip(0, 32, 255), Chip(0, 40, 255)), pic_unmask_irq(1)
  PROVE  Pair(Chip(0, 32, 253), Chip(0, 40, 255))'
<1>1. Taken(Chip(0, 32, 255), "data", 253) = Chip(0, 32, 253)
  BY Words
<1>2. outb(1, "data", pic[1].mask - Bit(pic[1].mask, 1) * 2)
  BY DEF pic_unmask_irq
<1>3. pic[1].mask = 255
  BY DEF Chip, Pair
<1>4. 255 - Bit(255, 1) * 2 = 253
  BY DEF Bit
<1> QED BY <1>1, <1>2, <1>3, <1>4, OneWord

LEMMA StageStep ==
  ASSUME NEW n, Stage(n), BootStep
  PROVE  Stage(n + 1)'
<1>1. n \in 0 .. 13 /\ Head(todo) = Setup[n + 1] /\ Left(n + 1, todo')
  BY NextCall
<1>2. PICK a, b : a = Controllers[n + 1][1] /\ b = Controllers[n + 1][2]
  OBVIOUS
<1>3. PICK a2, b2 : a2 = Controllers[n + 2][1] /\ b2 = Controllers[n + 2][2]
  OBVIOUS
<1>4. Pair(a, b)
  BY <1>2 DEF Stage
<1>5. ring' = ring /\ ring = 0
  BY <1>1, CallTaken DEF Stage
<1>6. SUFFICES /\ n + 1 >= 1 => (gdtr = 88 /\ tr = TSS_SELECTOR /\ rsp0)'
               /\ n + 1 >= 2 => idtr'
               /\ Pair(a2, b2)'
               /\ enabled' <=> n + 1 >= 13
  BY <1>1, <1>3, <1>5 DEF Stage
<1>7. CASE n = 0
  <2>1. gdt_setup /\ pic' = pic /\ enabled' = enabled
    BY <1>1, <1>7, CallTaken, SetupIs
  <2>2. a2 = a /\ b2 = b
    BY <1>2, <1>3, <1>7 DEF Controllers
  <2> QED BY <1>4, <1>7, <2>1, <2>2, TableSizes DEF Stage, gdt_setup, Pair
<1>8. CASE n = 1
  <2>1. idt_setup /\ pic' = pic /\ enabled' = enabled
    BY <1>1, <1>8, CallTaken, SetupIs
  <2>2. a2 = a /\ b2 = b
    BY <1>2, <1>3, <1>8 DEF Controllers
  <2> QED BY <1>4, <1>8, <2>1, <2>2 DEF Stage, idt_setup, Pair
<1>9. CASE n \in 2 .. 11
  <2>1. Setup[n + 1][1] = "outb"
    BY <1>9, SetupIs
  <2>2. PICK p, port, v : Setup[n + 1] = <<"outb", p, port, v>>
    BY <1>9, SetupIs
  <2>3. outb(p, port, v) /\ UNCHANGED tables /\ enabled' = enabled
    BY <1>1, <2>1, <2>2, CallTaken
  <2>4. Pair(a2, b2)'
    <3>1. CASE n = 2
      <4>1. p = 1 /\ port = "command" /\ v = 17 /\ a = Chip(0, 0, 255) /\ a2 = Chip(2, 0, 0) /\ b2 = b
        BY <1>2, <1>3, <2>2, <3>1, SetupIs DEF Controllers
      <4>2. Bit(17, 4) = 1
        BY DEF Bit
      <4> QED BY <1>4, <2>3, <4>1, <4>2, Words, OneWord
    <3>2. CASE n = 3
      <4>1. p = 2 /\ port = "command" /\ v = 17 /\ b = Chip(0, 0, 255) /\ b2 = Chip(2, 0, 0) /\ a2 = a
        BY <1>2, <1>3, <2>2, <3>2, SetupIs DEF Controllers
      <4>2. Bit(17, 4) = 1
        BY DEF Bit
      <4> QED BY <1>4, <2>3, <4>1, <4>2, Words, OneWord
    <3>3. CASE n = 4
      <4>1. p = 1 /\ port = "data" /\ v = 32 /\ a = Chip(2, 0, 0) /\ a2 = Chip(3, 32, 0) /\ b2 = b
        BY <1>2, <1>3, <2>2, <3>3, SetupIs DEF Controllers
      <4> QED BY <1>4, <2>3, <4>1, Words, OneWord
    <3>4. CASE n = 5
      <4>1. p = 2 /\ port = "data" /\ v = 40 /\ b = Chip(2, 0, 0) /\ b2 = Chip(3, 40, 0) /\ a2 = a
        BY <1>2, <1>3, <2>2, <3>4, SetupIs DEF Controllers
      <4> QED BY <1>4, <2>3, <4>1, Words, OneWord
    <3>5. CASE n = 6
      <4>1. p = 1 /\ port = "data" /\ v = 4 /\ a = Chip(3, 32, 0) /\ a2 = Chip(4, 32, 0) /\ b2 = b
        BY <1>2, <1>3, <2>2, <3>5, SetupIs DEF Controllers
      <4> QED BY <1>4, <2>3, <4>1, Words, OneWord
    <3>6. CASE n = 7
      <4>1. p = 2 /\ port = "data" /\ v = 2 /\ b = Chip(3, 40, 0) /\ b2 = Chip(4, 40, 0) /\ a2 = a
        BY <1>2, <1>3, <2>2, <3>6, SetupIs DEF Controllers
      <4> QED BY <1>4, <2>3, <4>1, Words, OneWord
    <3>7. CASE n = 8
      <4>1. p = 1 /\ port = "data" /\ v = 1 /\ a = Chip(4, 32, 0) /\ a2 = Chip(0, 32, 0) /\ b2 = b
        BY <1>2, <1>3, <2>2, <3>7, SetupIs DEF Controllers
      <4> QED BY <1>4, <2>3, <4>1, Words, OneWord
    <3>8. CASE n = 9
      <4>1. p = 2 /\ port = "data" /\ v = 1 /\ b = Chip(4, 40, 0) /\ b2 = Chip(0, 40, 0) /\ a2 = a
        BY <1>2, <1>3, <2>2, <3>8, SetupIs DEF Controllers
      <4> QED BY <1>4, <2>3, <4>1, Words, OneWord
    <3>9. CASE n = 10
      <4>1. p = 1 /\ port = "data" /\ v = 255 /\ a = Chip(0, 32, 0) /\ a2 = Chip(0, 32, 255) /\ b2 = b
        BY <1>2, <1>3, <2>2, <3>9, SetupIs DEF Controllers
      <4> QED BY <1>4, <2>3, <4>1, Words, OneWord
    <3>10. CASE n = 11
      <4>1. p = 2 /\ port = "data" /\ v = 255 /\ b = Chip(0, 40, 0) /\ b2 = Chip(0, 40, 255) /\ a2 = a
        BY <1>2, <1>3, <2>2, <3>10, SetupIs DEF Controllers
      <4> QED BY <1>4, <2>3, <4>1, Words, OneWord
    <3> QED BY <1>9, <3>1, <3>2, <3>3, <3>4, <3>5, <3>6, <3>7, <3>8, <3>9, <3>10
  <2> QED BY <1>9, <2>3, <2>4 DEF Stage, tables
<1>10. CASE n = 12
  <2>1. enabled' /\ UNCHANGED tables /\ pic' = pic
    BY <1>1, <1>10, CallTaken, SetupIs
  <2>2. a2 = a /\ b2 = b
    BY <1>2, <1>3, <1>10 DEF Controllers
  <2> QED BY <1>4, <1>10, <2>1, <2>2 DEF Stage, tables, Pair
<1>11. CASE n = 13
  <2>1. pic_unmask_irq(1) /\ UNCHANGED tables /\ enabled' = enabled
    BY <1>1, <1>11, CallTaken, SetupIs
  <2>2. /\ a = Chip(0, 32, 255) /\ b = Chip(0, 40, 255)
        /\ a2 = Chip(0, 32, 253) /\ b2 = Chip(0, 40, 255)
    BY <1>2, <1>3, <1>11 DEF Controllers
  <2>3. Pair(a2, b2)'
    BY <1>4, <2>1, <2>2, Unmasking
  <2> QED BY <1>11, <2>1, <2>3 DEF Stage, tables
<1> QED BY <1>1, <1>7, <1>8, <1>9, <1>10, <1>11

\* After boot nothing of it changes: a system call leaves the flag as it is.
Ready ==
  /\ gdtr = 88 /\ tr = TSS_SELECTOR /\ rsp0 /\ idtr
  /\ Pair(Chip(0, 32, 253), Chip(0, 40, 255))
  /\ enabled

BootInvariant == IF pc = "boot" THEN \E n : Stage(n) ELSE Ready

LEMMA LastStage ==
  ASSUME NEW n, Stage(n), todo = <<>>
  PROVE  Ready
<1>1. n = 14
  BY DEF Stage, Left
<1>2. Controllers[14 + 1][1] = Chip(0, 32, 253) /\ Controllers[14 + 1][2] = Chip(0, 40, 255)
  BY DEF Controllers
<1> QED BY <1>1, <1>2 DEF Stage, Ready

LEMMA GatesAre ==
  /\ \A v \in Exception \cup {IRQ1_INTERRUPT, SYSCALL_INTERRUPT} :
       v \in Vector /\ idt[v] # None /\ idt[v].selector = KERNEL_CODE_SELECTOR /\ idt[v].dpl = 3
         /\ idt[v].type = "trap"
  /\ \A v \in Exception : v \in WithErrorCode <=> idt[v].handler \in TakesErrorCode
  /\ idt[IRQ1_INTERRUPT].handler = "keyboard_handler"
  /\ idt[SYSCALL_INTERRUPT].handler = "syscall_entry"
<1>1. \A v \in Exception \cup {IRQ1_INTERRUPT, SYSCALL_INTERRUPT} :
        /\ v \in Vector
        /\ idt[v].selector = KERNEL_CODE_SELECTOR /\ idt[v].dpl = 3 /\ idt[v].type = "trap"
  <2>1. \A fn : LET g == Gate(fn, "trap") IN
          g.selector = KERNEL_CODE_SELECTOR /\ g.dpl = 3 /\ g.type = "trap"
    BY DEF Gate
  <2>2. ASSUME NEW v \in Exception \cup {IRQ1_INTERRUPT, SYSCALL_INTERRUPT}
        PROVE  v \in Vector /\ \E fn : idt[v] = Gate(fn, "trap")
    <3>1. v \in Vector
      BY DEF SYSCALL_INTERRUPT, IRQ1_INTERRUPT, Exception, Vector
    <3>2. CASE v = 0
      BY <3>1, <3>2 DEF idt, IRQ1_INTERRUPT, SYSCALL_INTERRUPT
    <3>3. CASE v \in {8, 10, 11, 12, 17, 21}
      BY <3>1, <3>3 DEF idt, IRQ1_INTERRUPT, SYSCALL_INTERRUPT
    <3>4. CASE v = 13
      BY <3>1, <3>4 DEF idt, IRQ1_INTERRUPT, SYSCALL_INTERRUPT
    <3>5. CASE v = 14
      BY <3>1, <3>5 DEF idt, IRQ1_INTERRUPT, SYSCALL_INTERRUPT
    <3>6. CASE v \in 1 .. 7 \cup {9, 15, 16, 18, 19, 20}
      BY <3>1, <3>6 DEF idt, IRQ1_INTERRUPT, SYSCALL_INTERRUPT
    <3>7. CASE v = IRQ1_INTERRUPT
      BY <3>1, <3>7 DEF idt, IRQ1_INTERRUPT, SYSCALL_INTERRUPT
    <3>8. CASE v = SYSCALL_INTERRUPT
      BY <3>1, <3>8 DEF idt, IRQ1_INTERRUPT, SYSCALL_INTERRUPT, TrapGate
    <3> QED BY <3>1, <3>2, <3>3, <3>4, <3>5, <3>6, <3>7, <3>8 DEF Exception
  <2> QED BY <2>1, <2>2
<1>2. None.selector # KERNEL_CODE_SELECTOR
  BY DEF None, KERNEL_CODE_SELECTOR
<1>3. \A v \in Exception : v \in WithErrorCode <=> idt[v].handler \in TakesErrorCode
  BY DEF idt, SYSCALL_INTERRUPT, IRQ1_INTERRUPT, Exception, Vector, Gate, WithErrorCode, TakesErrorCode
<1>4. idt[IRQ1_INTERRUPT].handler = "keyboard_handler"
  BY DEF idt, SYSCALL_INTERRUPT, IRQ1_INTERRUPT, Exception, Vector, Gate
<1>5. idt[SYSCALL_INTERRUPT].handler = "syscall_entry"
  BY DEF idt, SYSCALL_INTERRUPT, IRQ1_INTERRUPT, Exception, Vector, Gate, TrapGate
<1> QED BY <1>1, <1>2, <1>3, <1>4, <1>5

LEMMA AllLoaded ==
  ASSUME gdtr = 88
  PROVE  /\ Loaded(KERNEL_CODE_SELECTOR, "code", 0) /\ Loaded(TSS_SELECTOR, "tss", 0)
         /\ Loaded(USER_CODE_SELECTOR, "code", 3) /\ Loaded(USER_DATA_SELECTOR, "data", 3)
BY TableSizes DEF Loaded, Segment, KERNEL_CODE_SELECTOR, TSS_SELECTOR, USER_CODE_SELECTOR, USER_DATA_SELECTOR

LEMMA AllServed ==
  ASSUME gdtr = 88, tr = TSS_SELECTOR, rsp0, idtr,
         NEW v \in Exception \cup {IRQ1_INTERRUPT, SYSCALL_INTERRUPT}
  PROVE  Served(v)
BY GatesAre, AllLoaded DEF Served

\* With these masks only the keyboard's line is open.
LEMMA OnlyKeyboard ==
  ASSUME NEW m \in {253, 255}, Pair(Chip(0, 32, m), Chip(0, 40, 255)), NEW irq \in IRQ, Unmasked(irq)
  PROVE  irq = 1 /\ VectorOf(irq) = IRQ1_INTERRUPT
<1>1. pic[1].mask = m /\ pic[1].base = 32
  BY DEF Pair, Chip
<1>2. irq < 8
  <2>1. SUFFICES ASSUME irq >= 8 PROVE FALSE
    BY DEF IRQ
  <2>2. Bit(m, 2) = 0
    BY <1>1, <2>1 DEF Unmasked
  <2> QED BY <2>2 DEF Bit
<1>3. Bit(m, irq % 8) = 0 /\ irq % 8 = irq
  BY <1>1, <1>2 DEF Unmasked, IRQ
<1>4. /\ Bit(m, 0) = 1 /\ Bit(m, 2) = 1 /\ Bit(m, 3) = 1 /\ Bit(m, 4) = 1
      /\ Bit(m, 5) = 1 /\ Bit(m, 6) = 1 /\ Bit(m, 7) = 1
  BY DEF Bit
<1>5. irq = 1
  BY <1>2, <1>3, <1>4 DEF IRQ
<1> QED BY <1>1, <1>5 DEF VectorOf, IRQ1_INTERRUPT

LEMMA KeyboardOpen ==
  ASSUME Pair(Chip(0, 32, 253), Chip(0, 40, 255))
  PROVE  Unmasked(1) /\ VectorOf(1) = IRQ1_INTERRUPT
<1>1. pic[1].mask = 253 /\ pic[1].base = 32 /\ pic[1].icw = 0
  BY DEF Pair, Chip
<1>2. Bit(253, 1) = 0
  BY DEF Bit
<1> QED BY <1>1, <1>2 DEF Unmasked, VectorOf, IRQ1_INTERRUPT

LEMMA BootServes == BootInvariant => InterruptsServed
<1> SUFFICES ASSUME BootInvariant PROVE InterruptsServed
  OBVIOUS
<1>1. ASSUME pc = "boot" PROVE InterruptsServed
  <2>1. PICK n : Stage(n)
    BY <1>1 DEF BootInvariant
  <2>2. ring = 0
    BY <2>1 DEF Stage
  <2>3. ASSUME NEW irq \in IRQ, enabled, Unmasked(irq)
        PROVE  irq = 1 /\ Served(VectorOf(irq)) /\ idt[VectorOf(irq)].handler = "keyboard_handler"
    <3>1. n \in {13, 14}
      BY <2>1, <2>3 DEF Stage
    <3>2. PICK m \in {253, 255} : Pair(Chip(0, 32, m), Chip(0, 40, 255))
      BY <2>1, <3>1 DEF Stage, Controllers
    <3>3. irq = 1 /\ VectorOf(irq) = IRQ1_INTERRUPT
      BY <2>3, <3>2, OnlyKeyboard
    <3> QED BY <2>1, <3>1, <3>3, AllServed, GatesAre DEF Stage
  <2> QED BY <2>2, <2>3 DEF InterruptsServed
<1>2. ASSUME pc # "boot" PROVE InterruptsServed
  <2>1. Ready
    BY <1>2 DEF BootInvariant
  <2>2. ASSUME NEW irq \in IRQ, enabled, Unmasked(irq)
        PROVE  irq = 1 /\ Served(VectorOf(irq)) /\ idt[VectorOf(irq)].handler = "keyboard_handler"
    <3>1. irq = 1 /\ VectorOf(irq) = IRQ1_INTERRUPT
      BY <2>1, <2>2, OnlyKeyboard DEF Ready
    <3> QED BY <2>1, <3>1, AllServed, GatesAre DEF Ready
  <2> QED BY <2>1, <2>2, AllServed, GatesAre, AllLoaded DEF InterruptsServed, Ready
<1> QED BY <1>1, <1>2

LEMMA ReadyKeys ==
  ASSUME Ready
  PROVE  FlagInCall /\ Unmasked(1) /\ Served(VectorOf(1))
BY KeyboardOpen, AllServed, GatesAre DEF Ready, FlagInCall

\* What keeps the tables, the controllers and the flag.
LEMMA KeepsReady ==
  ASSUME Ready, tables' = tables, pic' = pic, enabled' = enabled \/ enabled' = FlagInCall
  PROVE  Ready'
<1>1. FlagInCall /\ enabled
  BY ReadyKeys DEF Ready
<1>2. enabled'
  BY Zenon, <1>1
<1> QED BY <1>2 DEF Ready, Pair, tables

LEMMA BootNext ==
  ASSUME BootInvariant, [Next]_vars
  PROVE  BootInvariant'
<1>1. CASE Boot
  <2>1. pc = "boot" /\ pc' = pc /\ BootStep
    BY <1>1 DEF Boot
  <2>2. PICK n : Stage(n)
    BY <2>1 DEF BootInvariant
  <2>3. Stage(n + 1)'
    BY <2>1, <2>2, StageStep
  <2>4. PICK k : k = n + 1
    OBVIOUS
  <2>5. Stage(k)'
    BY <2>3, <2>4
  <2> QED BY <2>1, <2>5 DEF BootInvariant
<1>2. SUFFICES ASSUME ~Boot
               PROVE  \/ pc' = pc /\ bootVars' = bootVars
                      \/ /\ pc # "boot" \/ todo = <<>>
                         /\ pc' # "boot"
                         /\ tables' = tables /\ pic' = pic
                         /\ enabled' = enabled \/ enabled' = FlagInCall
  <2>1. CASE pc' = pc /\ bootVars' = bootVars
    <3>1. \A n : Stage(n) => Stage(n)'
      BY <2>1 DEF Stage, Pair, bootVars, tables
    <3>2. Ready => Ready'
      BY <2>1 DEF Ready, Pair, bootVars, tables
    <3> QED BY <2>1, <3>1, <3>2 DEF BootInvariant
  <2>2. CASE /\ pc # "boot" \/ todo = <<>>
             /\ pc' # "boot"
             /\ tables' = tables /\ pic' = pic
             /\ enabled' = enabled \/ enabled' = FlagInCall
    <3>1. Ready
      BY <2>2, LastStage DEF BootInvariant
    <3> QED BY <2>2, <3>1, KeepsReady DEF BootInvariant
  <2> QED BY <1>1, <1>2, <2>1, <2>2
<1>3. ASSUME EnterInit PROVE tables' = tables /\ pic' = pic /\ pc' # "boot"
  BY <1>3 DEF EnterInit, Enter, Halt
<1>4. ASSUME NEW name, SYS_exec(name)
      PROVE  tables' = tables /\ pic' = pic /\ pc' # "boot" /\ enabled' = FlagInCall
  BY <1>4 DEF SYS_exec, Enter, Halt
<1>5. CASE Start
  BY <1>3, <1>5 DEF Start
<1>6. CASE Exit
  BY <1>3, <1>6 DEF Exit, SYS_exit, Running
<1>7. CASE Client
  <2>1. pc = "run"
    BY <1>7 DEF Client, Running
  <2>2. CASE \E sz \in Sizes : malloc(sz) /\ bootVars' = bootVars
    BY <2>1, <2>2 DEF malloc, MmapAnywhere, bootVars, tables
  <2>3. CASE \E a, n, prot : SYS_mmap(a, n, prot) /\ bootVars' = bootVars
    BY <2>1, <2>3 DEF SYS_mmap, MmapAnywhere, MmapPlaced, bootVars, tables
  <2>4. CASE \E name : SYS_exec(name)
    BY <2>1, <2>4, <1>4
  <2> QED BY <1>7, <2>2, <2>3, <2>4 DEF Client
<1>8. CASE Fault
  BY <1>8 DEF Fault, Halt, bootVars, tables
<1>13. CASE ShellFault
  BY <1>13, WildIs DEF bootVars, tables
<1>9. CASE Mmap
  BY <1>9 DEF Mmap, MmapPage, MmapReturn, bootVars, tables
<1>10. CASE ShellStart
  BY <1>10 DEF ShellStart, Running, malloc, MmapAnywhere, bootVars, tables
<1>11. CASE Shell
  <2>1. pc = "run"
    BY <1>11 DEF Shell, Prompt, Running
  <2>2. CASE \E name : SYS_exec(name)
    BY <2>1, <2>2, <1>4
  <2>3. CASE UNCHANGED <<bootVars, pc>>
    BY <2>3
  <2> QED BY <1>11, <2>2, <2>3 DEF Shell, ReadNewline, ReadChar
<1>12. CASE UNCHANGED vars
  BY <1>12 DEF vars
<1> QED BY <1>2, <1>5, <1>6, <1>7, <1>8, <1>9, <1>10, <1>11, <1>12, <1>13 DEF Next

LEMMA BootFirst == Init => BootInvariant
BY StartStage DEF Init, BootInvariant

\* From the first sti on, whatever interrupts the processor is served by the
\* handler meant for it, on a stack, in whatever state programs leave it
\* (boot.c:115-118, pic.c:21-57, interrupts.c:458-493, gdt.c:126-158).
THEOREM InterruptsAreServed == Spec => []InterruptsServed
<1>1. BootInvariant /\ [Next]_vars => BootInvariant'
  BY BootNext
<1> QED BY BootFirst, BootServes, <1>1, PTL DEF Spec

\* The shell waits for a key only where the keyboard can interrupt, in every
\* mode and at every depth of exec (interrupts.c:150-154, 490).
THEOREM KeysDoArrive == Spec => []KeysArrive
<1>1. BootInvariant /\ [Next]_vars => BootInvariant'
  BY BootNext
<1>2. BootInvariant => KeysArrive
  BY ReadyKeys DEF BootInvariant, KeysArrive, Prompt, Running
<1> QED BY BootFirst, <1>1, <1>2, PTL DEF Spec

-----------------------------------------------------------------------------
(* The shell's buffer holds the end of the line.                           *)

\* Only equal strings compare as such.
LEMMA StrcmpZero ==
  ASSUME NEW s1 \in Seq(Nat), NEW s2 \in Seq(Nat)
  PROVE  strcmp(s1, s2) = 0 <=> s1 = s2
<1> DEFINE differ == {n \in DOMAIN s1 \cap DOMAIN s2 : s1[n] # s2[n]}
<1>1. differ \in SUBSET Nat
  OBVIOUS
<1>2. ASSUME differ # {} PROVE strcmp(s1, s2) # 0 /\ s1 # s2
  <2>1. PICK m : m = Min(differ)
    OBVIOUS
  <2>2. m \in differ
    BY <1>1, <1>2, <2>1, MinIn
  <2>3. s1[m] \in Nat /\ s2[m] \in Nat /\ s1[m] # s2[m]
    BY <2>2
  <2>4. strcmp(s1, s2) = s1[m] - s2[m]
    BY <1>2, <2>1 DEF strcmp
  <2>5. PICK x \in Nat, y \in Nat : x = s1[m] /\ y = s2[m]
    BY <2>3
  <2>6. x # y /\ strcmp(s1, s2) = x - y
    BY <2>3, <2>4, <2>5
  <2> HIDE DEF differ
  <2> QED BY <2>3, <2>6
<1>3. ASSUME differ = {} PROVE strcmp(s1, s2) = 0 <=> s1 = s2
  <2>1. strcmp(s1, s2) = CASE Len(s1) = Len(s2) -> 0
                           [] Len(s1) < Len(s2) -> -1
                           [] Len(s1) > Len(s2) -> 1
    BY <1>3 DEF strcmp
  <2>2. Len(s1) \in Nat /\ Len(s2) \in Nat
    OBVIOUS
  <2>3. strcmp(s1, s2) = 0 <=> Len(s1) = Len(s2)
    BY <2>1, <2>2
  <2>4. ASSUME Len(s1) = Len(s2) PROVE s1 = s2
    <3>1. DOMAIN s1 = 1 .. Len(s1) /\ DOMAIN s2 = 1 .. Len(s1)
      BY <2>4
    <3>2. \A n \in 1 .. Len(s1) : s1[n] = s2[n]
      BY <1>3, <3>1
    <3> QED BY <2>4, <3>2, SeqEqual
  <2> QED BY <2>3, <2>4
<1> QED BY <1>2, <1>3

\* The characters before the next place are the last ones of the line.
LineHeld ==
  /\ Reset(i) = Len(line) % BUFFER_SIZE
  /\ \A m \in 0 .. Reset(i) - 1 : buffer[m] = line[Len(line) - Reset(i) + m + 1]

LEMMA ZeroRest == 0 % BUFFER_SIZE = 0
BY Numbers, ModSmall

LEMMA EmptyHeld ==
  ASSUME i' = 0, line' = <<>>
  PROVE  LineHeld'
<1>1. Reset(0) = 0
  BY Numbers DEF Reset
<1>2. Reset(i)' = 0
  BY <1>1 DEF Reset
<1>3. Len(line') = 0
  OBVIOUS
<1> QED BY <1>2, <1>3, ZeroRest DEF LineHeld

\* The place after the next one.
LEMMA NextPlace ==
  ASSUME NEW len \in Nat, NEW r, r = len % BUFFER_SIZE
  PROVE  /\ r \in 0 .. BUFFER_SIZE - 1 /\ r <= len
         /\ Reset(r + 1) = (len + 1) % BUFFER_SIZE
         /\ Reset(r + 1) = r + 1 \/ Reset(r + 1) = 0
<1> DEFINE q == len \div BUFFER_SIZE
<1>1. BUFFER_SIZE \in Nat \ {0} /\ len \in Int
  BY Numbers
<1>2. q \in Int /\ r \in 0 .. BUFFER_SIZE - 1 /\ len = BUFFER_SIZE * q + r
  BY <1>1, DivMod
<1> HIDE DEF q
<1>3. BUFFER_SIZE * q \in Int /\ BUFFER_SIZE * (q + 1) = BUFFER_SIZE * q + BUFFER_SIZE * 1
      /\ BUFFER_SIZE * (q + 1) \in Int
  BY <1>1, <1>2, TimesPlus
<1>4. r <= len
  <2>1. SUFFICES ASSUME r > len PROVE FALSE
    BY <1>1, <1>2
  <2>2. len \in 0 .. BUFFER_SIZE - 1
    BY <1>1, <1>2, <2>1
  <2>3. len % BUFFER_SIZE = len
    BY <1>1, <2>2, ModSmall
  <2> QED BY <1>2, <2>1, <2>3
<1>5. CASE r + 1 = BUFFER_SIZE
  <2>1. len + 1 = BUFFER_SIZE * (q + 1) + 0 /\ 0 \in 0 .. BUFFER_SIZE - 1 /\ q + 1 \in Int
    BY <1>1, <1>2, <1>3, <1>5
  <2>2. (len + 1) % BUFFER_SIZE = 0
    BY <1>1, <2>1, DivModUnique
  <2>3. Reset(r + 1) = 0
    BY <1>5 DEF Reset
  <2> QED BY <1>2, <1>4, <2>2, <2>3
<1>6. CASE r + 1 # BUFFER_SIZE
  <2>1. len + 1 = BUFFER_SIZE * q + (r + 1) /\ r + 1 \in 0 .. BUFFER_SIZE - 1 /\ len + 1 \in Int
    BY <1>1, <1>2, <1>3, <1>6
  <2>2. (len + 1) % BUFFER_SIZE = r + 1
    BY <1>1, <1>2, <2>1, DivModUnique
  <2>3. Reset(r + 1) = r + 1
    BY <1>6 DEF Reset
  <2> QED BY <1>2, <1>4, <2>2, <2>3
<1> QED BY <1>5, <1>6

LEMMA ReadCharHeld ==
  ASSUME TypeOK, LineHeld, NEW c \in Key, ReadChar(c)
  PROVE  LineHeld'
<1>1. PICK r, len : r = Reset(i) /\ len = Len(line)
  OBVIOUS
<1>2. line \in Seq(Key) /\ buffer \in [0 .. BUFFER_SIZE - 1 -> Key \cup {NUL}]
  BY DEF TypeOK
<1>3. len \in Nat /\ r = len % BUFFER_SIZE
  BY <1>1, <1>2 DEF LineHeld
<1>4. PICK n : n = Reset(r + 1)
  OBVIOUS
<1>5. /\ r \in 0 .. BUFFER_SIZE - 1 /\ r <= len /\ n = (len + 1) % BUFFER_SIZE
      /\ n = r + 1 \/ n = 0
  BY <1>3, <1>4, NextPlace
<1>6. BUFFER_SIZE \in Nat \ {0} /\ r \in Nat
  BY <1>5, Numbers
<1>7. i' = r + 1 /\ line' = Append(line, c) /\ buffer' = [buffer EXCEPT ![r] = c]
  BY <1>1 DEF ReadChar
<1>8. Reset(i)' = n
  BY <1>4, <1>7 DEF Reset
<1>9. /\ Len(line') = len + 1 /\ line'[len + 1] = c
      /\ \A k \in 1 .. len : line'[k] = line[k]
  BY <1>1, <1>2, <1>7
<1>10. buffer'[r] = c /\ \A m \in 0 .. r - 1 : buffer'[m] = buffer[m]
  BY <1>2, <1>5, <1>6, <1>7
<1>11. \A m \in 0 .. r - 1 : buffer[m] = line[len - r + m + 1]
  BY <1>1 DEF LineHeld
<1>12. ASSUME NEW m \in 0 .. n - 1 PROVE buffer'[m] = line'[(len + 1) - n + m + 1]
  <2>1. n = r + 1 /\ (len + 1) - n + m + 1 = len - r + m + 1
    BY <1>3, <1>5, <1>6, <1>12
  <2>2. CASE m = r
    BY <1>3, <1>6, <1>9, <1>10, <2>1, <2>2
  <2>3. CASE m # r
    <3>1. m \in 0 .. r - 1 /\ len - r + m + 1 \in 1 .. len
      BY <1>3, <1>5, <1>6, <1>12, <2>1, <2>3
    <3> QED BY <1>9, <1>10, <1>11, <2>1, <3>1
  <2> QED BY <2>2, <2>3
<1> QED BY <1>5, <1>8, <1>9, <1>12 DEF LineHeld

LEMMA SameHeld ==
  ASSUME LineHeld, UNCHANGED shell
  PROVE  LineHeld'
BY DEF LineHeld, shell, Reset

LEMMA EnterHeld ==
  ASSUME NEW name, NEW s, Enter(name, s)
  PROVE  LineHeld'
BY EmptyHeld DEF Enter

LEMMA NextHeld ==
  ASSUME TypeOK, LineHeld, [Next]_vars
  PROVE  LineHeld'
<1>1. ASSUME Halt PROVE LineHeld'
  BY <1>1, SameHeld DEF Halt
<1>2. ASSUME EnterInit PROVE LineHeld'
  BY <1>1, <1>2, EnterHeld DEF EnterInit
<1>3. ASSUME NEW name, SYS_exec(name) PROVE LineHeld'
  BY <1>1, <1>3, EnterHeld DEF SYS_exec
<1>4. CASE Shell
  <2>1. ASSUME NEW c \in Key, ReadChar(c) PROVE LineHeld'
    BY <2>1, ReadCharHeld
  <2>2. CASE ReadNewline
    BY <1>3, <2>2, EmptyHeld DEF ReadNewline
  <2> QED BY <1>4, <2>1, <2>2 DEF Shell
<1>5. CASE Client
  <2>1. CASE \E name : SYS_exec(name)
    BY <1>3, <2>1
  <2>2. CASE UNCHANGED shell
    BY <2>2, SameHeld
  <2> QED BY <1>5, <2>1, <2>2 DEF Client
<1>6. CASE Boot \/ Mmap \/ ShellStart \/ UNCHANGED vars
  BY <1>6, SameHeld DEF Boot, Mmap, MmapPage, MmapReturn, ShellStart, vars
<1>7. CASE Start \/ Exit
  BY <1>2, <1>7 DEF Start, Exit, SYS_exit
<1>8. CASE Fault
  BY <1>1, <1>8 DEF Fault
<1>9. CASE ShellFault
  BY <1>9, WildIs, SameHeld
<1> QED BY <1>4, <1>5, <1>6, <1>7, <1>8, <1>9 DEF Next

\* What the shell compares is what was typed since the line began or the
\* buffer was last full.
LEMMA StringTyped ==
  ASSUME TypeOK, LineHeld
  PROVE  StringTo(Reset(i)) = LastTyped /\ LastTyped \in Seq(Nat)
<1>1. PICK r, len : r = Reset(i) /\ len = Len(line)
  OBVIOUS
<1>2. line \in Seq(Key) /\ len \in Nat /\ r = len % BUFFER_SIZE
  BY <1>1 DEF TypeOK, LineHeld
<1>3. r \in 0 .. BUFFER_SIZE - 1 /\ r <= len /\ BUFFER_SIZE \in Nat \ {0} /\ r \in Nat
  <2>1. r \in 0 .. BUFFER_SIZE - 1 /\ r <= len
    BY <1>2, NextPlace
  <2> QED BY <2>1, Numbers
<1>4. \A m \in 0 .. r - 1 : buffer[m] = line[len - r + m + 1]
  BY <1>1 DEF LineHeld
<1>5. \A m \in 0 .. r - 1 : buffer[m] # NUL
  <2>1. ASSUME NEW m \in 0 .. r - 1 PROVE buffer[m] # NUL
    <3>1. len - r + m + 1 \in 1 .. len
      BY <1>2, <1>3
    <3>2. line[len - r + m + 1] \in Key
      BY <1>1, <1>2, <3>1
    <3> QED BY <1>4, <3>2, CharacterAssumption
  <2> QED BY <2>1
<1>6. {m \in 0 .. r : m = r \/ buffer[m] = NUL} = {r}
  BY <1>3, <1>5
<1>7. Min({r}) = r
  <2>1. {r} \in SUBSET Nat /\ {r} # {}
    BY <1>3
  <2>2. Min({r}) \in {r}
    BY <2>1, MinIn
  <2> QED BY <2>2
<1>8. StringTo(r) = [m \in 1 .. r |-> buffer[m - 1]]
  BY <1>6, <1>7 DEF StringTo
<1>9. (len \div BUFFER_SIZE) * BUFFER_SIZE = len - r
  <2>1. PICK q : q = len \div BUFFER_SIZE
    OBVIOUS
  <2>2. q \in Int /\ len = BUFFER_SIZE * q + r
    BY <1>2, <1>3, <2>1, DivMod
  <2>3. q * BUFFER_SIZE = BUFFER_SIZE * q /\ BUFFER_SIZE * q \in Int
    BY <1>3, <2>2
  <2> QED BY <1>2, <1>3, <2>1, <2>2, <2>3
<1>10. LastTyped = SubSeq(line, len - r + 1, len)
  BY <1>1, <1>9 DEF LastTyped
<1>11. SubSeq(line, len - r + 1, len) = [m \in 1 .. r |-> line[len - r + m]]
  <2>1. len - r + 1 \in 1 .. len + 1
    BY <1>2, <1>3
  <2>2. PICK first : first = len - r + 1
    OBVIOUS
  <2>3. first \in Int /\ len \in Int /\ \A n \in first .. len : line[n] \in Key
    <3>1. \A n \in first .. len : n \in DOMAIN line
      BY <1>1, <1>2, <1>3, <2>1, <2>2
    <3> QED BY <1>2, <1>3, <2>2, <3>1, ElementIn
  <2>4. PICK t : t = SubSeq(line, first, len)
    OBVIOUS
  <2>5. /\ t \in Seq(Key) /\ Len(t) = IF first <= len THEN len - first + 1 ELSE 0
        /\ \A m \in 1 .. len - first + 1 : t[m] = line[first + m - 1]
    BY <2>3, <2>4, SubSeqProperties
  <2>6. Len(t) = r /\ len - first + 1 = r
    BY <1>2, <1>3, <2>2, <2>5
  <2>7. \A m \in 1 .. r : first + m - 1 = len - r + m
    BY <1>2, <1>3, <2>2
  <2>8. t = [m \in 1 .. r |-> t[m]]
    BY <2>5, <2>6
  <2>9. \A m \in 1 .. r : t[m] = line[len - r + m]
    BY <2>5, <2>6, <2>7
  <2> QED BY <2>2, <2>4, <2>8, <2>9
<1>12. \A m \in 1 .. r : buffer[m - 1] = line[len - r + m]
  <2>1. ASSUME NEW m \in 1 .. r PROVE buffer[m - 1] = line[len - r + m]
    <3>1. m - 1 \in 0 .. r - 1 /\ len - r + (m - 1) + 1 = len - r + m
      BY <1>2, <1>3
    <3> QED BY <1>4, <3>1
  <2> QED BY <2>1
<1>13. StringTo(r) = LastTyped
  BY <1>8, <1>10, <1>11, <1>12
<1>14. LastTyped \in Seq(Nat)
  <2>1. \A m \in 1 .. r : line[len - r + m] \in Nat
    <3>1. ASSUME NEW m \in 1 .. r PROVE line[len - r + m] \in Nat
      <4>1. len - r + m \in 1 .. len
        BY <1>2, <1>3
      <4>2. line[len - r + m] \in Key
        BY <1>1, <1>2, <4>1
      <4> QED BY <4>2, CharacterAssumption
    <3> QED BY <3>1
  <2>2. PICK f : f = [m \in 1 .. r |-> line[len - r + m]]
    OBVIOUS
  <2>3. f \in [1 .. r -> Nat]
    BY <2>1, <2>2
  <2>4. f \in Seq(Nat)
    BY <1>3, <2>3
  <2> QED BY <1>10, <1>11, <2>2, <2>4
<1> QED BY <1>1, <1>13, <1>14

\* Command says whether it is one of the names.
LEMMA CommandKnown ==
  ASSUME TypeOK, LineHeld
  PROVE  Command <=> LastTyped \in Range(pos)
<1>1. StringTo(Reset(i)) = LastTyped /\ LastTyped \in Seq(Nat)
  BY StringTyped
<1>2. \A n \in DOMAIN pos : pos[n] \in Seq(Nat)
  BY CharacterAssumption
<1>3. PICK t : t = LastTyped
  OBVIOUS
<1>4. \A n \in DOMAIN pos : strcmp(pos[n], t) = 0 <=> pos[n] = t
  BY <1>1, <1>2, <1>3, StrcmpZero
<1>5. Command <=> \E n \in DOMAIN pos : strcmp(pos[n], t) = 0
  BY <1>1, <1>3 DEF Command
<1>6. Range(pos) = {pos[n] : n \in DOMAIN pos}
  BY DEF Range
<1> QED BY <1>3, <1>4, <1>5, <1>6

CommandStep ==
  /\ Prompt /\ depth' = depth + 1 => program' = LastTyped /\ program' \in Range(pos)
  /\ Prompt /\ line # <<>> /\ line' = <<>> /\ depth' = depth => LastTyped \notin Range(pos)

LEMMA ShellCommands ==
  ASSUME TypeOK, LineHeld, [Next]_vars
  PROVE  CommandStep \/ UNCHANGED vars
<1> SUFFICES ASSUME Prompt, ~UNCHANGED vars PROVE CommandStep
  BY DEF CommandStep
<1>1. pc = "run" /\ Running /\ program = InitName /\ heap # {}
  BY DEF Prompt, Running
<1>2. Shell
  <2>1. ~Boot /\ ~Start
    BY <1>1 DEF Boot, Start
  <2>2. ~Client /\ ~Exit
    BY <1>1 DEF Client, Exit
  <2>3. ~Fault /\ ~Mmap
    BY <1>1 DEF Fault, Mmap, MmapPage, MmapReturn
  <2>4. ~ShellStart /\ ~ShellFault
    BY <1>1 DEF ShellStart, ShellFault
  <2> QED BY <2>1, <2>2, <2>3, <2>4 DEF Next
<1>3. depth \in Nat /\ line \in Seq(Key)
  BY DepthType DEF TypeOK
<1>4. ASSUME NEW c \in Key, ReadChar(c) PROVE CommandStep
  <2>1. depth' = depth /\ line' = Append(line, c)
    BY <1>4 DEF ReadChar
  <2>2. line' # <<>>
    BY <1>3, <2>1
  <2> QED BY <1>3, <2>1, <2>2 DEF CommandStep
<1>5. CASE Command /\ SYS_exec(StringTo(Reset(i)))
  <2>1. depth' = depth + 1 /\ program' = StringTo(Reset(i))
    BY <1>5 DEF SYS_exec, Enter
  <2>2. program' = LastTyped /\ LastTyped \in Range(pos)
    BY <1>5, <2>1, StringTyped, CommandKnown
  <2> QED BY <1>3, <2>1, <2>2 DEF CommandStep
<1>6. CASE ~Command /\ depth' = depth
  <2>1. LastTyped \notin Range(pos)
    BY <1>6, CommandKnown
  <2> QED BY <1>3, <1>6, <2>1 DEF CommandStep
<1> QED BY <1>2, <1>4, <1>5, <1>6 DEF Shell, ReadNewline

\* The shell runs the command that was typed, if it is one of its names, and no
\* other, however long the line (init.c:24-64, string.c:11-35).
THEOREM TypedIsRun == Spec => CommandRun
<1>1. Init => LineHeld
  <2>1. SUFFICES ASSUME Init PROVE LineHeld
    OBVIOUS
  <2>2. Reset(i) = 0 /\ Len(line) = 0
    BY <2>1, Numbers DEF Init, Reset
  <2> QED BY <2>2, ZeroRest DEF LineHeld
<1>2. TypeOK /\ LineHeld /\ [Next]_vars => LineHeld'
  BY NextHeld
<1>3. TypeOK /\ LineHeld /\ [Next]_vars => [CommandStep]_vars
  BY ShellCommands
<1>4. Spec => [][CommandStep]_vars
  BY <1>1, <1>2, <1>3, TypeCorrect, PTL DEF Spec
<1> QED BY <1>4 DEF CommandRun, CommandStep

-----------------------------------------------------------------------------
(* The calls of the user library                                           *)

\* A call with so many arguments arrives if its number is dispatched.
LEMMA NoneArrive ==
  ASSUME NEW call, NEW fn, NEW returns, NEW result, call.arguments = <<>>,
         syscall_handler(call.nr, syscall(call)) = Runs(fn, <<>>, returns),
         result => returns /\ call.returns
  PROVE  Arrives(call, fn, 0, result)
<1>1. PICK run : run = syscall_handler(call.nr, syscall(call))
  OBVIOUS
<1>2. run.fn = fn /\ run.arguments = <<>> /\ run.returns = returns
  BY <1>1 DEF Runs
<1>3. run.arguments = [k \in 1 .. 0 |-> k]
  BY <1>2 DEF syscall
<1> QED BY <1>1, <1>2, <1>3 DEF Arrives

LEMMA OneArrives ==
  ASSUME NEW call, NEW fn, NEW returns, NEW result, call.arguments = << 1 >>,
         syscall_handler(call.nr, syscall(call)) = Runs(fn, <<syscall(call)[1]>>, returns),
         result => returns /\ call.returns
  PROVE  Arrives(call, fn, 1, result)
<1>1. PICK run : run = syscall_handler(call.nr, syscall(call))
  OBVIOUS
<1>2. run.fn = fn /\ run.arguments = <<syscall(call)[1]>> /\ run.returns = returns
  BY <1>1 DEF Runs
<1>3. run.arguments = [k \in 1 .. 1 |-> k]
  BY <1>2 DEF syscall
<1> QED BY <1>1, <1>2, <1>3 DEF Arrives

LEMMA ThreeArrive ==
  ASSUME NEW call, NEW fn, NEW returns, NEW result, call.arguments = <<1, 2, 3>>,
         syscall_handler(call.nr, syscall(call)) = Runs(fn, <<syscall(call)[1], syscall(call)[2], syscall(call)[3]>>, returns),
         result => returns /\ call.returns
  PROVE  Arrives(call, fn, 3, result)
<1>1. PICK run : run = syscall_handler(call.nr, syscall(call))
  OBVIOUS
<1>2. run.fn = fn /\ run.arguments = <<syscall(call)[1], syscall(call)[2], syscall(call)[3]>> /\ run.returns = returns
  BY <1>1 DEF Runs
<1>3. run.arguments = [k \in 1 .. 3 |-> k]
  BY <1>2 DEF syscall
<1> QED BY <1>1, <1>2, <1>3 DEF Arrives

LEMMA SixArrive ==
  ASSUME NEW call, NEW fn, NEW returns, NEW result, call.arguments = <<1, 2, 3, 4, 5, 6>>,
         syscall_handler(call.nr, syscall(call)) = Runs(fn, syscall(call), returns),
         result => returns /\ call.returns
  PROVE  Arrives(call, fn, 6, result)
<1>1. PICK run : run = syscall_handler(call.nr, syscall(call))
  OBVIOUS
<1>2. run.fn = fn /\ run.arguments = syscall(call) /\ run.returns = returns
  BY <1>1 DEF Runs
<1>3. run.arguments = [k \in 1 .. 6 |-> k]
  BY <1>2 DEF syscall
<1> QED BY <1>1, <1>2, <1>3 DEF Arrives

LEMMA Dispatched ==
  ASSUME NEW arg
  PROVE  /\ syscall_handler(0, arg) = Runs("SYS_read", <<arg[1], arg[2], arg[3]>>, TRUE)
         /\ syscall_handler(1, arg) = Runs("SYS_write", <<arg[1], arg[2], arg[3]>>, TRUE)
         /\ syscall_handler(9, arg) = Runs("SYS_mmap", arg, TRUE)
         /\ syscall_handler(5, arg) = Runs("SYS_exec", <<arg[1]>>, TRUE)
         /\ syscall_handler(6, arg) = Runs("SYS_exit", <<>>, TRUE)
         /\ syscall_handler(12, arg) = Runs("fs_open", <<arg[1]>>, TRUE)
         /\ syscall_handler(13, arg) = Runs("fs_write", <<arg[1], arg[2], arg[3]>>, TRUE)
         /\ syscall_handler(14, arg) = Runs("fs_write_at", <<arg[1], arg[2], arg[3], arg[4]>>, TRUE)
         /\ syscall_handler(15, arg) = Runs("fs_append", <<arg[1], arg[2], arg[3]>>, TRUE)
         /\ syscall_handler(16, arg) = Runs("fs_read", <<arg[1]>>, FALSE)
         /\ syscall_handler(17, arg) = Runs("fs_delete", <<arg[1]>>, FALSE)
         /\ syscall_handler(18, arg) = Runs("fs_rename", <<arg[1], arg[2]>>, FALSE)
<1> USE DEF syscall_handler, SYS_fs, BufferArgs
<1>1. syscall_handler(0, arg) = Runs("SYS_read", <<arg[1], arg[2], arg[3]>>, TRUE)
  OBVIOUS
<1>2. syscall_handler(1, arg) = Runs("SYS_write", <<arg[1], arg[2], arg[3]>>, TRUE)
  OBVIOUS
<1>3. syscall_handler(9, arg) = Runs("SYS_mmap", arg, TRUE)
  OBVIOUS
<1>4. syscall_handler(5, arg) = Runs("SYS_exec", <<arg[1]>>, TRUE)
  OBVIOUS
<1>5. syscall_handler(6, arg) = Runs("SYS_exit", <<>>, TRUE)
  OBVIOUS
<1>6. syscall_handler(12, arg) = Runs("fs_open", <<arg[1]>>, TRUE)
  OBVIOUS
<1>7. syscall_handler(13, arg) = Runs("fs_write", <<arg[1], arg[2], arg[3]>>, TRUE)
  OBVIOUS
<1>8. syscall_handler(14, arg) = Runs("fs_write_at", <<arg[1], arg[2], arg[3], arg[4]>>, TRUE)
  OBVIOUS
<1>9. syscall_handler(15, arg) = Runs("fs_append", <<arg[1], arg[2], arg[3]>>, TRUE)
  OBVIOUS
<1>10. syscall_handler(16, arg) = Runs("fs_read", <<arg[1]>>, FALSE)
  OBVIOUS
<1>11. syscall_handler(17, arg) = Runs("fs_delete", <<arg[1]>>, FALSE)
  OBVIOUS
<1>12. syscall_handler(18, arg) = Runs("fs_rename", <<arg[1], arg[2]>>, FALSE)
  OBVIOUS
<1> QED BY <1>1, <1>2, <1>3, <1>4, <1>5, <1>6, <1>7, <1>8, <1>9, <1>10, <1>11, <1>12, Zenon

LEMMA AllDoArrive == AllArrive
<1>1. Arrives(io.read, "SYS_read", 3, TRUE)
  <2>1. PICK call : call = io.read
    OBVIOUS
  <2>2. call.nr = 0 /\ call.arguments = <<1, 2, 3>> /\ call.returns = TRUE
    BY <2>1 DEF io, Passes
  <2> QED BY <2>1, <2>2, Dispatched, ThreeArrive
<1>2. Arrives(io.write, "SYS_write", 3, TRUE)
  <2>1. PICK call : call = io.write
    OBVIOUS
  <2>2. call.nr = 1 /\ call.arguments = <<1, 2, 3>> /\ call.returns = TRUE
    BY <2>1 DEF io, Passes
  <2> QED BY <2>1, <2>2, Dispatched, ThreeArrive
<1>3. Arrives(mem.mmap, "SYS_mmap", 6, TRUE)
  <2>1. PICK call : call = mem.mmap
    OBVIOUS
  <2>2. call.nr = 9 /\ call.arguments = <<1, 2, 3, 4, 5, 6>> /\ call.returns = TRUE
    BY <2>1 DEF mem, Passes
  <2> QED BY <2>1, <2>2, Dispatched, SixArrive
<1>4. Arrives(mem.exec, "SYS_exec", 1, TRUE)
  <2>1. PICK call : call = mem.exec
    OBVIOUS
  <2>2. call.nr = 5 /\ call.arguments = <<1>> /\ call.returns = TRUE
    BY <2>1 DEF mem, Passes
  <2> QED BY <2>1, <2>2, Dispatched, OneArrives
<1>5. Arrives(programs.exec, "SYS_exec", 1, FALSE)
  <2>1. PICK call : call = programs.exec
    OBVIOUS
  <2>2. call.nr = 5 /\ call.arguments = <<1>>
    BY <2>1 DEF programs, Passes
  <2> QED BY <2>1, <2>2, Dispatched, OneArrives
<1>6. Arrives(programs.exit, "SYS_exit", 0, FALSE)
  <2>1. PICK call : call = programs.exit
    OBVIOUS
  <2>2. call.nr = 6 /\ call.arguments = <<>>
    BY <2>1 DEF programs, Passes
  <2> QED BY <2>1, <2>2, Dispatched, NoneArrive
<1>7. Arrives(fs.file_open, "fs_open", 1, TRUE)
  <2>1. PICK call : call = fs.file_open
    OBVIOUS
  <2>2. call.nr = 12 /\ call.arguments = <<1>> /\ call.returns = TRUE
    BY <2>1 DEF fs, Passes
  <2> QED BY <2>1, <2>2, Dispatched, OneArrives
<1>8. Arrives(fs.file_write, "fs_write", 3, TRUE)
  <2>1. PICK call : call = fs.file_write
    OBVIOUS
  <2>2. call.nr = 13 /\ call.arguments = <<1, 2, 3>> /\ call.returns = TRUE
    BY <2>1 DEF fs, Passes
  <2> QED BY <2>1, <2>2, Dispatched, ThreeArrive
<1>9. Arrives(fs.file_append, "fs_append", 3, TRUE)
  <2>1. PICK call : call = fs.file_append
    OBVIOUS
  <2>2. call.nr = 15 /\ call.arguments = <<1, 2, 3>> /\ call.returns = TRUE
    BY <2>1 DEF fs, Passes
  <2> QED BY <2>1, <2>2, Dispatched, ThreeArrive
<1>10. Arrives(fs.file_read, "fs_read", 1, FALSE)
  <2>1. PICK call : call = fs.file_read
    OBVIOUS
  <2>2. call.nr = 16 /\ call.arguments = <<1>>
    BY <2>1 DEF fs, Passes
  <2> QED BY <2>1, <2>2, Dispatched, OneArrives
<1>11. Arrives(fs.file_delete, "fs_delete", 1, FALSE)
  <2>1. PICK call : call = fs.file_delete
    OBVIOUS
  <2>2. call.nr = 17 /\ call.arguments = <<1>>
    BY <2>1 DEF fs, Passes
  <2> QED BY <2>1, <2>2, Dispatched, OneArrives
<1> QED BY <1>1, <1>2, <1>3, <1>4, <1>5, <1>6, <1>7, <1>8, <1>9, <1>10, <1>11 DEF AllArrive

\* Every call of the user library but the two that FileCallsArrive is about
\* (file_write_at, file_rename) is served by the function of the kernel it is
\* meant for, with its arguments in their places, and gets its result, whenever
\* a program runs (stdlib/io.c:14-23, mem.c:46-56, fs.c:16-38,
\* interrupts.c:162-201, 449-497).
THEOREM CallsDoArrive == Spec => []CallsArrive
<1>1. BootInvariant /\ [Next]_vars => BootInvariant'
  BY BootNext
<1>2. BootInvariant => CallsArrive
  <2> SUFFICES ASSUME BootInvariant, pc = "run"
               PROVE  /\ Served(SYSCALL_INTERRUPT) /\ idt[SYSCALL_INTERRUPT].handler = "syscall_entry"
                      /\ AllArrive
    BY DEF CallsArrive
  <2>1. gdtr = 88 /\ tr = TSS_SELECTOR /\ rsp0 /\ idtr
    BY DEF BootInvariant, Ready
  <2>2. Served(SYSCALL_INTERRUPT)
    BY <2>1, AllServed
  <2> QED BY <2>2, GatesAre, AllDoArrive
<1> QED BY BootFirst, <1>1, <1>2, PTL DEF Spec
=============================================================================
