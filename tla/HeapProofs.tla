----------------------------- MODULE HeapProofs -----------------------------
(* Proofs about what mmap and malloc hand out: first that heap blocks stay *)
(* apart, then that the pages a region was given stay mapped.              *)
EXTENDS ProcessProofs

-----------------------------------------------------------------------------
(* The invariant.  The regions lie below mem_start.  From the first call   *)
(* of mmap on, what malloc has left, its arena, is the end of a region,    *)
(* and all blocks since are before it.                                     *)

\* The n bytes at from lie in one of the regions that malloc asked for.
In(asked, from, n) ==
  n > 0 => \E r \in asked :
             /\ r.kind = "heap"
             /\ \A a \in from .. from + n - 1 : PageOf(a) \in r.pages

RegionsBelow ==
  /\ mem_start \in MMAP_MEM_START .. Top
  /\ mem_start % PAGESIZE = 0
  /\ \A r \in Chosen : \A p \in r.pages : PageOf(MMAP_MEM_START) <= p /\ p < PageOf(mem_start)
  /\ \A r, t \in Chosen : r # t => r.pages \cap t.pages = {}

Arena == Grown => bump + space_remaining <= mem_start /\ In(regions, bump, space_remaining)

AskedBlocks == {b \in heap : b.asked}

BlocksBefore ==
  /\ \A b \in AskedBlocks : b.at + b.size <= bump /\ In(regions, b.at, b.size)
  /\ \A a, b \in AskedBlocks : a # b => a.at + a.size <= b.at \/ b.at + b.size <= a.at

\* Before its first call of mmap malloc has nothing but the leftovers in .bss.
IsFound == pc \in {"run", "mmap"} => Found(program) # {}
OnlyLeftovers ==
  pc \in {"run", "mmap"} =>
    /\ ~Grown => space_remaining <= Leftover(program).space_remaining
    /\ \A b \in heap \ AskedBlocks : b.size > 0 => b.size <= Leftover(program).space_remaining

Rounded(sz)    == ROUND_UP(sz, ALIGN)
RoundedUp(sz)  == ROUND_UP(Rounded(sz), PAGESIZE)
RoundsUpTo(sz) == sz <= Rounded(sz) /\ Rounded(sz) <= RoundedUp(sz)

\* The region malloc has asked for lies behind the arena and is large enough.
Asking ==
  pc = "mmap" /\ request.sz # 0 =>
    /\ RoundsUpTo(request.sz)
    /\ Grown => bump + space_remaining <= request.result
    /\ request.result + RoundedUp(request.sz) <= mem_start
    /\ In(regions, request.result, RoundedUp(request.sz))

HeapInvariant ==
  /\ IsFound
  /\ ~Overdrawn => RegionsBelow /\ Arena /\ BlocksBefore /\ Asking /\ OnlyLeftovers

-----------------------------------------------------------------------------
(* Numbers                                                                 *)

LEMMA Multiple ==
  ASSUME NEW n \in Nat \ {0}, NEW x \in Int, x % n = 0
  PROVE  x \div n \in Int /\ x = n * (x \div n)
  BY DivMod

LEMMA IsMultiple ==
  ASSUME NEW n \in Nat \ {0}, NEW q \in Int
  PROVE  n * q \in Int /\ (n * q) % n = 0 /\ (n * q) \div n = q
<1>1. n * q \in Int /\ n * q = n * q + 0 /\ 0 \in 0 .. n - 1
  OBVIOUS
<1> QED BY <1>1, DivModUnique

LEMMA MultiplesAdd ==
  ASSUME NEW n \in Nat \ {0}, NEW x \in Int, NEW y \in Int, x % n = 0, y % n = 0
  PROVE  (x + y) % n = 0
<1> DEFINE p == x \div n
           q == y \div n
<1>1. p \in Int /\ q \in Int /\ x = n * p /\ y = n * q
  BY Multiple
<1> HIDE DEF p, q
<1>2. x + y = n * (p + q) /\ p + q \in Int
  BY <1>1, TimesPlus
<1> QED BY <1>2, IsMultiple

\* Multiples are at least as far apart as their factors.
LEMMA MultiplesOrdered ==
  ASSUME NEW n \in Nat, NEW p \in Int, NEW q \in Int, p < q
  PROVE  n * p \in Int /\ n * q \in Int /\ n * p + n <= n * q
<1>1. n * (q - p) >= n
  BY Times
<1> QED BY <1>1, TimesMinus

LEMMA PageParts ==
  ASSUME NEW x \in Int
  PROVE  /\ PAGESIZE \in Nat \ {0} /\ PageOf(x) \in Int /\ PAGESIZE * PageOf(x) \in Int
         /\ PAGESIZE * PageOf(x) <= x /\ x < PAGESIZE * PageOf(x) + PAGESIZE
<1> DEFINE p == x \div PAGESIZE
           r == x % PAGESIZE
<1>1. PAGESIZE \in Nat \ {0}
  BY WordPages
<1>2. p \in Int /\ r \in 0 .. PAGESIZE - 1 /\ x = PAGESIZE * p + r
  BY <1>1, DivMod
<1> HIDE DEF p, r
<1>3. PAGESIZE * p \in Int
  BY <1>1, <1>2
<1> QED BY <1>1, <1>2, <1>3 DEF PageOf, p

LEMMA PagesOrdered ==
  ASSUME NEW x \in Int, NEW y \in Int, x <= y
  PROVE  PageOf(x) <= PageOf(y)
<1> DEFINE p == PageOf(x)
           q == PageOf(y)
<1>1. /\ PAGESIZE \in Nat \ {0} /\ p \in Int /\ q \in Int
      /\ PAGESIZE * p \in Int /\ PAGESIZE * q \in Int
      /\ PAGESIZE * p <= x /\ y < PAGESIZE * q + PAGESIZE
  BY PageParts
<1> HIDE DEF p, q
<1>2. ~(q < p)
  <2>1. SUFFICES ASSUME q < p PROVE FALSE
    OBVIOUS
  <2>2. PAGESIZE * q + PAGESIZE <= PAGESIZE * p
    BY <1>1, <2>1, MultiplesOrdered
  <2> QED BY <1>1, <2>2
<1> QED BY <1>1, <1>2 DEF p, q

\* What lies before the start of a page is on an earlier page.
LEMMA PageBefore ==
  ASSUME NEW x \in Int, NEW k \in Int, x < k, k % PAGESIZE = 0
  PROVE  PageOf(x) < PageOf(k)
<1> DEFINE p == PageOf(x)
           q == PageOf(k)
<1>1. /\ PAGESIZE \in Nat \ {0} /\ p \in Int /\ q \in Int
      /\ PAGESIZE * p \in Int /\ PAGESIZE * q \in Int /\ PAGESIZE * p <= x
  BY PageParts
<1>2. k = PAGESIZE * q
  BY <1>1, Multiple DEF PageOf
<1> HIDE DEF p, q
<1>3. ~(q < p) /\ q # p
  <2>1. q # p
    BY <1>1, <1>2
  <2>2. ASSUME q < p PROVE FALSE
    <3>1. PAGESIZE * q + PAGESIZE <= PAGESIZE * p
      BY <1>1, <2>2, MultiplesOrdered
    <3> QED BY <1>1, <1>2, <3>1
  <2> QED BY <2>1, <2>2
<1> QED BY <1>1, <1>3 DEF p, q

\* Between two bytes there is a byte on every page between theirs.
LEMMA ByteOnPage ==
  ASSUME NEW x \in Int, NEW y \in Int, x <= y, NEW p \in PageOf(x) .. PageOf(y)
  PROVE  \E a \in x .. y : PageOf(a) = p
<1> DEFINE px == PageOf(x)
           py == PageOf(y)
<1>1. /\ PAGESIZE \in Nat \ {0} /\ px \in Int /\ py \in Int /\ p \in Int /\ px <= p /\ p <= py
      /\ PAGESIZE * px \in Int /\ PAGESIZE * py \in Int /\ PAGESIZE * p \in Int
      /\ x < PAGESIZE * px + PAGESIZE /\ PAGESIZE * py <= y
  <2>1. PAGESIZE \in Nat \ {0} /\ px \in Int /\ py \in Int
    BY PageParts
  <2>2. p \in Int /\ px <= p /\ p <= py
    BY <2>1
  <2> QED BY <2>1, <2>2, PageParts
<1> HIDE DEF px, py
<1>2. CASE p = px
  <2>1. x \in x .. y /\ PageOf(x) = p
    BY <1>2 DEF px
  <2> QED BY <2>1
<1>3. CASE px < p
  <2>1. x <= PAGESIZE * p
    <3>1. PAGESIZE * px + PAGESIZE <= PAGESIZE * p
      BY <1>1, <1>3, MultiplesOrdered
    <3> QED BY <1>1, <3>1
  <2>2. PAGESIZE * p <= y
    <3>1. CASE p = py
      BY <1>1, <3>1
    <3>2. CASE p < py
      <4>1. PAGESIZE * p + PAGESIZE <= PAGESIZE * py
        BY <1>1, <3>2, MultiplesOrdered
      <4> QED BY <1>1, <4>1
    <3> QED BY <1>1, <3>1, <3>2
  <2>3. PageOf(PAGESIZE * p) = p
    BY <1>1, IsMultiple DEF PageOf
  <2>4. PAGESIZE * p \in x .. y
    BY <1>1, <2>1, <2>2
  <2> QED BY <2>3, <2>4
<1> QED BY <1>1, <1>2, <1>3

\* What rounds up to 0 is 0, or too near to the end of all addresses.
LEMMA RoundUp ==
  ASSUME NEW x \in Address, NEW y \in Nat \ {0}, Word % y = 0
  PROVE  /\ ROUND_UP(x, y) \in Address /\ ROUND_UP(x, y) < x + y
         /\ ROUND_UP(x, y) # 0 => x <= ROUND_UP(x, y)
         /\ ROUND_UP(x, y) = 0 => x = 0 \/ x > Word - y
<1> DEFINE q == x \div y
           r == x % y
           w == Word \div y
           z == x + (y - r)
<1>1. /\ Word \in Nat \ {0} /\ x \in Nat /\ x < Word
      /\ q \in Int /\ r \in 0 .. y - 1 /\ x = y * q + r
      /\ w \in Int /\ Word = y * w
  BY WordPages, Numbers, DivMod, Multiple DEF Address
<1>2. CASE r = 0
  <2>1. ROUND_UP(x, y) = x
    BY <1>2 DEF ROUND_UP
  <2> QED BY <1>1, <2>1
<1>3. CASE r # 0
  <2>1. ROUND_UP(x, y) = z % Word
    BY <1>3 DEF ROUND_UP
  <2>2. z \in Int /\ x < z /\ z < x + y
    BY <1>1, <1>3
  <2>3. z <= Word
    <3> HIDE DEF q, r, w
    <3>1. y * q \in Int /\ z = y * q + y
      BY <1>1 
    <3>2. q < w
      <4>1. SUFFICES ASSUME ~(q < w) PROVE FALSE
        OBVIOUS
      <4>2. CASE q = w
        BY <1>1, <4>2
      <4>3. CASE w < q
        <5>1. y * w + y <= y * q
          BY <1>1, <4>3, MultiplesOrdered
        <5> QED BY <1>1, <3>1, <5>1
      <4> QED BY <1>1, <4>1, <4>2, <4>3
    <3>3. y * q + y <= y * w
      BY <1>1, <3>2, MultiplesOrdered
    <3> QED BY <1>1, <3>1, <3>3
  <2> HIDE DEF z
  <2>4. CASE z = Word
    <3>1. Word % Word = 0
      <4>1. Word = Word * 1 + 0 /\ 0 \in 0 .. Word - 1
        BY <1>1
      <4> QED BY <1>1, <4>1, DivModUnique
    <3> QED BY <1>1, <2>1, <2>2, <2>4, <3>1, Numbers
  <2>5. CASE z < Word
    <3>1. z % Word = z /\ z \in Address
      BY <1>1, <2>2, <2>5, ModSmall DEF Address
    <3> QED BY <1>1, <2>1, <2>2, <3>1
  <2> QED BY <1>1, <2>2, <2>3, <2>4, <2>5
<1> QED BY <1>2, <1>3

\* Where the kernel's half and the program's regions are.
LEMMA Places0 ==
  /\ Top \in Nat /\ Top + PAGESIZE <= Word /\ Top % PAGESIZE = 0
  /\ Word \in Nat /\ PAGESIZE \in Nat \ {0} /\ ALIGN \in Nat \ {0} /\ ALIGN <= PAGESIZE
  /\ Word % PAGESIZE = 0 /\ Word % ALIGN = 0
  /\ MMAP_MEM_START \in Nat /\ MMAP_MEM_START <= Top /\ PAGESIZE <= MMAP_MEM_START
  /\ MMAP_MEM_START % PAGESIZE = 0 /\ MaxInt \in Nat
<1> DEFINE m == Min(Upper)
           w == Word \div PAGESIZE
<1>1. /\ PAGESIZE \in Nat \ {0} /\ ALIGN \in Nat \ {0} /\ Word \in Nat \ {0} /\ MaxInt \in Nat
      /\ Word % PAGESIZE = 0 /\ PAGESIZE % ALIGN = 0
      /\ MMAP_MEM_START \in Nat \ {0} /\ MMAP_MEM_START % PAGESIZE = 0
      /\ w \in Int /\ Word = PAGESIZE * w
  BY ProcessAssumption, WordPages, Numbers
<1>2. m \in Upper
  <2>1. Upper \in SUBSET Nat /\ Upper # {}
    BY <1>1, ProcessAssumption DEF Page
  <2> QED BY <2>1, MinIn
<1>3. m \in Nat /\ m < w
  <2>1. m \in Page
    BY <1>2, ProcessAssumption
  <2>2. m \in 0 .. w - 1
    BY <2>1 DEF Page
  <2> HIDE DEF m, w
  <2> QED BY <1>1, <2>2
<1>4. MMAP_MEM_START <= m * PAGESIZE
  BY <1>2, ProcessAssumption
<1> HIDE DEF m, w
<1>5. PAGESIZE * m \in Nat /\ m * PAGESIZE = PAGESIZE * m
  BY <1>1, <1>3
<1>6. Top = PAGESIZE * m
  BY <1>5 DEF Top, m
<1>7. PAGESIZE * m + PAGESIZE <= PAGESIZE * w
  BY <1>1, <1>3, MultiplesOrdered
<1>8. Top % PAGESIZE = 0
  BY <1>1, <1>3, <1>6, IsMultiple
<1>9. ALIGN <= PAGESIZE
  <2>1. SUFFICES ASSUME PAGESIZE < ALIGN PROVE FALSE
    BY <1>1
  <2>2. PAGESIZE % ALIGN = PAGESIZE
    BY <1>1, <2>1, ModSmall
  <2> QED BY <1>1, <2>2
<1>10. PAGESIZE <= MMAP_MEM_START
  <2>1. SUFFICES ASSUME MMAP_MEM_START < PAGESIZE PROVE FALSE
    BY <1>1
  <2> QED BY <1>1, <2>1, NotWhole
<1>11. Word % ALIGN = 0
  <2> DEFINE k == PAGESIZE \div ALIGN
  <2>1. k \in Int /\ PAGESIZE = ALIGN * k
    BY <1>1, Multiple
  <2> HIDE DEF k
  <2>2. Word = ALIGN * (k * w) /\ k * w \in Int
    BY <1>1, <2>1
  <2> QED BY <1>1, <2>2, IsMultiple
<1>12. Top \in Nat /\ Top + PAGESIZE <= Word /\ MMAP_MEM_START <= Top
  BY <1>1, <1>4, <1>5, <1>6, <1>7
<1> QED BY <1>1, <1>8, <1>9, <1>10, <1>11, <1>12

LEMMA WholeBytes ==
  ASSUME NEW length \in Address
  PROVE  /\ PagesBytes(length) \in Int /\ length <= PagesBytes(length)
         /\ PagesBytes(length) % PAGESIZE = 0
         /\ PagesIn(length) \in 0 .. PagesBytes(length)
<1> DEFINE k == PagesIn(length)
           r == (length + PAGESIZE - 1) % PAGESIZE
<1>1. length \in Nat /\ PAGESIZE \in Nat \ {0} /\ length + PAGESIZE - 1 \in Int
  BY Numbers, WordPages
<1>2. k \in Int /\ r \in 0 .. PAGESIZE - 1 /\ length + PAGESIZE - 1 = PAGESIZE * k + r
  BY <1>1, DivMod DEF PagesIn
<1> HIDE DEF k, r
<1>3. PAGESIZE * k \in Int /\ k * PAGESIZE = PAGESIZE * k
  BY <1>1, <1>2
<1>4. PagesBytes(length) = PAGESIZE * k
  BY <1>3 DEF PagesBytes, k
<1>5. (PAGESIZE * k) % PAGESIZE = 0
  BY <1>1, <1>2, IsMultiple
<1>6. 0 <= k
  <2>1. SUFFICES ASSUME k + 1 <= 0 PROVE FALSE
    BY <1>2
  <2>2. PAGESIZE * (0 - k) >= PAGESIZE
    BY <1>1, <1>2, <2>1, Times
  <2>3. PAGESIZE * (0 - k) = 0 - PAGESIZE * k
    BY <1>1, <1>2, TimesMinus
  <2> QED BY <1>1, <1>2, <1>3, <2>2, <2>3
<1>7. k <= PAGESIZE * k
  <2>1. CASE k = 0
    BY <1>1, <2>1
  <2>2. CASE k >= 1
    <3>1. k * PAGESIZE >= k
      <4>1. k \in Nat /\ PAGESIZE \in Int /\ PAGESIZE >= 1
        BY <1>1, <1>2, <2>2
      <4> QED BY <4>1, Times
    <3> QED BY <1>3, <3>1
  <2> QED BY <1>2, <1>6, <2>1, <2>2
<1>8. k \in 0 .. PAGESIZE * k
  BY <1>2, <1>3, <1>6, <1>7
<1> QED BY <1>1, <1>2, <1>3, <1>4, <1>5, <1>8 DEF k

\* As long as the bytes are no more than an int counts, they are reckoned right.
LEMMA ReckonedBytes ==
  ASSUME NEW length \in Address, PagesBytes(length) <= MaxInt
  PROVE  Reckoned(length) = {PagesBytes(length)}
<1>1. ASSUME NEW n \in Int, 0 <= n, n <= MaxInt
      PROVE  AsInt(n) = n
  <2> DEFINE ints == 2 * (MaxInt + 1)
             m == n + MaxInt + 1
  <2>1. ints \in Nat \ {0} /\ m \in 0 .. ints - 1 /\ MaxInt \in Nat /\ n = m - (MaxInt + 1)
    BY <1>1, Places0
  <2> HIDE DEF ints, m
  <2>2. m % ints = m
    BY <2>1, ModSmall
  <2>3. AsInt(n) = (m % ints) - (MaxInt + 1)
    BY DEF AsInt, ints, m
  <2> QED BY <2>1, <2>2, <2>3
<1> DEFINE k == PagesIn(length)
           bytes == PagesBytes(length)
<1>2. bytes \in Int /\ k \in 0 .. bytes /\ MaxInt \in Int /\ bytes <= MaxInt
  BY WholeBytes, Places0
<1>3. bytes = k * PAGESIZE
  BY DEF PagesBytes
<1> HIDE DEF k, bytes
<1>4. AsInt(k) = k /\ AsInt(bytes) = bytes
  <2>1. k \in Int /\ 0 <= k /\ k <= MaxInt /\ 0 <= bytes
    BY <1>2
  <2> QED BY <1>1, <1>2, <2>1
<1>5. Reckoned(length) = {k * PAGESIZE, AsInt(k * PAGESIZE)}
  BY <1>4 DEF Reckoned, k
<1> QED BY <1>3, <1>4, <1>5 DEF bytes

-----------------------------------------------------------------------------
(* Regions                                                                 *)

\* A region that does not run into the kernel's half covers its bytes, on
\* pages before the first that is not needed.
LEMMA RegionPages ==
  ASSUME NEW start \in Address, NEW length \in Address, NEW prot, NEW kind,
         NEW end \in Int, start + length <= end, end <= Top, end % PAGESIZE = 0
  PROVE  /\ \A p \in Region(start, length, prot, kind).pages :
              p \in Int /\ PageOf(start) <= p /\ p < PageOf(end)
         /\ \A a \in start .. start + length - 1 :
              PageOf(a) \in Region(start, length, prot, kind).pages
<1> DEFINE pages == {PageOf((start + n) % Word) : n \in 0 .. length - 1}
<1>1. Region(start, length, prot, kind).pages = pages
  BY DEF Region
<1>2. ASSUME NEW n \in 0 .. length - 1
      PROVE  /\ n \in Nat /\ start + n \in Int /\ start <= start + n /\ start + n < end
             /\ PageOf((start + n) % Word) = PageOf(start + n)
  <2>1. n \in Nat /\ start \in Nat /\ length \in Nat
    BY Numbers
  <2>2. start + n \in Address
    BY <2>1, Places0 DEF Address
  <2> QED BY <2>1, <2>2, WrapsNot
<1>3. ASSUME NEW p \in pages
      PROVE  p \in Int /\ PageOf(start) <= p /\ p < PageOf(end)
  <2>1. PICK n \in 0 .. length - 1 : p = PageOf((start + n) % Word)
    OBVIOUS
  <2>2. p = PageOf(start + n) /\ start + n \in Int /\ start <= start + n /\ start + n < end
    BY <1>2, <2>1
  <2>3. start \in Int
    BY Numbers
  <2> QED BY <2>2, <2>3, PageParts, PagesOrdered, PageBefore
<1>4. ASSUME NEW a \in start .. start + length - 1
      PROVE  PageOf(a) \in pages
  <2>1. a - start \in 0 .. length - 1 /\ start + (a - start) = a
    BY Numbers
  <2>2. PageOf((start + (a - start)) % Word) = PageOf(a)
    BY <1>2, <2>1
  <2> QED BY <2>1, <2>2
<1> QED BY <1>1, <1>3, <1>4

LEMMA InMore ==
  ASSUME NEW S, NEW T, S \subseteq T, NEW from, NEW n, In(S, from, n)
  PROVE  In(T, from, n)
  BY DEF In

LEMMA InPart ==
  ASSUME NEW S, NEW from \in Int, NEW n \in Int, In(S, from, n),
         NEW at \in Int, NEW m \in Int, from <= at, at + m <= from + n
  PROVE  In(S, at, m)
<1> SUFFICES ASSUME m > 0
             PROVE  \E r \in S : r.kind = "heap" /\ \A a \in at .. at + m - 1 : PageOf(a) \in r.pages
  BY DEF In
<1>1. n > 0
  OBVIOUS
<1>2. PICK r \in S : r.kind = "heap" /\ \A a \in from .. from + n - 1 : PageOf(a) \in r.pages
  BY <1>1 DEF In
<1>3. \A a \in at .. at + m - 1 : a \in from .. from + n - 1
  OBVIOUS
<1> QED BY <1>2, <1>3

\* What malloc knows of the type of its variables.
LEMMA HeapTypes ==
  ASSUME TypeOK
  PROVE  /\ mem_start \in Nat /\ mem_start \in Address /\ mem_start < Word
         /\ bump \in Nat /\ bump \in Address /\ space_remaining \in Nat /\ space_remaining \in Address
         /\ request.result \in Nat /\ request.result \in Address
         /\ request.sz \in Nat /\ request.sz \in Address
         /\ \A b \in heap : b.at \in Nat /\ b.size \in Nat
<1>1. \A x \in Address : x \in Nat /\ x < Word
  BY WordPages DEF Address
<1>2. mem_start \in Address /\ bump \in Address /\ space_remaining \in Address
  BY TypeParts
<1>3. request.result \in Address /\ request.sz \in Address
  BY TypeParts DEF Requests
<1>4. \A b \in heap : b.at \in Address /\ b.size \in Address
  BY TypeParts
<1> QED BY <1>1, <1>2, <1>3, <1>4

\* The region that a call of mmap takes, if it stays below the kernel's half.
LEMMA NewRegion ==
  ASSUME TypeOK, HeapInvariant, ~Overdrawn', UNCHANGED library,
         NEW length \in Address, NEW prot, NEW sz \in Address, MmapAnywhere(length, prot, sz)
  PROVE  LET region == Region(mem_start, length, prot, IF sz = 0 THEN "own" ELSE "heap") IN
         /\ ~Overdrawn
         /\ mem_start' \in Nat /\ mem_start' % PAGESIZE = 0 /\ mem_start' <= Top
         /\ mem_start <= mem_start' /\ mem_start + length <= mem_start'
         /\ \A p \in region.pages : p \in Int /\ PageOf(mem_start) <= p /\ p < PageOf(mem_start')
         /\ \A a \in mem_start .. mem_start + length - 1 : PageOf(a) \in region.pages
<1> DEFINE bytes == PagesBytes(length)
           region == Region(mem_start, length, prot, IF sz = 0 THEN "own" ELSE "heap")
<1>1. ~Overdrawn /\ bytes <= MaxInt /\ mem_start + bytes <= Top
  <2>1. overdrawn' = (overdrawn \/ bytes > MaxInt \/ mem_start + bytes > Top)
    BY DEF MmapAnywhere
  <2>2. heap' = heap
    BY DEF library
  <2>3. ~overdrawn' /\ ~Overdrawn
    BY <2>1, <2>2 DEF Overdrawn
  <2>4. ~(bytes > MaxInt) /\ ~(mem_start + bytes > Top)
    BY <2>1, <2>3
  <2>5. bytes \in Int /\ MaxInt \in Int /\ mem_start + bytes \in Int /\ Top \in Int
    BY WholeBytes, Places0, HeapTypes
  <2> HIDE DEF bytes
  <2> QED BY <2>3, <2>4, <2>5
<1>2. RegionsBelow
  BY <1>1 DEF HeapInvariant
<1>3. /\ bytes \in Int /\ length <= bytes /\ bytes % PAGESIZE = 0 /\ length \in Nat
      /\ mem_start \in Nat /\ mem_start \in Address /\ mem_start % PAGESIZE = 0
  BY <1>2, WholeBytes, HeapTypes, Numbers DEF RegionsBelow
<1>4. mem_start' = mem_start + bytes /\ mem_start' \in Nat
  <2>1. Reckoned(length) = {bytes}
    BY <1>1, ReckonedBytes
  <2>2. mem_start' = (mem_start + bytes) % Word
    BY <2>1 DEF MmapAnywhere
  <2> HIDE DEF bytes
  <2>3. mem_start + bytes \in Address
    BY <1>1, <1>3, Places0 DEF Address
  <2> QED BY <2>2, <2>3, WrapsNot, Numbers
<1>5. /\ mem_start' % PAGESIZE = 0 /\ mem_start' <= Top /\ mem_start <= mem_start'
      /\ mem_start + length <= mem_start'
  <2>1. (mem_start + bytes) % PAGESIZE = 0
    BY <1>3, Places0, MultiplesAdd
  <2> HIDE DEF bytes
  <2> QED BY <1>1, <1>3, <1>4, <2>1, Places0
<1>6. /\ \A p \in region.pages : p \in Int /\ PageOf(mem_start) <= p /\ p < PageOf(mem_start')
      /\ \A a \in mem_start .. mem_start + length - 1 : PageOf(a) \in region.pages
  BY <1>3, <1>4, <1>5, RegionPages
<1> HIDE DEF region, bytes
<1> QED BY <1>1, <1>4, <1>5, <1>6 DEF region

LEMMA MmapAnywhereHeap ==
  ASSUME TypeOK, HeapInvariant, ~Overdrawn', UNCHANGED library,
         pc = "run", UNCHANGED program,
         NEW length \in Address, NEW prot, NEW sz \in Address, MmapAnywhere(length, prot, sz),
         sz # 0 => length = RoundedUp(sz) /\ RoundsUpTo(sz)
  PROVE  HeapInvariant'
<1> DEFINE kind == IF sz = 0 THEN "own" ELSE "heap"
           region == Region(mem_start, length, prot, kind)
<1>1. /\ ~Overdrawn
      /\ regions' = regions \cup {region}
      /\ pc' = "mmap" /\ request'.result = mem_start /\ request'.sz = sz
      /\ bump' = bump /\ space_remaining' = space_remaining /\ heap' = heap
  BY NewRegion DEF MmapAnywhere, library
<1>2. RegionsBelow /\ Arena /\ BlocksBefore /\ OnlyLeftovers
  BY <1>1 DEF HeapInvariant
<1>14. (Grown' <=> Grown) /\ AskedBlocks' = AskedBlocks
  BY <1>1 DEF Grown, AskedBlocks
<1>15. IsFound' /\ OnlyLeftovers'
  BY <1>1, <1>2, <1>14 DEF HeapInvariant, IsFound, OnlyLeftovers
<1>3. mem_start \in Nat /\ mem_start % PAGESIZE = 0 /\ MMAP_MEM_START <= mem_start /\ length \in Nat
  BY <1>2, HeapTypes, Numbers, Places0 DEF RegionsBelow
<1>4. /\ mem_start' \in Nat /\ mem_start' % PAGESIZE = 0 /\ mem_start' <= Top
      /\ mem_start <= mem_start' /\ mem_start + length <= mem_start'
  BY NewRegion
<1>5. mem_start' \in MMAP_MEM_START .. Top
  BY <1>3, <1>4, Places0
<1>6. /\ \A p \in region.pages : p \in Int /\ PageOf(mem_start) <= p /\ p < PageOf(mem_start')
      /\ \A a \in mem_start .. mem_start + length - 1 : PageOf(a) \in region.pages
  BY NewRegion
<1>7. region.kind = kind /\ region.kind # "placed"
  BY DEF Region
<1> HIDE DEF region
<1>8. Chosen' = Chosen \cup {region}
  BY <1>1, <1>7 DEF Chosen
<1>9. RegionsBelow'
  <2>1. /\ PageOf(MMAP_MEM_START) \in Int /\ PageOf(mem_start) \in Int /\ PageOf(mem_start') \in Int
        /\ PageOf(MMAP_MEM_START) <= PageOf(mem_start) /\ PageOf(mem_start) <= PageOf(mem_start')
    <3>1. MMAP_MEM_START \in Int /\ mem_start \in Int /\ mem_start' \in Int
      BY <1>3, <1>4, Places0
    <3>2. MMAP_MEM_START <= mem_start /\ mem_start <= mem_start'
      BY <1>3, <1>4
    <3>3. PageOf(MMAP_MEM_START) \in Int /\ PageOf(mem_start) \in Int /\ PageOf(mem_start') \in Int
      BY Zenon, <3>1, PageParts
    <3>4. PageOf(MMAP_MEM_START) <= PageOf(mem_start) /\ PageOf(mem_start) <= PageOf(mem_start')
      BY Zenon, <3>1, <3>2, PagesOrdered
    <3> QED BY <3>3, <3>4
  <2>2. \A r \in Chosen : \A p \in r.pages :
          p \in Int /\ PageOf(MMAP_MEM_START) <= p /\ p < PageOf(mem_start)
    <3>1. \A r \in Chosen : r.pages \subseteq Int
      BY TypeParts DEF Chosen, Regions, Page
    <3> QED BY <1>2, <3>1 DEF RegionsBelow
  <2>3. \A r \in Chosen' : \A p \in r.pages : PageOf(MMAP_MEM_START) <= p /\ p < PageOf(mem_start')
    BY <1>6, <1>8, <2>1, <2>2
  <2>4. \A r \in Chosen : r.pages \cap region.pages = {}
    <3>1. SUFFICES ASSUME NEW r \in Chosen, NEW p \in r.pages, p \in region.pages PROVE FALSE
      OBVIOUS
    <3>2. p \in Int /\ p < PageOf(mem_start) /\ PageOf(mem_start) <= p
      BY <1>6, <2>2, <3>1
    <3> QED BY <2>1, <3>2
  <2>5. \A r, t \in Chosen' : r # t => r.pages \cap t.pages = {}
    <3>1. \A r, t \in Chosen : r # t => r.pages \cap t.pages = {}
      BY <1>2 DEF RegionsBelow
    <3> QED BY <1>8, <2>4, <3>1
  <2> QED BY <1>4, <1>5, <2>3, <2>5 DEF RegionsBelow
<1>10. ASSUME NEW from, NEW n, In(regions, from, n)
       PROVE  In(regions', from, n)
  <2>1. regions \subseteq regions'
    BY <1>1
  <2> QED BY <1>10, <2>1, InMore
<1>11. Arena'
  <2>1. SUFFICES ASSUME Grown PROVE bump + space_remaining <= mem_start' /\ In(regions', bump, space_remaining)
    BY <1>1, <1>14 DEF Arena
  <2>2. bump + space_remaining <= mem_start /\ In(regions, bump, space_remaining)
    BY <1>2, <2>1 DEF Arena
  <2>3. bump + space_remaining <= mem_start'
    BY <1>3, <1>4, <2>2, HeapTypes
  <2> QED BY <1>10, <2>2, <2>3
<1>12. BlocksBefore'
  BY <1>1, <1>2, <1>10, <1>14 DEF BlocksBefore
<1>13. Asking'
  <2>1. SUFFICES ASSUME sz # 0
                 PROVE  /\ RoundsUpTo(sz) /\ (Grown => bump + space_remaining <= mem_start)
                        /\ mem_start + RoundedUp(sz) <= mem_start'
                        /\ In(regions', mem_start, RoundedUp(sz))
    BY <1>1, <1>14 DEF Asking
  <2>2. length = RoundedUp(sz) /\ RoundsUpTo(sz)
    BY <2>1
  <2>3. region.kind = "heap" /\ region \in regions'
    BY <1>1, <1>7, <2>1
  <2>4. In(regions', mem_start, length)
    BY <1>6, <2>3 DEF In
  <2> QED BY <1>2, <1>4, <2>2, <2>4 DEF Arena
<1> QED BY <1>9, <1>11, <1>12, <1>13, <1>15 DEF HeapInvariant

\* A block is taken from the beginning of what is left of a region.
LEMMA GrabHeap ==
  ASSUME TypeOK, RegionsBelow, BlocksBefore, UNCHANGED memory,
         NEW from \in Address, NEW left \in Address, NEW sz \in Address,
         sz <= Rounded(sz), Rounded(sz) <= left,
         Grown => bump <= from, from + left <= mem_start, In(regions, from, left), Grab(from, left, sz, TRUE)
  PROVE  /\ RegionsBelow' /\ Arena' /\ BlocksBefore'
         /\ Grown' /\ heap' \ AskedBlocks' = heap \ AskedBlocks
<1> DEFINE r == Rounded(sz)
           block == [at |-> from, size |-> sz, asked |-> TRUE]
<1>1. /\ from \in Nat /\ left \in Nat /\ sz \in Nat /\ r \in Nat /\ sz <= r /\ r <= left
      /\ mem_start \in Nat /\ mem_start < Word /\ Word \in Nat /\ left < Word
  <2>1. r \in Address
    BY ProcessAssumption, RoundType DEF Rounded
  <2> QED BY <2>1, Numbers, HeapTypes, WordPages DEF Address
<1>2. bump' = (from + r) % Word /\ space_remaining' = (left - r) % Word /\ heap' = heap \cup {block}
  BY DEF Grab, Behind, Rounded
<1> HIDE DEF r
<1>3. bump' = from + r /\ space_remaining' = left - r
  <2>1. from + r \in Address /\ left - r \in Address
    BY <1>1 DEF Address
  <2> QED BY <1>2, <2>1, WrapsNot
<1>4. mem_start' = mem_start /\ regions' = regions
  BY DEF memory
<1>5. Chosen' = Chosen
  BY <1>4 DEF Chosen
<1>6. RegionsBelow'
  BY <1>4, <1>5 DEF RegionsBelow
<1>7. Arena'
  <2>1. bump' + space_remaining' <= mem_start'
    BY <1>1, <1>3, <1>4
  <2>2. In(regions, from + r, left - r)
    <3>1. from + r \in Int /\ left - r \in Int /\ from <= from + r /\ (from + r) + (left - r) <= from + left
      BY <1>1
    <3> QED BY <1>1, <3>1, InPart
  <2> QED BY <1>3, <1>4, <2>1, <2>2 DEF Arena
<1>9. block.at = from /\ block.size = sz /\ block.asked
  OBVIOUS
<1> HIDE DEF block
<1>10. /\ Grown' /\ AskedBlocks' = AskedBlocks \cup {block}
       /\ heap' \ AskedBlocks' = heap \ AskedBlocks
  BY <1>2, <1>9 DEF Grown, AskedBlocks
<1>8. BlocksBefore'
  <2>1. block.at = from /\ block.size = sz
    BY <1>9
  <2>2. In(regions, from, sz)
    BY <1>1, InPart
  <2>3. /\ bump \in Nat /\ bump' \in Nat /\ from + sz <= bump'
        /\ AskedBlocks # {} => bump <= bump' /\ bump <= from
    <3>1. AskedBlocks # {} => Grown
      BY DEF AskedBlocks, Grown
    <3> QED BY <1>1, <1>3, <3>1, HeapTypes
  <2>4. \A b \in AskedBlocks : /\ b.at \in Nat /\ b.size \in Nat /\ b.at + b.size <= bump
                        /\ In(regions, b.at, b.size)
    BY HeapTypes DEF BlocksBefore, AskedBlocks
  <2>5. \A b \in AskedBlocks' : b.at + b.size <= bump'
    BY <1>10, <2>1, <2>3, <2>4
  <2>6. \A b \in AskedBlocks' : In(regions', b.at, b.size)
    BY <1>10, <1>4, <2>1, <2>2, <2>4
  <2>7. \A b \in AskedBlocks : b.at + b.size <= block.at
    BY <1>1, <2>1, <2>3, <2>4
  <2>8. \A a, b \in AskedBlocks' : a # b => a.at + a.size <= b.at \/ b.at + b.size <= a.at
    BY <1>10, <2>7 DEF BlocksBefore
  <2> QED BY <2>5, <2>6, <2>8 DEF BlocksBefore
<1> QED BY <1>6, <1>7, <1>8, <1>10

\* A block is taken from the leftovers: malloc has still not asked for any.
LEMMA GrabLeftovers ==
  ASSUME TypeOK, HeapInvariant, ~Overdrawn, RegionsBelow, BlocksBefore, OnlyLeftovers, ~Grown,
         pc = "run", UNCHANGED <<pc, program, memory>>, NEW sz \in Address,
         sz <= Rounded(sz), Rounded(sz) <= space_remaining,
         Grab(bump, space_remaining, sz, FALSE)
  PROVE  RegionsBelow' /\ Arena' /\ BlocksBefore' /\ OnlyLeftovers'
<1> DEFINE r == Rounded(sz)
           block == [at |-> bump, size |-> sz, asked |-> FALSE]
           limit == Leftover(program).space_remaining
<1>1. /\ sz \in Nat /\ r \in Nat /\ sz <= r /\ r <= space_remaining
      /\ space_remaining \in Nat /\ space_remaining < Word /\ Word \in Nat
  <2>1. r \in Address
    BY ProcessAssumption, RoundType DEF Rounded
  <2> QED BY <2>1, Numbers, HeapTypes, WordPages DEF Address
<1>2. limit \in Nat /\ space_remaining <= limit
  <2>1. limit \in Address
    BY LeftoverType DEF HeapInvariant, IsFound
  <2> QED BY <2>1, Numbers DEF OnlyLeftovers
<1>3. space_remaining' = (space_remaining - r) % Word /\ heap' = heap \cup {block}
  BY DEF Grab, Rounded
<1> HIDE DEF r
<1>4. space_remaining' = space_remaining - r
  <2>1. space_remaining - r \in Address
    BY <1>1 DEF Address
  <2> QED BY <1>3, <2>1, WrapsNot
<1>5. block.size = sz /\ ~block.asked
  OBVIOUS
<1> HIDE DEF block
<1>6. ~Grown' /\ AskedBlocks' = {} /\ AskedBlocks = {}
  BY <1>3, <1>5 DEF Grown, AskedBlocks
<1>7. mem_start' = mem_start /\ regions' = regions
  BY DEF memory
<1>8. RegionsBelow'
  <2>1. Chosen' = Chosen
    BY <1>7 DEF Chosen
  <2> QED BY <1>7, <2>1 DEF RegionsBelow
<1>9. Arena' /\ BlocksBefore'
  BY <1>6 DEF Arena, BlocksBefore
<1>10. OnlyLeftovers'
  <2>1. Leftover(program').space_remaining = limit
    OBVIOUS
  <2> HIDE DEF limit
  <2>2. space_remaining' <= limit /\ sz <= limit
    BY <1>1, <1>2, <1>4
  <2>3. \A b \in heap : b.size > 0 => b.size <= limit
    BY <1>6 DEF OnlyLeftovers, limit
  <2>4. \A b \in heap' : b.size > 0 => b.size <= limit
    BY <1>3, <1>5, <2>2, <2>3
  <2> QED BY <2>1, <2>2, <2>4 DEF OnlyLeftovers
<1> QED BY <1>8, <1>9, <1>10

-----------------------------------------------------------------------------
(* Every step keeps the invariant.                                         *)

\* What is rounded up is not less, unless it is more than there is room for.
LEMMA RoundedUps ==
  ASSUME NEW sz \in Address
  PROVE  /\ Rounded(sz) \in Address /\ RoundedUp(sz) \in Address
         /\ sz <= Room => sz <= Rounded(sz)
         /\ RoundedUp(sz) # 0 => RoundsUpTo(sz)
         /\ sz <= Room /\ RoundedUp(sz) = 0 => Rounded(sz) = 0
<1>1. /\ sz \in Nat /\ Word \in Nat /\ PAGESIZE \in Nat \ {0} /\ ALIGN \in Nat \ {0} /\ ALIGN <= PAGESIZE
      /\ Word % PAGESIZE = 0 /\ Word % ALIGN = 0
      /\ Room \in Int /\ Room + PAGESIZE + PAGESIZE <= Word
  <2>1. Room = Top - MMAP_MEM_START
    BY DEF Room
  <2> QED BY <2>1, Places0, Numbers
<1>2. /\ Rounded(sz) \in Address /\ Rounded(sz) < sz + ALIGN
      /\ Rounded(sz) # 0 => sz <= Rounded(sz)
      /\ Rounded(sz) = 0 => sz = 0 \/ sz > Word - ALIGN
  BY <1>1, RoundUp DEF Rounded
<1>3. /\ RoundedUp(sz) \in Address
      /\ RoundedUp(sz) # 0 => Rounded(sz) <= RoundedUp(sz)
      /\ RoundedUp(sz) = 0 => Rounded(sz) = 0 \/ Rounded(sz) > Word - PAGESIZE
  BY <1>1, <1>2, RoundUp DEF RoundedUp
<1> DEFINE a == Rounded(sz)
           b == RoundedUp(sz)
<1>4. a \in Nat /\ b \in Nat
  BY <1>2, <1>3, Numbers
<1>5. sz <= Room => sz <= a
  <2> HIDE DEF a
  <2>1. CASE a = 0
    BY <1>1, <1>2, <2>1 DEF a
  <2>2. CASE a # 0
    BY <1>2, <2>2 DEF a
  <2> QED BY <2>1, <2>2
<1>6. sz <= Room /\ b = 0 => a = 0
  <2>1. a < sz + ALIGN /\ (b = 0 => a = 0 \/ a > Word - PAGESIZE)
    BY <1>2, <1>3
  <2> HIDE DEF a, b
  <2> QED BY <1>1, <1>4, <2>1
<1>7. b # 0 => a # 0
  <2>1. SUFFICES ASSUME a = 0 PROVE b = 0
    OBVIOUS
  <2>2. 0 = PAGESIZE * 0 + 0 /\ 0 \in 0 .. PAGESIZE - 1
    BY <1>1
  <2>3. 0 % PAGESIZE = 0
    BY <1>1, <2>2, DivModUnique
  <2> QED BY <2>1, <2>3 DEF RoundedUp, ROUND_UP
<1> QED BY <1>2, <1>3, <1>5, <1>6, <1>7 DEF RoundsUpTo

\* A step that leaves what the program was given alone, and does not ask.
LEMMA SameHeap ==
  ASSUME HeapInvariant, UNCHANGED <<mem_start, regions, overdrawn, library>>,
         pc' = "mmap" => pc = "mmap" /\ request'.sz = request.sz /\ request'.result = request.result,
         pc' \in {"run", "mmap"} => pc \in {"run", "mmap"} /\ program' = program
  PROVE  HeapInvariant'
<1>1. SUFFICES ASSUME ~Overdrawn'
               PROVE  RegionsBelow' /\ Arena' /\ BlocksBefore' /\ Asking' /\ OnlyLeftovers'
  <2>1. IsFound'
    BY DEF HeapInvariant, IsFound
  <2> QED BY <2>1 DEF HeapInvariant
<1>2. bump' = bump /\ space_remaining' = space_remaining /\ heap' = heap /\ mem_start' = mem_start
      /\ regions' = regions /\ overdrawn' = overdrawn
  BY DEF library
<1>3. ~Overdrawn
  BY <1>1, <1>2 DEF Overdrawn
<1>4. RegionsBelow /\ Arena /\ BlocksBefore /\ Asking /\ OnlyLeftovers
  BY <1>3 DEF HeapInvariant
<1>8. (Grown' <=> Grown) /\ AskedBlocks' = AskedBlocks
  BY <1>2 DEF Grown, AskedBlocks
<1>9. OnlyLeftovers'
  BY <1>2, <1>4, <1>8 DEF OnlyLeftovers
<1>5. RegionsBelow'
  <2>1. Chosen' = Chosen
    BY <1>2 DEF Chosen
  <2> QED BY <1>2, <1>4, <2>1 DEF RegionsBelow
<1>6. Arena' /\ BlocksBefore'
  BY <1>2, <1>4, <1>8 DEF Arena, BlocksBefore
<1>7. Asking'
  <2>1. CASE pc' # "mmap"
    BY <2>1 DEF Asking
  <2>2. CASE pc = "mmap" /\ request'.sz = request.sz /\ request'.result = request.result
    BY <1>2, <1>4, <1>8, <2>2 DEF Asking
  <2> QED BY <2>1, <2>2
<1> QED BY <1>5, <1>6, <1>7, <1>9

\* A program that is entered has asked for nothing yet.
LEMMA EnterHeap ==
  ASSUME NEW name, NEW s, Enter(name, s), Found(name) # {}
  PROVE  HeapInvariant'
<1>1. /\ pc' = "run" /\ mem_start' = MMAP_MEM_START /\ regions' = {} /\ heap' = {}
      /\ program' = name /\ space_remaining' = Leftover(name).space_remaining
  BY DEF Enter
<1>2. RegionsBelow'
  <2>1. Chosen' = {}
    BY <1>1 DEF Chosen
  <2> QED BY <1>1, <2>1, Places0 DEF RegionsBelow
<1>3. ~Grown' /\ AskedBlocks' = {}
  BY <1>1 DEF Grown, AskedBlocks
<1>4. Arena' /\ BlocksBefore' /\ Asking'
  BY <1>1, <1>3 DEF Arena, BlocksBefore, Asking
<1>5. IsFound' /\ OnlyLeftovers'
  <2>1. PICK left : left = Leftover(name).space_remaining
    OBVIOUS
  <2>2. left \in Nat
    BY <2>1, LeftoverType, Numbers DEF Address
  <2>3. left <= left
    BY <2>2
  <2> QED BY <1>1, <2>1, <2>3 DEF IsFound, OnlyLeftovers
<1> QED BY <1>2, <1>4, <1>5 DEF HeapInvariant

LEMMA HaltHeap ==
  ASSUME HeapInvariant, Halt
  PROVE  HeapInvariant'
<1>1. UNCHANGED <<mem_start, regions, overdrawn, library>>
  BY DEF Halt, memory
<1>2. pc' = "halt"
  BY DEF Halt
<1> QED BY <1>1, <1>2, SameHeap

LEMMA ExecHeap ==
  ASSUME HeapInvariant, NEW name, SYS_exec(name)
  PROVE  HeapInvariant'
<1>1. Halt \/ \E s : Enter(name, s) /\ Found(name) # {}
  BY DEF SYS_exec, Loads
<1> QED BY <1>1, HaltHeap, EnterHeap

LEMMA EnterInitHeap ==
  ASSUME HeapInvariant, EnterInit
  PROVE  HeapInvariant'
<1> DEFINE given(missing) == [p \in Page |-> IF p \in StackPages \ missing THEN ReadWrite
                              ELSE load_module(unmap_lower_half(space), InitName)[p]]
<1>1. \/ Halt
      \/ /\ Found(InitName) # {}
         /\ \E missing \in {{}, StackPages} : Enter(InitName, given(missing))
  BY DEF EnterInit, Loads
<1> HIDE DEF given
<1>2. CASE Halt
  BY <1>2, HaltHeap
<1>3. ASSUME NEW missing \in {{}, StackPages}, Enter(InitName, given(missing)), Found(InitName) # {}
      PROVE  HeapInvariant'
  BY <1>3, EnterHeap
<1> QED BY <1>1, <1>2, <1>3

LEMMA SYS_mmapHeap ==
  ASSUME TypeOK, HeapInvariant, pc = "run", UNCHANGED program,
         NEW address \in Address, NEW length \in Address,
         NEW prot, SYS_mmap(address, length, prot)
  PROVE  HeapInvariant'
<1>3. IsFound'
  BY DEF HeapInvariant, IsFound
<1>1. CASE MmapAnywhere(length, prot, 0)
  <2>1. CASE Overdrawn'
    BY <1>3, <2>1 DEF HeapInvariant
  <2>2. CASE ~Overdrawn'
    <3>1. UNCHANGED library
      BY DEF SYS_mmap
    <3> QED BY <1>1, <2>2, <3>1, Numbers, MmapAnywhereHeap
  <2> QED BY <2>1, <2>2
<1>2. CASE MmapPlaced(address, length, prot)
  <2>1. SUFFICES ASSUME ~Overdrawn'
               PROVE  RegionsBelow' /\ Arena' /\ BlocksBefore' /\ Asking' /\ OnlyLeftovers'
    BY <1>3 DEF HeapInvariant
  <2>2. /\ pc' = "mmap" /\ request'.sz = 0 /\ mem_start' = mem_start /\ overdrawn' = overdrawn
        /\ regions' = regions \cup {Region(address, length, prot, "placed")}
    BY <1>2 DEF MmapPlaced
  <2>3. bump' = bump /\ space_remaining' = space_remaining /\ heap' = heap
    BY DEF SYS_mmap, library
  <2>4. RegionsBelow /\ Arena /\ BlocksBefore /\ OnlyLeftovers
    BY <2>1, <2>2, <2>3 DEF HeapInvariant, Overdrawn
  <2>10. (Grown' <=> Grown) /\ AskedBlocks' = AskedBlocks
    BY <2>3 DEF Grown, AskedBlocks
  <2>11. OnlyLeftovers'
    BY <2>3, <2>4, <2>10 DEF OnlyLeftovers
  <2>5. Region(address, length, prot, "placed").kind = "placed"
    BY DEF Region
  <2>6. Chosen' = Chosen
    BY <2>2, <2>5 DEF Chosen
  <2>7. ASSUME NEW from, NEW n, In(regions, from, n)
        PROVE  In(regions', from, n)
    <3>1. regions \subseteq regions'
      BY <2>2
    <3> QED BY <2>7, <3>1, InMore
  <2>8. RegionsBelow'
    BY <2>2, <2>4, <2>6 DEF RegionsBelow
  <2>9. Arena' /\ BlocksBefore'
    BY <2>2, <2>3, <2>4, <2>7, <2>10 DEF Arena, BlocksBefore
  <2> QED BY <2>2, <2>8, <2>9, <2>11 DEF Asking
<1> QED BY <1>1, <1>2 DEF SYS_mmap

\* A block that malloc gives for nothing is more than there is room for.
LEMMA TooLarge ==
  ASSUME NEW from, NEW left, NEW sz, NEW asked, Grab(from, left, sz, asked), ~Overdrawn'
  PROVE  ~(sz > Room)
<1> DEFINE block == [at |-> from, size |-> sz, asked |-> asked]
<1>1. block \in heap' /\ block.size = sz
  BY DEF Grab
<1> HIDE DEF block
<1> QED BY <1>1 DEF Overdrawn

LEMMA RoomInt == Room \in Int
<1>1. Top - MMAP_MEM_START \in Int
  BY Places0
<1> QED BY <1>1 DEF Room

\* What was in order before a block is taken.
LEMMA BeforeGrab ==
  ASSUME TypeOK, HeapInvariant, ~Overdrawn', UNCHANGED memory,
         NEW from, NEW left, NEW sz \in Address, NEW asked, Grab(from, left, sz, asked)
  PROVE  ~Overdrawn /\ RegionsBelow /\ Arena /\ BlocksBefore /\ Asking /\ OnlyLeftovers /\ sz <= Room
<1>1. overdrawn' = overdrawn /\ heap \subseteq heap'
  BY DEF memory, Grab
<1>2. ~Overdrawn
  BY <1>1 DEF Overdrawn
<1>3. sz <= Room
  <2>1. ~(sz > Room)
    BY TooLarge
  <2> QED BY <2>1, RoomInt, Numbers
<1> QED BY <1>2, <1>3 DEF HeapInvariant

LEMMA mallocHeap ==
  ASSUME TypeOK, HeapInvariant, pc = "run", UNCHANGED program, NEW sz \in Address, malloc(sz)
  PROVE  HeapInvariant'
<1>0. IsFound'
  BY DEF HeapInvariant, IsFound
<1>1. SUFFICES ASSUME ~Overdrawn' PROVE HeapInvariant'
  BY <1>0 DEF HeapInvariant
<1>2. Rounded(sz) \in Nat /\ space_remaining \in Nat /\ bump \in Nat /\ sz \in Nat
  BY RoundedUps, HeapTypes, Numbers
<1>3. CASE /\ space_remaining >= Rounded(sz)
           /\ Grab(bump, space_remaining, sz, Grown)
           /\ UNCHANGED <<pc, memory, request>>
  <2>1. ~Overdrawn /\ RegionsBelow /\ Arena /\ BlocksBefore /\ OnlyLeftovers /\ sz <= Room
    BY <1>1, <1>3, BeforeGrab
  <2>2. sz <= Rounded(sz) /\ Rounded(sz) <= space_remaining
    BY <1>2, <1>3, <2>1, RoundedUps
  <2>3. Asking'
    BY <1>3 DEF Asking
  <2>4. CASE Grown
    <3>1. /\ bump \in Address /\ space_remaining \in Address /\ bump <= bump
          /\ bump + space_remaining <= mem_start /\ In(regions, bump, space_remaining)
      BY <1>2, <2>1, <2>4, HeapTypes DEF Arena
    <3>2. Grab(bump, space_remaining, sz, TRUE)
      <4>1. Grown = TRUE
        BY <2>4 DEF Grown
      <4> QED BY <1>3, <4>1
    <3>3. /\ RegionsBelow' /\ Arena' /\ BlocksBefore'
          /\ Grown' /\ heap' \ AskedBlocks' = heap \ AskedBlocks
      BY <1>3, <2>1, <2>2, <3>1, <3>2, GrabHeap
    <3>4. OnlyLeftovers'
      BY <2>1, <3>3 DEF OnlyLeftovers
    <3> QED BY <1>0, <2>3, <3>3, <3>4 DEF HeapInvariant
  <2>5. CASE ~Grown
    <3>1. Grab(bump, space_remaining, sz, FALSE)
      <4>1. Grown = FALSE
        BY <2>5 DEF Grown
      <4> QED BY <1>3, <4>1
    <3>2. RegionsBelow' /\ Arena' /\ BlocksBefore' /\ OnlyLeftovers'
      BY <1>3, <2>1, <2>2, <2>5, <3>1, GrabLeftovers
    <3> QED BY <1>0, <2>3, <3>2 DEF HeapInvariant
  <2> QED BY <2>4, <2>5
<1>4. CASE /\ space_remaining < Rounded(sz)
           /\ Refused(RoundedUp(sz))
           /\ Grab(Word - 1, 0, sz, FALSE)
           /\ UNCHANGED <<pc, memory, request>>
  <2>1. sz <= Room
    BY <1>1, <1>4, BeforeGrab
  <2>2. Rounded(sz) = 0
    BY <1>4, <2>1, RoundedUps DEF Refused
  <2> QED BY <1>2, <1>4, <2>2
<1>5. CASE /\ ~Refused(RoundedUp(sz))
           /\ space_remaining < Rounded(sz)
           /\ MmapAnywhere(RoundedUp(sz), ReadWrite, sz)
           /\ UNCHANGED library
  <2>1. RoundedUp(sz) \in Address /\ RoundsUpTo(sz)
    BY <1>5, RoundedUps DEF Refused
  <2> QED BY <1>1, <1>5, <2>1, MmapAnywhereHeap
<1> QED BY <1>3, <1>4, <1>5 DEF malloc, Rounded, RoundedUp

LEMMA MmapPageHeap ==
  ASSUME TypeOK, HeapInvariant, MmapPage
  PROVE  HeapInvariant'
<1>1. request \in Requests
  BY TypeParts
<1>2. request'.sz = request.sz /\ request'.result = request.result
  BY <1>1 DEF MmapPage, Requests
<1>3. UNCHANGED <<mem_start, regions, overdrawn, library>> /\ pc' = pc /\ program' = program
  BY DEF MmapPage
<1> QED BY <1>2, <1>3, SameHeap

LEMMA MmapReturnHeap ==
  ASSUME TypeOK, HeapInvariant, MmapReturn
  PROVE  HeapInvariant'
<1> DEFINE sz == request.sz
           from == request.result
<1>1. /\ pc = "mmap" /\ pc' = "run" /\ UNCHANGED memory /\ program' = program
      /\ sz \in Address /\ from \in Address
  BY HeapTypes DEF MmapReturn
<1>0. IsFound'
  BY <1>1 DEF HeapInvariant, IsFound
<1>2. CASE sz # 0 /\ from # 0
  <2>1. SUFFICES ASSUME ~Overdrawn' PROVE HeapInvariant'
    BY <1>0 DEF HeapInvariant
  <2>2. Grab(from, RoundedUp(sz), sz, TRUE)
    BY <1>2 DEF MmapReturn, RoundedUp, Rounded
  <2>3. RegionsBelow /\ Arena /\ BlocksBefore /\ Asking /\ OnlyLeftovers
    BY <1>1, <2>1, <2>2, BeforeGrab
  <2>4. /\ sz <= Rounded(sz) /\ Rounded(sz) <= RoundedUp(sz)
        /\ (Grown => bump + space_remaining <= from) /\ from + RoundedUp(sz) <= mem_start
        /\ In(regions, from, RoundedUp(sz))
    BY <1>1, <1>2, <2>3 DEF Asking, RoundsUpTo
  <2>5. (Grown => bump <= from) /\ RoundedUp(sz) \in Address
    <3>1. bump \in Nat /\ space_remaining \in Nat /\ from \in Nat
      BY HeapTypes
    <3> HIDE DEF from
    <3>2. Grown => bump <= from
      BY <2>4, <3>1
    <3> QED BY <1>1, <3>2, RoundedUps
  <2> HIDE DEF sz, from
  <2>6. /\ RegionsBelow' /\ Arena' /\ BlocksBefore'
        /\ Grown' /\ heap' \ AskedBlocks' = heap \ AskedBlocks
    BY <1>1, <2>2, <2>3, <2>4, <2>5, GrabHeap
  <2>7. OnlyLeftovers'
    BY <1>1, <2>3, <2>6 DEF OnlyLeftovers
  <2> QED BY <1>0, <1>1, <2>6, <2>7 DEF HeapInvariant, Asking
<1>3. CASE ~(sz # 0 /\ from # 0)
  <2>1. UNCHANGED library
    BY <1>3 DEF MmapReturn
  <2>2. UNCHANGED <<mem_start, regions, overdrawn, library>>
    BY <1>1, <2>1 DEF memory
  <2>3. pc' # "mmap"
    BY <1>1
  <2> QED BY <1>1, <2>2, <2>3, SameHeap
<1> QED BY <1>2, <1>3

LEMMA ClientHeap ==
  ASSUME TypeOK, HeapInvariant, Client
  PROVE  HeapInvariant'
<1>0. pc = "run"
  BY DEF Client, Running
<1>1. ASSUME NEW sz \in Sizes, malloc(sz), UNCHANGED program
      PROVE  HeapInvariant'
  <2>1. sz \in Address
    BY ProcessAssumption
  <2> QED BY <1>0, <1>1, <2>1, mallocHeap
<1>2. ASSUME NEW a \in Places \cup {0}, NEW n \in Lengths, NEW prot \in Protection,
             SYS_mmap(a, n, prot), UNCHANGED program
      PROVE  HeapInvariant'
  <2>1. a \in Address /\ n \in Address
    BY ProcessAssumption, Numbers
  <2> QED BY <1>0, <1>2, <2>1, SYS_mmapHeap
<1>3. ASSUME NEW name, SYS_exec(name)
      PROVE  HeapInvariant'
  BY <1>3, ExecHeap
<1> QED BY <1>1, <1>2, <1>3 DEF Client

LEMMA ShellHeap ==
  ASSUME TypeOK, HeapInvariant, Shell
  PROVE  HeapInvariant'
<1>1. ASSUME UNCHANGED <<pc, program, memory, request, library>>
      PROVE  HeapInvariant'
  <2>1. UNCHANGED <<mem_start, regions, overdrawn, library>> /\ UNCHANGED <<request, pc, program>>
    BY <1>1 DEF memory
  <2> QED BY <2>1, SameHeap
<1>2. ASSUME NEW c \in Key, ReadChar(c) PROVE HeapInvariant'
  BY <1>1, <1>2 DEF ReadChar
<1>3. CASE SYS_exec(StringTo(Reset(i)))
  BY <1>3, ExecHeap
<1>4. CASE UNCHANGED <<bootVars, pc, program, depth, memory, request, library>>
  BY <1>1, <1>4
<1> QED BY <1>2, <1>3, <1>4 DEF Shell, ReadNewline

LEMMA InitHeap == Init => HeapInvariant
<1> SUFFICES ASSUME Init PROVE HeapInvariant
  OBVIOUS
<1>1. /\ pc = "boot" /\ mem_start = MMAP_MEM_START /\ regions = {} /\ heap = {}
      /\ bump = 0 /\ space_remaining = 0
  BY DEF Init
<1>2. RegionsBelow
  <2>1. Chosen = {}
    BY <1>1 DEF Chosen
  <2> QED BY <1>1, <2>1, Places0 DEF RegionsBelow
<1>3. Arena
  BY <1>1, Places0 DEF Arena, In
<1>4. BlocksBefore /\ Asking
  BY <1>1 DEF BlocksBefore, AskedBlocks, Asking
<1>5. IsFound /\ OnlyLeftovers
  BY <1>1 DEF IsFound, OnlyLeftovers
<1> QED BY <1>2, <1>3, <1>4, <1>5 DEF HeapInvariant

LEMMA NextHeap ==
  ASSUME TypeOK, HeapInvariant, [Next]_vars
  PROVE  HeapInvariant'
<1>1. CASE Boot
  <2>1. UNCHANGED <<mem_start, regions, overdrawn, library>> /\ UNCHANGED <<request, pc, program>>
    BY <1>1 DEF Boot, memory
  <2> QED BY <2>1, SameHeap
<1>2. CASE Start
  BY <1>2, EnterInitHeap DEF Start
<1>3. CASE Client
  BY <1>3, ClientHeap
<1>4. CASE Exit
  BY <1>4, EnterInitHeap DEF Exit, SYS_exit
<1>5. CASE Fault
  BY <1>5, HaltHeap DEF Fault
<1>10. CASE ShellFault
  <2>1. UNCHANGED <<mem_start, regions, overdrawn, library>> /\ pc' \notin {"run", "mmap"}
    BY <1>10, WildIs DEF memory
  <2> QED BY <2>1, SameHeap
<1>6. CASE Mmap
  BY <1>6, MmapPageHeap, MmapReturnHeap DEF Mmap
<1>7. CASE ShellStart
  BY <1>7, mallocHeap, Numbers DEF ShellStart, Running
<1>8. CASE Shell
  BY <1>8, ShellHeap
<1>9. CASE UNCHANGED vars
  <2>1. UNCHANGED <<mem_start, regions, overdrawn, library>> /\ UNCHANGED <<request, pc, program>>
    BY <1>9 DEF vars, memory
  <2> QED BY <2>1, SameHeap
<1> QED BY <1>1, <1>2, <1>3, <1>4, <1>5, <1>6, <1>7, <1>8, <1>9, <1>10 DEF Next

-----------------------------------------------------------------------------
LEMMA HeapApartHolds ==
  ASSUME TypeOK, HeapInvariant
  PROVE  HeapApart
<1>1. SUFFICES ASSUME ~Overdrawn
               PROVE  /\ \A r, t \in Chosen : r # t => r.pages \cap t.pages = {}
                      /\ \A r \in Chosen : r.pages \subseteq PageOf(MMAP_MEM_START) .. PageOf(Top) - 1
                      /\ \A a, b \in AskedBlocks : a # b => a.at + a.size <= b.at \/ b.at + b.size <= a.at
                      /\ \A b \in AskedBlocks : b.size > 0 => InRegion(b)
                      /\ \A b \in heap \ AskedBlocks : b.size > 0 /\ pc \in {"run", "mmap"} =>
                           Leftover(program).space_remaining >= b.size
  BY DEF HeapApart, AskedBlocks
<1>2. RegionsBelow /\ BlocksBefore /\ OnlyLeftovers
  BY <1>1 DEF HeapInvariant
<1>3. ASSUME NEW r \in Chosen, NEW p \in r.pages
      PROVE  p \in PageOf(MMAP_MEM_START) .. PageOf(Top) - 1
  <2>1. p \in Int
    BY TypeParts DEF Chosen, Regions, Page
  <2>2. PageOf(MMAP_MEM_START) <= p /\ p < PageOf(mem_start)
    BY <1>2 DEF RegionsBelow
  <2>3. mem_start \in Int /\ Top \in Int /\ MMAP_MEM_START \in Int /\ mem_start <= Top
    BY <1>2, HeapTypes, Places0 DEF RegionsBelow
  <2>4. PageOf(MMAP_MEM_START) \in Int /\ PageOf(mem_start) \in Int /\ PageOf(Top) \in Int
    BY Zenon, <2>3, PageParts
  <2>5. PageOf(mem_start) <= PageOf(Top)
    BY Zenon, <2>3, PagesOrdered
  <2> QED BY <2>1, <2>2, <2>4, <2>5
<1>4. ASSUME NEW b \in AskedBlocks, b.size > 0
      PROVE  InRegion(b)
  <2>1. PICK r \in regions :
          r.kind = "heap" /\ \A a \in b.at .. b.at + b.size - 1 : PageOf(a) \in r.pages
    BY <1>2, <1>4 DEF BlocksBefore, In
  <2>2. PICK first, last : first = b.at /\ last = b.at + b.size - 1
    OBVIOUS
  <2>3. first \in Int /\ last \in Int /\ first <= last
    BY <1>4, <2>2, HeapTypes DEF AskedBlocks
  <2>4. ASSUME NEW p \in PageOf(first) .. PageOf(last)
        PROVE  p \in r.pages
    <3>1. PICK a \in first .. last : PageOf(a) = p
      BY <2>3, ByteOnPage
    <3> QED BY <2>1, <2>2, <3>1
  <2> QED BY <2>1, <2>2, <2>4 DEF InRegion
<1>5. \A r, t \in Chosen : r # t => r.pages \cap t.pages = {}
  BY <1>2 DEF RegionsBelow
<1>6. \A a, b \in AskedBlocks : a # b => a.at + a.size <= b.at \/ b.at + b.size <= a.at
  BY <1>2 DEF BlocksBefore
<1>7. \A b \in heap \ AskedBlocks : b.size > 0 /\ pc \in {"run", "mmap"} =>
        Leftover(program).space_remaining >= b.size
  <2>1. SUFFICES ASSUME NEW b \in heap \ AskedBlocks, b.size > 0, pc \in {"run", "mmap"}
                 PROVE  Leftover(program).space_remaining >= b.size
    OBVIOUS
  <2>2. b.size <= Leftover(program).space_remaining
    BY <1>2, <2>1 DEF OnlyLeftovers
  <2>3. Leftover(program).space_remaining \in Nat /\ b.size \in Nat
    BY <2>1, HeapTypes, LeftoverType, Numbers DEF HeapInvariant, IsFound
  <2> QED BY <2>2, <2>3
<1> QED BY <1>3, <1>4, <1>5, <1>6, <1>7

\* Whatever a program asks for, in whatever order and however large memory is:
\* as long as it asks for no more than there is between MMAP_MEM_START and the
\* kernel's half, and for no more at once than an int counts, no two regions
\* that mmap chooses share a page; no two blocks that malloc gives from its
\* first call of mmap on share a byte, and each lies in memory that malloc was
\* given; and what it gives before is no more than what the loader, which does
\* not clear .bss, has left in space_remaining: with nothing left there every
\* block is memory that was asked for (interrupts.c:328-352, mem.c:58-88,
\* modules.c:106-125).
THEOREM HeapStaysApart == Spec => []HeapApart
<1>1. HeapInvariant /\ TypeOK /\ [Next]_vars => HeapInvariant'
  BY NextHeap
<1>2. HeapInvariant /\ TypeOK => HeapApart
  BY HeapApartHolds
<1> QED BY TypeCorrect, InitHeap, <1>1, <1>2, PTL DEF Spec

-----------------------------------------------------------------------------
(* The pages that mmap maps: the invariant.  Of calls whose length never   *)
(* becomes 0 nothing needs to be said, as they never return.               *)

\* Pages that the running call has not mapped yet.
Remaining == IF pc = "mmap" THEN Still ELSE {}

ChosenMapped == \A r \in Chosen : \A p \in r.pages \ Placed : p \notin Remaining => space[p] = r.prot
PlacedMapped == \A p \in Placed : p \notin Remaining => space[p] # Unmapped

\* What is left of a region the kernel chose is not mapped, but by the program.
Fresh(prot) ==
  /\ request.prot = prot
  /\ request.at + request.left <= mem_start
  /\ \A p \in Still \ Placed : space[p] = Unmapped

Serving ==
  /\ request.at % PAGESIZE = 0
  /\ \E r \in regions : Still \subseteq r.pages /\ (r.kind = "placed" \/ Fresh(r.prot))

Certain == ~short /\ ~Overdrawn /\ (pc = "run" \/ (pc = "mmap" /\ Whole))

RegionInvariant ==
  /\ IsFound
  /\ Certain => ChosenMapped /\ PlacedMapped /\ (pc = "mmap" => Serving)

-----------------------------------------------------------------------------
(* Pages                                                                   *)

\* The kernel's half begins at Top.
LEMMA NotUpper ==
  ASSUME NEW p \in Int, p < PageOf(Top)
  PROVE  p \notin Upper
<1> DEFINE m == Min(Upper)
<1>1. Upper \in SUBSET Nat /\ Upper # {}
  <2>1. \A q \in Page : q \in Nat
    BY WordPages DEF Page
  <2> QED BY <2>1, ProcessAssumption
<1>2. m \in Nat /\ \A q \in Upper : m <= q
  BY <1>1, MinIn
<1> HIDE DEF m
<1>3. PAGESIZE \in Nat \ {0} /\ PAGESIZE * m \in Int /\ m * PAGESIZE = PAGESIZE * m
  BY <1>2, WordPages
<1>4. Top = PAGESIZE * m
  BY <1>3 DEF Top, m
<1>5. PageOf(Top) = m
  BY <1>2, <1>3, <1>4, IsMultiple DEF PageOf
<1> QED BY <1>1, <1>2, <1>5

LEMMA ImageBelow ==
  ASSUME NEW name, Found(name) # {}, NEW p \in Image(name)
  PROVE  p \in Int /\ p < PageOf(MMAP_MEM_START)
<1> DEFINE n == Min(Found(name))
<1>1. n \in DOMAIN Modules
  BY FirstFound
<1>2. PICK k \in DOMAIN Segments(name) :
        p \in Segments(name)[k].page .. Segments(name)[k].page + Segments(name)[k].pages - 1
  BY DEF Image, Range
<1>3. Segments(name)[k].page \in Nat /\ Segments(name)[k].pages \in Nat
  <2>1. Segments(name)[k].page \in Page /\ Segments(name)[k].pages \in Nat
    BY <1>2, SegmentTypes
  <2> QED BY <2>1, WordPages DEF Page
<1>4. Segments(name)[k].page + Segments(name)[k].pages <= PageOf(MMAP_MEM_START)
  <2>1. Segments(name) = Modules[n].segments
    BY DEF Segments
  <2> HIDE DEF n
  <2>2. k \in DOMAIN Modules[n].segments
    BY <1>2, <2>1
  <2>3. LET seg == Modules[n].segments[k] IN seg.page + seg.pages <= MMAP_MEM_START \div PAGESIZE
    BY Zenon, <1>1, <2>2, LayoutAssumption
  <2> QED BY <2>1, <2>3 DEF PageOf
<1>5. PageOf(MMAP_MEM_START) \in Int
  BY Places0, PageParts
<1> QED BY <1>2, <1>3, <1>4, <1>5

LEMMA PagesInt ==
  ASSUME TypeOK
  PROVE  \A r \in regions : r.pages \subseteq Page /\ r.prot \in Protection
  BY TypeParts DEF Regions

\* No page behind mem_start is mapped, but by the program.
LEMMA BehindUnmapped ==
  ASSUME TypeOK, OwnInvariant, IsFound, HeapInvariant, ~Overdrawn, pc = "run",
         NEW p \in Page, PageOf(mem_start) <= p, p < PageOf(Top), p \notin Placed
  PROVE  space[p] = Unmapped
<1> SUFFICES ASSUME space[p] # Unmapped PROVE FALSE
  OBVIOUS
<1>1. RegionsBelow
  BY DEF HeapInvariant
<1>2. /\ p \in Int /\ PageOf(mem_start) \in Int /\ PageOf(MMAP_MEM_START) \in Int
      /\ PageOf(MMAP_MEM_START) <= PageOf(mem_start)
  <2>1. mem_start \in Int /\ MMAP_MEM_START \in Int /\ MMAP_MEM_START <= mem_start
    BY <1>1, HeapTypes, Places0 DEF RegionsBelow
  <2>2. PageOf(mem_start) \in Int /\ PageOf(MMAP_MEM_START) \in Int
    BY Zenon, <2>1, PageParts
  <2>3. PageOf(MMAP_MEM_START) <= PageOf(mem_start)
    BY Zenon, <2>1, PagesOrdered
  <2>4. p \in Int
    BY WordPages DEF Page
  <2> QED BY <2>2, <2>3, <2>4
<1>3. p \in Lower(space)
  <2>1. p \notin Upper
    BY <1>2, NotUpper
  <2> QED BY <2>1 DEF Lower
<1>4. p \in Image(program) \/ p \in Asked \/ p \in Stack
  BY <1>3 DEF OwnInvariant, OnlyAsked
<1>5. CASE p \in Image(program)
  <2>1. p < PageOf(MMAP_MEM_START)
    BY <1>5, ImageBelow DEF IsFound
  <2> QED BY <1>2, <2>1
<1>6. CASE p \in Stack
  <2>1. p < PageOf(MMAP_MEM_START)
    BY <1>6, LayoutAssumption DEF PageOf
  <2> QED BY <1>2, <2>1
<1>7. CASE p \in Asked
  <2>1. PICK r \in regions : p \in r.pages
    BY <1>7 DEF Asked
  <2>2. r \in Chosen
    BY <2>1 DEF Chosen, Placed
  <2>3. p < PageOf(mem_start)
    BY <1>1, <2>1, <2>2 DEF RegionsBelow
  <2> QED BY <1>2, <2>3
<1> QED BY <1>4, <1>5, <1>6, <1>7

\* A page is mapped with the protection asked for if it was not, and no other
\* is touched, or memory is short.
LEMMA VmMapOne ==
  ASSUME TypeOK, NEW p \in Page, NEW prot \in Protection, vm_map(p, prot), ~short'
  PROVE  /\ ~short /\ space' \in Spaces /\ prot # Unmapped
         /\ space'[p] = IF space[p] = Unmapped THEN prot ELSE space[p]
         /\ \A q \in Page : q # p => space'[q] = space[q]
<1>1. space \in Spaces /\ short \in BOOLEAN /\ prot # Unmapped
  BY TypeParts, ProcessAssumption
<1>2. space' \in Spaces
  BY <1>1, VmMapType
<1>3. \/ space[p] # Unmapped /\ UNCHANGED <<space, short>>
      \/ space[p] = Unmapped /\ space' = [space EXCEPT ![p] = prot] /\ UNCHANGED short
  BY DEF vm_map
<1> QED BY <1>1, <1>2, <1>3 DEF Spaces

\* The bytes behind the start of a page are on it, as many as it has.
LEMMA OnPage ==
  ASSUME NEW k \in Address, k % PAGESIZE = 0, NEW n \in 0 .. PAGESIZE - 1
  PROVE  /\ n \in Nat /\ k + n \in Address /\ k + PAGESIZE <= Word
         /\ PageOf(k + n) = PageOf(k)
<1> DEFINE q == k \div PAGESIZE
           w == Word \div PAGESIZE
           d == Word - k
<1>1. /\ PAGESIZE \in Nat \ {0} /\ Word \in Nat \ {0} /\ k \in Nat /\ k < Word /\ n \in Nat /\ n < PAGESIZE
      /\ q \in Int /\ k = PAGESIZE * q /\ w \in Int /\ Word = PAGESIZE * w
  <2>1. PAGESIZE \in Nat \ {0} /\ Word \in Nat \ {0} /\ k \in Nat /\ k < Word
    BY WordPages DEF Address
  <2>2. q \in Int /\ k = PAGESIZE * q
    BY <2>1, Multiple
  <2> QED BY <2>1, <2>2, WordPages
<1> HIDE DEF q, w
<1>2. d \in Int /\ d > 0 /\ d % PAGESIZE = 0
  <2>1. d = PAGESIZE * (w - q) /\ w - q \in Int
    BY <1>1, TimesMinus
  <2>2. (PAGESIZE * (w - q)) % PAGESIZE = 0
    BY <1>1, <2>1, IsMultiple
  <2>3. d \in Int /\ d > 0
    BY <1>1
  <2> HIDE DEF d
  <2> QED BY <2>1, <2>2, <2>3
<1>3. d >= PAGESIZE
  <2> HIDE DEF d
  <2>1. SUFFICES ASSUME d < PAGESIZE PROVE FALSE
    BY <1>1, <1>2
  <2>2. -PAGESIZE < d /\ d # 0
    BY <1>1, <1>2
  <2> QED BY <1>2, <2>1, <2>2, NotWhole
<1>4. k + PAGESIZE <= Word /\ k + n \in Address
  BY <1>1, <1>3 DEF Address
<1>5. PageOf(k + n) = q /\ PageOf(k) = q
  <2>1. k + n = PAGESIZE * q + n /\ k + n \in Int /\ n \in 0 .. PAGESIZE - 1
    BY <1>1
  <2>2. (k + n) \div PAGESIZE = q
    BY <1>1, <2>1, DivModUnique
  <2> QED BY <2>2 DEF PageOf, q
<1> QED BY <1>1, <1>4, <1>5

\* A region whose first bytes are on one page is this page and what is behind.
LEMMA PagesSplit ==
  ASSUME NEW address \in Address, NEW length \in Address, NEW first \in 0 .. length,
         NEW page, \A n \in 0 .. first - 1 : PageOf((address + n) % Word) = page
  PROVE  {PageOf((address + n) % Word) : n \in 0 .. length - 1} \subseteq {page} \cup
           {PageOf((((address + first) % Word) + n) % Word) : n \in 0 .. (length - first) - 1}
<1> SUFFICES ASSUME NEW n \in 0 .. length - 1
             PROVE  PageOf((address + n) % Word) \in {page} \cup
                      {PageOf((((address + first) % Word) + m) % Word) : m \in 0 .. (length - first) - 1}
  OBVIOUS
<1>1. address \in Nat /\ length \in Nat /\ first \in Nat /\ n \in Nat
  BY Numbers
<1>2. CASE n < first
  <2>1. n \in 0 .. first - 1
    BY <1>1, <1>2
  <2> QED BY <2>1
<1>3. CASE first <= n
  <2>1. /\ n - first \in 0 .. (length - first) - 1 /\ address + first \in Int /\ n - first \in Int
        /\ (address + first) + (n - first) = address + n
    BY <1>1, <1>3
  <2>2. (((address + first) % Word) + (n - first)) % Word = ((address + first) + (n - first)) % Word
    BY <2>1, WrapsOnce
  <2> QED BY <2>1, <2>2
<1> QED BY <1>1, <1>2, <1>3

-----------------------------------------------------------------------------
(* Every step keeps the invariant.                                         *)

\* A program that has asked for too much stays so, as long as it runs.
LEMMA StaysCertain ==
  ASSUME TypeOK, overdrawn => overdrawn', heap \subseteq heap', ~Overdrawn'
  PROVE  ~Overdrawn
  BY DEF Overdrawn

LEMMA SameRegions ==
  ASSUME TypeOK, RegionInvariant, UNCHANGED <<program, memory>>, heap \subseteq heap',
         pc \in {"run", "mmap"}, pc' = "run", pc = "mmap" => Still = {} /\ Whole
  PROVE  RegionInvariant'
<1>1. UNCHANGED <<space, regions, overdrawn, short>>
  BY DEF memory
<1>2. IsFound'
  BY DEF RegionInvariant, IsFound
<1>3. SUFFICES ASSUME Certain' PROVE ChosenMapped' /\ PlacedMapped'
  BY <1>2 DEF RegionInvariant
<1>4. Certain
  <2>1. ~short' /\ ~Overdrawn'
    BY <1>3 DEF Certain
  <2>2. ~short /\ ~Overdrawn
    BY <1>1, <2>1, StaysCertain
  <2> QED BY <2>2 DEF Certain
<1>5. ChosenMapped /\ PlacedMapped
  BY <1>4 DEF RegionInvariant
<1>6. Remaining = {} /\ Remaining' = {}
  BY DEF Remaining
<1>7. Chosen' = Chosen /\ Placed' = Placed
  BY <1>1 DEF Chosen, Placed
<1> QED BY <1>1, <1>5, <1>6, <1>7 DEF ChosenMapped, PlacedMapped

LEMMA SameState ==
  ASSUME RegionInvariant, UNCHANGED <<pc, program, memory, request, heap>>
  PROVE  RegionInvariant'
<1>1. UNCHANGED <<space, mem_start, regions, overdrawn, short>>
  BY DEF memory
<1>2. (IsFound' <=> IsFound) /\ (Certain' <=> Certain)
  BY <1>1 DEF IsFound, Certain, Overdrawn, Whole
<1>3. Remaining' = Remaining /\ Still' = Still /\ Chosen' = Chosen /\ Placed' = Placed
  BY <1>1 DEF Remaining, Still, Chosen, Placed
<1>4. (ChosenMapped' <=> ChosenMapped) /\ (PlacedMapped' <=> PlacedMapped)
  BY <1>1, <1>3 DEF ChosenMapped, PlacedMapped
<1>5. \A prot : Fresh(prot)' <=> Fresh(prot)
  BY <1>1, <1>3 DEF Fresh
<1>6. Serving' <=> Serving
  BY <1>1, <1>3, <1>5 DEF Serving
<1> QED BY <1>2, <1>4, <1>6 DEF RegionInvariant

LEMMA NoneServed ==
  ASSUME pc' \notin {"run", "mmap"}
  PROVE  RegionInvariant'
  BY DEF RegionInvariant, IsFound, Certain

LEMMA EnterRegions ==
  ASSUME NEW name, NEW s, Enter(name, s), Found(name) # {}
  PROVE  RegionInvariant'
<1>1. pc' = "run" /\ program' = name /\ regions' = {}
  BY DEF Enter
<1>2. IsFound'
  BY <1>1 DEF IsFound
<1>3. Chosen' = {} /\ Placed' = {}
  BY <1>1 DEF Chosen, Placed
<1>4. ChosenMapped' /\ PlacedMapped'
  BY <1>3 DEF ChosenMapped, PlacedMapped
<1> QED BY <1>1, <1>2, <1>4 DEF RegionInvariant

LEMMA ExecRegions ==
  ASSUME NEW name, SYS_exec(name)
  PROVE  RegionInvariant'
<1> DEFINE s == unmap_lower_half(space)
<1>1. CASE Loads(s, name) /\ Enter(name, load_module(s, name))
  BY <1>1, EnterRegions DEF Loads
<1>2. CASE Halt
  BY <1>2, NoneServed DEF Halt
<1> QED BY <1>1, <1>2 DEF SYS_exec

LEMMA EnterInitRegions ==
  ASSUME EnterInit
  PROVE  RegionInvariant'
<1> DEFINE given(missing) == [p \in Page |-> IF p \in StackPages \ missing THEN ReadWrite
                              ELSE load_module(unmap_lower_half(space), InitName)[p]]
<1>1. \/ Halt
      \/ /\ Found(InitName) # {}
         /\ \E missing \in {{}, StackPages} : Enter(InitName, given(missing))
  BY DEF EnterInit, Loads
<1> HIDE DEF given
<1>2. CASE Halt
  BY <1>2, NoneServed DEF Halt
<1>3. ASSUME NEW missing \in {{}, StackPages}, Enter(InitName, given(missing)), Found(InitName) # {}
      PROVE  RegionInvariant'
  BY <1>3, EnterRegions
<1> QED BY <1>1, <1>2, <1>3

\* The kernel chooses a region behind all others: nothing is mapped there, but
\* by the program.
LEMMA MmapAnywhereRegions ==
  ASSUME TypeOK, OwnInvariant, HeapInvariant, RegionInvariant, pc = "run",
         UNCHANGED program, UNCHANGED library,
         NEW length \in Address, NEW prot \in Protection, NEW sz \in Address,
         MmapAnywhere(length, prot, sz)
  PROVE  RegionInvariant'
<1>0. PICK region : region = Region(mem_start, length, prot, IF sz = 0 THEN "own" ELSE "heap")
  OBVIOUS
<1>1. /\ pc' = "mmap" /\ regions' = regions \cup {region} /\ UNCHANGED <<space, short>>
      /\ request'.at = mem_start /\ request'.left = length /\ request'.prot = prot
  BY <1>0 DEF MmapAnywhere
<1>2. IsFound /\ IsFound'
  BY DEF RegionInvariant, IsFound
<1>3. SUFFICES ASSUME Certain' PROVE ChosenMapped' /\ PlacedMapped' /\ Serving'
  BY <1>2 DEF RegionInvariant
<1>4. ~Overdrawn' /\ ~short'
  BY <1>3 DEF Certain
<1>5. /\ ~Overdrawn /\ mem_start' \in Nat /\ mem_start' % PAGESIZE = 0 /\ mem_start' <= Top
      /\ mem_start + length <= mem_start'
      /\ \A p \in region.pages : p \in Int /\ PageOf(mem_start) <= p /\ p < PageOf(mem_start')
  BY <1>0, <1>4, NewRegion
<1>6. ChosenMapped /\ PlacedMapped
  BY <1>1, <1>4, <1>5 DEF RegionInvariant, Certain
<1>7. /\ region.kind # "placed" /\ region.prot = prot
      /\ region.pages = {PageOf((mem_start + n) % Word) : n \in 0 .. length - 1}
  BY <1>0 DEF Region
<1>8. region \in Regions
  BY <1>0, RegionType, HeapTypes
<1>9. region.pages \subseteq Page
  BY <1>8 DEF Regions
<1>10. Still' = region.pages
  BY <1>1, <1>7 DEF Still
<1>11. Chosen' = Chosen \cup {region} /\ Placed' = Placed
  BY <1>1, <1>7 DEF Chosen, Placed
<1>12. Remaining = {} /\ Remaining' = region.pages
  BY <1>1, <1>10 DEF Remaining
<1>13. ChosenMapped'
  BY <1>1, <1>6, <1>11, <1>12 DEF ChosenMapped
<1>14. PlacedMapped'
  BY <1>1, <1>6, <1>11, <1>12 DEF PlacedMapped
<1>15. \A p \in region.pages \ Placed : space[p] = Unmapped
  <2>1. SUFFICES ASSUME NEW p \in region.pages, p \notin Placed PROVE space[p] = Unmapped
    OBVIOUS
  <2>2. p \in Int /\ PageOf(mem_start) <= p /\ p < PageOf(mem_start')
    BY <1>5
  <2>3. mem_start' \in Int /\ Top \in Int
    BY <1>5, Places0
  <2>4. PageOf(mem_start') \in Int /\ PageOf(Top) \in Int
    BY Zenon, <2>3, PageParts
  <2>5. PageOf(mem_start') <= PageOf(Top)
    BY Zenon, <1>5, <2>3, PagesOrdered
  <2>6. p < PageOf(Top) /\ p \in Page
    BY <1>9, <2>2, <2>4, <2>5
  <2> QED BY <1>2, <1>5, <2>1, <2>2, <2>6, BehindUnmapped
<1>16. Fresh(prot)'
  <2>1. request'.prot = prot
    BY <1>1
  <2>2. request'.at + request'.left <= mem_start'
    BY <1>1, <1>5
  <2>3. \A p \in Still' \ Placed' : space'[p] = Unmapped
    BY <1>1, <1>10, <1>11, <1>15
  <2> QED BY <2>1, <2>2, <2>3 DEF Fresh
<1>17. Serving'
  <2>1. request'.at % PAGESIZE = 0
    BY <1>1, <1>5 DEF HeapInvariant, RegionsBelow
  <2>2. region \in regions' /\ Still' \subseteq region.pages /\ Fresh(region.prot)'
    BY <1>1, <1>7, <1>10, <1>16
  <2> QED BY <2>1, <2>2 DEF Serving
<1> QED BY <1>13, <1>14, <1>17

\* The first page of a region the program places is mapped before the others.
LEMMA MmapPlacedRegions ==
  ASSUME TypeOK, RegionInvariant, pc = "run", UNCHANGED program, UNCHANGED library,
         NEW address \in Address, NEW length \in Address \ {0}, NEW prot \in Protection,
         MmapPlaced(address, length, prot)
  PROVE  RegionInvariant'
<1> DEFINE page == PageOf(address)
           first == PAGESIZE - (address - page * PAGESIZE)
<1>0. PICK region : region = Region(address, length, prot, "placed")
  OBVIOUS
<1>1. /\ pc' = "mmap" /\ regions' = regions \cup {region}
      /\ vm_map(page, All) /\ UNCHANGED overdrawn
      /\ request'.at = (page * PAGESIZE + PAGESIZE) % Word
      /\ request'.left = (length - first) % Word
  BY <1>0 DEF MmapPlaced
<1>2. IsFound'
  BY DEF RegionInvariant, IsFound
<1>3. SUFFICES ASSUME Certain' PROVE ChosenMapped' /\ PlacedMapped' /\ Serving'
  BY <1>2 DEF RegionInvariant
<1>4. ~Overdrawn' /\ ~short' /\ request'.left % PAGESIZE = 0
  BY <1>1, <1>3 DEF Certain, Whole
<1>5. page \in Page /\ All \in Protection
  BY PageOfAddress, Numbers
<1>6. /\ ~short /\ space'[page] # Unmapped
      /\ \A q \in Page : space[q] # Unmapped => space'[q] = space[q]
  <2>1. /\ ~short /\ All # Unmapped
        /\ space'[page] = IF space[page] = Unmapped THEN All ELSE space[page]
        /\ \A q \in Page : q # page => space'[q] = space[q]
    BY <1>1, <1>4, <1>5, VmMapOne
  <2> HIDE DEF page
  <2> QED BY <2>1
<1>7. ChosenMapped /\ PlacedMapped
  <2>1. heap' = heap
    BY DEF library
  <2>2. ~Overdrawn
    BY <1>1, <1>4, <2>1, StaysCertain
  <2> QED BY <1>6, <2>2 DEF RegionInvariant, Certain
<1>8. /\ region.kind = "placed"
      /\ region.pages = {PageOf((address + n) % Word) : n \in 0 .. length - 1}
  BY <1>0 DEF Region
<1>9. region.pages \subseteq Page
  <2>1. region \in Regions
    BY <1>0, RegionType
  <2> QED BY <2>1 DEF Regions
<1>10. Still' = {PageOf((request'.at + n) % Word) : n \in 0 .. request'.left - 1}
  BY DEF Still
<1>11. Still' \subseteq region.pages
  BY <1>1, <1>4, <1>8, <1>10, PlacedPages
<1>12. /\ first \in 1 .. PAGESIZE /\ first \in 0 .. length /\ request'.left = length - first
       /\ page * PAGESIZE \in Int /\ page * PAGESIZE + PAGESIZE = address + first
  BY <1>1, <1>4, PlacedParts
<1>13. region.pages \subseteq {page} \cup Still'
  <2>1. ASSUME NEW n \in 0 .. first - 1
        PROVE  PageOf((address + n) % Word) = page
    <3>1. address \in Nat /\ PAGESIZE \in Nat \ {0} /\ page \in Int
      BY Numbers, WordPages, <1>5 DEF Page
    <3> DEFINE k == page * PAGESIZE
               m == address - k + n
    <3>2. k \in Int /\ k + PAGESIZE = address + first /\ first \in 1 .. PAGESIZE /\ n \in 0 .. first - 1
      BY <1>12, <2>1
    <3>3. k = PAGESIZE * page /\ k % PAGESIZE = 0
      <4>1. k = PAGESIZE * page
        BY <3>1
      <4> QED BY <3>1, <4>1, IsMultiple
    <3> HIDE DEF page, first, k
    <3>4. m \in 0 .. PAGESIZE - 1 /\ k + m = address + n /\ k <= address
      BY <3>1, <3>2
    <3>5. k \in Address
      <4>1. 0 <= page
        BY <1>5 DEF Page
      <4>2. 0 <= PAGESIZE * page
        BY <3>1, <4>1
      <4>3. address < Word /\ Word \in Nat
        BY WordPages DEF Address
      <4> QED BY <3>1, <3>2, <3>3, <3>4, <4>2, <4>3 DEF Address
    <3> HIDE DEF m
    <3>6. k + m \in Address /\ PageOf(k + m) = PageOf(k)
      BY <3>3, <3>4, <3>5, OnPage
    <3>7. PageOf(k) = page
      BY <3>1, <3>3, IsMultiple DEF PageOf
    <3> QED BY <3>4, <3>6, <3>7, WrapsNot
  <2>2. request'.at = (address + first) % Word
    BY <1>1, <1>12
  <2>3. length \in Address
    OBVIOUS
  <2> HIDE DEF page, first
  <2>4. {PageOf((address + n) % Word) : n \in 0 .. length - 1} \subseteq {page} \cup
          {PageOf((((address + first) % Word) + n) % Word) : n \in 0 .. (length - first) - 1}
    BY <1>12, <2>1, <2>3, PagesSplit
  <2> QED BY Zenon, <1>8, <1>10, <1>12, <2>2, <2>4
<1>14. request'.at % PAGESIZE = 0
  <2>1. PAGESIZE \in Nat \ {0} /\ page + 1 \in Int /\ page \in Int
    BY <1>5, WordPages DEF Page
  <2> HIDE DEF page
  <2>2. page * PAGESIZE + PAGESIZE = PAGESIZE * (page + 1) /\ PAGESIZE * (page + 1) \in Int
    BY <2>1, TimesPlus
  <2>3. (PAGESIZE * (page + 1)) % PAGESIZE = 0
    BY <2>1, IsMultiple
  <2> QED BY <1>1, <2>2, <2>3, WholePages
<1> HIDE DEF page, first
<1>15. Chosen' = Chosen /\ Placed' = Placed \cup region.pages
  BY <1>1, <1>8 DEF Chosen, Placed
<1>16. Remaining = {} /\ Remaining' = Still'
  BY <1>1 DEF Remaining
<1>17. ChosenMapped'
  <2>1. SUFFICES ASSUME NEW r \in Chosen, NEW p \in r.pages, p \notin Placed
                 PROVE  space'[p] = r.prot
    BY <1>15 DEF ChosenMapped
  <2>2. space[p] = r.prot
    <3>1. p \in r.pages \ Placed /\ p \notin Remaining
      BY <1>16, <2>1
    <3> QED BY <1>7, <3>1 DEF ChosenMapped
  <2>3. p \in Page /\ r.prot # Unmapped
    <3>1. r \in regions
      BY DEF Chosen
    <3>2. r.pages \subseteq Page /\ r.prot \in Protection
      BY Zenon, <3>1, PagesInt
    <3> QED BY <3>2, ProcessAssumption
  <2> QED BY <1>6, <2>2, <2>3
<1>18. PlacedMapped'
  <2>1. SUFFICES ASSUME NEW p \in Placed \cup region.pages, p \notin Still'
                 PROVE  space'[p] # Unmapped
    BY <1>15, <1>16 DEF PlacedMapped
  <2>2. CASE p \in Placed
    <3>1. space[p] # Unmapped
      BY <1>7, <1>16, <2>2 DEF PlacedMapped
    <3>2. p \in Page
      BY <2>2, PagesInt DEF Placed
    <3> QED BY <1>6, <3>1, <3>2
  <2>3. CASE p \in region.pages
    BY <1>6, <1>13, <2>1, <2>3
  <2> QED BY <2>2, <2>3
<1>19. Serving'
  <2>1. region \in regions'
    BY <1>1
  <2>2. \E r \in regions' : Still' \subseteq r.pages /\ (r.kind = "placed" \/ Fresh(r.prot)')
    BY Zenon, <1>8, <1>11, <2>1
  <2> QED BY Zenon, <1>14, <2>2 DEF Serving
<1> QED BY <1>17, <1>18, <1>19

\* A page is mapped, and is no longer among those that are left.
LEMMA MmapPageRegions ==
  ASSUME TypeOK, HeapInvariant, RegionInvariant, MmapPage
  PROVE  RegionInvariant'
<1> DEFINE at == request.at
           left == request.left
           page == PageOf(at)
<1>1. /\ pc = "mmap" /\ pc' = "mmap" /\ left # 0 /\ vm_map(page, request.prot)
      /\ UNCHANGED <<program, mem_start, regions, overdrawn, library>>
  BY DEF MmapPage
<1>2. IsFound'
  BY <1>1 DEF RegionInvariant, IsFound
<1>3. SUFFICES ASSUME Certain' PROVE ChosenMapped' /\ PlacedMapped' /\ Serving'
  BY <1>2 DEF RegionInvariant
<1>4. ~Overdrawn' /\ ~short' /\ Whole'
  BY <1>1, <1>3 DEF Certain
<1>5. /\ request'.at = (at + PAGESIZE) % Word /\ request'.prot = request.prot
      /\ Whole /\ PAGESIZE <= left /\ request'.left = left - PAGESIZE
  BY <1>4, OnePageDone
<1>6. at \in Address /\ left \in Address /\ request.prot \in Protection /\ page \in Page
  BY TypeParts, PageOfAddress DEF Requests
<1>7. /\ ~short /\ request.prot # Unmapped
      /\ space'[page] = IF space[page] = Unmapped THEN request.prot ELSE space[page]
      /\ \A q \in Page : q # page => space'[q] = space[q]
  BY <1>1, <1>4, <1>6, VmMapOne
<1>8. ~Overdrawn
  <2>1. heap' = heap
    BY <1>1 DEF library
  <2> QED BY <1>1, <1>4, <2>1, StaysCertain
<1>9. ChosenMapped /\ PlacedMapped /\ Serving
  BY <1>1, <1>5, <1>7, <1>8 DEF RegionInvariant, Certain
<1>10. Still = {PageOf((at + n) % Word) : n \in 0 .. left - 1}
  BY DEF Still
<1>11. Still' = {PageOf((request'.at + n) % Word) : n \in 0 .. request'.left - 1}
  BY DEF Still
<1>12. at % PAGESIZE = 0
  BY <1>9 DEF Serving
<1>13. request'.at % PAGESIZE = 0
  <2> HIDE DEF at, left, page
  <2>1. at \in Int /\ at + PAGESIZE \in Int /\ PAGESIZE \in Nat \ {0}
    BY <1>6, AddressInt, Numbers, WordPages
  <2>2. ((at + PAGESIZE) - PAGESIZE) % PAGESIZE = (at + PAGESIZE) % PAGESIZE
    BY <2>1, OnePageLess
  <2>3. (at + PAGESIZE) - PAGESIZE = at
    BY <2>1
  <2>4. (at + PAGESIZE) % PAGESIZE = 0
    BY <1>12, <2>2, <2>3
  <2> QED BY <1>5, <2>1, <2>4, WholePages
<1> HIDE DEF at, left
<1>14. PAGESIZE \in 0 .. left
  BY <1>5, <1>6, WordPages, Numbers
<1>15. Still' \subseteq Still
  BY <1>5, <1>6, <1>10, <1>11, <1>14, PagesBehind
<1>16. Still \subseteq {page} \cup Still'
  <2>1. ASSUME NEW n \in 0 .. PAGESIZE - 1
        PROVE  PageOf((at + n) % Word) = page
    BY <1>6, <1>12, OnPage, WrapsNot
  <2> HIDE DEF page
  <2>2. {PageOf((at + n) % Word) : n \in 0 .. left - 1} \subseteq {page} \cup
          {PageOf((((at + PAGESIZE) % Word) + n) % Word) : n \in 0 .. (left - PAGESIZE) - 1}
    BY <1>6, <1>14, <2>1, PagesSplit
  <2> QED BY Zenon, <1>5, <1>10, <1>11, <2>2
<1> HIDE DEF page
<1>17. Chosen' = Chosen /\ Placed' = Placed /\ Asked' = Asked
  BY <1>1 DEF Chosen, Placed, Asked
<1>18. Remaining = Still /\ Remaining' = Still'
  BY <1>1 DEF Remaining
<1>19. PICK s \in regions : Still \subseteq s.pages /\ (s.kind = "placed" \/ Fresh(s.prot))
  BY <1>9 DEF Serving
<1>20. ChosenMapped'
  <2>1. SUFFICES ASSUME NEW r \in Chosen, NEW p \in r.pages, p \notin Placed, p \notin Still'
                 PROVE  space'[p] = r.prot
    BY <1>17, <1>18 DEF ChosenMapped
  <2>2. p \in Page /\ r.prot # Unmapped
    <3>1. r \in regions
      BY DEF Chosen
    <3>2. r.pages \subseteq Page /\ r.prot \in Protection
      BY Zenon, <3>1, PagesInt
    <3> QED BY <3>2, ProcessAssumption
  <2>3. CASE p \notin Still
    <3>1. p \in r.pages \ Placed /\ p \notin Remaining
      BY <1>18, <2>1, <2>3
    <3>2. space[p] = r.prot
      BY <1>9, <3>1 DEF ChosenMapped
    <3> QED BY <1>7, <2>2, <3>2
  <2>4. CASE p \in Still
    <3>1. p = page /\ p \in s.pages
      BY <1>16, <1>19, <2>1, <2>4
    <3>2. s.kind # "placed"
      BY <2>1, <3>1 DEF Placed
    <3>3. s = r
      <4>1. s \in Chosen
        BY <3>2 DEF Chosen
      <4>2. s # r => s.pages \cap r.pages = {}
        BY <1>8, <4>1 DEF HeapInvariant, RegionsBelow
      <4> QED BY <3>1, <4>2
    <3>4. request.prot = r.prot /\ space[p] = Unmapped
      BY <1>19, <2>1, <2>4, <3>2, <3>3 DEF Fresh
    <3> QED BY <1>7, <3>1, <3>4
  <2> QED BY <2>3, <2>4
<1>21. PlacedMapped'
  <2>1. SUFFICES ASSUME NEW p \in Placed, p \notin Still' PROVE space'[p] # Unmapped
    BY <1>17, <1>18 DEF PlacedMapped
  <2>2. p \in Page
    BY PagesInt DEF Placed
  <2>3. CASE p \notin Still
    <3>1. space[p] # Unmapped
      BY <1>9, <1>18, <2>3 DEF PlacedMapped
    <3> QED BY <1>7, <2>2, <3>1
  <2>4. CASE p \in Still
    <3>1. p = page
      BY <1>16, <2>1, <2>4
    <3> QED BY <1>7, <3>1
  <2> QED BY <2>3, <2>4
<1>22. ASSUME Fresh(s.prot)
       PROVE  Fresh(s.prot)'
  <2>1. request.prot = s.prot /\ at + left <= mem_start /\ \A p \in Still \ Placed : space[p] = Unmapped
    BY <1>22 DEF Fresh, at, left
  <2>2. /\ at \in Nat /\ left \in Nat /\ PAGESIZE \in Nat \ {0} /\ mem_start \in Nat /\ mem_start < Word
        /\ Word \in Nat
    BY <1>6, Numbers, WordPages, HeapTypes
  <2>3. at + PAGESIZE \in Address /\ request'.at = at + PAGESIZE
    <3>1. at + PAGESIZE \in Address
      BY <1>5, <2>1, <2>2 DEF Address
    <3> QED BY <1>5, <3>1, WrapsNot
  <2>4. request'.at + request'.left <= mem_start'
    BY <1>1, <1>5, <2>1, <2>2, <2>3
  <2>5. page \notin Still'
    <3>1. SUFFICES ASSUME NEW n \in 0 .. request'.left - 1
                   PROVE  page # PageOf((request'.at + n) % Word)
      BY <1>11
    <3>2. n \in Nat /\ at + PAGESIZE + n \in Address /\ (at + PAGESIZE) % PAGESIZE = 0
      BY <1>5, <1>13, <2>1, <2>2, <2>3 DEF Address
    <3>3. PageOf((request'.at + n) % Word) = PageOf(at + PAGESIZE + n)
      BY <2>3, <3>2, WrapsNot
    <3>4. /\ at \in Int /\ at + PAGESIZE \in Int /\ at + PAGESIZE + n \in Int
          /\ at < at + PAGESIZE /\ at + PAGESIZE <= at + PAGESIZE + n
      BY <2>2, <3>2
    <3>5. PageOf(at) < PageOf(at + PAGESIZE)
      BY Zenon, <3>2, <3>4, PageBefore
    <3>6. PageOf(at + PAGESIZE) <= PageOf(at + PAGESIZE + n)
      BY Zenon, <3>4, PagesOrdered
    <3>7. PageOf(at) \in Int /\ PageOf(at + PAGESIZE) \in Int /\ PageOf(at + PAGESIZE + n) \in Int
      BY Zenon, <3>4, PageParts
    <3> QED BY <3>3, <3>5, <3>6, <3>7 DEF page
  <2>6. \A p \in Still' \ Placed' : space'[p] = Unmapped
    <3>1. SUFFICES ASSUME NEW p \in Still', p \notin Placed PROVE space'[p] = Unmapped
      BY <1>17
    <3>2. p # page /\ p \in Still
      BY <1>15, <2>5, <3>1
    <3>3. p \in Page
      <4>1. s.pages \subseteq Page
        BY PagesInt
      <4> QED BY <1>19, <3>2, <4>1
    <3> QED BY <1>7, <2>1, <3>1, <3>2, <3>3
  <2>7. request'.prot = s.prot
    BY <1>5, <2>1
  <2> QED BY <2>4, <2>6, <2>7 DEF Fresh
<1>23. Serving'
  <2>1. \E r \in regions' : Still' \subseteq r.pages /\ (r.kind = "placed" \/ Fresh(r.prot)')
    <3>1. s \in regions' /\ Still' \subseteq s.pages
      BY <1>1, <1>15, <1>19
    <3> QED BY Zenon, <1>19, <1>22, <3>1
  <2> QED BY Zenon, <1>13, <2>1 DEF Serving
<1> QED BY <1>20, <1>21, <1>23

LEMMA MmapReturnRegions ==
  ASSUME TypeOK, RegionInvariant, MmapReturn
  PROVE  RegionInvariant'
<1>1. pc = "mmap" /\ pc' = "run" /\ request.left = 0 /\ UNCHANGED <<program, memory>>
  BY DEF MmapReturn
<1>2. heap \subseteq heap'
  BY DEF MmapReturn, Grab, library
<1>3. Still = {}
  <2>1. 0 .. request.left - 1 = {}
    BY <1>1
  <2> QED BY <2>1 DEF Still
<1>4. Whole
  <2>1. 0 % PAGESIZE = 0
    <3>1. PAGESIZE \in Nat \ {0} /\ 0 = PAGESIZE * 0 + 0 /\ 0 \in 0 .. PAGESIZE - 1
      BY WordPages
    <3> QED BY <3>1, DivModUnique
  <2> QED BY <1>1, <2>1 DEF Whole
<1> QED BY <1>1, <1>2, <1>3, <1>4, SameRegions

LEMMA SYS_mmapRegions ==
  ASSUME TypeOK, OwnInvariant, HeapInvariant, RegionInvariant, pc = "run", UNCHANGED program,
         NEW address \in Address, NEW length \in Address \ {0}, NEW prot \in Protection,
         SYS_mmap(address, length, prot)
  PROVE  RegionInvariant'
<1>1. UNCHANGED library
  BY DEF SYS_mmap
<1>2. CASE MmapAnywhere(length, prot, 0)
  BY <1>1, <1>2, Numbers, MmapAnywhereRegions
<1>3. CASE MmapPlaced(address, length, prot)
  BY <1>1, <1>3, MmapPlacedRegions
<1> QED BY <1>2, <1>3 DEF SYS_mmap

LEMMA mallocRegions ==
  ASSUME TypeOK, OwnInvariant, HeapInvariant, RegionInvariant, pc = "run", UNCHANGED program,
         NEW sz \in Address, malloc(sz)
  PROVE  RegionInvariant'
<1> DEFINE rounded_up == ROUND_UP(ROUND_UP(sz, ALIGN), PAGESIZE)
<1>1. ASSUME NEW from, NEW left, NEW asked, Grab(from, left, sz, asked), UNCHANGED <<pc, memory, request>>
      PROVE  RegionInvariant'
  <2>1. heap \subseteq heap' /\ UNCHANGED <<program, memory>> /\ pc' = "run"
    BY <1>1 DEF Grab
  <2> QED BY <2>1, SameRegions
<1>2. CASE MmapAnywhere(rounded_up, ReadWrite, sz) /\ UNCHANGED library
  <2>1. rounded_up \in Address /\ ReadWrite \in Protection
    BY RoundedUps, Numbers DEF Rounded, RoundedUp
  <2> HIDE DEF rounded_up
  <2> QED BY <1>2, <2>1, MmapAnywhereRegions
<1> QED BY <1>1, <1>2 DEF malloc

LEMMA ClientRegions ==
  ASSUME TypeOK, OwnInvariant, HeapInvariant, RegionInvariant, Client
  PROVE  RegionInvariant'
<1>0. pc = "run"
  BY DEF Client, Running
<1>1. ASSUME NEW sz \in Sizes, malloc(sz), UNCHANGED program
      PROVE  RegionInvariant'
  <2>1. sz \in Address
    BY ProcessAssumption
  <2> QED BY <1>0, <1>1, <2>1, mallocRegions
<1>2. ASSUME NEW a \in Places \cup {0}, NEW n \in Lengths, NEW prot \in Protection,
             SYS_mmap(a, n, prot), UNCHANGED program
      PROVE  RegionInvariant'
  <2>1. a \in Address /\ n \in Address \ {0}
    BY ProcessAssumption, Numbers
  <2> QED BY <1>0, <1>2, <2>1, SYS_mmapRegions
<1>3. ASSUME NEW name, SYS_exec(name)
      PROVE  RegionInvariant'
  BY <1>3, ExecRegions
<1> QED BY <1>1, <1>2, <1>3 DEF Client

LEMMA ShellRegions ==
  ASSUME TypeOK, RegionInvariant, Shell
  PROVE  RegionInvariant'
<1>1. ASSUME UNCHANGED <<pc, program, memory, request, library>>
      PROVE  RegionInvariant'
  <2>1. UNCHANGED <<pc, program, memory, request, heap>>
    BY <1>1 DEF library
  <2> QED BY <2>1, SameState
<1>2. ASSUME NEW c \in Key, ReadChar(c) PROVE RegionInvariant'
  BY <1>1, <1>2 DEF ReadChar
<1>3. CASE SYS_exec(StringTo(Reset(i)))
  BY <1>3, ExecRegions
<1>4. CASE UNCHANGED <<bootVars, pc, program, depth, memory, request, library>>
  BY <1>1, <1>4
<1> QED BY <1>2, <1>3, <1>4 DEF Shell, ReadNewline

LEMMA InitRegions == Init => RegionInvariant
  BY DEF Init, RegionInvariant, IsFound, Certain

LEMMA NextRegions ==
  ASSUME TypeOK, OwnInvariant, HeapInvariant, RegionInvariant, [Next]_vars
  PROVE  RegionInvariant'
<1>1. CASE Boot
  BY <1>1, NoneServed DEF Boot
<1>2. CASE Start
  BY <1>2, EnterInitRegions DEF Start
<1>3. CASE Client
  BY <1>3, ClientRegions
<1>4. CASE Exit
  BY <1>4, EnterInitRegions DEF Exit, SYS_exit
<1>5. CASE Fault
  BY <1>5, NoneServed DEF Fault, Halt
<1>10. CASE ShellFault
  <2>1. pc' \notin {"run", "mmap"}
    BY <1>10, WildIs
  <2> QED BY <2>1, NoneServed
<1>6. CASE Mmap
  BY <1>6, MmapPageRegions, MmapReturnRegions DEF Mmap
<1>7. CASE ShellStart
  BY <1>7, mallocRegions, Numbers DEF ShellStart, Running
<1>8. CASE Shell
  BY <1>8, ShellRegions
<1>9. CASE UNCHANGED vars
  <2>1. UNCHANGED <<pc, program, memory, request, heap>>
    BY <1>9 DEF vars, library
  <2> QED BY <2>1, SameState
<1> QED BY <1>1, <1>2, <1>3, <1>4, <1>5, <1>6, <1>7, <1>8, <1>9, <1>10 DEF Next

LEMMA RegionsMappedHolds ==
  ASSUME TypeOK, RegionInvariant
  PROVE  RegionsMapped
<1>1. SUFFICES ASSUME pc = "run", ~short, ~Overdrawn
               PROVE  /\ \A r \in Chosen : \A p \in r.pages \ Placed : space[p] = r.prot
                      /\ Placed \subseteq {p \in Page : space[p] # Unmapped}
  BY DEF RegionsMapped
<1>2. ChosenMapped /\ PlacedMapped /\ Remaining = {}
  BY <1>1 DEF RegionInvariant, Certain, Remaining
<1>3. Placed \subseteq Page
  BY PagesInt DEF Placed
<1> QED BY <1>2, <1>3 DEF ChosenMapped, PlacedMapped

\* Whatever a program asks for: as long as memory is not short and it asks for
\* no more than there is, every page of a region is mapped when mmap returns,
\* with the protection asked for where the kernel chose it, however often the
\* program places mappings of its own among them (interrupts.c:292-354).
THEOREM RegionsStayMapped == Spec => []RegionsMapped
<1>1. TypeOK /\ OwnInvariant /\ [Next]_vars => OwnInvariant'
  BY NextOwn
<1>2. TypeOK /\ HeapInvariant /\ [Next]_vars => HeapInvariant'
  BY NextHeap
<1>3. TypeOK /\ OwnInvariant /\ HeapInvariant /\ RegionInvariant /\ [Next]_vars => RegionInvariant'
  BY NextRegions
<1>4. TypeOK /\ RegionInvariant => RegionsMapped
  BY RegionsMappedHolds
<1> QED BY TypeCorrect, InitOwn, InitHeap, InitRegions, <1>1, <1>2, <1>3, <1>4, PTL DEF Spec
=============================================================================
