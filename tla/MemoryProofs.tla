---------------------------- MODULE MemoryProofs ----------------------------
(***************************************************************************)
(* Proofs about Memory: the free list and the page tables, for every       *)
(* memory map, fanout and tree of tables that the boot loader leaves.      *)
(***************************************************************************)
EXTENDS Memory, ModularArithmetic, TLAPS, FiniteSetTheorems

-----------------------------------------------------------------------------
(* The invariant.  lev gives the level of each table in use, and 0 to the  *)
(* other frames; s[n], ..., s[1] are the chunks of the free list, head     *)
(* first.                                                                  *)

HasLink(m, f, i) == m[f].entry[i].present /\ ~m[f].entry[i].page_size

\* Entries that lead to a table in use.  While it is scanned the entry of
\* level 4 is cleared already; behind the loops the tables are free.
Kept == [f \in Frame |-> {i \in Index :
  /\ HasLink(mem, f, i) \/ (pc \in {"l3", "l2"} /\ f = Root /\ i = l4_index)
  /\ ~(pc \in {"l3", "l2"} /\ f = L3Table /\ i < l3_index)
  /\ ~(pc = "l2" /\ f = L2Table /\ i < l2_index)}]

Targets(m) == [f \in Frame |-> [i \in Index |-> m[f].entry[i].address]]

Levels(lev) ==
  /\ lev \in [Frame -> 0 .. 4]
  /\ \A f \in Frame : lev[f] = 4 <=> f = Root

Down(lev, kept, to) ==
  \A f \in Frame : lev[f] >= 2 =>
    \A i \in kept[f] : to[f][i] \in Frame /\ lev[to[f][i]] = lev[f] - 1

Apart(lev, kept, to) ==
  \A f, g \in Frame : lev[f] >= 2 /\ lev[g] >= 2 =>
    \A i \in kept[f], j \in kept[g] : to[f][i] = to[g][j] => f = g /\ i = j

Up(lev, kept, to) ==
  \A f \in Frame : lev[f] \in 1 .. 3 =>
    \E g \in Frame : lev[g] = lev[f] + 1 /\ \E i \in kept[g] : to[g][i] = f

Tree(lev, kept, to) ==
  Levels(lev) /\ Down(lev, kept, to) /\ Apart(lev, kept, to) /\ Up(lev, kept, to)

\* The tables are tables, and a cleared entry of one does not say page_size:
\* NewTable and LoopL4 change the present bit alone.
AreTables(m, lev) ==
  \A f \in Frame :
    /\ lev[f] >= 1 => m[f].is = "table"
    /\ lev[f] >= 2 => \A i \in Index : m[f].entry[i].page_size => m[f].entry[i].present /\ f # Root

Stretch(m, f) == f .. f + m[f].size - 1

Chain(m, head, lev, n, s) ==
  /\ n \in Nat /\ s \in [Nat -> Frame]
  /\ head = IF n = 0 THEN NULL ELSE s[n]
  /\ \A k \in 1 .. n :
       /\ m[s[k]].is = "node"
       /\ m[s[k]].next = IF k = 1 THEN NULL ELSE s[k - 1]
       /\ m[s[k]].size \in Nat \ {0}
       /\ \A f \in Stretch(m, s[k]) : f \in Frame /\ lev[f] = 0
  /\ \A k, l \in 1 .. n : \A f \in Frame :
       f \in Stretch(m, s[k]) /\ f \in Stretch(m, s[l]) => k = l

\* The pages that were free or tables at boot are those that are now.
Whole(m, lev, n, s) ==
  \A f \in Frame :
    f \in Usable \cup Tables(Boot) <=>
      lev[f] \in 1 .. 3 \/ \E k \in 1 .. n : f \in Stretch(m, s[k])

OnLoop ==
  /\ pc \notin {"l3", "l2"} => l3_index = 0
  /\ pc # "l2" => l2_index = 0
  /\ pc \in {"l3", "l2"} =>
       l4_index \in Lower /\ l4_index \in Kept[Root] /\ ~mem[Root].entry[l4_index].present
  /\ pc = "l2" => l3_index \in Index /\ l3_index \in Kept[L3Table]
  /\ Unmapping => \A i \in 0 .. l4_index - 1 : ~mem[Root].entry[i].present

\* The tables on the way to a, if the entries above them lead on: Way.
P3(m, a) == m[Root].entry[a[1]].address
P2(m, a) == m[P3(m, a)].entry[a[2]].address
P1(m, a) == m[P2(m, a)].entry[a[3]].address
On(m, a, l) ==
  IF l = 4 THEN Root ELSE IF l = 3 THEN P3(m, a) ELSE IF l = 2 THEN P2(m, a) ELSE P1(m, a)

Way(m, a, l) ==
  /\ l <= 3 => HasLink(m, Root, a[1])
  /\ l <= 2 => HasLink(m, P3(m, a), a[2])
  /\ l <= 1 => HasLink(m, P2(m, a), a[3])

OnWalk ==
  IF pc = "vm_map"
  THEN /\ address \in Address /\ level \in 1 .. 4
       /\ Way(mem, address, level) /\ cur_table = On(mem, address, level)
  ELSE cur_table = Root

Held(lev, n, s) ==
  /\ Tree(lev, Kept, Targets(mem)) /\ AreTables(mem, lev)
  /\ Chain(mem, FREELIST, lev, n, s)
  /\ Whole(mem, lev, n, s)

Good(lev, n, s) == TypeOK /\ OnLoop /\ OnWalk /\ Held(lev, n, s)

IInv == ~astray => \E lev, n, s : Good(lev, n, s)

-----------------------------------------------------------------------------
(* Levels and entries, whatever the frames hold.                           *)

LEMMA Constants ==
  /\ NumFrames \in Nat \ {0} /\ Fanout \in Nat \ {0} /\ Root \in Frame
  /\ Fanout \div 2 \in Nat /\ Fanout \div 2 <= Fanout
BY MemoryAssumption

\* What a tree is like when the entries that count are the same.
LEMMA SameTree ==
  ASSUME NEW lev, NEW kept, NEW to, NEW kept2, NEW to2, Tree(lev, kept, to),
         \A f \in Frame : lev[f] >= 2 => kept2[f] = kept[f] /\ to2[f] = to[f]
  PROVE  Tree(lev, kept2, to2)
<1>1. Levels(lev)
  BY DEF Tree
<1>2. \A f \in Frame : lev[f] \in 0 .. 4
  BY <1>1 DEF Levels
<1>3. Down(lev, kept2, to2)
  BY DEF Tree, Down
<1>4. Apart(lev, kept2, to2)
  BY DEF Tree, Apart
<1>5. Up(lev, kept2, to2)
  BY <1>2 DEF Tree, Up
<1> QED BY <1>1, <1>3, <1>4, <1>5 DEF Tree

\* A leaf g of the tree, reached from entry i of p, goes.
Removed(lev, kept, to, p, i, g, lev2, kept2, to2) ==
  /\ p \in Frame /\ i \in kept[p] /\ g \in Frame
  /\ lev[p] >= 2 /\ to[p][i] = g
  /\ lev[g] >= 2 => kept[g] = {}
  /\ \A f \in Frame : lev[f] >= 2 /\ f # g =>
       /\ to2[f] = to[f]
       /\ \A j : j \in kept2[f] <=> j \in kept[f] /\ ~(f = p /\ j = i)
  /\ lev2 \in [Frame -> 0 .. 4]
  /\ \A f \in Frame : lev2[f] = IF f = g THEN 0 ELSE lev[f]

LEMMA RemoveTree ==
  ASSUME NEW lev, NEW kept, NEW to, NEW p, NEW i, NEW g, NEW lev2, NEW kept2, NEW to2,
         Tree(lev, kept, to), Removed(lev, kept, to, p, i, g, lev2, kept2, to2)
  PROVE  Tree(lev2, kept2, to2)
<1> USE DEF Removed
<1>1. \A f \in Frame : lev[f] \in 0 .. 4 /\ (lev[f] = 4 <=> f = Root)
  BY DEF Tree, Levels
<1>2. lev \in [Frame -> 0 .. 4]
  BY DEF Tree, Levels
<1>3. lev[g] = lev[p] - 1 /\ p # g /\ g # Root
  BY <1>1 DEF Tree, Down
<1>4. \A f \in Frame : lev2[f] = IF f = g THEN 0 ELSE lev[f]
  OBVIOUS
<1>5. Levels(lev2)
  BY <1>1, <1>2, <1>3, <1>4, Constants DEF Levels
<1>6. \A f \in Frame : lev2[f] >= 2 => f # g /\ lev[f] >= 2 /\ lev2[f] = lev[f] /\ kept2[f] \subseteq kept[f] /\ to2[f] = to[f]
  BY <1>4
<1>7. ASSUME NEW f \in Frame, lev2[f] >= 2, NEW j \in kept2[f]
      PROVE  j \in kept[f] /\ to2[f][j] # g /\ to2[f][j] = to[f][j]
  <2>1. f # g /\ lev[f] >= 2 /\ j \in kept[f] /\ to2[f] = to[f]
    BY <1>6, <1>7
  <2>2. ~(f = p /\ j = i)
    BY <1>7, <2>1
  <2> QED BY <2>1, <2>2 DEF Tree, Apart
<1>8. Down(lev2, kept2, to2)
  BY <1>4, <1>6, <1>7 DEF Tree, Down
<1>9. Apart(lev2, kept2, to2)
  BY <1>6, <1>7 DEF Tree, Apart
<1>10. Up(lev2, kept2, to2)
  <2>1. SUFFICES ASSUME NEW f \in Frame, lev2[f] \in 1 .. 3
                 PROVE  \E h \in Frame : lev2[h] = lev2[f] + 1 /\ \E j \in kept2[h] : to2[h][j] = f
    BY DEF Up
  <2>2. f # g /\ lev[f] \in 1 .. 3 /\ lev2[f] = lev[f]
    BY <2>1, <1>4
  <2>3. PICK h \in Frame : lev[h] = lev[f] + 1 /\ \E j \in kept[h] : to[h][j] = f
    BY <2>2 DEF Tree, Up
  <2> PICK j \in kept[h] : to[h][j] = f
    BY <2>3
  <2>4. h # g
    BY <2>2, <2>3
  <2>5. lev2[h] = lev[h] /\ lev[h] >= 2
    BY <2>2, <2>3, <2>4, <1>4
  <2>6. j \in kept2[h] /\ to2[h] = to[h]
    <3>1. ~(h = p /\ j = i)
      BY <2>2, <2>3
    <3> QED BY <3>1, <2>3, <2>4, <2>5
  <2> QED BY <2>2, <2>3, <2>5, <2>6
<1> QED BY <1>5, <1>8, <1>9, <1>10 DEF Tree

\* A table g without entries is put at entry i of p.
Added(lev, kept, to, p, i, g, lev2, kept2, to2) ==
  /\ p \in Frame /\ i \notin kept[p] /\ g \in Frame
  /\ lev[p] >= 2 /\ lev[g] = 0 /\ kept2[g] = {}
  /\ \A f \in Frame : lev[f] >= 2 /\ f # p => kept2[f] = kept[f] /\ to2[f] = to[f]
  /\ \A j : j \in kept2[p] <=> j \in kept[p] \/ j = i
  /\ to2[p][i] = g /\ \A j \in kept[p] : to2[p][j] = to[p][j]
  /\ lev2 \in [Frame -> 0 .. 4]
  /\ \A f \in Frame : lev2[f] = IF f = g THEN lev[p] - 1 ELSE lev[f]

LEMMA AddTree ==
  ASSUME NEW lev, NEW kept, NEW to, NEW p, NEW i, NEW g, NEW lev2, NEW kept2, NEW to2,
         Tree(lev, kept, to), Added(lev, kept, to, p, i, g, lev2, kept2, to2)
  PROVE  Tree(lev2, kept2, to2)
<1> USE DEF Added
<1>1. \A f \in Frame : lev[f] \in 0 .. 4 /\ (lev[f] = 4 <=> f = Root)
  BY DEF Tree, Levels
<1>2. lev \in [Frame -> 0 .. 4]
  BY DEF Tree, Levels
<1>3. p # g /\ g # Root /\ lev[p] - 1 \in 1 .. 3
  BY <1>1
<1>4. \A f \in Frame : lev2[f] = IF f = g THEN lev[p] - 1 ELSE lev[f]
  OBVIOUS
<1>5. Levels(lev2)
  BY <1>1, <1>2, <1>3, <1>4, Constants DEF Levels
<1>6. ASSUME NEW f \in Frame, lev2[f] >= 2, NEW j \in kept2[f]
      PROVE  /\ f # g /\ lev[f] >= 2 /\ lev2[f] = lev[f]
             /\ IF f = p /\ j = i THEN to2[f][j] = g ELSE j \in kept[f] /\ to2[f][j] = to[f][j]
  BY <1>4, <1>6, <1>3
<1>7. \A f \in Frame : lev[f] >= 2 => \A j \in kept[f] : to[f][j] # g
  BY <1>1 DEF Tree, Down
<1>8. Down(lev2, kept2, to2)
  <2>1. SUFFICES ASSUME NEW f \in Frame, lev2[f] >= 2, NEW j \in kept2[f]
                 PROVE  to2[f][j] \in Frame /\ lev2[to2[f][j]] = lev2[f] - 1
    BY DEF Down
  <2>2. CASE f = p /\ j = i
    BY <2>1, <2>2, <1>4, <1>6
  <2>3. CASE ~(f = p /\ j = i)
    <3>1. lev[f] >= 2 /\ lev2[f] = lev[f] /\ j \in kept[f] /\ to2[f][j] = to[f][j]
      BY <2>1, <2>3, <1>6
    <3>2. to[f][j] \in Frame /\ lev[to[f][j]] = lev[f] - 1 /\ to[f][j] # g
      BY <3>1, <1>7 DEF Tree, Down
    <3> QED BY <3>1, <3>2, <1>4
  <2> QED BY <2>2, <2>3
<1>9. Apart(lev2, kept2, to2)
  <2>1. SUFFICES ASSUME NEW f \in Frame, NEW h \in Frame, lev2[f] >= 2, lev2[h] >= 2,
                        NEW j \in kept2[f], NEW k \in kept2[h], to2[f][j] = to2[h][k]
                 PROVE  f = h /\ j = k
    BY DEF Apart
  <2>2. /\ lev[f] >= 2
        /\ IF f = p /\ j = i THEN to2[f][j] = g ELSE j \in kept[f] /\ to2[f][j] = to[f][j]
    BY <2>1, <1>6
  <2>3. /\ lev[h] >= 2
        /\ IF h = p /\ k = i THEN to2[h][k] = g ELSE k \in kept[h] /\ to2[h][k] = to[h][k]
    BY <2>1, <1>6
  <2>4. CASE (f = p /\ j = i) \/ (h = p /\ k = i)
    BY <2>1, <2>2, <2>3, <2>4, <1>7
  <2>5. CASE ~(f = p /\ j = i) /\ ~(h = p /\ k = i)
    BY <2>1, <2>2, <2>3, <2>5 DEF Tree, Apart
  <2> QED BY <2>4, <2>5
<1>10. Up(lev2, kept2, to2)
  <2>1. SUFFICES ASSUME NEW f \in Frame, lev2[f] \in 1 .. 3
                 PROVE  \E h \in Frame : lev2[h] = lev2[f] + 1 /\ \E j \in kept2[h] : to2[h][j] = f
    BY DEF Up
  <2>2. CASE f = g
    <3>1. lev2[p] = lev2[f] + 1
      BY <2>2, <1>3, <1>4, <1>1
    <3> QED BY <3>1, <2>2
  <2>3. CASE f # g
    <3>1. lev[f] \in 1 .. 3 /\ lev2[f] = lev[f]
      BY <2>1, <2>3, <1>4
    <3>2. PICK h \in Frame : lev[h] = lev[f] + 1 /\ \E j \in kept[h] : to[h][j] = f
      BY <3>1 DEF Tree, Up
    <3> PICK j \in kept[h] : to[h][j] = f
      BY <3>2
    <3>3. h # g /\ lev2[h] = lev[h] /\ lev[h] >= 2
      BY <3>1, <3>2, <1>4
    <3>4. j \in kept2[h] /\ to2[h][j] = f
      BY <3>2, <3>3
    <3> QED BY <3>1, <3>2, <3>3, <3>4
  <2> QED BY <2>2, <2>3
<1> QED BY <1>5, <1>8, <1>9, <1>10 DEF Tree

-----------------------------------------------------------------------------
(* The free list.                                                          *)

\* The first frame of a chunk is in it.
LEMMA ChainHeads ==
  ASSUME NEW m, NEW head, NEW lev, NEW n, NEW s, Chain(m, head, lev, n, s), NEW k \in 1 .. n
  PROVE  /\ s[k] \in Frame /\ lev[s[k]] = 0 /\ s[k] \in Stretch(m, s[k])
         /\ \A l \in 1 .. n : s[l] \in Stretch(m, s[k]) => l = k
<1>1. n \in Nat /\ s \in [Nat -> Frame] /\ m[s[k]].size \in Nat \ {0}
  BY DEF Chain
<1>2. \A l \in 1 .. n : s[l] \in Nat /\ s[l] \in Frame
  BY <1>1, Constants DEF Frame
<1>3. \A l \in 1 .. n : s[l] \in Stretch(m, s[l])
  <2>1. ASSUME NEW l \in 1 .. n PROVE s[l] \in Stretch(m, s[l])
    <3>1. m[s[l]].size \in Nat \ {0}
      BY DEF Chain
    <3> QED BY <3>1, <1>2 DEF Stretch
  <2> QED BY <2>1
<1> QED BY <1>1, <1>2, <1>3 DEF Chain

\* No chunk is written and no page of one becomes a table.
LEMMA SameChain ==
  ASSUME NEW m, NEW head, NEW lev, NEW n, NEW s, Chain(m, head, lev, n, s),
         NEW m2, NEW lev2,
         \A f \in Frame : lev[f] = 0 => m2[f] = m[f] /\ lev2[f] = 0
  PROVE  /\ Chain(m2, head, lev2, n, s)
         /\ \A k \in 1 .. n : Stretch(m2, s[k]) = Stretch(m, s[k])
<1>1. \A k \in 1 .. n : m2[s[k]] = m[s[k]]
  BY ChainHeads
<1>2. \A k \in 1 .. n : Stretch(m2, s[k]) = Stretch(m, s[k])
  BY <1>1 DEF Stretch
<1> QED BY <1>1, <1>2 DEF Chain

\* A table g becomes the first chunk.
Pushed(m, head, lev, n, s, g, m2, lev2, s2) ==
  /\ g \in Frame /\ lev[g] # 0
  /\ m2[g] = Node(1, head) /\ \A f \in Frame : f # g => m2[f] = m[f]
  /\ \A f \in Frame : lev2[f] = IF f = g THEN 0 ELSE lev[f]
  /\ s2 \in [Nat -> Frame] /\ \A k \in Nat : s2[k] = IF k = n + 1 THEN g ELSE s[k]

LEMMA PushChain ==
  ASSUME NEW m, NEW head, NEW lev, NEW n, NEW s, NEW g, NEW m2, NEW lev2, NEW s2,
         Chain(m, head, lev, n, s), Pushed(m, head, lev, n, s, g, m2, lev2, s2)
  PROVE  /\ Chain(m2, g, lev2, n + 1, s2)
         /\ s2[n + 1] = g /\ \A f : f \in Stretch(m2, g) <=> f = g
         /\ \A k \in 1 .. n : s2[k] = s[k] /\ Stretch(m2, s[k]) = Stretch(m, s[k])
<1> USE DEF Pushed
<1>1. n \in Nat /\ s \in [Nat -> Frame]
  BY DEF Chain
<1>2. s2 \in [Nat -> Frame] /\ s2[n + 1] = g /\ \A k \in Nat : k # n + 1 => s2[k] = s[k]
  BY <1>1
<1>3. \A k \in 1 .. n : s[k] # g /\ s[k] \in Frame /\ s2[k] = s[k]
  BY <1>1, <1>2, ChainHeads
<1>4. m2[g] = Node(1, head) /\ \A f \in Frame : f # g => m2[f] = m[f]
  OBVIOUS
<1>5. \A k \in 1 .. n : Stretch(m2, s[k]) = Stretch(m, s[k])
  BY <1>3, <1>4 DEF Stretch
<1>6. Stretch(m2, g) = {g}
  <2>1. m2[g].size = 1 /\ g \in Nat
    BY <1>4, Constants DEF Node, Frame
  <2> QED BY <2>1 DEF Stretch
<1>7. \A f \in Frame : lev[f] = 0 => lev2[f] = 0 /\ f # g
  OBVIOUS
<1>8. g = IF n + 1 = 0 THEN NULL ELSE s2[n + 1]
  BY <1>1, <1>2
<1>9. ASSUME NEW k \in 1 .. n + 1
      PROVE  /\ m2[s2[k]].is = "node"
             /\ m2[s2[k]].next = IF k = 1 THEN NULL ELSE s2[k - 1]
             /\ m2[s2[k]].size \in Nat \ {0}
             /\ \A f \in Stretch(m2, s2[k]) : f \in Frame /\ lev2[f] = 0
  <2>1. CASE k = n + 1
    <3>1. m2[s2[k]] = Node(1, head)
      BY <2>1, <1>2, <1>4
    <3>2. head = IF k = 1 THEN NULL ELSE s2[k - 1]
      <4>1. head = IF n = 0 THEN NULL ELSE s[n]
        BY DEF Chain
      <4> QED BY <4>1, <2>1, <1>1, <1>2
    <3>3. \A f \in Stretch(m2, s2[k]) : f \in Frame /\ lev2[f] = 0
      <4>1. Stretch(m2, s2[k]) = {g} /\ lev2[g] = 0
        BY <2>1, <1>2, <1>6
      <4> QED BY <4>1
    <3>4. m2[s2[k]].is = "node" /\ m2[s2[k]].next = head /\ m2[s2[k]].size \in Nat \ {0}
      BY <3>1 DEF Node
    <3> QED BY <3>2, <3>3, <3>4
  <2>2. CASE k # n + 1
    <3>1. k \in 1 .. n
      BY <2>2, <1>1
    <3>2. m2[s2[k]] = m[s[k]] /\ s2[k] = s[k] /\ (k # 1 => s2[k - 1] = s[k - 1])
      BY <3>1, <1>1, <1>2, <1>3, <1>4
    <3>3. /\ m[s[k]].is = "node"
          /\ m[s[k]].next = IF k = 1 THEN NULL ELSE s[k - 1]
          /\ m[s[k]].size \in Nat \ {0}
          /\ \A f \in Stretch(m, s[k]) : f \in Frame /\ lev[f] = 0
      BY <3>1 DEF Chain
    <3> QED BY <3>1, <3>2, <3>3, <1>5, <1>7
  <2> QED BY <2>1, <2>2
<1>10. \A k \in 1 .. n : g \notin Stretch(m, s[k])
  BY DEF Chain
<1>11. ASSUME NEW k \in 1 .. n + 1, NEW l \in 1 .. n + 1, NEW f \in Frame,
              f \in Stretch(m2, s2[k]), f \in Stretch(m2, s2[l])
       PROVE  k = l
  <2>1. CASE k = n + 1 /\ l = n + 1
    BY <2>1
  <2>2. CASE k = n + 1 /\ l # n + 1
    <3>1. l \in 1 .. n /\ s2[k] = g
      BY <2>2, <1>1, <1>2
    <3>2. f = g
      BY <3>1, <1>6, <1>11
    <3>3. f \in Stretch(m, s[l])
      BY <3>1, <1>3, <1>5, <1>11
    <3> QED BY <3>1, <3>2, <3>3, <1>10
  <2>3. CASE l = n + 1 /\ k # n + 1
    <3>1. k \in 1 .. n /\ s2[l] = g
      BY <2>3, <1>1, <1>2
    <3>2. f = g
      BY <3>1, <1>6, <1>11
    <3>3. f \in Stretch(m, s[k])
      BY <3>1, <1>3, <1>5, <1>11
    <3> QED BY <3>1, <3>2, <3>3, <1>10
  <2>4. CASE k # n + 1 /\ l # n + 1
    <3>1. k \in 1 .. n /\ l \in 1 .. n
      BY <2>4, <1>1
    <3> QED BY <3>1, <1>3, <1>5, <1>11 DEF Chain
  <2> QED BY <2>1, <2>2, <2>3, <2>4
<1>12. n + 1 \in Nat
  BY <1>1
<1>13. Chain(m2, g, lev2, n + 1, s2)
  BY <1>2, <1>8, <1>9, <1>11, <1>12 DEF Chain
<1> QED BY <1>2, <1>3, <1>5, <1>6, <1>13

\* The last page of the first chunk becomes a table; the chunk goes if it had
\* no other.
Popped(m, head, lev, n, page, m2, head2, lev2, n2) ==
  /\ page = head + m[head].size - 1
  /\ \A f \in Frame : lev[f] = 0 /\ f # page /\ f # head => m2[f] = m[f]
  /\ m[head].size # 1 =>
       m2[head].is = "node" /\ m2[head].size = m[head].size - 1 /\ m2[head].next = m[head].next
  /\ \A f \in Frame : f # page => lev2[f] = lev[f]
  /\ head2 = IF m[head].size = 1 THEN m[head].next ELSE head
  /\ n2 = IF m[head].size = 1 THEN n - 1 ELSE n

LEMMA PopChain ==
  ASSUME NEW m, NEW head, NEW lev, NEW n, NEW s, NEW page, NEW m2, NEW head2, NEW lev2, NEW n2,
         Chain(m, head, lev, n, s), n # 0, Popped(m, head, lev, n, page, m2, head2, lev2, n2)
  PROVE  /\ head \in Frame /\ page \in Frame /\ lev[page] = 0 /\ page \in Stretch(m, head)
         /\ head = s[n] /\ n \in 1 .. n
         /\ Chain(m2, head2, lev2, n2, s)
         /\ \A k \in 1 .. n2 : k \in 1 .. n /\ \A f : f \in Stretch(m2, s[k]) <=> f \in Stretch(m, s[k]) /\ f # page
         /\ \A f \in Stretch(m, s[n]) : n2 = n \/ f = page
<1> USE DEF Popped
<1>1. n \in Nat /\ n \in 1 .. n /\ s \in [Nat -> Frame] /\ head = s[n] /\ head \in Frame
  BY DEF Chain
<1>2. head \in Nat /\ m[head].size \in Nat \ {0}
  BY <1>1, Constants DEF Frame, Chain
<1>3. page \in Stretch(m, head) /\ page \in Nat
  BY <1>2 DEF Stretch
<1>4. page \in Frame /\ lev[page] = 0
  BY <1>1, <1>3 DEF Chain
<1>5. n2 \in Nat /\ n2 <= n /\ \A k \in 1 .. n2 : k \in 1 .. n
  BY <1>1
<1>6. ASSUME NEW k \in 1 .. n, k # n
      PROVE  m2[s[k]] = m[s[k]] /\ page \notin Stretch(m, s[k])
  <2>1. page \notin Stretch(m, s[k])
    BY <1>1, <1>3, <1>4, <1>6 DEF Chain
  <2>2. s[k] # head
    BY <1>1, <1>6, ChainHeads
  <2>3. s[k] \in Frame /\ lev[s[k]] = 0 /\ s[k] # page
    BY <2>1, ChainHeads
  <2> QED BY <2>1, <2>2, <2>3
<1>7. \A k \in 1 .. n : k # n => Stretch(m2, s[k]) = Stretch(m, s[k]) \ {page}
  BY <1>6 DEF Stretch
<1>8. n2 = n => /\ m[head].size # 1 /\ head2 = head
                /\ Stretch(m2, s[n]) = Stretch(m, s[n]) \ {page}
  BY <1>1, <1>2, <1>3 DEF Stretch
<1>9. n2 # n => Stretch(m, s[n]) = {page} /\ n2 = n - 1 /\ head2 = m[head].next
  BY <1>1, <1>2, <1>3 DEF Stretch
<1>10. \A k \in 1 .. n2 : k \in 1 .. n /\ Stretch(m2, s[k]) = Stretch(m, s[k]) \ {page}
  BY <1>5, <1>7, <1>8, <1>1
<1>11. head2 = IF n2 = 0 THEN NULL ELSE s[n2]
  <2>1. m[s[n]].next = IF n = 1 THEN NULL ELSE s[n - 1]
    BY <1>1 DEF Chain
  <2> QED BY <2>1, <1>1, <1>8, <1>9
<1>12. ASSUME NEW k \in 1 .. n2
       PROVE  /\ m2[s[k]].is = "node"
              /\ m2[s[k]].next = IF k = 1 THEN NULL ELSE s[k - 1]
              /\ m2[s[k]].size \in Nat \ {0}
              /\ \A f \in Stretch(m2, s[k]) : f \in Frame /\ lev2[f] = 0
  <2>1. k \in 1 .. n
    BY <1>5
  <2>2. /\ m[s[k]].is = "node"
        /\ m[s[k]].next = IF k = 1 THEN NULL ELSE s[k - 1]
        /\ m[s[k]].size \in Nat \ {0}
        /\ \A f \in Stretch(m, s[k]) : f \in Frame /\ lev[f] = 0
    BY <2>1 DEF Chain
  <2>3. \A f \in Stretch(m2, s[k]) : f \in Frame /\ lev2[f] = 0
    BY <2>2, <1>10
  <2>4. CASE k # n
    BY <2>1, <2>2, <2>3, <2>4, <1>6
  <2>5. CASE k = n
    BY <2>2, <2>3, <2>5, <1>1, <1>2, <1>5, <1>8
  <2> QED BY <2>4, <2>5
<1>13. \A k, l \in 1 .. n2 : \A f \in Frame :
         f \in Stretch(m2, s[k]) /\ f \in Stretch(m2, s[l]) => k = l
  BY <1>10 DEF Chain
<1>14. Chain(m2, head2, lev2, n2, s)
  BY <1>1, <1>5, <1>11, <1>12, <1>13 DEF Chain
<1> QED BY <1>1, <1>3, <1>4, <1>9, <1>10, <1>14

LEMMA PushWhole ==
  ASSUME NEW m, NEW lev, NEW n \in Nat, NEW s, Whole(m, lev, n, s),
         NEW m2, NEW lev2, NEW s2, NEW g \in Frame, lev[g] \in 1 .. 3,
         \A f \in Frame : lev2[f] = IF f = g THEN 0 ELSE lev[f],
         s2[n + 1] = g, \A f : f \in Stretch(m2, g) <=> f = g,
         \A k \in 1 .. n : s2[k] = s[k] /\ Stretch(m2, s[k]) = Stretch(m, s[k])
  PROVE  Whole(m2, lev2, n + 1, s2)
<1> SUFFICES ASSUME NEW f \in Frame
             PROVE  f \in Usable \cup Tables(Boot) <=>
                      lev2[f] \in 1 .. 3 \/ \E k \in 1 .. n + 1 : f \in Stretch(m2, s2[k])
  BY DEF Whole
<1>1. f \in Usable \cup Tables(Boot) <=>
        lev[f] \in 1 .. 3 \/ \E k \in 1 .. n : f \in Stretch(m, s[k])
  BY DEF Whole
<1>2. (\E k \in 1 .. n + 1 : f \in Stretch(m2, s2[k])) <=>
        f = g \/ \E k \in 1 .. n : f \in Stretch(m, s[k])
  <2>1. ASSUME NEW k \in 1 .. n + 1, f \in Stretch(m2, s2[k])
        PROVE  f = g \/ \E l \in 1 .. n : f \in Stretch(m, s[l])
    <3>1. CASE k = n + 1
      BY <2>1, <3>1
    <3>2. CASE k # n + 1
      <4>1. k \in 1 .. n
        BY <3>2
      <4> QED BY <4>1, <2>1
    <3> QED BY <3>1, <3>2
  <2>2. ASSUME NEW k \in 1 .. n, f \in Stretch(m, s[k])
        PROVE  \E l \in 1 .. n + 1 : f \in Stretch(m2, s2[l])
    <3>1. k \in 1 .. n + 1 /\ f \in Stretch(m2, s2[k])
      BY <2>2
    <3> QED BY <3>1
  <2>3. n + 1 \in 1 .. n + 1 /\ g \in Stretch(m2, s2[n + 1])
    OBVIOUS
  <2> QED BY <2>1, <2>2, <2>3
<1>3. lev2[f] \in 1 .. 3 <=> f # g /\ lev[f] \in 1 .. 3
  OBVIOUS
<1> QED BY <1>1, <1>2, <1>3

Popping(m, lev, n, s, page, h, m2, lev2, n2) ==
  /\ n \in Nat /\ n2 \in Nat /\ lev2[page] \in 1 .. 3
  /\ \A f \in Frame : f # page => lev2[f] = lev[f]
  /\ h \in 1 .. n /\ page \in Stretch(m, s[h])
  /\ \A k \in 1 .. n2 :
       k \in 1 .. n /\ \A f : f \in Stretch(m2, s[k]) <=> f \in Stretch(m, s[k]) /\ f # page
  /\ \A k \in 1 .. n : k \in 1 .. n2 \/ \A f \in Stretch(m, s[k]) : f = page

LEMMA PopWhole ==
  ASSUME NEW m, NEW lev, NEW n, NEW s, NEW page, NEW h, NEW m2, NEW lev2, NEW n2,
         Whole(m, lev, n, s), Popping(m, lev, n, s, page, h, m2, lev2, n2)
  PROVE  Whole(m2, lev2, n2, s)
<1> USE DEF Popping
<1> SUFFICES ASSUME NEW f \in Frame
             PROVE  f \in Usable \cup Tables(Boot) <=>
                      lev2[f] \in 1 .. 3 \/ \E k \in 1 .. n2 : f \in Stretch(m2, s[k])
  BY DEF Whole
<1>1. f \in Usable \cup Tables(Boot) <=>
        lev[f] \in 1 .. 3 \/ \E k \in 1 .. n : f \in Stretch(m, s[k])
  BY DEF Whole
<1>2. CASE f = page
  BY <1>1, <1>2
<1>3. CASE f # page
  <2>1. (\E k \in 1 .. n : f \in Stretch(m, s[k])) <=> \E k \in 1 .. n2 : f \in Stretch(m2, s[k])
    BY <1>3
  <2> QED BY <1>1, <1>3, <2>1
<1> QED BY <1>2, <1>3

-----------------------------------------------------------------------------
(* Frames and their contents.                                              *)

LEMMA TableIn ==
  ASSUME NEW m \in [Frame -> Content], NEW f \in Frame, m[f].is = "table"
  PROVE  /\ m[f] \in [is : {"table"}, entry : [Index -> Entry]]
         /\ m[f].entry \in [Index -> Entry]
         /\ \A i \in Index :
              /\ m[f].entry[i] \in Entry
              /\ m[f].entry[i].present \in BOOLEAN /\ m[f].entry[i].page_size \in BOOLEAN
              /\ m[f].entry[i].prot \in Protection /\ m[f].entry[i].address \in Frame
<1>1. m[f] \in [is : {"table"}, entry : [Index -> Entry]]
  BY DEF Content
<1>2. m[f].entry \in [Index -> Entry]
  BY <1>1
<1>3. \A i \in Index : m[f].entry[i] \in Entry
  BY <1>2
<1> QED BY <1>1, <1>2, <1>3 DEF Entry

\* One entry of a table is written.
Written(m, f, i, e) == [m EXCEPT ![f].entry[i] = e]

LEMMA SetEntry ==
  ASSUME NEW m \in [Frame -> Content], NEW f \in Frame, m[f].is = "table",
         NEW i \in Index, NEW e \in Entry,
         NEW m2, m2 = Written(m, f, i, e)
  PROVE  /\ m2 \in [Frame -> Content]
         /\ \A g \in Frame : g # f => m2[g] = m[g]
         /\ m2[f].is = "table" /\ m2[f].entry[i] = e
         /\ \A j \in Index : j # i => m2[f].entry[j] = m[f].entry[j]
<1>1. m[f] \in [is : {"table"}, entry : [Index -> Entry]]
  BY TableIn
<1> DEFINE t == [m[f] EXCEPT !.entry = [m[f].entry EXCEPT ![i] = e]]
<1>2. t \in [is : {"table"}, entry : [Index -> Entry]]
  BY <1>1
<1>3. m2 = [m EXCEPT ![f] = t]
  BY DEF Written
<1>4. t.is = "table" /\ t.entry[i] = e /\ \A j \in Index : j # i => t.entry[j] = m[f].entry[j]
  BY <1>1
<1>5. t \in Content
  BY <1>2 DEF Content
<1> HIDE DEF t
<1> QED BY <1>3, <1>4, <1>5

LEMMA Values ==
  /\ AnyProt \in Protection
  /\ Zero \in Entry /\ ~Zero.present /\ ~Zero.page_size
  /\ Empty \in Content /\ Empty.is = "table"
  /\ \A i \in Index : Empty.entry[i] = Zero
  /\ FirstPage \in Page
<1>1. AnyProt \in Protection
  BY MemoryAssumption DEF AnyProt
<1>2. 0 \in Frame /\ 0 \in Index
  BY Constants DEF Frame, Index
<1>3. Zero \in Entry /\ ~Zero.present /\ ~Zero.page_size
  BY <1>1, <1>2 DEF Zero, Entry
<1>4. Empty \in [is : {"table"}, entry : [Index -> Entry]] /\ Empty.is = "table"
  BY <1>3 DEF Empty, Table
<1>5. \A i \in Index : Empty.entry[i] = Zero
  BY DEF Empty, Table
<1>6. Empty \in Content
  BY <1>4 DEF Content
<1>7. FirstPage \in Page
  BY <1>2 DEF FirstPage, Page
<1> QED BY <1>1, <1>3, <1>4, <1>5, <1>6, <1>7

LEMMA NodeIn ==
  ASSUME NEW k \in 0 .. NumFrames, NEW f \in Frame \cup {NULL}
  PROVE  Node(k, f) \in Content
BY DEF Node, Content

\* A page is given back to the free list.
LEMMA FreeType ==
  ASSUME mem \in [Frame -> Content], FREELIST \in Frame \cup {NULL},
         NEW g \in Frame, pmem_free(g)
  PROVE  mem' \in [Frame -> Content] /\ FREELIST' = g /\ FREELIST' \in Frame \cup {NULL}
<1>1. Node(1, FREELIST) \in Content
  BY NodeIn, Constants
<1> QED BY <1>1 DEF pmem_free, Rest

-----------------------------------------------------------------------------
(* What pmem_alloc sees of the free list.                                  *)

\* There are no more chunks than frames.
LEMMA ChainBound ==
  ASSUME NEW m, NEW head, NEW lev, NEW n, NEW s, Chain(m, head, lev, n, s)
  PROVE  n \in 0 .. NumFrames
<1>1. n \in Nat /\ s \in [Nat -> Frame]
  BY DEF Chain
<1>2. IsFiniteSet(1 .. n) /\ Cardinality(1 .. n) = n
  BY <1>1, FS_Interval
<1>3. IsFiniteSet(Frame) /\ Cardinality(Frame) = NumFrames
  BY Constants, FS_Interval DEF Frame
<1> DEFINE f == [k \in 1 .. n |-> s[k]]
<1>4. f \in [1 .. n -> Frame]
  BY <1>1
<1>5. \A k, l \in 1 .. n : f[k] = f[l] => k = l
  BY ChainHeads
<1> HIDE DEF f
<1>6. ~(NumFrames < n)
  <2>1. SUFFICES ASSUME Cardinality(Frame) < Cardinality(1 .. n) PROVE FALSE
    BY <1>2, <1>3
  <2>2. \E k, l \in 1 .. n : k # l /\ f[k] = f[l]
    BY Zenon, <2>1, <1>2, <1>3, <1>4, FS_PigeonHole
  <2> QED BY <2>2, <1>5
<1> QED BY <1>1, <1>6, Constants

LEMMA ChunkIs ==
  ASSUME NEW lev, NEW n, NEW s, Chain(mem, FREELIST, lev, n, s)
  PROVE  Chunk = [k \in 0 .. NumFrames |-> IF k < n THEN s[n - k] ELSE NULL]
<1> DEFINE After(c, k) ==
             IF k = 0 THEN FREELIST ELSE IF c[k - 1] = NULL THEN NULL ELSE mem[c[k - 1]].next
           w == [k \in 0 .. NumFrames |-> IF k < n THEN s[n - k] ELSE NULL]
<1>1. n \in 0 .. NumFrames /\ NumFrames \in Nat
  BY ChainBound, Constants
<1>2. s \in [Nat -> Frame] /\ FREELIST = IF n = 0 THEN NULL ELSE s[n]
  BY DEF Chain
<1>3. \A k \in 1 .. n : s[k] # NULL /\ mem[s[k]].next = IF k = 1 THEN NULL ELSE s[k - 1]
  BY <1>1, <1>2, Constants DEF Chain, Frame, NULL
<1>4. ASSUME NEW k \in 0 .. NumFrames PROVE w[k] = After(w, k)
  <2>1. CASE k = 0
    BY <2>1, <1>1, <1>2
  <2>2. CASE k # 0 /\ k - 1 < n
    <3>1. n - (k - 1) \in 1 .. n /\ k - 1 \in 0 .. NumFrames /\ n - (k - 1) - 1 = n - k
      BY <2>2, <1>1
    <3>2. w[k - 1] = s[n - (k - 1)]
      BY <2>2, <3>1
    <3>3. n - (k - 1) = 1 <=> ~(k < n)
      BY <2>2, <1>1
    <3> QED BY <2>2, <3>1, <3>2, <3>3, <1>3
  <2>3. CASE k # 0 /\ ~(k - 1 < n)
    BY <2>3, <1>1
  <2> QED BY <2>1, <2>2, <2>3
<1>5. w = [k \in 0 .. NumFrames |-> After(w, k)]
  BY <1>4
<1> DEFINE IsChunk(c) ==
             c = [k \in 0 .. NumFrames |->
                    IF k = 0 THEN FREELIST ELSE IF c[k - 1] = NULL THEN NULL ELSE mem[c[k - 1]].next]
<1>6. IsChunk(w)
  BY <1>5
<1>7. Chunk = CHOOSE c : IsChunk(c)
  BY DEF Chunk
<1> HIDE DEF IsChunk
<1>8. IsChunk(Chunk)
  BY <1>6, <1>7
<1>9. Chunk = [k \in 0 .. NumFrames |-> After(Chunk, k)]
  BY <1>8 DEF IsChunk
<1>10. w = [k \in 0 .. NumFrames |-> w[k]]
  OBVIOUS
<1> HIDE DEF w
<1>11. PICK c : c = Chunk
  OBVIOUS
<1>12. \A k \in 0 .. NumFrames : c[k] = After(c, k)
  BY <1>9, <1>11
<1>13. \A k \in 0 .. NumFrames : c[k] = w[k]
  <2> DEFINE D == {k \in 0 .. NumFrames : c[k] # w[k]}
  <2>1. SUFFICES ASSUME D # {} PROVE FALSE
    OBVIOUS
  <2>2. PICK x \in D : \A y \in D : x <= y
    <3>1. D \in SUBSET Nat
      BY <1>1
    <3> HIDE DEF D
    <3> QED BY <3>1, <2>1, Least
  <2>3. x \in 0 .. NumFrames /\ c[x] # w[x]
    OBVIOUS
  <2>4. x # 0 => c[x - 1] = w[x - 1]
    BY <2>2, <2>3, <1>1
  <2>5. After(c, x) = After(w, x)
    BY <2>4
  <2> QED BY <2>3, <2>5, <1>12, <1>4
<1>14. c = [k \in 0 .. NumFrames |-> c[k]]
  BY <1>9, <1>11
<1>15. c = w
  BY <1>10, <1>13, <1>14
<1> QED BY <1>11, <1>15 DEF w

\* The first chunk that fits is the first one.
LEMMA FirstFits ==
  ASSUME NEW lev, NEW n, NEW s, Chain(mem, FREELIST, lev, n, s)
  PROVE  /\ Fitting = 0 .. n - 1
         /\ n # 0 => Min(Fitting) = 0 /\ Chunk[0] = FREELIST
<1>1. n \in 0 .. NumFrames /\ NumFrames \in Nat
  BY ChainBound, Constants
<1>2. s \in [Nat -> Frame] /\ FREELIST = IF n = 0 THEN NULL ELSE s[n]
  BY DEF Chain
<1>3. \A k \in 1 .. n : s[k] # NULL /\ mem[s[k]].size >= 1
  BY <1>1, <1>2, Constants DEF Chain, Frame, NULL
<1> DEFINE w == [k \in 0 .. NumFrames |-> IF k < n THEN s[n - k] ELSE NULL]
<1>4. Fitting = {k \in DOMAIN w : w[k] # NULL /\ mem[w[k]].size >= 1}
  <2>1. Chunk = w
    BY ChunkIs
  <2> QED BY Zenon, <2>1 DEF Fitting
<1>5. \A k \in DOMAIN w : k < n => n - k \in 1 .. n
  BY <1>1
<1>6. Fitting = 0 .. n - 1
  <2>1. ASSUME NEW k \in 0 .. NumFrames
        PROVE  (w[k] # NULL /\ mem[w[k]].size >= 1) <=> k < n
    BY <1>3, <1>5
  <2>2. Fitting = {k \in 0 .. NumFrames : k < n}
    BY <1>4, <2>1
  <2> QED BY <2>2, <1>1
<1>7. n # 0 => Chunk[0] = FREELIST
  BY <1>1, <1>2, ChunkIs
<1>8. n # 0 => Min(0 .. n - 1) = 0
  <2>1. SUFFICES ASSUME n # 0 PROVE Min(0 .. n - 1) = 0
    OBVIOUS
  <2>2. 0 \in 0 .. n - 1 /\ \A y \in 0 .. n - 1 : 0 <= y
    BY <2>1, <1>1
  <2>3. Min(0 .. n - 1) \in 0 .. n - 1 /\ \A y \in 0 .. n - 1 : Min(0 .. n - 1) <= y
    BY <2>2 DEF Min
  <2> QED BY <2>2, <2>3
<1> QED BY <1>6, <1>7, <1>8

-----------------------------------------------------------------------------
(* What the steps do to the tables and the free list.                      *)

LEMMA Facts ==
  ASSUME NEW lev, NEW n, NEW s, TypeOK, Held(lev, n, s)
  PROVE  /\ mem \in [Frame -> Content]
         /\ lev \in [Frame -> 0 .. 4]
         /\ \A f \in Frame : lev[f] = 4 <=> f = Root
         /\ \A f \in Frame : lev[f] >= 1 => mem[f].is = "table"
         /\ n \in Nat /\ s \in [Nat -> Frame]
BY DEF TypeOK, Held, Tree, Levels, AreTables, Chain

\* No table comes or goes, and no entry that counts changes.
LEMMA HeldSame ==
  ASSUME NEW lev, NEW n, NEW s, Held(lev, n, s), FREELIST' = FREELIST,
         AreTables(mem', lev),
         \A f \in Frame : lev[f] = 0 => mem'[f] = mem[f],
         \A f \in Frame : lev[f] >= 2 => Kept'[f] = Kept[f] /\ Targets(mem')[f] = Targets(mem)[f]
  PROVE  Held(lev, n, s)'
<1>1. Tree(lev, Kept', Targets(mem'))
  <2>1. Tree(lev, Kept, Targets(mem))
    BY DEF Held
  <2> QED BY <2>1, SameTree
<1>2. Chain(mem', FREELIST', lev, n, s) /\ \A k \in 1 .. n : Stretch(mem', s[k]) = Stretch(mem, s[k])
  <2>1. Chain(mem, FREELIST, lev, n, s)
    BY DEF Held
  <2> QED BY <2>1, SameChain
<1>3. Whole(mem', lev, n, s)
  BY <1>2 DEF Held, Whole
<1> QED BY <1>1, <1>2, <1>3 DEF Held

\* Entry i of p is behind the loop, the table it leads to is freed.
LEMMA HeldFree ==
  ASSUME NEW lev, NEW n, NEW s, TypeOK, Held(lev, n, s),
         NEW g \in Frame, NEW p \in Frame, lev[p] >= 2, NEW i \in Kept[p],
         g = Targets(mem)[p][i],
         lev[g] >= 2 => Kept[g] = {},
         pmem_free(g),
         \A f \in Frame : lev[f] >= 2 /\ f # g =>
           \A j : j \in Kept'[f] <=> j \in Kept[f] /\ ~(f = p /\ j = i)
  PROVE  Held([lev EXCEPT ![g] = 0], n + 1, [s EXCEPT ![n + 1] = g])'
<1>1. PICK lev2 : lev2 = [lev EXCEPT ![g] = 0]
  OBVIOUS
<1>2. PICK s2 : s2 = [s EXCEPT ![n + 1] = g]
  OBVIOUS
<1>3. /\ Tree(lev, Kept, Targets(mem)) /\ AreTables(mem, lev)
      /\ Chain(mem, FREELIST, lev, n, s) /\ Whole(mem, lev, n, s)
  BY DEF Held
<1>4. /\ mem \in [Frame -> Content] /\ lev \in [Frame -> 0 .. 4] /\ n \in Nat
      /\ \A f \in Frame : lev[f] = 4 <=> f = Root
  BY Facts
<1>5. lev[g] = lev[p] - 1 /\ lev[g] \in 1 .. 3
  BY <1>3, <1>4 DEF Tree, Down
<1>6. mem' = [mem EXCEPT ![g] = Node(1, FREELIST)] /\ FREELIST' = g
  BY DEF pmem_free, Rest
<1>7. \A f \in Frame : f # g => mem'[f] = mem[f]
  BY <1>6, <1>4
<1>8. \A f \in Frame : f # g => Targets(mem')[f] = Targets(mem)[f]
  BY <1>7 DEF Targets
<1> /\ lev2 \in [Frame -> 0 .. 4] /\ \A f \in Frame : lev2[f] = IF f = g THEN 0 ELSE lev[f]
    /\ s2 \in [Nat -> Frame] /\ \A k \in Nat : s2[k] = IF k = n + 1 THEN g ELSE s[k]
  BY <1>1, <1>2, <1>4, Facts
<1>9. Tree(lev2, Kept', Targets(mem'))
  <2>1. Removed(lev, Kept, Targets(mem), p, i, g, lev2, Kept', Targets(mem'))
    BY <1>8 DEF Removed
  <2> QED BY <1>3, <2>1, RemoveTree
<1>10. AreTables(mem', lev2)
  BY <1>1, <1>3, <1>4, <1>7 DEF AreTables
<1>11. /\ Chain(mem', g, lev2, n + 1, s2)
       /\ s2[n + 1] = g /\ \A f : f \in Stretch(mem', g) <=> f = g
       /\ \A k \in 1 .. n : s2[k] = s[k] /\ Stretch(mem', s[k]) = Stretch(mem, s[k])
  <2>1. lev[g] # 0 /\ mem'[g] = Node(1, FREELIST)
    BY <1>4, <1>5, <1>6
  <2>2. Pushed(mem, FREELIST, lev, n, s, g, mem', lev2, s2)
    BY <1>7, <2>1 DEF Pushed
  <2> QED BY <1>3, <2>2, PushChain
<1>12. Whole(mem', lev2, n + 1, s2)
  BY <1>3, <1>4, <1>5, <1>11, PushWhole
<1>13. Held(lev2, n + 1, s2)'
  BY <1>6, <1>9, <1>10, <1>11, <1>12 DEF Held
<1> QED BY <1>1, <1>2, <1>13

\* A page leaves the free list, and entry i of p leads to it.
Linked(lev, p, i, page) ==
  /\ page \in Frame /\ lev[page] = 0
  /\ mem' \in [Frame -> Content] /\ mem'[page] = Empty
  /\ \A f \in Frame : lev[f] >= 1 /\ f # p => mem'[f] = mem[f]
  /\ mem'[p].is = "table" /\ \A j \in Index : j # i => mem'[p].entry[j] = mem[p].entry[j]
  /\ mem'[p].entry[i].present /\ mem'[p].entry[i].address = page
  /\ mem'[p].entry[i].page_size = mem[p].entry[i].page_size

LEMMA LinkStep ==
  ASSUME NEW lev, NEW n, NEW s, TypeOK, Held(lev, n, s),
         level \in 2 .. 4, lev[cur_table] = level, address \in Page, NewTable
  PROVE  \E page : /\ Linked(lev, cur_table, IndexAt(address, level), page)
                   /\ cur_table' = page
                   /\ n # 0 /\ page = FREELIST + mem[FREELIST].size - 1
                   /\ \A f \in Frame : lev[f] = 0 /\ f # page /\ f # FREELIST => mem'[f] = mem[f]
                   /\ mem[FREELIST].size # 1 =>
                        /\ mem'[FREELIST].is = "node" /\ mem'[FREELIST].next = mem[FREELIST].next
                        /\ mem'[FREELIST].size = mem[FREELIST].size - 1
                   /\ FREELIST' = IF mem[FREELIST].size = 1 THEN mem[FREELIST].next ELSE FREELIST
                   /\ FREELIST' \in Frame \cup {NULL}
<1>1. /\ mem \in [Frame -> Content] /\ lev \in [Frame -> 0 .. 4] /\ cur_table \in Frame
      /\ \A f \in Frame : lev[f] >= 1 => mem[f].is = "table"
      /\ FREELIST \in Frame \cup {NULL}
  BY Facts DEF TypeOK
<1>2. Chain(mem, FREELIST, lev, n, s)
  BY DEF Held
<1>3. n # 0
  <2>1. Fitting # {} /\ Fitting = 0 .. n - 1
    BY <1>2, FirstFits DEF NewTable
  <2> QED BY <2>1
<1>4. Min(Fitting) = 0 /\ Chunk[0] = FREELIST
  BY <1>2, <1>3, FirstFits
<1> DEFINE p == cur_table
           i == IndexAt(address, level)
           head == FREELIST
           size == mem[head].size
           page == head + size - 1
           next == mem[head].next
<1>5. i \in Index
  <2>1. 5 - level \in 1 .. 4 /\ address \in [1 .. 4 -> Index]
    BY DEF Page
  <2> QED BY <2>1 DEF IndexAt
<1>6. n \in 1 .. n /\ head = s[n] /\ s[n] \in Frame /\ lev[head] = 0 /\ head \in Frame
  <2>1. n \in Nat /\ head = s[n]
    BY <1>2, <1>3 DEF Chain
  <2>2. n \in 1 .. n
    BY <1>3, <2>1
  <2> QED BY <1>2, <2>1, <2>2, ChainHeads
<1>7. /\ size \in Nat \ {0} /\ mem[head].is = "node" /\ \A f \in Stretch(mem, head) : f \in Frame /\ lev[f] = 0
  BY <1>2, <1>6 DEF Chain
<1>8. page \in Frame /\ lev[page] = 0
  <2>1. head \in Nat
    BY <1>6, Constants DEF Frame
  <2>2. page \in Stretch(mem, head)
    BY <2>1, <1>7 DEF Stretch
  <2> QED BY <2>2, <1>7
<1>9. p # head /\ p # page
  BY <1>6, <1>8
<1> DEFINE m1 == [mem EXCEPT ![head].size = size - 1]
           m2 == [m1 EXCEPT ![page] = Empty]
           e == [m2[p].entry[i] EXCEPT !.present = TRUE, !.address = page]
<1>11. FREELIST' = IF size = 1 THEN next ELSE head
  <2>1. FREELIST' = FirstChunk(0)
    BY <1>4 DEF NewTable
  <2>2. size - 1 = 0 <=> size = 1
    BY <1>7
  <2> QED BY <2>1, <2>2, <1>4 DEF FirstChunk, Shrunk
<1>12. mem[head] \in [is : {"node"}, size : 0 .. NumFrames, next : Frame \cup {NULL}]
  BY <1>1, <1>6, <1>7 DEF Content
<1>13. m1 \in [Frame -> Content] /\ \A f \in Frame : f # head => m1[f] = mem[f]
  <2>1. [mem[head] EXCEPT !.size = size - 1] \in [is : {"node"}, size : 0 .. NumFrames, next : Frame \cup {NULL}]
    <3>1. size \in 0 .. NumFrames /\ size - 1 \in 0 .. NumFrames
      BY <1>7, <1>12, Constants
    <3> QED BY <3>1, <1>12
  <2>2. [mem[head] EXCEPT !.size = size - 1] \in Content
    BY <2>1 DEF Content
  <2>3. m1 = [mem EXCEPT ![head] = [mem[head] EXCEPT !.size = size - 1]]
    OBVIOUS
  <2> HIDE DEF m1
  <2> QED BY <2>2, <2>3, <1>1, <1>6
<1>14. m1[head].size = size - 1 /\ m1[head].is = "node" /\ m1[head].next = next
  BY <1>1, <1>6, <1>7, <1>12
<1>10. mem' = Written(m2, p, i, e) /\ cur_table' = page
  <2>1. PICK c : c = m1
    OBVIOUS
  <2>2. Chopped(0) = c /\ LastPage(Chunk[0]) = page
    BY <2>1, <1>4 DEF Chopped, Shrunk, LastPage
  <2>3. /\ mem' = [c EXCEPT ![page] = Empty,
                      ![p].entry[i] = [@ EXCEPT !.present = TRUE, !.address = page]]
        /\ cur_table' = page
    BY <2>2, <1>4 DEF NewTable
  <2>4. c \in [Frame -> Content]
    BY <2>1, <1>13
  <2> HIDE DEF m1
  <2>5. mem' = Written([c EXCEPT ![page] = Empty], p, i,
                       [[c EXCEPT ![page] = Empty][p].entry[i] EXCEPT !.present = TRUE, !.address = page])
    <3> HIDE DEF p, i, head, size, page
    <3>1. page \in Frame /\ p \in Frame /\ p # page
      BY <1>1, <1>8, <1>9 DEF p
    <3> QED BY <2>3, <2>4, <3>1 DEF Written
  <2> QED BY <2>1, <2>3, <2>5
<1> HIDE DEF m1
<1>15. m2 \in [Frame -> Content] /\ m2[page] = Empty /\ \A f \in Frame : f # page => m2[f] = m1[f]
  BY <1>8, <1>13, Values
<1> HIDE DEF m2
<1>16. m2[p] = mem[p] /\ m2[p].is = "table"
  BY <1>1, <1>9, <1>13, <1>15
<1>17. mem[p].entry[i] \in Entry
  BY <1>1, <1>5, TableIn
<1>18. e \in Entry /\ e.present /\ e.address = page /\ e.page_size = mem[p].entry[i].page_size
  BY <1>8, <1>16, <1>17 DEF Entry
<1> HIDE DEF e
<1>19. /\ mem' \in [Frame -> Content]
       /\ \A f \in Frame : f # p => mem'[f] = m2[f]
       /\ mem'[p].is = "table" /\ mem'[p].entry[i] = e
       /\ \A j \in Index : j # i => mem'[p].entry[j] = m2[p].entry[j]
  BY <1>1, <1>5, <1>10, <1>15, <1>16, <1>18, SetEntry
<1>20. Linked(lev, p, i, page)
  <2>1. mem'[page] = Empty
    BY <1>8, <1>9, <1>15, <1>19
  <2>2. ASSUME NEW f \in Frame, lev[f] >= 1, f # p PROVE mem'[f] = mem[f]
    <3>1. f # page /\ f # head
      BY <2>2, <1>6, <1>8
    <3> QED BY <2>2, <3>1, <1>13, <1>15, <1>19
  <2> QED BY <2>1, <2>2, <1>8, <1>16, <1>18, <1>19 DEF Linked
<1>21. \A f \in Frame : lev[f] = 0 /\ f # page /\ f # head => mem'[f] = mem[f]
  BY <1>13, <1>15, <1>19
<1>22. size # 1 =>
         mem'[head].is = "node" /\ mem'[head].next = next /\ mem'[head].size = size - 1
  <2>1. SUFFICES ASSUME size # 1 PROVE mem'[head] = m1[head]
    BY <1>14
  <2>2. head # page
    <3>1. head \in Int
      BY <1>6, Constants DEF Frame
    <3>2. PICK k \in Nat : k = size /\ k # 1
      BY <2>1, <1>7
    <3>3. head # head + k - 1
      BY <3>1, <3>2
    <3> QED BY Zenon, <3>2, <3>3
  <2> QED BY <2>2, <1>6, <1>9, <1>15, <1>19
<1>23. FREELIST' \in Frame \cup {NULL}
  BY <1>6, <1>11, <1>12
<1> QED BY <1>3, <1>10, <1>11, <1>20, <1>21, <1>22, <1>23

-----------------------------------------------------------------------------
(* The way down to a page.                                                 *)

WayKept(a, l) ==
  /\ l <= 3 => a[1] \in Kept[Root]
  /\ l <= 2 => a[2] \in Kept[P3(mem, a)]
  /\ l <= 1 => a[3] \in Kept[P2(mem, a)]

LEMMA IndexIn ==
  ASSUME NEW a \in Page
  PROVE  a[1] \in Index /\ a[2] \in Index /\ a[3] \in Index /\ a[4] \in Index
BY DEF Page

LEMMA KeptDown ==
  ASSUME NEW lev, NEW n, NEW s, Held(lev, n, s), NEW f \in Frame, lev[f] >= 2, NEW i \in Kept[f]
  PROVE  i \in Index /\ mem[f].entry[i].address \in Frame /\ lev[mem[f].entry[i].address] = lev[f] - 1
<1>1. i \in Index
  BY DEF Kept
<1>2. Targets(mem)[f][i] = mem[f].entry[i].address
  BY <1>1 DEF Targets
<1>3. Targets(mem)[f][i] \in Frame /\ lev[Targets(mem)[f][i]] = lev[f] - 1
  BY DEF Held, Tree, Down
<1> QED BY <1>1, <1>2, <1>3

LEMMA KeptApart ==
  ASSUME NEW lev, NEW n, NEW s, Held(lev, n, s),
         NEW f \in Frame, lev[f] >= 2, NEW i \in Kept[f],
         NEW g \in Frame, lev[g] >= 2, NEW j \in Kept[g],
         mem[f].entry[i].address = mem[g].entry[j].address
  PROVE  f = g /\ i = j
<1>1. i \in Index /\ j \in Index
  BY DEF Kept
<1>2. Targets(mem)[f][i] = Targets(mem)[g][j]
  BY <1>1 DEF Targets
<1> QED BY <1>2 DEF Held, Tree, Apart

\* The tables on the way are of the levels they should be.
LEMMA WayLevels ==
  ASSUME NEW lev, NEW n, NEW s, TypeOK, Held(lev, n, s), NEW a, NEW l \in 1 .. 4, WayKept(a, l)
  PROVE  /\ lev[Root] = 4 /\ Root \in Frame
         /\ l <= 3 => P3(mem, a) \in Frame /\ lev[P3(mem, a)] = 3
         /\ l <= 2 => P2(mem, a) \in Frame /\ lev[P2(mem, a)] = 2
         /\ l <= 1 => P1(mem, a) \in Frame /\ lev[P1(mem, a)] = 1
         /\ On(mem, a, l) \in Frame /\ lev[On(mem, a, l)] = l
<1>1. lev[Root] = 4 /\ Root \in Frame
  BY Facts, Constants
<1>2. l <= 3 => P3(mem, a) \in Frame /\ lev[P3(mem, a)] = 3
  BY <1>1, KeptDown DEF WayKept, P3
<1>3. l <= 2 => P2(mem, a) \in Frame /\ lev[P2(mem, a)] = 2
  BY <1>2, KeptDown DEF WayKept, P2
<1>4. l <= 1 => P1(mem, a) \in Frame /\ lev[P1(mem, a)] = 1
  BY <1>3, KeptDown DEF WayKept, P1
<1>5. On(mem, a, l) \in Frame /\ lev[On(mem, a, l)] = l
  BY <1>1, <1>2, <1>3, <1>4 DEF On
<1> QED BY <1>1, <1>2, <1>3, <1>4, <1>5

\* Outside of the inner loops every link counts.
LEMMA AllKept ==
  ASSUME pc \notin {"l3", "l2"}, NEW f \in Frame, NEW i
  PROVE  i \in Kept[f] <=> i \in Index /\ HasLink(mem, f, i)
BY DEF Kept

\* The frames above level l on the way to a, one after the other.
LEMMA WayFrames ==
  ASSUME NEW lev, NEW n, NEW s, TypeOK, Held(lev, n, s), pc \notin {"l3", "l2"},
         NEW a \in Page, NEW l \in 1 .. 4, Way(mem, a, l)
  PROVE  WayKept(a, l)
<1>1. Root \in Frame /\ lev[Root] = 4
  BY Facts, Constants
<1>2. l <= 3 => a[1] \in Kept[Root]
  BY <1>1, AllKept, IndexIn DEF Way
<1>3. l <= 3 => P3(mem, a) \in Frame /\ lev[P3(mem, a)] = 3
  BY <1>1, <1>2, KeptDown DEF P3
<1>4. l <= 2 => a[2] \in Kept[P3(mem, a)]
  BY <1>3, AllKept, IndexIn DEF Way
<1>5. l <= 2 => P2(mem, a) \in Frame /\ lev[P2(mem, a)] = 2
  BY <1>3, <1>4, KeptDown DEF P2
<1>6. l <= 1 => a[3] \in Kept[P2(mem, a)]
  BY <1>5, AllKept, IndexIn DEF Way
<1> QED BY <1>2, <1>4, <1>6 DEF WayKept

\* The way is the same if the entries on it are.
LEMMA SameWay ==
  ASSUME NEW m, NEW m2, NEW a, NEW l \in 1 .. 4,
         l <= 3 => m2[Root].entry[a[1]] = m[Root].entry[a[1]],
         l <= 2 => m2[P3(m, a)].entry[a[2]] = m[P3(m, a)].entry[a[2]],
         l <= 1 => m2[P2(m, a)].entry[a[3]] = m[P2(m, a)].entry[a[3]]
  PROVE  /\ Way(m2, a, l) <=> Way(m, a, l)
         /\ On(m2, a, l) = On(m, a, l)
         /\ l <= 3 => P3(m2, a) = P3(m, a)
         /\ l <= 2 => P2(m2, a) = P2(m, a)
         /\ l <= 1 => P1(m2, a) = P1(m, a)
<1>1. l <= 3 => P3(m2, a) = P3(m, a)
  BY DEF P3
<1>2. l <= 2 => P2(m2, a) = P2(m, a)
  BY <1>1 DEF P2
<1>3. l <= 1 => P1(m2, a) = P1(m, a)
  BY <1>2 DEF P1
<1>4. On(m2, a, l) = On(m, a, l)
  BY <1>1, <1>2, <1>3 DEF On
<1>5. Way(m2, a, l) <=> Way(m, a, l)
  BY <1>1, <1>2 DEF Way, HasLink
<1> QED BY <1>1, <1>2, <1>3, <1>4, <1>5

\* A step further down.
LEMMA NextOnWay ==
  ASSUME NEW m, NEW a, NEW l \in 2 .. 4
  PROVE  /\ Way(m, a, l - 1) <=> Way(m, a, l) /\ HasLink(m, On(m, a, l), IndexAt(a, l))
         /\ On(m, a, l - 1) = m[On(m, a, l)].entry[IndexAt(a, l)].address
<1>1. CASE l = 4
  BY <1>1 DEF Way, On, IndexAt, P3, P2, P1
<1>2. CASE l = 3
  BY <1>2 DEF Way, On, IndexAt, P3, P2, P1
<1>3. CASE l = 2
  BY <1>3 DEF Way, On, IndexAt, P3, P2, P1
<1> QED BY <1>1, <1>2, <1>3

-----------------------------------------------------------------------------
(* The steps that change no memory.                                        *)

LEMMA QuietHeld ==
  ASSUME NEW lev, NEW n, NEW s, Held(lev, n, s),
         UNCHANGED mem, UNCHANGED FREELIST, pc \notin {"l3", "l2"}, pc' \notin {"l3", "l2"}
  PROVE  Held(lev, n, s)' /\ \A f \in Frame : Kept'[f] = Kept[f]
<1>1. \A f \in Frame : Kept'[f] = Kept[f]
  BY DEF Kept
<1>2. AreTables(mem, lev)
  BY DEF Held
<1> QED BY <1>1, <1>2, HeldSame

LEMMA CallGood ==
  ASSUME NEW lev, NEW n, NEW s, Good(lev, n, s),
         NEW a \in Address, NEW p \in Protection, vm_map(a, p)
  PROVE  Good(lev, n, s)'
<1> USE DEF vm_map
<1>1. Held(lev, n, s)'
  BY QuietHeld DEF Good
<1>2. TypeOK'
  BY MemoryAssumption DEF TypeOK, Good, loop
<1>3. OnLoop'
  BY DEF OnLoop, Good, loop, Unmapping
<1>4. OnWalk'
  BY DEF OnWalk, Way, On
<1> QED BY <1>1, <1>2, <1>3, <1>4 DEF Good

LEMMA ReturnGood ==
  ASSUME NEW lev, NEW n, NEW s, Good(lev, n, s), pc \in {"idle", "vm_map"}, NEW v, Return(v),
         UNCHANGED mem, UNCHANGED FREELIST, UNCHANGED loop, astray' \in BOOLEAN
  PROVE  Good(lev, n, s)'
<1> USE DEF Return
<1>1. Held(lev, n, s)'
  BY QuietHeld DEF Good
<1>2. TypeOK'
  BY Values, Constants DEF TypeOK, Good, loop
<1>3. OnLoop'
  BY DEF OnLoop, Good, loop, Unmapping
<1>4. OnWalk'
  BY DEF OnWalk
<1> QED BY <1>1, <1>2, <1>3, <1>4 DEF Good

LEMMA UnmapGood ==
  ASSUME NEW lev, NEW n, NEW s, Good(lev, n, s), unmap_lower_half
  PROVE  Good(lev, n, s)'
<1> USE DEF unmap_lower_half
<1>1. Held(lev, n, s)'
  BY QuietHeld DEF Good
<1>2. TypeOK'
  BY Constants DEF TypeOK, Good, args, walk
<1>3. OnLoop'
  BY DEF OnLoop, Good, loop, Unmapping
<1>4. OnWalk'
  BY DEF OnWalk, Good, walk
<1> QED BY <1>1, <1>2, <1>3, <1>4 DEF Good

\* Where a walk is.
LEMMA Walking ==
  ASSUME NEW lev, NEW n, NEW s, Good(lev, n, s), pc = "vm_map"
  PROVE  /\ TypeOK /\ Held(lev, n, s)
         /\ address \in Address /\ address \in Page /\ level \in 1 .. 4 /\ cur_table \in Frame
         /\ Way(mem, address, level) /\ cur_table = On(mem, address, level)
         /\ WayKept(address, level) /\ lev[cur_table] = level
         /\ IndexAt(address, level) \in Index
<1>1. TypeOK /\ Held(lev, n, s)
  BY DEF Good
<1>2. /\ address \in Address /\ level \in 1 .. 4
      /\ Way(mem, address, level) /\ cur_table = On(mem, address, level)
  BY DEF Good, OnWalk
<1>3. address \in Page
  BY <1>1 DEF TypeOK
<1>4. WayKept(address, level)
  BY <1>1, <1>2, <1>3, WayFrames
<1>5. lev[cur_table] = level /\ cur_table \in Frame
  BY <1>1, <1>2, <1>4, WayLevels
<1>6. IndexAt(address, level) \in Index
  BY <1>2, <1>3 DEF IndexAt, Page
<1> QED BY <1>1, <1>2, <1>3, <1>4, <1>5, <1>6

LEMMA DescendGood ==
  ASSUME NEW lev, NEW n, NEW s, Good(lev, n, s), pc = "vm_map", Descend
  PROVE  Good(lev, n, s)'
<1> USE DEF Descend
<1>1. Held(lev, n, s)'
  BY QuietHeld DEF Good
<1>2. level \in 2 .. 4 /\ HasLink(mem, cur_table, IndexAt(address, level))
  BY Walking DEF HasLink, CurEntry
<1>3. Way(mem, address, level - 1) /\ On(mem, address, level - 1) = cur_table'
  BY <1>2, Walking, NextOnWay DEF CurEntry
<1>4. cur_table' \in Frame
  <2>1. Way(mem, address, level') /\ level' \in 1 .. 4 /\ cur_table' = On(mem, address, level')
    BY <1>2, <1>3
  <2>2. WayKept(address, level')
    BY <2>1, Walking, WayFrames
  <2> QED BY <2>1, <2>2, Walking, WayLevels
<1>5. TypeOK'
  BY <1>2, <1>4 DEF TypeOK, Good, args, loop
<1>6. OnLoop'
  BY DEF OnLoop, Good, loop, Unmapping
<1>7. OnWalk'
  BY <1>2, <1>3, Walking DEF OnWalk, args
<1> QED BY <1>1, <1>5, <1>6, <1>7 DEF Good

-----------------------------------------------------------------------------
(* vm_map writes: a new table, and the entry of the page.                  *)

LEMMA LinkedTree ==
  ASSUME NEW lev, NEW n, NEW s, TypeOK, Held(lev, n, s),
         pc = "vm_map", pc' = "vm_map",
         NEW p \in Frame, lev[p] >= 2, NEW i \in Index, ~mem[p].entry[i].present,
         NEW page, Linked(lev, p, i, page), NEW lev2, lev2 = [lev EXCEPT ![page] = lev[p] - 1]
  PROVE  /\ Tree(lev2, Kept', Targets(mem')) /\ AreTables(mem', lev2)
         /\ HasLink(mem', p, i)
<1>1. /\ Tree(lev, Kept, Targets(mem)) /\ AreTables(mem, lev) /\ lev \in [Frame -> 0 .. 4]
      /\ \A f \in Frame : lev[f] >= 1 => mem[f].is = "table"
  BY Facts DEF Held
<1>2. /\ page \in Frame /\ lev[page] = 0 /\ mem'[page] = Empty
      /\ \A f \in Frame : lev[f] >= 1 /\ f # p => mem'[f] = mem[f]
      /\ mem'[p].is = "table" /\ \A j \in Index : j # i => mem'[p].entry[j] = mem[p].entry[j]
      /\ mem'[p].entry[i].present /\ mem'[p].entry[i].address = page
      /\ mem'[p].entry[i].page_size = mem[p].entry[i].page_size
  BY DEF Linked
<1>3. \A f \in Frame : \A j : j \in Kept[f] <=> j \in Index /\ HasLink(mem, f, j)
  BY AllKept
<1>4. \A f \in Frame : \A j : j \in Kept'[f] <=> j \in Index /\ HasLink(mem', f, j)
  BY DEF Kept
<1>5. HasLink(mem', p, i) /\ ~HasLink(mem, p, i)
  BY <1>1, <1>2 DEF HasLink, AreTables
<1>6. Kept'[page] = {}
  <2>1. \A j \in Index : ~HasLink(mem', page, j)
    BY <1>2, Values DEF HasLink
  <2> QED BY <2>1, <1>2, <1>4
<1>7. ASSUME NEW f \in Frame, lev[f] >= 2, f # p
      PROVE  Kept'[f] = Kept[f] /\ Targets(mem')[f] = Targets(mem)[f]
  <2>1. mem'[f] = mem[f]
    BY <1>1, <1>2, <1>7
  <2>2. Targets(mem')[f] = Targets(mem)[f]
    BY <2>1 DEF Targets
  <2>3. Kept'[f] = Kept[f]
    <3>1. \A j : HasLink(mem', f, j) <=> HasLink(mem, f, j)
      BY <2>1 DEF HasLink
    <3>2. \A j : j \in Kept'[f] <=> j \in Kept[f]
      BY <3>1, <1>3, <1>4
    <3> QED BY <3>2
  <2> QED BY <2>2, <2>3
<1>8. \A j \in Index : j # i => (HasLink(mem', p, j) <=> HasLink(mem, p, j))
  BY <1>2 DEF HasLink
<1>9. \A j : j \in Kept'[p] <=> j \in Kept[p] \/ j = i
  BY <1>3, <1>4, <1>5, <1>8
<1>10. Targets(mem')[p][i] = page /\ \A j \in Kept[p] : Targets(mem')[p][j] = Targets(mem)[p][j]
  <2>1. \A j \in Kept[p] : j \in Index /\ j # i
    BY <1>3, <1>5
  <2> QED BY <2>1, <1>2 DEF Targets
<1>11. lev2 \in [Frame -> 0 .. 4] /\ \A f \in Frame : lev2[f] = IF f = page THEN lev[p] - 1 ELSE lev[f]
  BY <1>1, <1>2
<1>12. i \notin Kept[p]
  BY <1>3, <1>5
<1>13. Added(lev, Kept, Targets(mem), p, i, page, lev2, Kept', Targets(mem'))
  BY <1>2, <1>6, <1>7, <1>9, <1>10, <1>11, <1>12 DEF Added
<1>14. Tree(lev2, Kept', Targets(mem'))
  BY <1>1, <1>13, AddTree
<1>15. AreTables(mem', lev2)
  <2>1. SUFFICES ASSUME NEW f \in Frame
                 PROVE  /\ lev2[f] >= 1 => mem'[f].is = "table"
                        /\ lev2[f] >= 2 => \A j \in Index :
                             mem'[f].entry[j].page_size => mem'[f].entry[j].present /\ f # Root
    BY DEF AreTables
  <2>2. CASE f = page
    BY <2>2, <1>2, Values
  <2>3. CASE f # page /\ f # p
    <3>1. lev[f] >= 1 => mem'[f] = mem[f]
      BY <2>3, <1>2
    <3>2. lev2[f] = lev[f]
      BY <2>3, <1>11
    <3> QED BY <3>1, <3>2, <1>1 DEF AreTables
  <2>4. CASE f = p
    <3>1. \A j \in Index : mem'[p].entry[j].page_size = mem[p].entry[j].page_size
      BY <1>2
    <3>2. \A j \in Index : mem[p].entry[j].page_size => mem[p].entry[j].present /\ p # Root
      BY <1>1 DEF AreTables
    <3>3. \A j \in Index : mem[p].entry[j].present => mem'[p].entry[j].present
      BY <1>2
    <3> QED BY <2>4, <3>1, <3>2, <3>3, <1>2
  <2> QED BY <2>2, <2>3, <2>4
<1> QED BY <1>5, <1>14, <1>15

LEMMA LinkedWay ==
  ASSUME NEW lev, NEW n, NEW s, Good(lev, n, s), pc = "vm_map", level >= 2,
         NEW page, Linked(lev, cur_table, IndexAt(address, level), page),
         HasLink(mem', cur_table, IndexAt(address, level))
  PROVE  Way(mem', address, level - 1) /\ On(mem', address, level - 1) = page
<1>1. /\ level \in 2 .. 4 /\ Way(mem, address, level) /\ cur_table = On(mem, address, level)
      /\ lev[cur_table] = level /\ TypeOK /\ Held(lev, n, s) /\ WayKept(address, level)
  BY Walking
<1>2. /\ lev[Root] = 4 /\ Root \in Frame
      /\ level <= 3 => P3(mem, address) \in Frame /\ lev[P3(mem, address)] = 3
      /\ level <= 2 => P2(mem, address) \in Frame /\ lev[P2(mem, address)] = 2
  BY <1>1, WayLevels
<1>3. \A f \in Frame : lev[f] > level => mem'[f] = mem[f]
  <2>1. lev \in [Frame -> 0 .. 4]
    BY <1>1, Facts
  <2> QED BY <2>1, <1>1 DEF Linked
<1>4. /\ Way(mem', address, level) /\ On(mem', address, level) = cur_table
  <2>1. level <= 3 => mem'[Root].entry[address[1]] = mem[Root].entry[address[1]]
    BY <1>1, <1>2, <1>3
  <2>2. level <= 2 => mem'[P3(mem, address)].entry[address[2]] = mem[P3(mem, address)].entry[address[2]]
    BY <1>1, <1>2, <1>3
  <2>3. ~(level <= 1) /\ level \in 1 .. 4
    BY <1>1
  <2> QED BY <2>1, <2>2, <2>3, <1>1, SameWay
<1>5. mem'[cur_table].entry[IndexAt(address, level)].address = page
  BY DEF Linked
<1> QED BY <1>1, <1>4, <1>5, NextOnWay

LEMMA NewTableGood ==
  ASSUME NEW lev, NEW n, NEW s, Good(lev, n, s), pc = "vm_map", NewTable
  PROVE  \E lev2, n2 : Good(lev2, n2, s)'
<1>1. /\ TypeOK /\ Held(lev, n, s) /\ address \in Address /\ address \in Page
      /\ level \in 2 .. 4 /\ lev[cur_table] = level /\ cur_table \in Frame
      /\ IndexAt(address, level) \in Index
  BY Walking DEF NewTable
<1>2. PICK page :
        /\ Linked(lev, cur_table, IndexAt(address, level), page)
        /\ cur_table' = page
        /\ n # 0 /\ page = FREELIST + mem[FREELIST].size - 1
        /\ \A f \in Frame : lev[f] = 0 /\ f # page /\ f # FREELIST => mem'[f] = mem[f]
        /\ mem[FREELIST].size # 1 =>
             /\ mem'[FREELIST].is = "node" /\ mem'[FREELIST].next = mem[FREELIST].next
             /\ mem'[FREELIST].size = mem[FREELIST].size - 1
        /\ FREELIST' = IF mem[FREELIST].size = 1 THEN mem[FREELIST].next ELSE FREELIST
        /\ FREELIST' \in Frame \cup {NULL}
  BY <1>1, LinkStep
<1>3. PICK lev2 : lev2 = [lev EXCEPT ![page] = lev[cur_table] - 1]
  OBVIOUS
<1>4. PICK n2 : n2 = IF mem[FREELIST].size = 1 THEN n - 1 ELSE n
  OBVIOUS
<1>5. pc = "vm_map" /\ pc' = "vm_map" /\ lev[cur_table] >= 2
      /\ ~mem[cur_table].entry[IndexAt(address, level)].present
  BY <1>1 DEF NewTable, CurEntry
<1>6. /\ Tree(lev2, Kept', Targets(mem')) /\ AreTables(mem', lev2)
      /\ HasLink(mem', cur_table, IndexAt(address, level))
  BY <1>1, <1>2, <1>3, <1>5, LinkedTree
<1>7. Way(mem', address, level - 1) /\ On(mem', address, level - 1) = page
  BY <1>1, <1>2, <1>6, LinkedWay
<1>8. /\ lev \in [Frame -> 0 .. 4] /\ n \in Nat /\ page \in Frame /\ lev[page] = 0
      /\ mem' \in [Frame -> Content]
  BY <1>1, <1>2, Facts DEF Linked
<1>9. /\ \A f \in Frame : f # page => lev2[f] = lev[f]
      /\ lev2[page] \in 1 .. 3
  BY <1>1, <1>3, <1>8
<1>10. /\ FREELIST \in Frame /\ page \in Frame /\ lev[page] = 0 /\ page \in Stretch(mem, FREELIST)
       /\ FREELIST = s[n] /\ n \in 1 .. n
       /\ Chain(mem', FREELIST', lev2, n2, s)
       /\ \A k \in 1 .. n2 :
            k \in 1 .. n /\ \A f : f \in Stretch(mem', s[k]) <=> f \in Stretch(mem, s[k]) /\ f # page
       /\ \A f \in Stretch(mem, s[n]) : n2 = n \/ f = page
  <2>1. Popped(mem, FREELIST, lev, n, page, mem', FREELIST', lev2, n2)
    BY <1>2, <1>4, <1>9 DEF Popped
  <2>2. Chain(mem, FREELIST, lev, n, s) /\ n # 0
    BY <1>1, <1>2 DEF Held
  <2>3. FREELIST \in Frame /\ page \in Frame /\ lev[page] = 0 /\ page \in Stretch(mem, FREELIST)
    BY <2>1, <2>2, PopChain
  <2>4. FREELIST = s[n] /\ n \in 1 .. n
    BY <2>1, <2>2, PopChain
  <2>5. Chain(mem', FREELIST', lev2, n2, s)
    BY <2>1, <2>2, PopChain
  <2>6. \A k \in 1 .. n2 :
          k \in 1 .. n /\ \A f : f \in Stretch(mem', s[k]) <=> f \in Stretch(mem, s[k]) /\ f # page
    BY <2>1, <2>2, PopChain
  <2>7. \A f \in Stretch(mem, s[n]) : n2 = n \/ f = page
    BY <2>1, <2>2, PopChain
  <2> QED BY <2>3, <2>4, <2>5, <2>6, <2>7
<1>11. Whole(mem', lev2, n2, s)
  <2>1. n2 \in Nat /\ \A k \in 1 .. n : k \in 1 .. n2 \/ \A f \in Stretch(mem, s[k]) : f = page
    BY <1>4, <1>8, <1>10
  <2>2. Whole(mem, lev, n, s)
    BY <1>1 DEF Held
  <2>3. n \in 1 .. n /\ page \in Stretch(mem, s[n])
    BY <1>10
  <2>4. Popping(mem, lev, n, s, page, n, mem', lev2, n2)
    BY <1>8, <1>9, <1>10, <2>1, <2>3 DEF Popping
  <2> QED BY <2>2, <2>4, PopWhole
<1>12. Held(lev2, n2, s)'
  BY <1>6, <1>10, <1>11 DEF Held
<1>13. level' = level - 1 /\ UNCHANGED loop /\ UNCHANGED args /\ astray' = astray
  BY DEF NewTable
<1>14. TypeOK'
  BY <1>1, <1>2, <1>5, <1>8, <1>13 DEF TypeOK, args, loop
<1>15. OnLoop'
  BY <1>5, <1>13 DEF OnLoop, Good, loop, Unmapping
<1>16. OnWalk'
  BY <1>1, <1>2, <1>5, <1>7, <1>13 DEF OnWalk, args
<1>17. Good(lev2, n2, s)'
  BY <1>12, <1>14, <1>15, <1>16 DEF Good
<1> QED BY <1>17

\* The entry that MapLeaf writes.
LEMMA LeafStep ==
  ASSUME NEW lev, NEW n, NEW s, Good(lev, n, s), pc = "vm_map", MapLeaf
  PROVE  /\ mem' \in [Frame -> Content]
         /\ \A f \in Frame : f # cur_table => mem'[f] = mem[f]
         /\ mem'[cur_table].is = "table"
         /\ mem'[cur_table].entry[address[4]].present
         /\ mem'[cur_table].entry[address[4]].prot = prot
         /\ \A i \in Index : i # address[4] => mem'[cur_table].entry[i] = mem[cur_table].entry[i]
<1>1. /\ TypeOK /\ Held(lev, n, s) /\ address \in Page
      /\ level = 1 /\ lev[cur_table] = 1 /\ cur_table \in Frame
  BY Walking DEF MapLeaf
<1>2. mem \in [Frame -> Content] /\ mem[cur_table].is = "table" /\ prot \in Protection
  BY <1>1, Facts DEF TypeOK
<1> DEFINE i == address[4]
           e == [mem[cur_table].entry[i] EXCEPT !.present = TRUE, !.prot = prot]
<1>3. i \in Index /\ IndexAt(address, 1) = i
  BY <1>1, IndexIn DEF IndexAt
<1>4. mem[cur_table].entry[i] \in Entry
  BY <1>1, <1>2, <1>3, TableIn
<1>5. e \in Entry /\ e.present /\ e.prot = prot
  BY <1>2, <1>4 DEF Entry
<1>6. mem' = Written(mem, cur_table, i, e)
  BY <1>3 DEF MapLeaf, Written
<1> HIDE DEF e, i
<1>7. /\ mem' \in [Frame -> Content]
      /\ \A f \in Frame : f # cur_table => mem'[f] = mem[f]
      /\ mem'[cur_table].is = "table" /\ mem'[cur_table].entry[i] = e
      /\ \A j \in Index : j # i => mem'[cur_table].entry[j] = mem[cur_table].entry[j]
  BY <1>1, <1>2, <1>3, <1>5, <1>6, SetEntry
<1> QED BY <1>5, <1>7 DEF i

LEMMA MapLeafGood ==
  ASSUME NEW lev, NEW n, NEW s, Good(lev, n, s), pc = "vm_map", MapLeaf
  PROVE  Good(lev, n, s)'
<1>1. TypeOK /\ Held(lev, n, s) /\ lev[cur_table] = 1 /\ cur_table \in Frame
  BY Walking DEF MapLeaf
<1>2. /\ mem' \in [Frame -> Content] /\ mem'[cur_table].is = "table"
      /\ \A f \in Frame : f # cur_table => mem'[f] = mem[f]
  BY LeafStep
<1>3. /\ pc' = "idle" /\ FREELIST' = FREELIST /\ UNCHANGED loop /\ astray' = astray
      /\ address' = FirstPage /\ prot' = AnyProt /\ level' = 0 /\ cur_table' = Root
  BY DEF MapLeaf, Return
<1>4. \A f \in Frame : lev[f] # 1 => mem'[f] = mem[f]
  BY <1>1, <1>2
<1>5. ASSUME NEW f \in Frame, lev[f] >= 2
      PROVE  Kept'[f] = Kept[f] /\ Targets(mem')[f] = Targets(mem)[f]
  <2>1. mem'[f] = mem[f]
    BY <1>4, <1>5
  <2>2. Targets(mem')[f] = Targets(mem)[f]
    BY <2>1 DEF Targets
  <2>3. \A j : j \in Kept[f] <=> j \in Index /\ HasLink(mem, f, j)
    BY AllKept
  <2>4. \A j : j \in Kept'[f] <=> j \in Index /\ HasLink(mem', f, j)
    BY <1>3 DEF Kept
  <2>5. \A j : HasLink(mem', f, j) <=> HasLink(mem, f, j)
    BY <2>1 DEF HasLink
  <2>6. Kept'[f] = Kept[f]
    <3>1. \A j : j \in Kept'[f] <=> j \in Kept[f]
      BY <2>3, <2>4, <2>5
    <3> QED BY <3>1
  <2> QED BY <2>2, <2>6
<1>6. AreTables(mem', lev)
  <2>1. AreTables(mem, lev)
    BY <1>1 DEF Held
  <2> QED BY <2>1, <1>1, <1>2, <1>4 DEF AreTables
<1>7. Held(lev, n, s)'
  <2>1. \A f \in Frame : lev[f] = 0 => mem'[f] = mem[f]
    BY <1>4
  <2> QED BY <2>1, <1>1, <1>3, <1>5, <1>6, HeldSame
<1>8. TypeOK'
  BY <1>1, <1>2, <1>3, Values, Constants DEF TypeOK, loop
<1>9. OnLoop'
  BY <1>3 DEF OnLoop, Good, loop, Unmapping
<1>10. OnWalk'
  BY <1>3 DEF OnWalk
<1> QED BY <1>7, <1>8, <1>9, <1>10 DEF Good

-----------------------------------------------------------------------------
(* The loops of unmap_lower_half.                                          *)

LEMMA Scanning ==
  ASSUME NEW lev, NEW n, NEW s, Good(lev, n, s), pc \in {"l3", "l2"}
  PROVE  /\ TypeOK /\ Held(lev, n, s)
         /\ l4_index \in Lower /\ l4_index \in Index /\ l4_index \in Kept[Root]
         /\ ~mem[Root].entry[l4_index].present
         /\ Root \in Frame /\ lev[Root] = 4
         /\ L3Table \in Frame /\ lev[L3Table] = 3 /\ L3Table # Root
         /\ pc = "l2" =>
              /\ l3_index \in Kept[L3Table] /\ l3_index \in Index
              /\ L2Table \in Frame /\ lev[L2Table] = 2 /\ L2Table # L3Table /\ L2Table # Root
<1>1. TypeOK /\ Held(lev, n, s)
  BY DEF Good
<1>2. /\ l4_index \in Lower /\ l4_index \in Kept[Root] /\ ~mem[Root].entry[l4_index].present
      /\ pc = "l2" => l3_index \in Index /\ l3_index \in Kept[L3Table]
  BY DEF Good, OnLoop
<1>3. Root \in Frame /\ lev[Root] = 4
  BY <1>1, Facts, Constants
<1>4. l4_index \in Index /\ L3Table \in Frame /\ lev[L3Table] = 3
  BY <1>1, <1>2, <1>3, KeptDown DEF L3Table
<1>5. pc = "l2" => L2Table \in Frame /\ lev[L2Table] = 2
  BY <1>1, <1>2, <1>4, KeptDown DEF L2Table
<1> QED BY <1>1, <1>2, <1>3, <1>4, <1>5

LEMMA L4Good ==
  ASSUME NEW lev, NEW n, NEW s, Good(lev, n, s), LoopL4, UNCHANGED <<args, walk, ret, astray>>
  PROVE  Good(lev, n, s)'
<1>1. /\ TypeOK /\ Held(lev, n, s) /\ OnLoop /\ OnWalk
      /\ pc = "l4" /\ l3_index = 0 /\ l2_index = 0 /\ cur_table = Root
      /\ \A i \in 0 .. l4_index - 1 : ~mem[Root].entry[i].present
      /\ UNCHANGED args /\ UNCHANGED walk /\ UNCHANGED astray
      /\ l3_index' = 0 /\ l2_index' = 0
  BY DEF LoopL4, Good, OnLoop, OnWalk, Unmapping
<1>2. l4_index \in 0 .. Fanout \div 2 /\ mem \in [Frame -> Content] /\ FREELIST \in Frame \cup {NULL}
  BY <1>1 DEF TypeOK
<1>3. CASE Turning
  <2>1. \/ pc' = "idle" /\ l4_index' = 0
        \/ l4_index' = l4_index + 1 /\ l4_index < Fanout \div 2 /\ pc' = pc /\ ~mem[Root].entry[l4_index].present
    <3>1. ASSUME l4_index < Fanout \div 2, mem[Root].entry[l4_index].present,
                 mem' = [mem EXCEPT ![Root].entry[l4_index].present = FALSE]
          PROVE  FALSE
      <4>1. Root \in Frame /\ mem[Root].is = "table" /\ l4_index \in Index
        BY <3>1, <1>1, <1>2, Facts, Constants DEF Index
      <4>2. mem[Root] \in [is : {"table"}, entry : [Index -> Entry]] /\ mem[Root].entry[l4_index] \in Entry
        BY <4>1, <1>2, TableIn
      <4>3. mem'[Root].entry[l4_index].present = FALSE
        BY <4>1, <4>2, <3>1, <1>2 DEF Entry
      <4> QED BY <4>3, <3>1, <1>3 DEF Turning
    <3> QED BY <3>1, <1>3 DEF LoopL4
  <2>2. pc' \in {"idle", "l4"} /\ UNCHANGED mem /\ UNCHANGED FREELIST
    BY <2>1, <1>1, <1>3 DEF Turning
  <2>3. Held(lev, n, s)'
    BY <2>2, <1>1, QuietHeld
  <2>4. TypeOK'
    BY <2>1, <2>2, <1>1, <1>2, Constants DEF TypeOK, args, walk
  <2>5. OnLoop'
    <3>1. Unmapping' => \A i \in 0 .. l4_index' - 1 : ~mem'[Root].entry[i].present
      <4>1. CASE pc' = "idle"
        BY <4>1 DEF Unmapping
      <4>2. CASE pc' # "idle"
        <5>1. l4_index' = l4_index + 1 /\ ~mem[Root].entry[l4_index].present
          BY <4>2, <2>1
        <5>2. \A i \in 0 .. l4_index : ~mem[Root].entry[i].present
          BY <5>1, <1>1, <1>2, Constants
        <5> QED BY <5>1, <5>2, <2>2, <1>2, Constants
      <4> QED BY <4>1, <4>2
    <3> QED BY <3>1, <2>2, <1>1 DEF OnLoop
  <2>6. OnWalk'
    BY <2>2, <1>1 DEF OnWalk, walk
  <2> QED BY <2>3, <2>4, <2>5, <2>6 DEF Good
<1>4. CASE /\ l4_index < Fanout \div 2 /\ mem[Root].entry[l4_index].present
           /\ mem' = [mem EXCEPT ![Root].entry[l4_index].present = FALSE]
           /\ pc' = "l3" /\ UNCHANGED <<FREELIST, l4_index>>
  <2>1. /\ l4_index \in Lower /\ l4_index \in Index /\ Root \in Frame /\ mem[Root].is = "table"
        /\ lev[Root] = 4 /\ lev \in [Frame -> 0 .. 4]
    BY <1>1, <1>2, <1>4, Facts, Constants DEF Lower, Index
  <2> DEFINE e == [mem[Root].entry[l4_index] EXCEPT !.present = FALSE]
  <2>2. mem[Root].entry[l4_index] \in Entry
    BY <2>1, <1>2, TableIn
  <2>3. /\ e \in Entry /\ ~e.present /\ e.address = mem[Root].entry[l4_index].address
        /\ e.page_size = mem[Root].entry[l4_index].page_size
    BY <2>2 DEF Entry
  <2>4. mem' = Written(mem, Root, l4_index, e)
    BY <1>4 DEF Written
  <2> HIDE DEF e
  <2>5. /\ mem' \in [Frame -> Content]
        /\ \A f \in Frame : f # Root => mem'[f] = mem[f]
        /\ mem'[Root].is = "table" /\ mem'[Root].entry[l4_index] = e
        /\ \A j \in Index : j # l4_index => mem'[Root].entry[j] = mem[Root].entry[j]
    BY <2>1, <2>3, <2>4, <1>2, SetEntry
  <2>6. AreTables(mem, lev)
    BY <1>1 DEF Held
  <2>7. \A i \in Index : ~mem[Root].entry[i].page_size
    BY <2>1, <2>6 DEF AreTables
  <2>8. \A i \in Index : ~mem'[Root].entry[i].page_size
    BY <2>3, <2>5, <2>7
  <2>9. AreTables(mem', lev)
    BY <2>5, <2>6, <2>8, <2>1 DEF AreTables
  <2>10. Targets(mem')[Root] = Targets(mem)[Root]
    BY <2>1, <2>3, <2>5 DEF Targets
  <2>11. \A f \in Frame : f # Root => Targets(mem')[f] = Targets(mem)[f]
    BY <2>5 DEF Targets
  <2>12. \A f \in Frame : \A i : i \in Kept[f] <=> i \in Index /\ HasLink(mem, f, i)
    BY <1>1, AllKept
  <2>13. \A f \in Frame : \A i : i \in Kept'[f] <=>
           i \in Index /\ (HasLink(mem', f, i) \/ (f = Root /\ i = l4_index))
    <3>1. \A i \in Index : ~(i < 0)
      BY Constants DEF Index
    <3> QED BY <3>1, <1>1, <1>4 DEF Kept
  <2>14. \A f \in Frame : f # Root => Kept'[f] = Kept[f]
    <3>1. \A f \in Frame : \A i : f # Root => (HasLink(mem', f, i) <=> HasLink(mem, f, i))
      BY <2>5 DEF HasLink
    <3>2. \A f \in Frame : f # Root => \A i : i \in Kept'[f] <=> i \in Kept[f]
      BY <3>1, <2>12, <2>13
    <3> QED BY <3>2
  <2>15. Kept'[Root] = Kept[Root]
    <3>1. HasLink(mem, Root, l4_index)
      BY <2>1, <2>7, <1>4 DEF HasLink
    <3>2. \A i \in Index : i # l4_index => (HasLink(mem', Root, i) <=> HasLink(mem, Root, i))
      BY <2>5 DEF HasLink
    <3>3. \A i : i \in Kept'[Root] <=> i \in Kept[Root]
      BY <3>1, <3>2, <2>1, <2>12, <2>13
    <3> QED BY <3>3
  <2>16. Held(lev, n, s)'
    <3>1. FREELIST' = FREELIST
      BY <1>4
    <3>2. \A f \in Frame : lev[f] = 0 => mem'[f] = mem[f]
      BY <2>1, <2>5
    <3>3. \A f \in Frame : lev[f] >= 2 => Kept'[f] = Kept[f] /\ Targets(mem')[f] = Targets(mem)[f]
      BY <2>10, <2>11, <2>14, <2>15
    <3> QED BY <3>1, <3>2, <3>3, <2>9, <1>1, HeldSame
  <2>17. TypeOK'
    BY <2>5, <1>1, <1>2, <1>4, Constants DEF TypeOK, args, walk
  <2>18. OnLoop'
    <3>1. l4_index \in Kept'[Root]
      BY <2>1, <2>13
    <3>2. \A i \in 0 .. l4_index - 1 : ~mem'[Root].entry[i].present
      <4>1. \A i \in 0 .. l4_index - 1 : i \in Index /\ i # l4_index
        BY <2>1, Constants DEF Index
      <4> QED BY <4>1, <2>5, <1>1
    <3> QED BY <3>1, <3>2, <2>1, <2>3, <2>5, <1>1, <1>4 DEF OnLoop
  <2>19. OnWalk'
    BY <1>1, <1>4 DEF OnWalk, walk
  <2> QED BY <2>16, <2>17, <2>18, <2>19 DEF Good
<1> QED BY <1>3, <1>4 DEF LoopL4

\* A turn of an inner loop that frees nothing.
LEMMA TurnGood ==
  ASSUME NEW lev, NEW n, NEW s, Good(lev, n, s), pc \in {"l3", "l2"}, pc' \in {"l3", "l2"},
         UNCHANGED mem, UNCHANGED FREELIST, UNCHANGED l4_index, UNCHANGED args,
         UNCHANGED walk, UNCHANGED astray,
         l3_index' \in 0 .. Fanout, l2_index' \in 0 .. Fanout,
         pc' # "l2" => l2_index' = 0,
         pc' = "l2" => l3_index' \in Index /\ l3_index' \in Kept'[L3Table],
         \A f \in Frame : lev[f] >= 2 => \A i \in Index : i \in Kept'[f] <=> i \in Kept[f]
  PROVE  Good(lev, n, s)'
<1>1. /\ TypeOK /\ Held(lev, n, s) /\ OnLoop /\ OnWalk /\ cur_table = Root
      /\ l4_index \in Lower /\ l4_index \in Index /\ l4_index \in Kept[Root]
      /\ Root \in Frame /\ lev[Root] = 4
  BY Scanning DEF Good, OnWalk
<1>2. \A f \in Frame : lev[f] >= 2 => Kept'[f] = Kept[f]
  <2>1. \A f \in Frame : \A i : (i \in Kept[f] => i \in Index) /\ (i \in Kept'[f] => i \in Index)
    BY DEF Kept
  <2>2. \A f \in Frame : lev[f] >= 2 => \A i : i \in Kept'[f] <=> i \in Kept[f]
    BY <2>1
  <2> QED BY <2>2
<1>3. Held(lev, n, s)'
  <2>1. AreTables(mem', lev)
    BY <1>1 DEF Held
  <2> QED BY <2>1, <1>1, <1>2, HeldSame
<1>4. TypeOK'
  BY <1>1 DEF TypeOK, args, walk
<1>5. L3Table' = L3Table
  BY DEF L3Table
<1>6. OnLoop'
  <2>1. l4_index' \in Lower /\ l4_index' \in Kept'[Root] /\ ~mem'[Root].entry[l4_index'].present
    BY <1>1, <1>2, Scanning
  <2>2. \A i \in 0 .. l4_index' - 1 : ~mem'[Root].entry[i].present
    BY <1>1 DEF OnLoop, Unmapping
  <2> QED BY <2>1, <2>2, <1>5 DEF OnLoop
<1>7. OnWalk'
  BY <1>1 DEF OnWalk, walk
<1> QED BY <1>3, <1>4, <1>6, <1>7 DEF Good

\* A turn that frees the table that entry i of p leads to.
LEMMA FreeGood ==
  ASSUME NEW lev, NEW n, NEW s, Good(lev, n, s), pc \in {"l3", "l2"},
         NEW g \in Frame, NEW p \in Frame, lev[p] >= 2, NEW i \in Kept[p],
         g = mem[p].entry[i].address, lev[g] >= 2 => Kept[g] = {}, pmem_free(g),
         \A f \in Frame : lev[f] >= 2 /\ f # g =>
           \A j : j \in Kept'[f] <=> j \in Kept[f] /\ ~(f = p /\ j = i),
         UNCHANGED args, UNCHANGED walk, UNCHANGED astray,
         pc' \in {"l4", "l3", "l2"},
         l4_index' \in 0 .. Fanout \div 2, l3_index' \in 0 .. Fanout, l2_index' \in 0 .. Fanout,
         OnLoop'
  PROVE  \E lev2, n2, s2 : Good(lev2, n2, s2)'
<1>1. TypeOK /\ Held(lev, n, s) /\ cur_table = Root
  BY DEF Good, OnWalk
<1>2. g = Targets(mem)[p][i]
  BY DEF Targets, Kept
<1>3. Held([lev EXCEPT ![g] = 0], n + 1, [s EXCEPT ![n + 1] = g])'
  BY <1>1, <1>2, HeldFree
<1>4. mem' \in [Frame -> Content] /\ FREELIST' \in Frame \cup {NULL}
  BY <1>1, FreeType DEF TypeOK
<1>5. TypeOK'
  BY <1>1, <1>4 DEF TypeOK, args, walk
<1>6. OnWalk'
  BY <1>1 DEF OnWalk, walk
<1>7. Good([lev EXCEPT ![g] = 0], n + 1, [s EXCEPT ![n + 1] = g])'
  BY <1>3, <1>5, <1>6 DEF Good
<1>8. PICK lev2, n2, s2 : lev2 = [lev EXCEPT ![g] = 0] /\ n2 = n + 1 /\ s2 = [s EXCEPT ![n + 1] = g]
  OBVIOUS
<1>9. Good(lev2, n2, s2)'
  BY <1>7, <1>8
<1> QED BY <1>9

LEMMA L3Good ==
  ASSUME NEW lev, NEW n, NEW s, Good(lev, n, s), LoopL3, UNCHANGED <<args, walk, ret, astray>>
  PROVE  \E lev2, n2, s2 : Good(lev2, n2, s2)'
<1>1. /\ TypeOK /\ Held(lev, n, s) /\ OnLoop /\ pc = "l3" /\ l2_index = 0 /\ l2_index' = 0
      /\ l4_index \in Lower /\ l4_index \in Index /\ l4_index \in Kept[Root]
      /\ ~mem[Root].entry[l4_index].present
      /\ Root \in Frame /\ lev[Root] = 4
      /\ L3Table \in Frame /\ lev[L3Table] = 3 /\ L3Table # Root
      /\ UNCHANGED args /\ UNCHANGED walk /\ UNCHANGED astray
  BY Scanning DEF LoopL3, Good, OnLoop
<1>2. l3_index \in 0 .. Fanout /\ mem \in [Frame -> Content]
  BY <1>1 DEF TypeOK
<1>3. \A f \in Frame : \A i : i \in Kept[f] <=>
        /\ i \in Index
        /\ HasLink(mem, f, i) \/ (f = Root /\ i = l4_index)
        /\ ~(f = L3Table /\ i < l3_index)
  BY <1>1 DEF Kept
<1>4. CASE l3_index = Fanout /\ pmem_free(L3Table) /\ pc' = "l4" /\ l4_index' = l4_index + 1 /\ l3_index' = 0
  <2>1. Kept[L3Table] = {}
    <3>1. \A i \in Index : i < l3_index
      BY <1>4, Constants DEF Index
    <3>2. \A i : i \notin Kept[L3Table]
      BY <3>1, <1>1, <1>3
    <3> QED BY <3>2
  <2>2. \A f \in Frame : f # L3Table => mem'[f] = mem[f]
    BY <1>2, <1>4 DEF pmem_free
  <2>3. \A f \in Frame : \A i : i \in Kept'[f] <=> i \in Index /\ HasLink(mem', f, i)
    BY <1>4 DEF Kept
  <2>4. \A f \in Frame : \A i : f # L3Table => (HasLink(mem', f, i) <=> HasLink(mem, f, i))
    BY <2>2 DEF HasLink
  <2>5. ~HasLink(mem, Root, l4_index)
    BY <1>1 DEF HasLink
  <2>6. \A f \in Frame : lev[f] >= 2 /\ f # L3Table =>
          \A j : j \in Kept'[f] <=> j \in Kept[f] /\ ~(f = Root /\ j = l4_index)
    BY <2>3, <2>4, <2>5, <1>1, <1>3
  <2>7. OnLoop'
    <3>1. \A i \in 0 .. l4_index' - 1 : ~mem'[Root].entry[i].present
      <4>1. mem'[Root] = mem[Root]
        BY <2>2, <1>1
      <4>2. \A i \in 0 .. l4_index - 1 : ~mem[Root].entry[i].present
        BY <1>1 DEF OnLoop, Unmapping
      <4>3. \A i \in 0 .. l4_index' - 1 : i = l4_index \/ i \in 0 .. l4_index - 1
        BY <1>1, <1>4, Constants DEF Lower
      <4> QED BY <4>1, <4>2, <4>3, <1>1
    <3> QED BY <3>1, <1>1, <1>4 DEF OnLoop
  <2>8. l4_index' \in 0 .. Fanout \div 2 /\ 0 \in 0 .. Fanout
    BY <1>1, <1>4, Constants DEF Lower
  <2>9. L3Table = mem[Root].entry[l4_index].address
    BY DEF L3Table
  <2> QED BY <2>1, <2>6, <2>7, <2>8, <2>9, <1>1, <1>4, FreeGood
<1>5. CASE l3_index < Fanout /\ ~TableBelow(mem[L3Table].entry[l3_index]) /\ l3_index' = l3_index + 1 /\ UNCHANGED <<pc, l4_index>> /\ Turning
  <2>1. UNCHANGED mem /\ UNCHANGED FREELIST /\ pc' = "l3" /\ l4_index' = l4_index /\ L3Table' = L3Table
    BY <1>1, <1>5 DEF Turning, L3Table
  <2>2. ~HasLink(mem, L3Table, l3_index)
    BY <1>5 DEF TableBelow, HasLink
  <2>3. \A f \in Frame : \A i : i \in Kept'[f] <=>
          /\ i \in Index
          /\ HasLink(mem, f, i) \/ (f = Root /\ i = l4_index)
          /\ ~(f = L3Table /\ i < l3_index + 1)
    BY <2>1, <1>5 DEF Kept
  <2>4. \A i \in Index : i < l3_index + 1 <=> i < l3_index \/ i = l3_index
    BY <1>2, Constants DEF Index
  <2>5. \A f \in Frame : \A i : i \in Kept'[f] <=> i \in Kept[f]
    BY <2>2, <2>3, <2>4, <1>1, <1>3
  <2>6. l3_index' \in 0 .. Fanout /\ l2_index' \in 0 .. Fanout
    BY <1>1, <1>2, <1>5, Constants
  <2>7. Good(lev, n, s)'
    BY <2>1, <2>5, <2>6, <1>1, TurnGood
  <2> QED BY <2>7
<1>6. CASE l3_index < Fanout /\ TableBelow(mem[L3Table].entry[l3_index]) /\ EnterL2 /\ pc' = "l2" /\ UNCHANGED <<l4_index, l3_index>>
  <2>1. /\ UNCHANGED mem /\ UNCHANGED FREELIST /\ pc' = "l2" /\ l4_index' = l4_index /\ l3_index' = l3_index
        /\ L3Table' = L3Table
    BY <1>6 DEF EnterL2, Turning, L3Table
  <2>2. HasLink(mem, L3Table, l3_index)
    BY <1>6 DEF TableBelow, HasLink
  <2>3. \A i \in Index : ~(i < 0)
    BY Constants DEF Index
  <2>4. \A f \in Frame : \A i : i \in Kept'[f] <=>
          /\ i \in Index
          /\ HasLink(mem, f, i) \/ (f = Root /\ i = l4_index)
          /\ ~(f = L3Table /\ i < l3_index)
    BY <2>1, <2>3, <1>1 DEF Kept
  <2>5. l3_index \in Index /\ ~(l3_index < l3_index)
    BY <1>2, <1>6, Constants DEF Index
  <2>6. l3_index' \in Index /\ l3_index' \in Kept'[L3Table]
    BY <2>1, <2>2, <2>4, <2>5, <1>1
  <2>7. \A f \in Frame : \A i : i \in Kept'[f] <=> i \in Kept[f]
    BY <2>4, <1>3
  <2>8. l3_index' \in 0 .. Fanout /\ l2_index' \in 0 .. Fanout
    BY <2>1, <1>1, <1>2, Constants
  <2>9. Good(lev, n, s)'
    BY <2>1, <2>6, <2>7, <2>8, <1>1, TurnGood
  <2> QED BY <2>9
<1> QED BY <1>4, <1>5, <1>6 DEF LoopL3

LEMMA L2Good ==
  ASSUME NEW lev, NEW n, NEW s, Good(lev, n, s), LoopL2, UNCHANGED <<args, walk, ret, astray>>
  PROVE  \E lev2, n2, s2 : Good(lev2, n2, s2)'
<1>1. /\ TypeOK /\ Held(lev, n, s) /\ OnLoop /\ pc = "l2"
      /\ l4_index \in Lower /\ l4_index \in Index /\ l4_index \in Kept[Root]
      /\ ~mem[Root].entry[l4_index].present
      /\ Root \in Frame /\ lev[Root] = 4
      /\ L3Table \in Frame /\ lev[L3Table] = 3 /\ L3Table # Root
      /\ l3_index \in Kept[L3Table] /\ l3_index \in Index
      /\ L2Table \in Frame /\ lev[L2Table] = 2 /\ L2Table # L3Table /\ L2Table # Root
      /\ UNCHANGED args /\ UNCHANGED walk /\ UNCHANGED astray /\ UNCHANGED l4_index
  BY Scanning DEF LoopL2, Good
<1>2. l3_index \in 0 .. Fanout /\ l2_index \in 0 .. Fanout /\ mem \in [Frame -> Content]
  BY <1>1 DEF TypeOK
<1>3. \A f \in Frame : \A i : i \in Kept[f] <=>
        /\ i \in Index
        /\ HasLink(mem, f, i) \/ (f = Root /\ i = l4_index)
        /\ ~(f = L3Table /\ i < l3_index)
        /\ ~(f = L2Table /\ i < l2_index)
  BY <1>1 DEF Kept
<1>4. \A i \in 0 .. l4_index - 1 : ~mem[Root].entry[i].present
  BY <1>1 DEF OnLoop, Unmapping
<1>5. \A i \in Index : /\ i < l3_index + 1 <=> i < l3_index \/ i = l3_index
                       /\ i < l2_index + 1 <=> i < l2_index \/ i = l2_index
  BY <1>2, Constants DEF Index
<1>6. CASE l2_index = Fanout /\ pmem_free(L2Table) /\ pc' = "l3" /\ l3_index' = l3_index + 1 /\ l2_index' = 0
  <2>1. Kept[L2Table] = {}
    <3>1. \A i \in Index : i < l2_index
      BY <1>6, Constants DEF Index
    <3>2. \A i : i \notin Kept[L2Table]
      BY <3>1, <1>1, <1>3
    <3> QED BY <3>2
  <2>2. \A f \in Frame : f # L2Table => mem'[f] = mem[f]
    BY <1>2, <1>6 DEF pmem_free
  <2>3. mem'[Root] = mem[Root] /\ L3Table' = L3Table
    BY <2>2, <1>1 DEF L3Table
  <2>4. \A f \in Frame : \A i : i \in Kept'[f] <=>
          /\ i \in Index
          /\ HasLink(mem', f, i) \/ (f = Root /\ i = l4_index)
          /\ ~(f = L3Table /\ i < l3_index + 1)
    BY <2>3, <1>1, <1>6 DEF Kept
  <2>5. \A f \in Frame : \A i : f # L2Table => (HasLink(mem', f, i) <=> HasLink(mem, f, i))
    BY <2>2 DEF HasLink
  <2>6. \A f \in Frame : lev[f] >= 2 /\ f # L2Table =>
          \A j : j \in Kept'[f] <=> j \in Kept[f] /\ ~(f = L3Table /\ j = l3_index)
    BY <2>4, <2>5, <1>3, <1>5
  <2>7. l4_index \in Kept'[Root]
    BY <2>4, <1>1
  <2>8. OnLoop'
    BY <2>3, <2>7, <1>1, <1>4, <1>6 DEF OnLoop
  <2>9. l3_index' \in 0 .. Fanout /\ 0 \in 0 .. Fanout /\ l4_index' \in 0 .. Fanout \div 2
    BY <1>1, <1>6, Constants DEF Lower, Index
  <2>10. L2Table = mem[L3Table].entry[l3_index].address
    BY DEF L2Table
  <2> QED BY <2>1, <2>6, <2>8, <2>9, <2>10, <1>1, <1>6, FreeGood
<1>7. ASSUME l2_index < Fanout, l2_index' = l2_index + 1, UNCHANGED <<pc, l3_index>>
      PROVE  /\ pc' = "l2" /\ l3_index' = l3_index
             /\ l2_index \in Index /\ l2_index' \in 0 .. Fanout
  BY <1>1, <1>2, <1>7, Constants DEF Index
<1>8. CASE /\ l2_index < Fanout /\ l2_index' = l2_index + 1 /\ UNCHANGED <<pc, l3_index>>
           /\ ~TableBelow(mem[L2Table].entry[l2_index]) /\ Turning
  <2>1. /\ UNCHANGED mem /\ UNCHANGED FREELIST /\ pc' = "l2" /\ l3_index' = l3_index
        /\ l2_index \in Index /\ l2_index' \in 0 .. Fanout
    BY <1>7, <1>8 DEF Turning
  <2>2. L3Table' = L3Table
    BY <2>1, <1>1 DEF L3Table
  <2>3. L2Table' = L2Table
    BY <2>1, <2>2 DEF L2Table
  <2>4. ~HasLink(mem, L2Table, l2_index)
    BY <1>8 DEF TableBelow, HasLink
  <2>5. \A f \in Frame : \A i : i \in Kept'[f] <=>
          /\ i \in Index
          /\ HasLink(mem, f, i) \/ (f = Root /\ i = l4_index)
          /\ ~(f = L3Table /\ i < l3_index)
          /\ ~(f = L2Table /\ i < l2_index + 1)
    BY <2>1, <2>2, <2>3, <1>1, <1>8 DEF Kept
  <2>6. \A f \in Frame : \A i : i \in Kept'[f] <=> i \in Kept[f]
    BY <2>4, <2>5, <1>1, <1>3, <1>5
  <2>7. l3_index' \in Index /\ l3_index' \in Kept'[L3Table]
    BY <2>1, <2>6, <1>1
  <2>8. l3_index' \in 0 .. Fanout
    BY <2>1, <1>2
  <2>9. Good(lev, n, s)'
    BY <2>1, <2>6, <2>7, <2>8, <1>1, TurnGood
  <2> QED BY <2>9
<1>9. CASE /\ l2_index < Fanout /\ l2_index' = l2_index + 1 /\ UNCHANGED <<pc, l3_index>>
           /\ TableBelow(mem[L2Table].entry[l2_index])
           /\ pmem_free(mem[L2Table].entry[l2_index].address)
  <2> PICK g : g = mem[L2Table].entry[l2_index].address
    OBVIOUS
  <2>1. /\ pc' = "l2" /\ l3_index' = l3_index /\ l2_index \in Index /\ l2_index' \in 0 .. Fanout
        /\ l3_index' \in 0 .. Fanout /\ l4_index' \in 0 .. Fanout \div 2
    BY <1>1, <1>2, <1>7, <1>9 DEF TypeOK
  <2>2. l2_index \in Kept[L2Table]
    <3>1. HasLink(mem, L2Table, l2_index)
      BY <1>9 DEF TableBelow, HasLink
    <3>2. ~(l2_index < l2_index)
      BY <1>2
    <3> QED BY <3>1, <3>2, <2>1, <1>1, <1>3
  <2>3. g \in Frame /\ lev[g] = 1
    BY <2>2, <1>1, KeptDown
  <2>4. \A f \in Frame : lev[f] >= 2 => f # g /\ mem'[f] = mem[f]
    BY <2>3, <1>2, <1>9 DEF pmem_free
  <2>5. mem'[Root] = mem[Root] /\ mem'[L3Table] = mem[L3Table]
    BY <2>4, <1>1
  <2>6. L3Table' = L3Table
    BY <2>5, <1>1 DEF L3Table
  <2>7. L2Table' = L2Table
    BY <2>1, <2>5, <2>6 DEF L2Table
  <2>8. \A f \in Frame : \A i : i \in Kept'[f] <=>
          /\ i \in Index
          /\ HasLink(mem', f, i) \/ (f = Root /\ i = l4_index)
          /\ ~(f = L3Table /\ i < l3_index)
          /\ ~(f = L2Table /\ i < l2_index + 1)
    BY <2>1, <2>6, <2>7, <1>1, <1>9 DEF Kept
  <2>9. \A f \in Frame : \A i : lev[f] >= 2 => (HasLink(mem', f, i) <=> HasLink(mem, f, i))
    BY <2>4 DEF HasLink
  <2>10. \A f \in Frame : lev[f] >= 2 /\ f # g =>
           \A j : j \in Kept'[f] <=> j \in Kept[f] /\ ~(f = L2Table /\ j = l2_index)
    BY <2>8, <2>9, <1>3, <1>5
  <2>11. l4_index \in Kept'[Root] /\ l3_index \in Kept'[L3Table]
    <3>1. Root # g /\ L3Table # g /\ lev[Root] >= 2 /\ lev[L3Table] >= 2
      BY <2>3, <1>1
    <3> QED BY <3>1, <2>10, <1>1
  <2>12. OnLoop'
    BY <2>1, <2>5, <2>6, <2>11, <1>1, <1>4 DEF OnLoop
  <2>13. /\ ~(lev[g] >= 2) /\ lev[L2Table] >= 2 /\ pmem_free(g)
    BY <2>3, <1>1, <1>9
  <2> QED BY <2>1, <2>2, <2>3, <2>10, <2>12, <2>13, <1>1, FreeGood
<1> QED BY <1>6, <1>8, <1>9 DEF LoopL2

-----------------------------------------------------------------------------
(* What the boot loader leaves, and freelist_init makes of it.             *)

\* The tables of each level that the boot loader leaves.
T3 == To(Boot, Links(Boot, {Root}))
T2 == To(Boot, Links(Boot, T3))
T1 == To(Boot, Links(Boot, T2))

BootLevel ==
  [f \in Frame |-> IF f = Root THEN 4 ELSE IF f \in T3 THEN 3 ELSE IF f \in T2 THEN 2
                   ELSE IF f \in T1 THEN 1 ELSE 0]

BootKept == [f \in Frame |-> {i \in Index : HasLink(Boot, f, i)}]

LEMMA ToIs ==
  ASSUME NEW m, NEW L
  PROVE  /\ \A l \in L : m[l[1]].entry[l[2]].address \in To(m, L)
         /\ \A f \in To(m, L) : \E l \in L : f = m[l[1]].entry[l[2]].address
BY DEF To

LEMMA BootTables ==
  /\ T3 \subseteq Tables(Boot) /\ T2 \subseteq Tables(Boot) /\ T1 \subseteq Tables(Boot)
  /\ \A f \in Tables(Boot) : f \in T3 \/ f \in T2 \/ f \in T1
  /\ T3 \cap T2 = {} /\ T3 \cap T1 = {} /\ T2 \cap T1 = {}
  /\ Root \notin Tables(Boot)
<1> DEFINE L3 == Links(Boot, {Root})
           L2 == Links(Boot, T3)
           L1 == Links(Boot, T2)
<1>1. AllLinks(Boot) = L3 \cup L2 \cup L1
  BY DEF AllLinks, T3, T2
<1>2. \A l \in L3 : l[1] = Root
  BY DEF Links
<1>3. \A l \in L2 : l[1] \in T3
  BY DEF Links
<1>4. \A l \in L1 : l[1] \in T2
  BY DEF Links
<1> T3 = To(Boot, L3) /\ T2 = To(Boot, L2) /\ T1 = To(Boot, L1)
  BY DEF T3, T2, T1
<1> HIDE DEF L3, L2, L1
<1>5. /\ \A f \in T3 : \E l \in L3 : f = Boot[l[1]].entry[l[2]].address
      /\ \A f \in T2 : \E l \in L2 : f = Boot[l[1]].entry[l[2]].address
      /\ \A f \in T1 : \E l \in L1 : f = Boot[l[1]].entry[l[2]].address
  BY ToIs
<1>6. \A f : f \in Tables(Boot) <=> \E l \in AllLinks(Boot) : f = Boot[l[1]].entry[l[2]].address
  BY DEF Tables, To
<1>7. /\ \A l \in L3 : Boot[l[1]].entry[l[2]].address \in T3
      /\ \A l \in L2 : Boot[l[1]].entry[l[2]].address \in T2
      /\ \A l \in L1 : Boot[l[1]].entry[l[2]].address \in T1
  BY ToIs
<1>8. \A k, l \in AllLinks(Boot) :
        Boot[k[1]].entry[k[2]].address = Boot[l[1]].entry[l[2]].address => k = l
  BY BootAssumption
<1>9. Root \notin Tables(Boot)
  BY BootAssumption
<1>10. T3 \subseteq Tables(Boot) /\ T2 \subseteq Tables(Boot) /\ T1 \subseteq Tables(Boot)
  BY <1>1, <1>5, <1>6
<1>11. \A f \in Tables(Boot) : f \in T3 \/ f \in T2 \/ f \in T1
  BY <1>1, <1>6, <1>7
<1>12. T3 \cap T2 = {}
  BY <1>1, <1>2, <1>3, <1>5, <1>8, <1>9, <1>10
<1>13. T3 \cap T1 = {}
  BY <1>1, <1>2, <1>4, <1>5, <1>8, <1>9, <1>10
<1>14. T2 \cap T1 = {}
  BY <1>1, <1>3, <1>4, <1>5, <1>8, <1>12
<1> QED BY <1>9, <1>10, <1>11, <1>12, <1>13, <1>14

LEMMA BootLevels ==
  /\ BootLevel \in [Frame -> 0 .. 4]
  /\ \A f \in Frame : /\ BootLevel[f] = 4 <=> f = Root
                      /\ BootLevel[f] = 3 <=> f \in T3
                      /\ BootLevel[f] = 2 <=> f \in T2
                      /\ BootLevel[f] = 1 <=> f \in T1
                      /\ BootLevel[f] \in 1 .. 3 <=> f \in Tables(Boot)
                      /\ BootLevel[f] >= 1 => Boot[f].is = "table" /\ f \notin Usable
                      /\ BootLevel[f] >= 2 => \A i \in Index :
                           Boot[f].entry[i].page_size => Boot[f].entry[i].present /\ f # Root
<1>1. ASSUME NEW f \in Frame
      PROVE  /\ BootLevel[f] = 4 <=> f = Root
             /\ BootLevel[f] = 3 <=> f \in T3
             /\ BootLevel[f] = 2 <=> f \in T2
             /\ BootLevel[f] = 1 <=> f \in T1
             /\ BootLevel[f] \in 1 .. 3 <=> f \in Tables(Boot)
             /\ BootLevel[f] >= 1 => f \in {Root} \cup Tables(Boot)
  <2>1. BootLevel[f] = IF f = Root THEN 4 ELSE IF f \in T3 THEN 3 ELSE IF f \in T2 THEN 2
                       ELSE IF f \in T1 THEN 1 ELSE 0
    BY DEF BootLevel
  <2>2. f \in T3 => f # Root /\ f \notin T2 /\ f \notin T1 /\ f \in Tables(Boot)
    BY BootTables
  <2>3. f \in T2 => f # Root /\ f \notin T1 /\ f \in Tables(Boot)
    BY BootTables
  <2>4. f \in T1 => f # Root /\ f \in Tables(Boot)
    BY BootTables
  <2>5. f \in Tables(Boot) => f # Root /\ (f \in T3 \/ f \in T2 \/ f \in T1)
    BY BootTables
  <2> QED BY <2>1, <2>2, <2>3, <2>4, <2>5
<1>2. BootLevel \in [Frame -> 0 .. 4]
  BY DEF BootLevel
<1>3. \A f \in {Root} \cup Tables(Boot) : /\ Boot[f].is = "table" /\ f \notin Usable
                                          /\ \A i \in Index : Boot[f].entry[i].page_size => f # Root /\ Boot[f].entry[i].present
  BY BootAssumption
<1>4. ASSUME NEW f \in Frame
      PROVE /\ BootLevel[f] >= 1 => Boot[f].is = "table" /\ f \notin Usable
            /\ BootLevel[f] >= 2 => \A i \in Index :
                 Boot[f].entry[i].page_size => Boot[f].entry[i].present /\ f # Root
  <2>1. BootLevel[f] \in 0 .. 4
    BY <1>2
  <2>2. BootLevel[f] >= 1 => f \in {Root} \cup Tables(Boot)
    BY <1>1
  <2>3. BootLevel[f] >= 2 => BootLevel[f] >= 1
    BY <2>1
  <2> QED BY <2>2, <2>3, <1>3
<1> QED BY <1>1, <1>2, <1>4

LEMMA BootFrames == \A f \in T3 \cup T2 \cup T1 : f \in Frame
<1>1. ASSUME NEW F \in SUBSET Frame, \A h \in F : Boot[h].is = "table"
      PROVE  To(Boot, Links(Boot, F)) \subseteq Frame
  <2>1. ASSUME NEW l \in Links(Boot, F) PROVE Boot[l[1]].entry[l[2]].address \in Frame
    <3>1. l[1] \in F /\ l[2] \in Index
      BY DEF Links
    <3> QED BY <3>1, <1>1, TableIn, BootAssumption
  <2> QED BY <2>1 DEF To
<1>2. \A g \in Tables(Boot) : Boot[g].is = "table"
  BY BootAssumption
<1>3. T3 \subseteq Frame
  BY <1>1, BootAssumption, Constants DEF T3
<1>4. T2 \subseteq Frame
  BY <1>1, <1>2, <1>3, BootTables DEF T2
<1>5. T1 \subseteq Frame
  BY <1>1, <1>2, <1>4, BootTables DEF T1
<1> QED BY <1>3, <1>4, <1>5

LEMMA BootTree == Tree(BootLevel, BootKept, Targets(Boot))
<1> DEFINE lev == BootLevel
<1>1. lev \in [Frame -> 0 .. 4]
  BY BootLevels
<1>2. \A f \in Frame : (lev[f] = 4 <=> f = Root) /\ (lev[f] = 3 <=> f \in T3)
                       /\ (lev[f] = 2 <=> f \in T2) /\ (lev[f] = 1 <=> f \in T1)
                       /\ (lev[f] >= 1 => Boot[f].is = "table")
  BY BootLevels
<1> HIDE DEF lev
<1>3. ASSUME NEW f \in Frame, lev[f] >= 2, NEW i \in BootKept[f]
      PROVE  /\ i \in Index /\ Targets(Boot)[f][i] = Boot[f].entry[i].address
             /\ Boot[f].entry[i].address \in Frame
             /\ HasLink(Boot, f, i) /\ <<f, i>> \in AllLinks(Boot)
             /\ lev[Boot[f].entry[i].address] = lev[f] - 1
  <2>1. i \in Index /\ HasLink(Boot, f, i)
    BY <1>3 DEF BootKept
  <2>2. Targets(Boot)[f][i] = Boot[f].entry[i].address
    BY <2>1 DEF Targets
  <2>3. Boot \in [Frame -> Content] /\ Boot[f].is = "table"
    BY <1>1, <1>2, <1>3, BootAssumption
  <2>4. Boot[f].entry[i].address \in Frame
    BY <2>1, <2>3, TableIn
  <2>5. \A F : f \in F => <<f, i>> \in Links(Boot, F) /\ Boot[f].entry[i].address \in To(Boot, Links(Boot, F))
    <3>1. ASSUME NEW F, f \in F PROVE <<f, i>> \in Links(Boot, F)
      BY <3>1, <2>1 DEF Links, HasLink
    <3>2. ASSUME NEW F, f \in F PROVE Boot[f].entry[i].address \in To(Boot, Links(Boot, F))
      <4>1. <<f, i>> \in Links(Boot, F)
        BY <3>1, <3>2
      <4>2. \A l \in Links(Boot, F) : Boot[l[1]].entry[l[2]].address \in To(Boot, Links(Boot, F))
        BY DEF To
      <4> QED BY <4>1, <4>2
    <3> QED BY <3>1, <3>2
  <2>6. lev[f] \in {2, 3, 4}
    BY <1>1, <1>3
  <2>7. CASE lev[f] = 4
    <3>1. f \in {Root}
      BY <2>7, <1>2
    <3>2. <<f, i>> \in AllLinks(Boot) /\ Boot[f].entry[i].address \in T3
      BY <3>1, <2>5 DEF AllLinks, T3
    <3> QED BY <3>2, <2>1, <2>2, <2>4, <2>7, <1>2
  <2>8. CASE lev[f] = 3
    <3>1. f \in T3
      BY <2>8, <1>2
    <3>2. <<f, i>> \in AllLinks(Boot) /\ Boot[f].entry[i].address \in T2
      BY <3>1, <2>5 DEF AllLinks, T2, T3
    <3> QED BY <3>2, <2>1, <2>2, <2>4, <2>8, <1>2
  <2>9. CASE lev[f] = 2
    <3>1. f \in T2
      BY <2>9, <1>2
    <3>2. <<f, i>> \in AllLinks(Boot) /\ Boot[f].entry[i].address \in T1
      BY <3>1, <2>5 DEF AllLinks, T1, T2, T3
    <3> QED BY <3>2, <2>1, <2>2, <2>4, <2>9, <1>2
  <2> QED BY <2>6, <2>7, <2>8, <2>9
<1>4. Levels(lev)
  BY <1>1, <1>2 DEF Levels
<1>5. Down(lev, BootKept, Targets(Boot))
  BY <1>3 DEF Down
<1>6. Apart(lev, BootKept, Targets(Boot))
  <2>1. SUFFICES ASSUME NEW f \in Frame, NEW g \in Frame, lev[f] >= 2, lev[g] >= 2,
                        NEW i \in BootKept[f], NEW j \in BootKept[g],
                        Targets(Boot)[f][i] = Targets(Boot)[g][j]
                 PROVE  f = g /\ i = j
    BY DEF Apart
  <2> PICK k, l : k = <<f, i>> /\ l = <<g, j>>
    OBVIOUS
  <2>2. k \in AllLinks(Boot) /\ l \in AllLinks(Boot)
    BY <2>1, <1>3
  <2>3. Boot[k[1]].entry[k[2]].address = Boot[l[1]].entry[l[2]].address
    BY <2>1, <1>3
  <2>4. k = l
    BY <2>2, <2>3, BootAssumption
  <2> QED BY <2>4
<1>7. Up(lev, BootKept, Targets(Boot))
  <2>1. SUFFICES ASSUME NEW f \in Frame, lev[f] \in 1 .. 3
                 PROVE  \E g \in Frame : lev[g] = lev[f] + 1 /\ \E i \in BootKept[g] : Targets(Boot)[g][i] = f
    BY DEF Up
  <2>2. ASSUME NEW F \in SUBSET Frame, f \in To(Boot, Links(Boot, F))
        PROVE  \E g \in F : \E i \in BootKept[g] : Targets(Boot)[g][i] = f
    <3>1. PICK l \in Links(Boot, F) : f = Boot[l[1]].entry[l[2]].address
      BY <2>2 DEF To
    <3>2. l[1] \in F /\ l[2] \in Index /\ HasLink(Boot, l[1], l[2])
      BY DEF Links, HasLink
    <3>3. l[2] \in BootKept[l[1]] /\ Targets(Boot)[l[1]][l[2]] = f
      BY <3>1, <3>2 DEF BootKept, Targets
    <3> QED BY <3>2, <3>3
  <2>3. {Root} \subseteq Frame /\ T3 \subseteq Frame /\ T2 \subseteq Frame
    BY BootFrames, Constants
  <2>4. CASE lev[f] = 3
    <3>1. f \in To(Boot, Links(Boot, {Root}))
      BY <2>4, <1>2 DEF T3
    <3>2. PICK g \in {Root} : \E i \in BootKept[g] : Targets(Boot)[g][i] = f
      BY <2>2, <2>3, <3>1
    <3>3. g \in Frame /\ lev[g] = 4
      BY <1>2, <2>3
    <3> QED BY <2>4, <3>2, <3>3
  <2>5. CASE lev[f] = 2
    <3>1. f \in To(Boot, Links(Boot, T3))
      BY <2>5, <1>2 DEF T2
    <3>2. T3 \in SUBSET Frame
      BY <2>3
    <3>3. PICK g \in T3 : \E i \in BootKept[g] : Targets(Boot)[g][i] = f
      BY <2>2, <3>1, <3>2
    <3>4. g \in Frame /\ lev[g] = 3
      BY <1>2, <3>2
    <3> QED BY <2>5, <3>3, <3>4
  <2>6. CASE lev[f] = 1
    <3>1. f \in To(Boot, Links(Boot, T2))
      BY <2>6, <1>2 DEF T1
    <3>2. T2 \in SUBSET Frame
      BY <2>3
    <3>3. PICK g \in T2 : \E i \in BootKept[g] : Targets(Boot)[g][i] = f
      BY <2>2, <3>1, <3>2
    <3>4. g \in Frame /\ lev[g] = 2
      BY <1>2, <3>2
    <3> QED BY <2>6, <3>3, <3>4
  <2> QED BY <2>1, <2>4, <2>5, <2>6
<1>8. Tree(lev, BootKept, Targets(Boot))
  BY <1>4, <1>5, <1>6, <1>7 DEF Tree
<1> QED BY <1>8 DEF lev

\* The chunks of the first free list: the usable regions, the last one first.
FirstChunks == [k \in Nat |-> IF k \in DOMAIN Regions THEN Regions[k].base ELSE Root]

LEMMA FirstMemory ==
  ASSUME Init
  PROVE  /\ Len(Regions) \in Nat /\ FirstChunks \in [Nat -> Frame]
         /\ mem \in [Frame -> Content]
         /\ \A f \in Frame : f \notin Usable => mem[f] = Boot[f]
         /\ \A k \in 1 .. Len(Regions) :
              /\ FirstChunks[k] = Regions[k].base /\ Regions[k].size \in Nat \ {0}
              /\ mem[FirstChunks[k]] = Node(Regions[k].size, IF k = 1 THEN NULL ELSE FirstChunks[k - 1])
              /\ Span(k) \subseteq Usable
         /\ FREELIST = IF Len(Regions) = 0 THEN NULL ELSE FirstChunks[Len(Regions)]
         /\ FREELIST \in Frame \cup {NULL}
<1> DEFINE At(f) == {n \in DOMAIN Regions : Regions[n].base = f}
           new(f) == LET n == Max(At(f))
                     IN  Node(Regions[n].size, IF n = 1 THEN NULL ELSE Regions[n - 1].base)
           N == Len(Regions)
<1>1. N \in Nat /\ DOMAIN Regions = 1 .. N /\ Regions \in [1 .. N -> [base : Frame, size : Nat \ {0}]]
  <2> DEFINE R == [base : Frame, size : Nat \ {0}]
  <2>1. Regions \in Seq(R)
    BY MapAssumption
  <2> HIDE DEF R
  <2>2. N \in Nat /\ DOMAIN Regions = 1 .. N /\ Regions \in [1 .. N -> R]
    BY <2>1
  <2> QED BY <2>2 DEF R
<1>2. \A n \in DOMAIN Regions : /\ Regions[n].base \in Frame /\ Regions[n].size \in Nat \ {0}
                                /\ Regions[n].base \in Int
  BY <1>1, Constants DEF Frame
<1>3. mem = [f \in Frame |-> IF At(f) = {} THEN Boot[f] ELSE new(f)]
  BY DEF Init
<1>4. \A n \in DOMAIN Regions : Span(n) \subseteq Usable /\ Regions[n].base \in Span(n)
  <2>1. ASSUME NEW n \in DOMAIN Regions PROVE Regions[n].base \in Span(n)
    BY <1>2 DEF Span
  <2> QED BY <2>1 DEF Usable
<1>5. \A n, k \in DOMAIN Regions : Regions[n].base = Regions[k].base => n = k
  BY <1>4, MapAssumption
<1>6. \A n \in DOMAIN Regions : At(Regions[n].base) = {n}
  BY <1>5
<1>7. \A n \in DOMAIN Regions : Max({n}) = n
  <2>1. ASSUME NEW n \in DOMAIN Regions PROVE Max({n}) = n
    <3>1. n >= n
      BY <1>1
    <3>2. \E x \in {n} : \A y \in {n} : x >= y
      BY <3>1
    <3> QED BY <3>2 DEF Max
  <2> QED BY <2>1
<1>8. ASSUME NEW n \in DOMAIN Regions
      PROVE  /\ Max(At(Regions[n].base)) = n
             /\ mem[Regions[n].base] = Node(Regions[n].size, IF n = 1 THEN NULL ELSE Regions[n - 1].base)
  <2>1. At(Regions[n].base) = {n}
    BY <1>6
  <2>2. Max(At(Regions[n].base)) = n
    BY <2>1, <1>7
  <2>3. At(Regions[n].base) # {}
    BY <2>1
  <2> PICK f : f = Regions[n].base
    OBVIOUS
  <2>4. mem[f] = new(f)
    <3>1. f \in Frame /\ At(f) # {}
      BY <1>2, <2>3
    <3> HIDE DEF At, new
    <3> QED BY <3>1, <1>3
  <2>5. PICK k : k = Max(At(f))
    OBVIOUS
  <2>6. k = n /\ mem[f] = Node(Regions[k].size, IF k = 1 THEN NULL ELSE Regions[k - 1].base)
    BY <2>2, <2>4, <2>5
  <2> QED BY <2>2, <2>6
<1>9. \A n \in DOMAIN Regions : Regions[n].size \in 0 .. NumFrames
  <2>1. ASSUME NEW n \in DOMAIN Regions PROVE Regions[n].size \in 0 .. NumFrames
    <3>1. Regions[n].base + Regions[n].size - 1 \in Span(n)
      BY <1>2 DEF Span
    <3>2. Regions[n].base + Regions[n].size - 1 \in Frame
      BY <3>1, <1>4, MapAssumption
    <3> QED BY <3>2, <1>2, Constants DEF Frame
  <2> QED BY <2>1
<1>10. ASSUME NEW f \in Frame
       PROVE  mem[f] \in Content /\ (f \notin Usable => mem[f] = Boot[f])
  <2>1. CASE At(f) = {}
    <3>1. mem[f] = Boot[f]
      BY <2>1, <1>3
    <3> QED BY <3>1, BootAssumption
  <2>2. CASE At(f) # {}
    <3>1. PICK n \in DOMAIN Regions : Regions[n].base = f
      BY <2>2
    <3>2. f \in Usable
      BY <3>1, <1>4
    <3>3. mem[f] = Node(Regions[n].size, IF n = 1 THEN NULL ELSE Regions[n - 1].base)
      BY <3>1, <1>8
    <3>4. (IF n = 1 THEN NULL ELSE Regions[n - 1].base) \in Frame \cup {NULL}
      <4>1. n # 1 => n - 1 \in DOMAIN Regions
        BY <1>1
      <4> QED BY <4>1, <1>2
    <3>5. mem[f] \in Content
      BY <3>3, <3>4, <1>9, NodeIn
    <3> QED BY <3>2, <3>5
  <2> QED BY <2>1, <2>2
<1> HIDE DEF At, new
<1>11. mem \in [Frame -> Content] /\ \A f \in Frame : f \notin Usable => mem[f] = Boot[f]
  <2>1. mem = [f \in Frame |-> mem[f]]
    BY Zenon, <1>3
  <2> QED BY <2>1, <1>10
<1>12. FirstChunks \in [Nat -> Frame] /\ \A k \in 1 .. N : FirstChunks[k] = Regions[k].base
  BY <1>1, <1>2, Constants DEF FirstChunks
<1>13. ASSUME NEW k \in 1 .. N
       PROVE  mem[FirstChunks[k]] = Node(Regions[k].size, IF k = 1 THEN NULL ELSE FirstChunks[k - 1])
  <2>1. k # 1 => k - 1 \in 1 .. N
    BY <1>1
  <2> QED BY <2>1, <1>1, <1>8, <1>12
<1>14. FREELIST = IF N = 0 THEN NULL ELSE FirstChunks[N]
  <2>1. Regions = <<>> <=> N = 0
    BY <1>1, MapAssumption
  <2>2. N # 0 => Last(Regions).base = FirstChunks[N]
    BY <1>1, <1>12 DEF Last
  <2> QED BY <2>1, <2>2 DEF Init
<1>15. FREELIST \in Frame \cup {NULL}
  BY <1>1, <1>12, <1>14
<1>16. \A k \in 1 .. N : Regions[k].size \in Nat \ {0} /\ Span(k) \subseteq Usable
  BY <1>1, <1>2, <1>4
<1> QED BY <1>1, <1>11, <1>12, <1>13, <1>14, <1>15, <1>16

LEMMA InitGood ==
  ASSUME Init
  PROVE  Good(BootLevel, Len(Regions), FirstChunks)
<1> DEFINE lev == BootLevel
           s == FirstChunks
           n == Len(Regions)
<1>1. /\ n \in Nat /\ s \in [Nat -> Frame] /\ mem \in [Frame -> Content]
      /\ \A f \in Frame : f \notin Usable => mem[f] = Boot[f]
      /\ \A k \in 1 .. n :
           /\ s[k] = Regions[k].base /\ Regions[k].size \in Nat \ {0}
           /\ mem[s[k]] = Node(Regions[k].size, IF k = 1 THEN NULL ELSE s[k - 1])
           /\ Span(k) \subseteq Usable
      /\ FREELIST = IF n = 0 THEN NULL ELSE s[n]
      /\ FREELIST \in Frame \cup {NULL}
  BY FirstMemory
<1>2. /\ lev \in [Frame -> 0 .. 4]
      /\ \A f \in Frame : /\ lev[f] = 4 <=> f = Root
                          /\ lev[f] \in 1 .. 3 <=> f \in Tables(Boot)
                          /\ lev[f] >= 1 => Boot[f].is = "table" /\ f \notin Usable
                          /\ lev[f] >= 2 => \A i \in Index :
                               Boot[f].entry[i].page_size => Boot[f].entry[i].present /\ f # Root
  BY BootLevels
<1>3. Tree(lev, BootKept, Targets(Boot))
  BY BootTree
<1>4. /\ pc = "idle" /\ address = FirstPage /\ prot = AnyProt /\ level = 0 /\ cur_table = Root
      /\ l4_index = 0 /\ l3_index = 0 /\ l2_index = 0 /\ astray = FALSE
  BY DEF Init
<1>5. Len(Regions) = n /\ DOMAIN Regions = 1 .. n
  BY MapAssumption
<1> HIDE DEF lev, s, n
<1>6. \A f \in Frame : lev[f] >= 1 => mem[f] = Boot[f]
  BY <1>1, <1>2
<1>7. Tree(lev, Kept, Targets(mem))
  <2>1. ASSUME NEW f \in Frame, lev[f] >= 2
        PROVE  Kept[f] = BootKept[f] /\ Targets(mem)[f] = Targets(Boot)[f]
    <3>1. mem[f] = Boot[f]
      BY <2>1, <1>2, <1>6
    <3>2. \A j : j \in Kept[f] <=> j \in BootKept[f]
      BY <3>1, <1>4, AllKept DEF BootKept, HasLink
    <3> QED BY <3>1, <3>2 DEF Targets
  <2> QED BY <2>1, <1>3, SameTree
<1>8. AreTables(mem, lev)
  <2>1. ASSUME NEW f \in Frame
        PROVE  /\ lev[f] >= 1 => mem[f].is = "table"
               /\ lev[f] >= 2 => \A i \in Index : mem[f].entry[i].page_size => mem[f].entry[i].present /\ f # Root
    <3>1. lev[f] >= 2 => lev[f] >= 1
      BY <1>2
    <3> QED BY <3>1, <1>2, <1>6
  <2> QED BY <2>1 DEF AreTables
<1>9. \A k \in 1 .. n : /\ mem[s[k]].is = "node" /\ mem[s[k]].size = Regions[k].size
                        /\ mem[s[k]].next = IF k = 1 THEN NULL ELSE s[k - 1]
                        /\ Stretch(mem, s[k]) = Span(k)
  <2>1. ASSUME NEW k \in 1 .. n
        PROVE  /\ mem[s[k]].is = "node" /\ mem[s[k]].size = Regions[k].size
               /\ mem[s[k]].next = IF k = 1 THEN NULL ELSE s[k - 1]
    <3>1. mem[s[k]] = Node(Regions[k].size, IF k = 1 THEN NULL ELSE s[k - 1])
      BY <1>1
    <3>2. \A x, y : Node(x, y).is = "node" /\ Node(x, y).size = x /\ Node(x, y).next = y
      BY DEF Node
    <3> QED BY <3>1, <3>2
  <2>2. ASSUME NEW k \in 1 .. n PROVE Stretch(mem, s[k]) = Span(k)
    BY <2>1, <1>1 DEF Stretch, Span
  <2> QED BY <2>1, <2>2
<1>10. \A f \in Frame : f \in Usable => lev[f] = 0
  BY <1>2
<1>11. Chain(mem, FREELIST, lev, n, s)
  <2>1. \A k \in 1 .. n : \A f \in Stretch(mem, s[k]) : f \in Frame /\ lev[f] = 0
    BY <1>1, <1>9, <1>10, MapAssumption
  <2>2. \A k, l \in 1 .. n : \A f \in Frame :
          f \in Stretch(mem, s[k]) /\ f \in Stretch(mem, s[l]) => k = l
    BY <1>5, <1>9, MapAssumption
  <2> QED BY <2>1, <2>2, <1>1, <1>9 DEF Chain
<1>12. Whole(mem, lev, n, s)
  <2>1. \A f : f \in Usable <=> \E k \in 1 .. n : f \in Span(k)
    BY <1>5 DEF Usable
  <2> QED BY <2>1, <1>2, <1>9 DEF Whole
<1>13. TypeOK
  <2>1. 0 \in 0 .. Fanout \div 2 /\ 0 \in 0 .. Fanout /\ 0 \in 0 .. 4
    BY Constants
  <2>2. /\ mem \in [Frame -> Content] /\ FREELIST \in Frame \cup {NULL}
        /\ pc = "idle" /\ address \in Page /\ prot \in Protection
        /\ level = 0 /\ cur_table \in Frame /\ astray \in BOOLEAN
    BY <1>1, <1>4, Values, Constants
  <2>3. l4_index = 0 /\ l3_index = 0 /\ l2_index = 0
    BY <1>4
  <2> QED BY <2>1, <2>2, <2>3 DEF TypeOK
<1>14. OnLoop /\ OnWalk
  BY <1>4 DEF OnLoop, OnWalk, Unmapping
<1>15. Good(lev, n, s)
  BY <1>7, <1>8, <1>11, <1>12, <1>13, <1>14 DEF Good, Held
<1> QED BY <1>15 DEF lev, n, s

-----------------------------------------------------------------------------
(* The invariant holds.                                                    *)

LEMMA InitIInv == Init => IInv
<1>1. SUFFICES ASSUME Init PROVE \E lev, n, s : Good(lev, n, s)
  BY DEF IInv
<1> QED BY <1>1, InitGood

\* What has gone astray stays so.
LEMMA StaysAstray ==
  ASSUME [Next]_vars, ~astray'
  PROVE  ~astray
<1>1. CASE UNCHANGED vars
  BY <1>1 DEF vars
<1>2. CASE Next
  <2>1. ASSUME NEW a \in Address, NEW p \in Protection, vm_map(a, p) \/ vm_protect(a, p)
        PROVE  ~astray
    BY <2>1 DEF vm_map, vm_protect
  <2>2. ASSUME NEW a \in Address, translate(a)
        PROVE  ~astray
    BY <2>2 DEF translate
  <2>3. CASE unmap_lower_half
    BY <2>3 DEF unmap_lower_half
  <2>4. CASE Walk
    BY Zenon, <2>4 DEF Walk, Descend, DescendAstray, NewTable, NoMemory, AlreadyMapped, MapLeaf
  <2>5. CASE Unmap
    BY <2>5 DEF Unmap
  <2> QED BY <1>2, <2>1, <2>2, <2>3, <2>4, <2>5 DEF Next
<1> QED BY <1>1, <1>2

LEMMA Step == IInv /\ [Next]_vars => IInv'
<1> SUFFICES ASSUME IInv, [Next]_vars, ~astray'
             PROVE  \E lev, n, s : Good(lev, n, s)'
  BY DEF IInv
<1>1. ASSUME UNCHANGED vars PROVE ~astray /\ (\A lev, n, s : Good(lev, n, s)' <=> Good(lev, n, s))
  <2>1. /\ mem' = mem /\ FREELIST' = FREELIST /\ pc' = pc /\ address' = address /\ prot' = prot
        /\ level' = level /\ cur_table' = cur_table
        /\ l4_index' = l4_index /\ l3_index' = l3_index /\ l2_index' = l2_index /\ astray' = astray
    BY <1>1 DEF vars, args, walk, loop
  <2>2. Kept' = Kept
    BY <2>1 DEF Kept, L3Table, L2Table
  <2>3. TypeOK' <=> TypeOK
    BY <2>1 DEF TypeOK
  <2>4. OnLoop' <=> OnLoop
    BY <2>1, <2>2 DEF OnLoop, L3Table, Unmapping
  <2>5. OnWalk' <=> OnWalk
    BY <2>1 DEF OnWalk
  <2>6. \A lev, n, s : Held(lev, n, s)' <=> Held(lev, n, s)
    BY <2>1, <2>2 DEF Held
  <2> QED BY <2>1, <2>3, <2>4, <2>5, <2>6 DEF Good
<1>2. ~astray
  BY StaysAstray
<1>3. PICK lev, n, s : Good(lev, n, s)
  BY <1>2 DEF IInv
<1>4. CASE UNCHANGED vars
  BY <1>1, <1>3, <1>4
<1>5. ASSUME NEW a \in Address, NEW p \in Protection, vm_map(a, p)
      PROVE  Good(lev, n, s)'
  BY <1>3, <1>5, CallGood
<1>6. ASSUME NEW a \in Address, NEW p \in Protection, vm_protect(a, p)
      PROVE  Good(lev, n, s)'
  <2>1. \E v : Return(v)
    BY <1>6 DEF vm_protect
  <2>2. /\ pc \in {"idle", "vm_map"} /\ UNCHANGED mem /\ UNCHANGED FREELIST /\ UNCHANGED loop
        /\ astray' \in BOOLEAN
    BY <1>6 DEF vm_protect
  <2> QED BY <2>1, <2>2, <1>3, ReturnGood
<1>7. ASSUME NEW a \in Address, translate(a)
      PROVE  Good(lev, n, s)'
  <2>1. \E v : Return(v)
    BY <1>7 DEF translate
  <2>2. /\ pc \in {"idle", "vm_map"} /\ UNCHANGED mem /\ UNCHANGED FREELIST /\ UNCHANGED loop
        /\ astray' \in BOOLEAN
    BY <1>7 DEF translate
  <2> QED BY <2>1, <2>2, <1>3, ReturnGood
<1>8. CASE unmap_lower_half
  BY <1>3, <1>8, UnmapGood
<1>9. CASE Walk
  <2>1. pc = "vm_map"
    BY <1>9 DEF Walk
  <2>2. CASE Descend
    BY <2>1, <2>2, <1>3, DescendGood
  <2>3. CASE DescendAstray
    BY Zenon, <2>3 DEF DescendAstray
  <2>4. CASE NewTable
    BY <2>1, <2>4, <1>3, NewTableGood
  <2>5. CASE NoMemory \/ AlreadyMapped
    <3>1. \E v : Return(v)
      BY Zenon, <2>5 DEF NoMemory, AlreadyMapped
    <3>2. pc \in {"idle", "vm_map"} /\ astray \in BOOLEAN
      BY <2>1, <1>3 DEF Good, TypeOK
    <3>3. UNCHANGED mem /\ UNCHANGED FREELIST /\ UNCHANGED loop /\ astray' = astray
      BY Zenon, <2>5 DEF NoMemory, AlreadyMapped
    <3> QED BY <3>1, <3>2, <3>3, <1>3, ReturnGood
  <2>6. CASE MapLeaf
    BY <2>1, <2>6, <1>3, MapLeafGood
  <2> QED BY <2>2, <2>3, <2>4, <2>5, <2>6, <1>9 DEF Walk
<1>10. CASE Unmap
  <2>1. UNCHANGED <<args, walk, ret, astray>>
    BY <1>10 DEF Unmap
  <2>2. CASE LoopL4
    BY <2>1, <2>2, <1>3, L4Good
  <2>3. CASE LoopL3
    BY <2>1, <2>3, <1>3, L3Good
  <2>4. CASE LoopL2
    BY <2>1, <2>4, <1>3, L2Good
  <2> QED BY <2>2, <2>3, <2>4, <1>10 DEF Unmap
<1> QED BY <1>4, <1>5, <1>6, <1>7, <1>8, <1>9, <1>10 DEF Next

LEMMA Always == Spec => []IInv
<1>1. Init => IInv
  BY InitIInv
<1>2. IInv /\ [Next]_vars => IInv'
  BY Step
<1> QED BY <1>1, <1>2, PTL DEF Spec

-----------------------------------------------------------------------------
(* What the invariant says of the free list and of the tables.             *)

LEMMA ChunksAre ==
  ASSUME NEW lev, NEW n, NEW s, Chain(mem, FREELIST, lev, n, s)
  PROVE  /\ \A f : f \in Chunks <=> \E k \in 1 .. n : f = s[k]
         /\ \A f : f \in FreePages <=> \E k \in 1 .. n : f \in Stretch(mem, s[k])
<1> DEFINE w == [k \in 0 .. NumFrames |-> IF k < n THEN s[n - k] ELSE NULL]
<1>1. n \in 0 .. NumFrames /\ NumFrames \in Nat
  BY ChainBound, Constants
<1>2. \A k \in 1 .. n : s[k] # NULL
  BY <1>1, Constants DEF Chain, Frame, NULL
<1>3. Chunks = {w[x] : x \in DOMAIN w} \ {NULL}
  <2>1. Chunk = w
    BY ChunkIs
  <2> HIDE DEF w
  <2> QED BY <2>1 DEF Chunks, Range
<1>4. ASSUME NEW f \in Chunks PROVE \E k \in 1 .. n : f = s[k]
  <2>1. PICK x \in 0 .. NumFrames : f = w[x] /\ f # NULL
    BY <1>3
  <2>2. x < n /\ f = s[n - x]
    BY <2>1
  <2>3. n - x \in 1 .. n
    BY <1>1, <2>1, <2>2
  <2> QED BY <2>2, <2>3
<1>5. ASSUME NEW k \in 1 .. n PROVE s[k] \in Chunks
  <2>1. PICK x \in 0 .. NumFrames : x = n - k
    BY <1>1
  <2>2. w[x] = s[k]
    <3>1. x < n /\ n - x = k
      BY <1>1, <2>1
    <3> QED BY <3>1
  <2>3. x \in DOMAIN w /\ s[k] # NULL
    BY <1>2
  <2> HIDE DEF w
  <2> QED BY <2>2, <2>3, <1>3
<1>6. \A f : f \in Chunks <=> \E k \in 1 .. n : f = s[k]
  BY <1>4, <1>5
<1>7. \A f : f \in FreePages <=> \E c \in Chunks : f \in Stretch(mem, c)
  BY DEF FreePages, Pages, Stretch
<1> QED BY <1>6, <1>7

TablesAt(lev, k, F) == \A f : f \in F <=> f \in Frame /\ lev[f] = k
LinksAt(lev, k, L) ==
  \A l : l \in L <=> l \in Frame \X Index /\ lev[l[1]] = k /\ HasLink(mem, l[1], l[2])

\* The tables one level below those of level k.
LEMMA NextLevel ==
  ASSUME NEW lev, NEW n, NEW s, TypeOK, Held(lev, n, s), pc \notin {"l3", "l2"},
         NEW k \in 2 .. 4, NEW F, TablesAt(lev, k, F)
  PROVE  LinksAt(lev, k, Links(mem, F)) /\ TablesAt(lev, k - 1, To(mem, Links(mem, F)))
<1> USE DEF LinksAt, TablesAt
<1>1. \A l : l \in Links(mem, F) <=>
        l \in Frame \X Index /\ lev[l[1]] = k /\ HasLink(mem, l[1], l[2])
  <2>1. \A l : l \in F \X Index <=> l \in Frame \X Index /\ lev[l[1]] = k
    OBVIOUS
  <2> QED BY <2>1 DEF Links, HasLink
<1>2. ASSUME NEW f \in To(mem, Links(mem, F)) PROVE f \in Frame /\ lev[f] = k - 1
  <2>1. PICK l \in Links(mem, F) : f = mem[l[1]].entry[l[2]].address
    BY ToIs
  <2>2. l[1] \in Frame /\ l[2] \in Index /\ lev[l[1]] = k /\ HasLink(mem, l[1], l[2])
    BY <1>1
  <2>3. l[2] \in Kept[l[1]] /\ lev[l[1]] >= 2
    BY <2>2, AllKept
  <2> QED BY <2>1, <2>2, <2>3, KeptDown
<1>3. ASSUME NEW f \in Frame, lev[f] = k - 1 PROVE f \in To(mem, Links(mem, F))
  <2>1. lev[f] \in 1 .. 3
    BY <1>3
  <2>2. PICK g \in Frame : lev[g] = lev[f] + 1 /\ \E i \in Kept[g] : Targets(mem)[g][i] = f
    BY <2>1 DEF Held, Tree, Up
  <2>3. PICK i \in Kept[g] : Targets(mem)[g][i] = f
    BY <2>2
  <2>4. lev[g] = k /\ i \in Index /\ HasLink(mem, g, i)
    BY <2>2, <1>3, AllKept
  <2>5. mem[g].entry[i].address = f
    BY <2>3, <2>4 DEF Targets
  <2> PICK l : l = <<g, i>>
    OBVIOUS
  <2>6. l \in Links(mem, F) /\ mem[l[1]].entry[l[2]].address = f
    BY <2>4, <2>5, <1>1
  <2> QED BY <2>6, ToIs
<1> QED BY <1>1, <1>2, <1>3

LEMMA TablesAre ==
  ASSUME NEW lev, NEW n, NEW s, TypeOK, Held(lev, n, s), pc \notin {"l3", "l2"}
  PROVE  /\ \A f : f \in Tables(mem) <=> f \in Frame /\ lev[f] \in 1 .. 3
         /\ \A l : l \in AllLinks(mem) <=>
              l \in Frame \X Index /\ lev[l[1]] >= 2 /\ HasLink(mem, l[1], l[2])
<1> DEFINE L3 == Links(mem, {Root})
           F3 == To(mem, L3)
           L2 == Links(mem, F3)
           F2 == To(mem, L2)
           L1 == Links(mem, F2)
           F1 == To(mem, L1)
<1>1. TablesAt(lev, 4, {Root})
  BY Facts, Constants DEF TablesAt
<1>2. LinksAt(lev, 4, L3) /\ TablesAt(lev, 4 - 1, F3)
  BY <1>1, NextLevel
<1>3. LinksAt(lev, 3, L2) /\ TablesAt(lev, 3 - 1, F2)
  <2>1. TablesAt(lev, 3, F3)
    BY <1>2
  <2> HIDE DEF F3
  <2> QED BY <2>1, NextLevel
<1>4. LinksAt(lev, 2, L1) /\ TablesAt(lev, 2 - 1, F1)
  <2>1. TablesAt(lev, 2, F2)
    BY <1>3
  <2> HIDE DEF F2
  <2> QED BY <2>1, NextLevel
<1>5. AllLinks(mem) = L3 \cup L2 \cup L1
  BY DEF AllLinks
<1>6. /\ \A l \in L3 : mem[l[1]].entry[l[2]].address \in F3
      /\ \A f \in F3 : \E l \in L3 : f = mem[l[1]].entry[l[2]].address
  <2> HIDE DEF L3
  <2> QED BY ToIs
<1>7. /\ \A l \in L2 : mem[l[1]].entry[l[2]].address \in F2
      /\ \A f \in F2 : \E l \in L2 : f = mem[l[1]].entry[l[2]].address
  <2> HIDE DEF L2
  <2> QED BY ToIs
<1>8. /\ \A l \in L1 : mem[l[1]].entry[l[2]].address \in F1
      /\ \A f \in F1 : \E l \in L1 : f = mem[l[1]].entry[l[2]].address
  <2> HIDE DEF L1
  <2> QED BY ToIs
<1>9. /\ \A l \in AllLinks(mem) : mem[l[1]].entry[l[2]].address \in Tables(mem)
      /\ \A f \in Tables(mem) : \E l \in AllLinks(mem) : f = mem[l[1]].entry[l[2]].address
  BY ToIs DEF Tables
<1> HIDE DEF L3, F3, L2, F2, L1, F1
<1>10. \A f : f \in Tables(mem) <=> f \in F3 \/ f \in F2 \/ f \in F1
  <2>1. ASSUME NEW f \in Tables(mem) PROVE f \in F3 \/ f \in F2 \/ f \in F1
    <3>1. PICK l \in AllLinks(mem) : f = mem[l[1]].entry[l[2]].address
      BY <1>9
    <3>2. l \in L3 \/ l \in L2 \/ l \in L1
      BY <1>5
    <3> QED BY <3>1, <3>2, <1>6, <1>7, <1>8
  <2>2. ASSUME NEW f, f \in F3 \/ f \in F2 \/ f \in F1 PROVE f \in Tables(mem)
    <3>1. PICK l : (l \in L3 \/ l \in L2 \/ l \in L1) /\ f = mem[l[1]].entry[l[2]].address
      BY <2>2, <1>6, <1>7, <1>8
    <3>2. l \in AllLinks(mem)
      BY <3>1, <1>5
    <3> QED BY <3>1, <3>2, <1>9
  <2> QED BY <2>1, <2>2
<1>11. \A f \in Frame : lev[f] \in 0 .. 4
  BY Facts
<1>12. \A f : f \in Tables(mem) <=> f \in Frame /\ lev[f] \in 1 .. 3
  <2>1. \A f : /\ f \in F3 <=> f \in Frame /\ lev[f] = 3
               /\ f \in F2 <=> f \in Frame /\ lev[f] = 2
               /\ f \in F1 <=> f \in Frame /\ lev[f] = 1
    BY <1>2, <1>3, <1>4 DEF TablesAt
  <2> QED BY <2>1, <1>10, <1>11
<1>13. \A l : l \in AllLinks(mem) <=>
         l \in Frame \X Index /\ lev[l[1]] >= 2 /\ HasLink(mem, l[1], l[2])
  <2>1. \A l : l \in Frame \X Index => lev[l[1]] \in 0 .. 4
    BY <1>11
  <2>2. \A l : l \in AllLinks(mem) <=> l \in L3 \/ l \in L2 \/ l \in L1
    BY <1>5
  <2>3. \A l : l \in AllLinks(mem) <=>
          l \in Frame \X Index /\ lev[l[1]] \in {2, 3, 4} /\ HasLink(mem, l[1], l[2])
    BY <2>2, <1>2, <1>3, <1>4 DEF LinksAt
  <2>4. \A l : l \in Frame \X Index => (lev[l[1]] \in {2, 3, 4} <=> lev[l[1]] >= 2)
    BY <2>1
  <2> QED BY <2>3, <2>4
<1> QED BY <1>12, <1>13

\* As many tables as links: no table is linked twice.
LEMMA AsManyTables ==
  ASSUME NEW lev, NEW n, NEW s, TypeOK, Held(lev, n, s), pc \notin {"l3", "l2"}
  PROVE  Cardinality(Tables(mem)) = Cardinality(AllLinks(mem))
<1> DEFINE L == AllLinks(mem)
           T == Tables(mem)
           at == [l \in L |-> mem[l[1]].entry[l[2]].address]
<1>1. \A l : l \in L <=> l \in Frame \X Index /\ lev[l[1]] >= 2 /\ HasLink(mem, l[1], l[2])
  BY TablesAre
<1>2. \A l \in L : l[1] \in Frame /\ lev[l[1]] >= 2 /\ l[2] \in Kept[l[1]] /\ l = <<l[1], l[2]>>
  BY <1>1, AllKept
<1>3. IsFiniteSet(L)
  <2>1. IsFiniteSet(Frame) /\ IsFiniteSet(Index)
    BY FS_Interval, Constants DEF Frame, Index
  <2>2. IsFiniteSet(Frame \X Index)
    BY <2>1, FS_Product
  <2>3. L \subseteq Frame \X Index
    BY <1>1
  <2> HIDE DEF L
  <2> QED BY <2>2, <2>3, FS_Subset
<1>4. /\ \A l \in L : mem[l[1]].entry[l[2]].address \in T
      /\ \A f \in T : \E l \in L : f = mem[l[1]].entry[l[2]].address
  BY ToIs DEF Tables
<1>5. \A k, l \in L : mem[k[1]].entry[k[2]].address = mem[l[1]].entry[l[2]].address => k = l
  <2>1. SUFFICES ASSUME NEW k \in L, NEW l \in L,
                        mem[k[1]].entry[k[2]].address = mem[l[1]].entry[l[2]].address
                 PROVE  k = l
    OBVIOUS
  <2>2. k[1] = l[1] /\ k[2] = l[2]
    BY <2>1, <1>2, KeptApart
  <2> QED BY <2>2, <1>2
<1> HIDE DEF L, T
<1>6. at \in [L -> T] /\ (\A k, l \in L : at[k] = at[l] => k = l) /\ \A f \in T : \E l \in L : at[l] = f
  BY <1>4, <1>5
<1> HIDE DEF at
<1>7. at \in Bijection(L, T)
  BY <1>6 DEF Bijection, Injection, Surjection, IsInjective
<1>8. ExistsBijection(L, T)
  BY <1>7 DEF ExistsBijection
<1>9. Cardinality(L) = Cardinality(T)
  BY <1>3, <1>8, FS_Bijection
<1> QED BY <1>9 DEF L, T

LEMMA GoodApart ==
  ASSUME NEW lev, NEW n, NEW s, Good(lev, n, s)
  PROVE  PagesApart
<1>1. SUFFICES ASSUME ~Unmapping
      PROVE  /\ \A f, g \in Chunks : f # g => Pages(f) \cap Pages(g) = {}
             /\ FreePages \cap Tables(mem) = {}
             /\ Cardinality(Tables(mem)) = Cardinality(AllLinks(mem))
             /\ Root \notin FreePages \cup Tables(mem)
  BY DEF PagesApart, Reads
<1>2. TypeOK /\ Held(lev, n, s) /\ pc \notin {"l3", "l2"}
  BY <1>1 DEF Good, Unmapping
<1>3. Chain(mem, FREELIST, lev, n, s)
  BY <1>2 DEF Held
<1>4. /\ \A f : f \in Chunks <=> \E k \in 1 .. n : f = s[k]
      /\ \A f : f \in FreePages <=> \E k \in 1 .. n : f \in Stretch(mem, s[k])
  BY <1>3, ChunksAre
<1>5. \A f : f \in Tables(mem) <=> f \in Frame /\ lev[f] \in 1 .. 3
  BY <1>2, TablesAre
<1>6. \A k \in 1 .. n : \A f \in Stretch(mem, s[k]) : f \in Frame /\ lev[f] = 0
  BY <1>3 DEF Chain
<1>7. ASSUME NEW f \in Chunks, NEW g \in Chunks, f # g PROVE Pages(f) \cap Pages(g) = {}
  <2>1. PICK k \in 1 .. n, l \in 1 .. n : f = s[k] /\ g = s[l]
    BY <1>4
  <2>2. \A h \in Frame : h \in Stretch(mem, s[k]) /\ h \in Stretch(mem, s[l]) => k = l
    BY <1>3 DEF Chain
  <2>3. \A h : ~(h \in Stretch(mem, f) /\ h \in Stretch(mem, g))
    BY <2>1, <2>2, <1>6, <1>7
  <2> QED BY <2>3 DEF Pages, Stretch
<1>8. FreePages \cap Tables(mem) = {}
  <2>1. \A f : ~(f \in FreePages /\ f \in Tables(mem))
    BY <1>4, <1>5, <1>6
  <2> QED BY <2>1
<1>9. Root \notin FreePages /\ Root \notin Tables(mem)
  <2>1. lev[Root] = 4
    BY <1>2, Facts, Constants
  <2> QED BY <2>1, <1>4, <1>5, <1>6
<1> QED BY <1>2, <1>7, <1>8, <1>9, AsManyTables

LEMMA GoodKept ==
  ASSUME NEW lev, NEW n, NEW s, Good(lev, n, s)
  PROVE  PagesKept
<1>1. SUFFICES ASSUME ~Unmapping
      PROVE  FreePages \cup Tables(mem) = Usable \cup Tables(Boot)
  BY DEF PagesKept, Reads
<1>2. TypeOK /\ Held(lev, n, s) /\ pc \notin {"l3", "l2"}
  BY <1>1 DEF Good, Unmapping
<1>3. Chain(mem, FREELIST, lev, n, s) /\ Whole(mem, lev, n, s)
  BY <1>2 DEF Held
<1>4. /\ \A f : f \in FreePages <=> \E k \in 1 .. n : f \in Stretch(mem, s[k])
      /\ \A f : f \in Tables(mem) <=> f \in Frame /\ lev[f] \in 1 .. 3
  BY <1>2, <1>3, ChunksAre, TablesAre
<1>5. \A k \in 1 .. n : \A f \in Stretch(mem, s[k]) : f \in Frame
  BY <1>3 DEF Chain
<1>6. \A f \in Usable \cup Tables(Boot) : f \in Frame
  <2>1. \A f \in T3 \cup T2 \cup T1 : f \in Frame
    BY BootFrames
  <2> QED BY <2>1, MapAssumption, BootTables
<1>7. \A f : f \in FreePages \cup Tables(mem) <=> f \in Usable \cup Tables(Boot)
  BY <1>3, <1>4, <1>5, <1>6 DEF Whole
<1> QED BY <1>7

LEMMA GoodReads ==
  ASSUME NEW lev, NEW n, NEW s, Good(lev, n, s)
  PROVE  ReadAsWritten
<1>1. TypeOK /\ Held(lev, n, s) /\ OnWalk
  BY DEF Good
<1>2. \A f \in Frame : lev[f] >= 1 => mem[f].is = "table"
  BY <1>1, Facts
<1>3. mem[cur_table].is = "table"
  <2>1. CASE pc = "vm_map"
    <3>1. lev[cur_table] >= 1 /\ cur_table \in Frame
      BY <2>1, Walking
    <3> QED BY <3>1, <1>2
  <2>2. CASE pc # "vm_map"
    <3>1. cur_table = Root /\ lev[Root] >= 1 /\ Root \in Frame
      BY <2>2, <1>1, Facts, Constants DEF OnWalk
    <3> QED BY <3>1, <1>2
  <2> QED BY <2>1, <2>2
<1>4. pc \in {"l3", "l2"} => mem[L3Table].is = "table"
  <2>1. SUFFICES ASSUME pc \in {"l3", "l2"} PROVE mem[L3Table].is = "table"
    OBVIOUS
  <2>2. L3Table \in Frame /\ lev[L3Table] >= 1
    BY <2>1, Scanning
  <2> QED BY <2>2, <1>2
<1>5. pc = "l2" => mem[L2Table].is = "table"
  <2>1. SUFFICES ASSUME pc = "l2" PROVE mem[L2Table].is = "table"
    OBVIOUS
  <2>2. L2Table \in Frame /\ lev[L2Table] >= 1
    BY <2>1, Scanning
  <2> QED BY <2>2, <1>2
<1>6. \A f \in Chunks : mem[f].is = "node"
  <2>1. Chain(mem, FREELIST, lev, n, s)
    BY <1>1 DEF Held
  <2>2. \A f \in Chunks : \E k \in 1 .. n : f = s[k]
    BY <2>1, ChunksAre
  <2> QED BY <2>1, <2>2 DEF Chain
<1> QED BY <1>3, <1>4, <1>5, <1>6 DEF ReadAsWritten

-----------------------------------------------------------------------------
(* What the tables say of a page.                                          *)

Mapped(m, a) == Way(m, a, 1) /\ m[P1(m, a)].entry[a[4]].present
Mean(m, a)   == IF Mapped(m, a) THEN m[P1(m, a)].entry[a[4]].prot ELSE Unmapped

\* A way that leads on is not through a table that is being reclaimed.
LEMMA WayAlways ==
  ASSUME NEW lev, NEW n, NEW s, Good(lev, n, s), NEW a \in Page
  PROVE  /\ Way(mem, a, 3) => WayKept(a, 3) /\ (pc \in {"l3", "l2"} => P3(mem, a) # L3Table)
         /\ Way(mem, a, 2) => WayKept(a, 2) /\ (pc = "l2" => P2(mem, a) # L2Table)
         /\ Way(mem, a, 1) => WayKept(a, 1)
<1>1. TypeOK /\ Held(lev, n, s)
  BY DEF Good
<1>2. a[1] \in Index /\ a[2] \in Index /\ a[3] \in Index
  BY IndexIn
<1>3. CASE pc \notin {"l3", "l2"}
  <2>1. 1 \in 1 .. 4 /\ 2 \in 1 .. 4 /\ 3 \in 1 .. 4
    OBVIOUS
  <2> QED BY <2>1, <1>1, <1>3, WayFrames
<1>4. CASE pc \in {"l3", "l2"}
  <2>1. /\ l4_index \in Kept[Root] /\ ~mem[Root].entry[l4_index].present
        /\ Root \in Frame /\ lev[Root] = 4
        /\ L3Table \in Frame /\ lev[L3Table] = 3 /\ L3Table # Root
        /\ pc = "l2" =>
             /\ l3_index \in Kept[L3Table]
             /\ L2Table \in Frame /\ lev[L2Table] = 2 /\ L2Table # L3Table /\ L2Table # Root
    BY <1>4, Scanning
  <2>2. ASSUME Way(mem, a, 3)
        PROVE  WayKept(a, 3) /\ P3(mem, a) # L3Table /\ P3(mem, a) \in Frame /\ lev[P3(mem, a)] = 3
    <3>1. HasLink(mem, Root, a[1])
      BY <2>2 DEF Way
    <3>2. a[1] # l4_index
      BY <3>1, <2>1 DEF HasLink
    <3>3. a[1] \in Kept[Root]
      BY <3>1, <2>1, <1>2 DEF Kept
    <3>4. P3(mem, a) # L3Table
      BY <3>2, <3>3, <2>1, <1>1, KeptApart DEF P3, L3Table
    <3>5. P3(mem, a) \in Frame /\ lev[P3(mem, a)] = 3
      BY <3>3, <2>1, <1>1, KeptDown DEF P3
    <3> QED BY <3>3, <3>4, <3>5 DEF WayKept
  <2>3. ASSUME Way(mem, a, 2)
        PROVE  /\ WayKept(a, 2) /\ (pc = "l2" => P2(mem, a) # L2Table)
               /\ P2(mem, a) \in Frame /\ lev[P2(mem, a)] = 2
    <3>1. Way(mem, a, 3) /\ HasLink(mem, P3(mem, a), a[2])
      BY <2>3 DEF Way
    <3>2. /\ a[1] \in Kept[Root] /\ P3(mem, a) # L3Table /\ P3(mem, a) \in Frame /\ lev[P3(mem, a)] = 3
      BY <3>1, <2>2 DEF WayKept
    <3>3. P3(mem, a) # Root /\ (pc = "l2" => P3(mem, a) # L2Table)
      BY <3>2, <2>1
    <3>4. a[2] \in Kept[P3(mem, a)]
      BY <3>1, <3>2, <3>3, <1>2 DEF Kept
    <3>5. pc = "l2" => P2(mem, a) # L2Table
      BY <3>2, <3>4, <2>1, <1>1, KeptApart DEF P2, L2Table
    <3>6. P2(mem, a) \in Frame /\ lev[P2(mem, a)] = 2
      BY <3>2, <3>4, <1>1, KeptDown DEF P2
    <3> QED BY <3>2, <3>4, <3>5, <3>6 DEF WayKept
  <2>4. ASSUME Way(mem, a, 1)
        PROVE  WayKept(a, 1)
    <3>1. Way(mem, a, 2) /\ HasLink(mem, P2(mem, a), a[3])
      BY <2>4 DEF Way
    <3>2. WayKept(a, 2) /\ (pc = "l2" => P2(mem, a) # L2Table) /\ P2(mem, a) \in Frame /\ lev[P2(mem, a)] = 2
      BY <3>1, <2>3
    <3>3. P2(mem, a) # Root /\ P2(mem, a) # L3Table
      BY <3>2, <2>1
    <3>4. a[3] \in Kept[P2(mem, a)]
      BY <3>1, <3>2, <3>3, <1>2 DEF Kept
    <3> QED BY <3>2, <3>4 DEF WayKept
  <2> QED BY <2>2, <2>3, <2>4
<1> QED BY <1>3, <1>4

\* The table at level l on the way to a page.
LEMMA WayOn ==
  ASSUME NEW lev, NEW n, NEW s, Good(lev, n, s), NEW a \in Page, NEW l \in 1 .. 4, Way(mem, a, l)
  PROVE  /\ WayKept(a, l) /\ On(mem, a, l) \in Frame /\ lev[On(mem, a, l)] = l
         /\ mem[On(mem, a, l)].is = "table" /\ IndexAt(a, l) \in Index
         /\ mem[On(mem, a, l)].entry[IndexAt(a, l)] \in Entry
<1>1. TypeOK /\ Held(lev, n, s)
  BY DEF Good
<1>2. WayKept(a, l)
  <2>1. CASE l = 4
    BY <2>1 DEF WayKept
  <2>2. CASE l \in 1 .. 3
    <3>1. l = 1 \/ l = 2 \/ l = 3
      BY <2>2
    <3> QED BY <3>1, WayAlways
  <2> QED BY <2>1, <2>2
<1>3. On(mem, a, l) \in Frame /\ lev[On(mem, a, l)] = l
  BY <1>1, <1>2, WayLevels
<1>4. mem[On(mem, a, l)].is = "table" /\ mem \in [Frame -> Content]
  BY <1>1, <1>3, Facts
<1>5. IndexAt(a, l) \in Index
  BY DEF IndexAt, Page
<1>6. mem[On(mem, a, l)].entry[IndexAt(a, l)] \in Entry
  BY <1>3, <1>4, <1>5, TableIn
<1> QED BY <1>2, <1>3, <1>4, <1>5, <1>6

\* translate and vm_protect find what the tables say.
LEMMA Finds ==
  ASSUME NEW lev, NEW n, NEW s, Good(lev, n, s), NEW a \in Page
  PROVE  /\ ~ThroughHuge(a) /\ Leaf(a).present <=> Mapped(mem, a)
         /\ Mapped(mem, a) => Leaf(a) = mem[P1(mem, a)].entry[a[4]]
         /\ Leaf(a) \in Entry
<1> DEFINE e4 == mem[Root].entry[a[1]]
           e3 == mem[P3(mem, a)].entry[a[2]]
           e2 == mem[P2(mem, a)].entry[a[3]]
           e1 == mem[P1(mem, a)].entry[a[4]]
<1>1. TypeOK /\ Held(lev, n, s)
  BY DEF Good
<1>2. /\ On(mem, a, 4) = Root /\ On(mem, a, 3) = P3(mem, a) /\ On(mem, a, 2) = P2(mem, a) /\ On(mem, a, 1) = P1(mem, a)
      /\ IndexAt(a, 4) = a[1] /\ IndexAt(a, 3) = a[2] /\ IndexAt(a, 2) = a[3] /\ IndexAt(a, 1) = a[4]
      /\ 1 \in 1 .. 4 /\ 2 \in 1 .. 4 /\ 3 \in 1 .. 4 /\ 4 \in 1 .. 4
  BY DEF On, IndexAt
<1>3. mem[Root].is = "table" /\ e4 \in Entry
  <2>1. Way(mem, a, 4)
    BY DEF Way
  <2> QED BY <2>1, <1>2, WayOn
<1>4. Way(mem, a, 3) => mem[P3(mem, a)].is = "table" /\ e3 \in Entry
  BY <1>2, WayOn
<1>5. Way(mem, a, 2) => mem[P2(mem, a)].is = "table" /\ e2 \in Entry
  BY <1>2, WayOn
<1>6. Way(mem, a, 1) => mem[P1(mem, a)].is = "table" /\ e1 \in Entry
  BY <1>2, WayOn
<1>7. ~e4.page_size
  <2>1. AreTables(mem, lev) /\ lev[Root] = 4 /\ Root \in Frame /\ a[1] \in Index
    BY <1>1, Facts, Constants, IndexIn DEF Held
  <2> QED BY <2>1 DEF AreTables
<1>8. Entry4(a) = e4
  BY <1>2, <1>3 DEF Entry4, EntryAt
<1>9. Entry3(a) = IF Way(mem, a, 3) THEN e3 ELSE Zero
  <2>1. Way(mem, a, 3) <=> e4.present
    BY <1>7 DEF Way, HasLink
  <2>2. Entry4(a).address = P3(mem, a)
    BY <1>8 DEF P3
  <2> QED BY <2>1, <2>2, <1>2, <1>4, <1>8 DEF Entry3, Under, EntryAt
<1>10. Way(mem, a, 2) <=> Way(mem, a, 3) /\ e3.present /\ ~e3.page_size
  BY DEF Way, HasLink
<1>11. Way(mem, a, 1) <=> Way(mem, a, 2) /\ e2.present /\ ~e2.page_size
  BY DEF Way, HasLink
<1>12. Zero \in Entry /\ ~Zero.present /\ ~Zero.page_size
  BY Values
<1>13. Way(mem, a, 2) => Entry2(a) = e2
  <2>1. SUFFICES ASSUME Way(mem, a, 2) PROVE Entry2(a) = e2
    OBVIOUS
  <2>2. Entry3(a).present /\ Entry3(a).address = P2(mem, a)
    BY <2>1, <1>9, <1>10 DEF P2
  <2> QED BY <2>1, <2>2, <1>2, <1>5 DEF Entry2, Under, EntryAt
<1>14. Way(mem, a, 1) => Leaf(a) = e1
  <2>1. SUFFICES ASSUME Way(mem, a, 1) PROVE Leaf(a) = e1
    OBVIOUS
  <2>2. Entry2(a).present /\ Entry2(a).address = P1(mem, a)
    BY <2>1, <1>11, <1>13 DEF P1
  <2> QED BY <2>1, <2>2, <1>2, <1>6 DEF Leaf, Under, EntryAt
<1>15. \A e \in Entry, l \in 1 .. 4 : Under(e, a, l) \in Entry
  <2>1. SUFFICES ASSUME NEW e \in Entry, NEW l \in 1 .. 4 PROVE Under(e, a, l) \in Entry
    OBVIOUS
  <2>2. e.address \in Frame
    BY DEF Entry
  <2>3. IndexAt(a, l) \in Index
    BY DEF IndexAt, Page
  <2>4. mem \in [Frame -> Content]
    BY <1>1 DEF TypeOK
  <2> QED BY <2>2, <2>3, <2>4, <1>12, TableIn DEF Under, EntryAt
<1>16. Entry3(a) \in Entry /\ Entry2(a) \in Entry /\ Leaf(a) \in Entry
  <2>1. Entry4(a) \in Entry
    BY <1>3, <1>8
  <2>2. Entry3(a) \in Entry
    BY <2>1, <1>2, <1>15 DEF Entry3
  <2>3. Entry2(a) \in Entry
    BY <2>2, <1>2, <1>15 DEF Entry2
  <2>4. Leaf(a) \in Entry
    BY <2>3, <1>2, <1>15 DEF Leaf
  <2> QED BY <2>2, <2>3, <2>4
<1>17. ThroughHuge(a) <=>
         \/ Entry4(a).present /\ Entry4(a).page_size
         \/ Entry3(a).present /\ Entry3(a).page_size
         \/ Entry2(a).present /\ Entry2(a).page_size
  BY DEF ThroughHuge
<1>18. CASE Way(mem, a, 1)
  <2>1. ~ThroughHuge(a)
    BY <1>7, <1>8, <1>9, <1>10, <1>11, <1>13, <1>17, <1>18
  <2> QED BY <2>1, <1>14, <1>16, <1>18 DEF Mapped
<1>19. CASE ~Way(mem, a, 1)
  <2>1. ThroughHuge(a) \/ ~Entry2(a).present
    <3>1. CASE Way(mem, a, 2)
      BY <3>1, <1>11, <1>13, <1>17, <1>19
    <3>2. CASE ~Way(mem, a, 2)
      <4>1. (Entry3(a).present /\ Entry3(a).page_size) \/ ~Entry3(a).present
        BY <3>2, <1>9, <1>10, <1>12
      <4>2. ~Entry3(a).present => ~Entry2(a).present
        BY <1>12 DEF Entry2, Under
      <4> QED BY <4>1, <4>2, <1>17
    <3> QED BY <3>1, <3>2
  <2>2. ~Entry2(a).present => ~Leaf(a).present
    BY <1>12 DEF Leaf, Under
  <2> QED BY <2>1, <2>2, <1>16, <1>19 DEF Mapped
<1> QED BY <1>18, <1>19

\* What Mapping is, in terms of the tables.
Meant(a) == IF Unmapping /\ a \in Low THEN Unmapped ELSE Mean(mem, a)

Means == \A a \in Address : Mapping(a) = Meant(a) /\ Mapping(a) \in Protection \cup {Unmapped}

LEMMA GoodMeans ==
  ASSUME NEW lev, NEW n, NEW s, Good(lev, n, s)
  PROVE  Means
<1> SUFFICES ASSUME NEW a \in Address
             PROVE  Mapping(a) = Meant(a) /\ Mapping(a) \in Protection \cup {Unmapped}
  BY DEF Means
<1>1. a \in Page
  BY MemoryAssumption
<1>2. /\ ~ThroughHuge(a) /\ Leaf(a).present <=> Mapped(mem, a)
      /\ Mapped(mem, a) => Leaf(a) = mem[P1(mem, a)].entry[a[4]]
      /\ Leaf(a) \in Entry
  BY <1>1, Finds
<1>3. Leaf(a).prot \in Protection
  BY <1>2 DEF Entry
<1> QED BY <1>2, <1>3 DEF Mapping, Meant, Mean

LEMMA AlwaysMeans == IInv /\ ~astray => Means
BY GoodMeans DEF IInv

-----------------------------------------------------------------------------
(* What the steps change of it.                                            *)

\* Nothing, if the entries on the way stay.
LEMMA SameMean ==
  ASSUME NEW m, NEW m2, NEW a,
         \A l \in 1 .. 4 : Way(m, a, l) =>
           m2[On(m, a, l)].entry[IndexAt(a, l)] = m[On(m, a, l)].entry[IndexAt(a, l)]
  PROVE  Mean(m2, a) = Mean(m, a)
<1>1. m2[Root].entry[a[1]] = m[Root].entry[a[1]]
  <2>1. 4 \in 1 .. 4 /\ Way(m, a, 4) /\ On(m, a, 4) = Root /\ IndexAt(a, 4) = a[1]
    BY DEF Way, On, IndexAt
  <2> QED BY <2>1
<1>2. Way(m, a, 3) => m2[P3(m, a)].entry[a[2]] = m[P3(m, a)].entry[a[2]]
  <2>1. 3 \in 1 .. 4 /\ On(m, a, 3) = P3(m, a) /\ IndexAt(a, 3) = a[2]
    BY DEF On, IndexAt
  <2> QED BY <2>1
<1>3. Way(m, a, 2) => m2[P2(m, a)].entry[a[3]] = m[P2(m, a)].entry[a[3]]
  <2>1. 2 \in 1 .. 4 /\ On(m, a, 2) = P2(m, a) /\ IndexAt(a, 2) = a[3]
    BY DEF On, IndexAt
  <2> QED BY <2>1
<1>4. Way(m, a, 1) => m2[P1(m, a)].entry[a[4]] = m[P1(m, a)].entry[a[4]]
  <2>1. 1 \in 1 .. 4 /\ On(m, a, 1) = P1(m, a) /\ IndexAt(a, 1) = a[4]
    BY DEF On, IndexAt
  <2> QED BY <2>1
<1>5. P3(m2, a) = P3(m, a) /\ (Way(m2, a, 3) <=> Way(m, a, 3))
  <2>1. P3(m2, a) = P3(m, a)
    BY <1>1 DEF P3
  <2>2. \A x : Way(x, a, 3) <=> HasLink(x, Root, a[1])
    BY DEF Way
  <2>3. HasLink(m2, Root, a[1]) <=> HasLink(m, Root, a[1])
    BY <1>1 DEF HasLink
  <2> QED BY <2>1, <2>2, <2>3
<1>6. \A x : /\ Way(x, a, 2) <=> Way(x, a, 3) /\ HasLink(x, P3(x, a), a[2])
             /\ Way(x, a, 1) <=> Way(x, a, 2) /\ HasLink(x, P2(x, a), a[3])
  BY DEF Way
<1>7. Way(m, a, 3) => P2(m2, a) = P2(m, a)
  BY <1>2, <1>5 DEF P2
<1>8. Way(m2, a, 2) <=> Way(m, a, 2)
  BY <1>2, <1>5, <1>6 DEF HasLink
<1>9. Way(m2, a, 1) <=> Way(m, a, 1)
  BY <1>3, <1>6, <1>7, <1>8 DEF HasLink
<1>10. Way(m, a, 1) => P1(m2, a) = P1(m, a)
  BY <1>3, <1>6, <1>7 DEF P1
<1> QED BY <1>4, <1>9, <1>10 DEF Mean, Mapped

\* Nothing is mapped where the way ends before the page.
LEMMA Ends ==
  ASSUME NEW m, NEW a, NEW l \in 1 .. 4, Way(m, a, l),
         ~m[On(m, a, l)].entry[IndexAt(a, l)].present
  PROVE  Mean(m, a) = Unmapped
<1>1. ~Mapped(m, a)
  <2>1. CASE l = 4
    BY <2>1 DEF Mapped, Way, On, IndexAt, HasLink
  <2>2. CASE l = 3
    BY <2>2 DEF Mapped, Way, On, IndexAt, HasLink
  <2>3. CASE l = 2
    BY <2>3 DEF Mapped, Way, On, IndexAt, HasLink
  <2>4. CASE l = 1
    BY <2>4 DEF Mapped, Way, On, IndexAt, HasLink
  <2> QED BY <2>1, <2>2, <2>3, <2>4
<1> QED BY <1>1 DEF Mean

\* Two ways that meet at level l have come the same way.
LEMMA WaysMeet ==
  ASSUME NEW lev, NEW n, NEW s, Good(lev, n, s), NEW a \in Page, NEW b \in Page,
         NEW l \in 1 .. 4, Way(mem, a, l), Way(mem, b, l), On(mem, a, l) = On(mem, b, l)
  PROVE  /\ l <= 3 => a[1] = b[1]
         /\ l <= 2 => a[2] = b[2]
         /\ l <= 1 => a[3] = b[3]
<1>1. TypeOK /\ Held(lev, n, s) /\ WayKept(a, l) /\ WayKept(b, l)
  BY WayOn DEF Good
<1>2. /\ lev[Root] = 4 /\ Root \in Frame
      /\ l <= 3 => P3(mem, a) \in Frame /\ lev[P3(mem, a)] = 3
      /\ l <= 2 => P2(mem, a) \in Frame /\ lev[P2(mem, a)] = 2
  BY <1>1, WayLevels
<1>3. /\ l <= 3 => P3(mem, b) \in Frame /\ lev[P3(mem, b)] = 3
      /\ l <= 2 => P2(mem, b) \in Frame /\ lev[P2(mem, b)] = 2
  BY <1>1, WayLevels
<1>4. l = 1 => P2(mem, a) = P2(mem, b) /\ a[3] = b[3]
  BY <1>1, <1>2, <1>3, KeptApart DEF WayKept, On, P1
<1>5. l <= 2 => P3(mem, a) = P3(mem, b) /\ a[2] = b[2]
  <2>1. l <= 2 => P2(mem, a) = P2(mem, b)
    BY <1>4 DEF On
  <2> QED BY <2>1, <1>1, <1>2, <1>3, KeptApart DEF WayKept, P2
<1>6. l <= 3 => a[1] = b[1]
  <2>1. l <= 3 => P3(mem, a) = P3(mem, b)
    BY <1>5 DEF On
  <2> QED BY <2>1, <1>1, <1>2, <1>3, KeptApart DEF WayKept, P3
<1> QED BY <1>4, <1>5, <1>6

LEMMA NewTableMeans ==
  ASSUME NEW lev, NEW n, NEW s, Good(lev, n, s), pc = "vm_map", NewTable, NEW b \in Page
  PROVE  Mean(mem', b) = Mean(mem, b)
<1>1. /\ TypeOK /\ Held(lev, n, s) /\ address \in Page
      /\ level \in 2 .. 4 /\ lev[cur_table] = level /\ cur_table \in Frame
      /\ cur_table = On(mem, address, level) /\ Way(mem, address, level)
      /\ IndexAt(address, level) \in Index
  BY Walking DEF NewTable
<1>2. PICK page : Linked(lev, cur_table, IndexAt(address, level), page)
  BY <1>1, LinkStep
<1>3. PICK i : i = IndexAt(address, level)
  OBVIOUS
<1>4. /\ page \in Frame /\ lev[page] = 0 /\ mem'[page] = Empty
      /\ \A f \in Frame : lev[f] >= 1 /\ f # cur_table => mem'[f] = mem[f]
      /\ \A j \in Index : j # i => mem'[cur_table].entry[j] = mem[cur_table].entry[j]
      /\ mem'[cur_table].entry[i].present /\ mem'[cur_table].entry[i].address = page
      /\ mem'[cur_table].entry[i].page_size = mem[cur_table].entry[i].page_size
  BY <1>2, <1>3 DEF Linked
<1>5. ~mem[cur_table].entry[i].present
  BY <1>3 DEF NewTable, CurEntry
<1>6. CASE Way(mem, b, level) /\ On(mem, b, level) = cur_table /\ IndexAt(b, level) = i
  <2>1. Mean(mem, b) = Unmapped
    <3>1. level \in 1 .. 4
      BY <1>1
    <3> QED BY <3>1, <1>5, <1>6, Ends
  <2>2. HasLink(mem', cur_table, i)
    <3>1. AreTables(mem, lev) /\ i \in Index
      BY <1>1, <1>3 DEF Held
    <3>2. ~mem[cur_table].entry[i].page_size
      BY <3>1, <1>1, <1>5 DEF AreTables
    <3> QED BY <3>2, <1>4 DEF HasLink
  <2>3. Way(mem', b, level) /\ On(mem', b, level) = cur_table
    <3>1. WayKept(b, level) /\ level \in 1 .. 4
      BY <1>1, <1>6, WayOn
    <3>2. /\ lev[Root] = 4 /\ Root \in Frame
          /\ level <= 3 => P3(mem, b) \in Frame /\ lev[P3(mem, b)] = 3
          /\ level <= 2 => P2(mem, b) \in Frame /\ lev[P2(mem, b)] = 2
      BY <3>1, <1>1, WayLevels
    <3>3. level <= 3 => mem'[Root].entry[b[1]] = mem[Root].entry[b[1]]
      BY <3>2, <1>1, <1>4
    <3>4. level <= 2 => mem'[P3(mem, b)].entry[b[2]] = mem[P3(mem, b)].entry[b[2]]
      BY <3>2, <1>1, <1>4
    <3>5. ~(level <= 1)
      BY <1>1
    <3> QED BY <3>1, <3>3, <3>4, <3>5, <1>6, SameWay
  <2>4. Way(mem', b, level - 1) /\ On(mem', b, level - 1) = page
    BY <2>2, <2>3, <1>1, <1>4, <1>6, NextOnWay
  <2>5. level - 1 \in 1 .. 4 /\ IndexAt(b, level - 1) \in Index
    BY <1>1 DEF IndexAt, Page
  <2>6. ~mem'[page].entry[IndexAt(b, level - 1)].present
    BY <2>5, <1>4, Values
  <2>7. Mean(mem', b) = Unmapped
    BY <2>4, <2>5, <2>6, Ends
  <2> QED BY <2>1, <2>7
<1>7. CASE ~(Way(mem, b, level) /\ On(mem, b, level) = cur_table /\ IndexAt(b, level) = i)
  <2>1. ASSUME NEW l \in 1 .. 4, Way(mem, b, l)
        PROVE  mem'[On(mem, b, l)].entry[IndexAt(b, l)] = mem[On(mem, b, l)].entry[IndexAt(b, l)]
    <3>1. On(mem, b, l) \in Frame /\ lev[On(mem, b, l)] = l /\ IndexAt(b, l) \in Index
      BY <2>1, WayOn
    <3>2. CASE On(mem, b, l) = cur_table
      <4>1. l = level
        BY <3>1, <3>2, <1>1
      <4> QED BY <4>1, <3>1, <3>2, <2>1, <1>4, <1>7
    <3>3. CASE On(mem, b, l) # cur_table
      BY <3>1, <3>3, <1>4
    <3> QED BY <3>2, <3>3
  <2> QED BY <2>1, SameMean
<1> QED BY <1>6, <1>7

LEMMA MapLeafMeans ==
  ASSUME NEW lev, NEW n, NEW s, Good(lev, n, s), pc = "vm_map", MapLeaf, NEW b \in Page
  PROVE  /\ b = address => Mean(mem, b) = Unmapped /\ Mean(mem', b) = prot
         /\ b # address => Mean(mem', b) = Mean(mem, b)
<1>1. /\ address \in Page /\ level = 1 /\ lev[cur_table] = 1 /\ cur_table \in Frame
      /\ Way(mem, address, 1) /\ cur_table = On(mem, address, 1) /\ IndexAt(address, 1) = address[4]
      /\ TypeOK /\ Held(lev, n, s)
  BY Walking DEF MapLeaf, IndexAt
<1>2. /\ \A f \in Frame : f # cur_table => mem'[f] = mem[f]
      /\ mem'[cur_table].entry[address[4]].present
      /\ mem'[cur_table].entry[address[4]].prot = prot
      /\ \A i \in Index : i # address[4] => mem'[cur_table].entry[i] = mem[cur_table].entry[i]
  BY LeafStep
<1>3. CASE b = address
  <2>1. Mean(mem, b) = Unmapped
    <3>1. ~mem[cur_table].entry[address[4]].present
      BY <1>1 DEF MapLeaf, CurEntry
    <3>2. 1 \in 1 .. 4
      OBVIOUS
    <3> QED BY <3>1, <3>2, <1>1, <1>3, Ends
  <2>2. Way(mem', b, 1) /\ P1(mem', b) = cur_table
    <3>1. WayKept(b, 1) /\ 1 \in 1 .. 4
      BY <1>1, <1>3, WayOn
    <3>2. /\ lev[Root] = 4 /\ Root \in Frame
          /\ P3(mem, b) \in Frame /\ lev[P3(mem, b)] = 3
          /\ P2(mem, b) \in Frame /\ lev[P2(mem, b)] = 2
      BY <3>1, <1>1, WayLevels
    <3>3. mem'[Root] = mem[Root] /\ mem'[P3(mem, b)] = mem[P3(mem, b)] /\ mem'[P2(mem, b)] = mem[P2(mem, b)]
      BY <3>2, <1>1, <1>2
    <3>4. (Way(mem', b, 1) <=> Way(mem, b, 1)) /\ On(mem', b, 1) = On(mem, b, 1)
      BY <3>1, <3>3, SameWay
    <3> QED BY <3>4, <1>1, <1>3 DEF On
  <2>3. Mean(mem', b) = prot
    BY <2>2, <1>2, <1>3 DEF Mean, Mapped
  <2> QED BY <2>1, <2>3, <1>3
<1>4. CASE b # address
  <2>1. ASSUME NEW l \in 1 .. 4, Way(mem, b, l)
        PROVE  mem'[On(mem, b, l)].entry[IndexAt(b, l)] = mem[On(mem, b, l)].entry[IndexAt(b, l)]
    <3>1. On(mem, b, l) \in Frame /\ lev[On(mem, b, l)] = l /\ IndexAt(b, l) \in Index
      BY <2>1, WayOn
    <3>2. CASE On(mem, b, l) = cur_table
      <4>1. l = 1
        BY <3>1, <3>2, <1>1
      <4>2. b[1] = address[1] /\ b[2] = address[2] /\ b[3] = address[3]
        BY <4>1, <3>2, <2>1, <1>1, WaysMeet
      <4>3. b[4] # address[4]
        <5>1. b = [k \in 1 .. 4 |-> b[k]] /\ address = [k \in 1 .. 4 |-> address[k]]
          BY <1>1 DEF Page
        <5>2. ASSUME b[4] = address[4] PROVE \A k \in 1 .. 4 : b[k] = address[k]
          BY <5>2, <4>2
        <5> QED BY <5>1, <5>2, <1>4
      <4>4. IndexAt(b, l) = b[4]
        BY <4>1 DEF IndexAt
      <4> QED BY <4>3, <4>4, <3>1, <3>2, <1>2
    <3>3. CASE On(mem, b, l) # cur_table
      BY <3>1, <3>3, <1>2
    <3> QED BY <3>2, <3>3
  <2> QED BY <2>1, <1>4, SameMean
<1> QED BY <1>3, <1>4

\* A table that is freed is on no way.
LEMMA FreeMeans ==
  ASSUME NEW lev, NEW n, NEW s, Good(lev, n, s), pc \in {"l3", "l2"},
         NEW g \in Frame, pmem_free(g),
         NEW l \in 1 .. 3, lev[g] = l,
         NEW b \in Page, Way(mem, b, l) => On(mem, b, l) # g
  PROVE  Mean(mem', b) = Mean(mem, b)
<1>1. ASSUME NEW k \in 1 .. 4, Way(mem, b, k)
      PROVE  mem'[On(mem, b, k)].entry[IndexAt(b, k)] = mem[On(mem, b, k)].entry[IndexAt(b, k)]
  <2>1. On(mem, b, k) \in Frame /\ lev[On(mem, b, k)] = k
    BY <1>1, WayOn
  <2>2. On(mem, b, k) # g
    BY <2>1, <1>1
  <2>3. mem \in [Frame -> Content]
    BY DEF Good, TypeOK
  <2>4. mem'[On(mem, b, k)] = mem[On(mem, b, k)]
    BY <2>1, <2>2, <2>3 DEF pmem_free
  <2> QED BY <2>4
<1> QED BY <1>1, SameMean

LEMMA L3Means ==
  ASSUME NEW lev, NEW n, NEW s, Good(lev, n, s), LoopL3, NEW b \in Page
  PROVE  Mean(mem', b) = Mean(mem, b)
<1>1. pc = "l3"
  BY DEF LoopL3
<1>2. CASE pmem_free(L3Table)
  <2>1. L3Table \in Frame /\ lev[L3Table] = 3
    BY <1>1, Scanning
  <2>2. Way(mem, b, 3) => On(mem, b, 3) # L3Table
    BY <1>1, WayAlways DEF On
  <2>3. 3 \in 1 .. 3
    OBVIOUS
  <2> QED BY <2>1, <2>2, <2>3, <1>1, <1>2, FreeMeans
<1>3. CASE mem' = mem
  BY <1>3
<1> QED BY <1>2, <1>3 DEF LoopL3, Turning, EnterL2

LEMMA L2Means ==
  ASSUME NEW lev, NEW n, NEW s, Good(lev, n, s), LoopL2, NEW b \in Page
  PROVE  Mean(mem', b) = Mean(mem, b)
<1>1. /\ pc = "l2" /\ Held(lev, n, s) /\ TypeOK
      /\ L2Table \in Frame /\ lev[L2Table] = 2
      /\ L3Table \in Frame /\ lev[L3Table] = 3 /\ Root \in Frame /\ lev[Root] = 4
  BY Scanning DEF LoopL2
<1>2. Way(mem, b, 2) => On(mem, b, 2) # L2Table
  BY <1>1, WayAlways DEF On
<1>3. CASE pmem_free(L2Table)
  <2>1. 2 \in 1 .. 3
    OBVIOUS
  <2> QED BY <2>1, <1>1, <1>2, <1>3, FreeMeans
<1>4. CASE /\ l2_index < Fanout /\ TableBelow(mem[L2Table].entry[l2_index])
           /\ pmem_free(mem[L2Table].entry[l2_index].address)
  <2> PICK g : g = mem[L2Table].entry[l2_index].address
    OBVIOUS
  <2>1. l2_index \in Kept[L2Table]
    <3>1. l2_index \in Index /\ ~(l2_index < l2_index)
      BY <1>1, <1>4, Constants DEF TypeOK, Index
    <3>2. HasLink(mem, L2Table, l2_index)
      BY <1>4 DEF TableBelow, HasLink
    <3>3. L2Table # L3Table
      BY <1>1
    <3> QED BY <3>1, <3>2, <3>3, <1>1 DEF Kept
  <2>2. g \in Frame /\ lev[g] = 1
    BY <2>1, <1>1, KeptDown
  <2>3. Way(mem, b, 1) => On(mem, b, 1) # g
    <3>1. SUFFICES ASSUME Way(mem, b, 1), P1(mem, b) = g PROVE FALSE
      BY DEF On
    <3>2. WayKept(b, 1) /\ Way(mem, b, 2)
      BY <3>1, WayAlways DEF Way
    <3>3. P2(mem, b) \in Frame /\ lev[P2(mem, b)] = 2
      BY <3>2, <1>1, WayLevels
    <3>4. b[3] \in Kept[P2(mem, b)]
      BY <3>2 DEF WayKept
    <3>5. P2(mem, b) = L2Table
      BY <3>1, <3>3, <3>4, <2>1, <1>1, KeptApart DEF P1
    <3> QED BY <3>2, <3>5, <1>2 DEF On
  <2>4. 1 \in 1 .. 3 /\ pmem_free(g) /\ pc \in {"l3", "l2"}
    BY <1>1, <1>4
  <2> QED BY <2>2, <2>3, <2>4, FreeMeans
<1>5. CASE mem' = mem
  BY <1>5
<1> QED BY <1>3, <1>4, <1>5 DEF LoopL2, Turning

LEMMA L4Means ==
  ASSUME NEW lev, NEW n, NEW s, Good(lev, n, s), LoopL4, NEW b \in Page
  PROVE  /\ b[1] \notin Lower => Mean(mem', b) = Mean(mem, b)
         /\ pc' = "idle" /\ b[1] \in Lower => Mean(mem', b) = Unmapped
<1>1. /\ pc = "l4" /\ TypeOK /\ Held(lev, n, s)
      /\ \A i \in 0 .. l4_index - 1 : ~mem[Root].entry[i].present
      /\ l4_index \in 0 .. Fanout \div 2 /\ mem \in [Frame -> Content]
      /\ Root \in Frame /\ mem[Root].is = "table" /\ lev[Root] = 4
  BY Facts, Constants DEF LoopL4, Good, OnLoop, Unmapping, TypeOK
<1>2. /\ Way(mem, b, 4) /\ On(mem, b, 4) = Root /\ IndexAt(b, 4) = b[1] /\ 4 \in 1 .. 4
  BY DEF Way, On, IndexAt
<1>3. b[1] \in Lower => b[1] \in 0 .. Fanout \div 2 - 1
  BY DEF Lower
<1>4. CASE l4_index = Fanout \div 2 /\ Turning
  <2>1. mem' = mem
    BY <1>4 DEF Turning
  <2>2. b[1] \in Lower => ~mem[Root].entry[b[1]].present
    BY <1>1, <1>3, <1>4
  <2>3. b[1] \in Lower => Mean(mem, b) = Unmapped
    BY <2>2, <1>2, Ends
  <2> QED BY <2>1, <2>3
<1>5. CASE pc' # "idle" /\ mem' = mem
  BY <1>5
<1>6. CASE /\ l4_index < Fanout \div 2 /\ pc' # "idle"
           /\ mem' = [mem EXCEPT ![Root].entry[l4_index].present = FALSE]
  <2>1. l4_index \in Lower /\ l4_index \in Index
    BY <1>1, <1>6, Constants DEF Lower, Index
  <2> DEFINE e == [mem[Root].entry[l4_index] EXCEPT !.present = FALSE]
  <2>2. e \in Entry
    <3>1. mem[Root].entry[l4_index] \in Entry
      BY <2>1, <1>1, TableIn
    <3> QED BY <3>1 DEF Entry
  <2>3. mem' = Written(mem, Root, l4_index, e)
    BY <1>6 DEF Written
  <2> HIDE DEF e
  <2>4. /\ \A f \in Frame : f # Root => mem'[f] = mem[f]
        /\ \A j \in Index : j # l4_index => mem'[Root].entry[j] = mem[Root].entry[j]
    BY <2>1, <2>2, <2>3, <1>1, SetEntry
  <2>5. ASSUME b[1] \notin Lower, NEW l \in 1 .. 4, Way(mem, b, l)
        PROVE  mem'[On(mem, b, l)].entry[IndexAt(b, l)] = mem[On(mem, b, l)].entry[IndexAt(b, l)]
    <3>1. On(mem, b, l) \in Frame /\ lev[On(mem, b, l)] = l /\ IndexAt(b, l) \in Index
      BY <2>5, WayOn
    <3>2. CASE On(mem, b, l) = Root
      <4>1. l = 4
        BY <3>1, <3>2, <1>1
      <4> QED BY <4>1, <3>1, <3>2, <2>1, <2>4, <2>5, <1>2
    <3>3. CASE On(mem, b, l) # Root
      BY <3>1, <3>3, <2>4
    <3> QED BY <3>2, <3>3
  <2> QED BY <2>5, <1>6, SameMean
<1>7. pc' = "idle" => l4_index = Fanout \div 2 /\ Turning
  <2>1. ASSUME l4_index < Fanout \div 2, ~mem[Root].entry[l4_index].present, pc' = pc PROVE pc' # "idle"
    BY <2>1, <1>1
  <2> QED BY <2>1 DEF LoopL4
<1> QED BY <1>4, <1>5, <1>6, <1>7 DEF LoopL4, Turning

-----------------------------------------------------------------------------
(* The steps of the address space.                                         *)

\* The refinement mapping, and the steps as they show there.
Protections == [a \in Address |-> Mapping(a)]

SaysNoMemory == ret' = <<"map", "no memory">>
SaysMapped   == ret' = <<"map", "already mapped">>

LEMMA SpaceVars ==
  /\ Space!vars = <<Protections, ret>>
  /\ Space!Init <=> Protections \in [Address -> Protection \cup {Unmapped}] /\ ret = <<"boot">>
  /\ \A a : Space!Protect(a) <=>
       ret' = <<"protect", Protections[a] # Unmapped>> /\ Protections' = Protections
  /\ \A a : Space!Translate(a) <=>
       ret' = <<"translate", Protections[a]>> /\ Protections' = Protections
BY DEF Space!vars, Space!Init, Space!Protect, Space!Translate, Protections

LEMMA SpaceNo ==
  ASSUME NEW a \in Address, Protections' = Protections,
         \/ Protections[a] # Unmapped /\ SaysMapped
         \/ Protections[a] = Unmapped /\ SaysNoMemory
  PROVE  Space!Next
<1>1. Space!MapFails(a)
  BY Zenon DEF Space!MapFails, Protections, SaysMapped, SaysNoMemory
<1> QED BY Zenon, <1>1 DEF Space!Next

LEMMA SameProtections ==
  ASSUME \A a \in Address : Mapping(a)' = Mapping(a)
  PROVE  Protections' = Protections
BY DEF Protections

\* A step of vm_map, or one that changes no memory: no page of another is
\* concerned.
LEMMA QuietProtections ==
  ASSUME Means, Means', ~Unmapping, ~Unmapping',
         \A b \in Address : Mean(mem', b) = Mean(mem, b)
  PROVE  Protections' = Protections
<1>1. ASSUME NEW b \in Address PROVE Mapping(b)' = Mapping(b)
  <2>1. Mapping(b) = Mean(mem, b)
    BY DEF Means, Meant
  <2>2. Mapping(b)' = Mean(mem', b)
    BY DEF Means, Meant
  <2> QED BY <2>1, <2>2
<1> QED BY <1>1, SameProtections

\* The loops of unmap_lower_half show nothing.
LEMMA LoopProtections ==
  ASSUME Means, Means', Unmapping,
         \A b \in Address : b \notin Low => Mean(mem', b) = Mean(mem, b),
         ~Unmapping' => \A b \in Low : Mean(mem', b) = Unmapped
  PROVE  Protections' = Protections
<1>1. ASSUME NEW b \in Address PROVE Mapping(b)' = Mapping(b)
  <2>1. Mapping(b) = IF b \in Low THEN Unmapped ELSE Mean(mem, b)
    BY DEF Means, Meant
  <2>2. Mapping(b)' = IF Unmapping' /\ b \in Low THEN Unmapped ELSE Mean(mem', b)
    BY DEF Means, Meant, Low
  <2> QED BY <2>1, <2>2
<1> QED BY <1>1, SameProtections

LEMMA SpaceMaps ==
  ASSUME NEW lev, NEW n, NEW s, Good(lev, n, s), Means, Means', Walk, MapLeaf
  PROVE  Space!Next
<1>1. /\ pc = "vm_map" /\ pc' = "idle" /\ ret' = <<"map", "done">>
      /\ address \in Address /\ address \in Page /\ prot \in Protection
  BY Walking DEF Walk, MapLeaf, Return, TypeOK
<1>2. ~Unmapping /\ ~Unmapping'
  BY <1>1 DEF Unmapping
<1>3. \A b \in Address : /\ Mapping(b) = Mean(mem, b)
                         /\ Mapping(b)' = Mean(mem', b)
  BY <1>2 DEF Means, Meant
<1>4. \A b \in Address : /\ b = address => Mean(mem, b) = Unmapped /\ Mean(mem', b) = prot
                         /\ b # address => Mean(mem', b) = Mean(mem, b)
  BY <1>1, MapLeafMeans, MemoryAssumption
<1>5. Protections[address] = Unmapped
  BY <1>1, <1>3, <1>4 DEF Protections
<1>6. \A b \in Address : Mapping(b)' = IF b = address THEN prot ELSE Mapping(b)
  BY <1>3, <1>4
<1>7. Protections' = [Protections EXCEPT ![address] = prot]
  BY <1>1, <1>6 DEF Protections
<1>8. Space!Map(address, prot)
  BY <1>1, <1>5, <1>7 DEF Space!Map, Protections
<1> QED BY <1>1, <1>8 DEF Space!Next

\* A call of vm_map that is told no.
LEMMA SpaceFails ==
  ASSUME NEW lev, NEW n, NEW s, Good(lev, n, s), Means, Means',
         pc = "vm_map", pc' = "idle", mem' = mem,
         \/ SaysNoMemory /\ ~CurEntry.present
         \/ SaysMapped /\ level = 1 /\ CurEntry.present
  PROVE  Space!Next
<1>1. /\ address \in Address /\ address \in Page /\ level \in 1 .. 4
      /\ Way(mem, address, level) /\ cur_table = On(mem, address, level)
  BY Walking
<1>2. ~Unmapping /\ ~Unmapping'
  BY DEF Unmapping
<1>3. Mapping(address) = Mean(mem, address) /\ Mapping(address) \in Protection \cup {Unmapped}
  BY <1>1, <1>2 DEF Means, Meant
<1>4. Protections' = Protections
  BY <1>2, QuietProtections
<1>5. ~CurEntry.present => Protections[address] = Unmapped
  <2>1. SUFFICES ASSUME ~CurEntry.present PROVE Protections[address] = Unmapped
    OBVIOUS
  <2>2. ~mem[On(mem, address, level)].entry[IndexAt(address, level)].present
    BY <2>1, <1>1 DEF CurEntry
  <2>3. Mean(mem, address) = Unmapped
    BY <2>2, <1>1, Ends
  <2> QED BY <2>3, <1>1, <1>3 DEF Protections
<1>6. level = 1 /\ CurEntry.present => Protections[address] # Unmapped
  <2>1. SUFFICES ASSUME level = 1, CurEntry.present PROVE Protections[address] # Unmapped
    OBVIOUS
  <2>2. P1(mem, address) = cur_table
    BY <2>1, <1>1 DEF On
  <2>3. IndexAt(address, level) = address[4]
    BY <2>1 DEF IndexAt
  <2>4. Mapped(mem, address)
    BY <2>1, <2>2, <2>3, <1>1 DEF Mapped, CurEntry
  <2>5. ~ThroughHuge(address) /\ Leaf(address).present /\ Leaf(address) \in Entry
    BY <2>4, <1>1, Finds
  <2>6. Leaf(address).prot \in Protection
    BY <2>5 DEF Entry
  <2>7. Mapping(address) = Leaf(address).prot
    BY <2>5, <1>2 DEF Mapping
  <2> QED BY <2>6, <2>7, <1>1, MemoryAssumption DEF Protections
<1>7. \/ Protections[address] # Unmapped /\ SaysMapped
      \/ Protections[address] = Unmapped /\ SaysNoMemory
  BY <1>5, <1>6
<1> QED BY <1>1, <1>4, <1>7, SpaceNo

LEMMA SpaceReads ==
  ASSUME NEW lev, NEW n, NEW s, Good(lev, n, s), Means, Means', ~astray', NEW a \in Address,
         (\E p \in Protection : vm_protect(a, p)) \/ translate(a)
  PROVE  Space!Next
<1>1. pc = "idle" /\ pc' = "idle" /\ mem' = mem /\ ~ThroughHuge(a)
  BY Zenon DEF vm_protect, translate, Return
<1>2. ~Unmapping /\ ~Unmapping'
  BY <1>1 DEF Unmapping
<1>3. Protections' = Protections
  BY <1>1, <1>2, QuietProtections
<1>4. a \in Page
  BY MemoryAssumption
<1>5. Leaf(a) \in Entry
  BY <1>4, Finds
<1>6. Leaf(a).prot \in Protection /\ Unmapped \notin Protection
  BY <1>5, MemoryAssumption DEF Entry
<1>7. Protections[a] = IF Leaf(a).present THEN Leaf(a).prot ELSE Unmapped
  BY <1>1, <1>2 DEF Mapping, Protections
<1>8. CASE translate(a)
  <2>1. ret' = <<"translate", Protections[a]>>
    BY <1>7, <1>8 DEF translate, Return
  <2>2. Space!Translate(a)
    BY <2>1, <1>3, SpaceVars
  <2> QED BY <2>2 DEF Space!Next
<1>9. CASE \E p \in Protection : vm_protect(a, p)
  <2>1. ret' = <<"protect", Leaf(a).present>>
    BY <1>1, <1>9 DEF vm_protect, Return
  <2>2. Leaf(a).present <=> Protections[a] # Unmapped
    BY <1>6, <1>7
  <2>3. Leaf(a).present \in BOOLEAN
    BY <1>5 DEF Entry
  <2>4. Leaf(a).present = (Protections[a] # Unmapped)
    BY <2>2, <2>3
  <2>5. Space!Protect(a)
    BY <2>1, <2>4, <1>3, SpaceVars
  <2> QED BY <2>5 DEF Space!Next
<1> QED BY <1>8, <1>9

LEMMA SpaceClears ==
  ASSUME Means, Means', unmap_lower_half
  PROVE  Space!Next
<1>1. pc = "idle" /\ pc' = "l4" /\ mem' = mem /\ ret' = <<"cleared">>
  BY DEF unmap_lower_half
<1>2. ~Unmapping /\ Unmapping'
  BY <1>1 DEF Unmapping
<1>3. ASSUME NEW b \in Address PROVE Mapping(b)' = IF b \in Low THEN Unmapped ELSE Mapping(b)
  <2>1. Mapping(b) = Mean(mem, b)
    BY <1>2 DEF Means, Meant
  <2>2. Mapping(b)' = IF b \in Low THEN Unmapped ELSE Mean(mem', b)
    BY <1>2 DEF Means, Meant, Low
  <2> QED BY <2>1, <2>2, <1>1
<1>4. Protections' = [a \in Address |-> IF a \in Low THEN Unmapped ELSE Protections[a]]
  BY <1>3 DEF Protections
<1>5. Space!ClearLow
  BY <1>1, <1>4 DEF Space!ClearLow, Protections
<1> QED BY <1>5 DEF Space!Next

-----------------------------------------------------------------------------
(* Theorems.                                                               *)

\* Until a walk goes astray, every frame, the head of the free list and the
\* arguments and indices of the calls stay what they are declared to be
\* (memory.c:18-22, 66-86, 122-176, 260-326, 386-434).
THEOREM MemoryTypes == Spec => [](~astray => TypeOK)
<1>1. IInv => (~astray => TypeOK)
  BY DEF IInv, Good
<1> QED BY <1>1, Always, PTL

\* No page is in two chunks, in a chunk and a table, or in two places of the
\* tree of tables (memory.c:122-176, 282-304).
THEOREM PagesStayApart == Spec => []PagesApart
<1>1. IInv => PagesApart
  <2>1. CASE astray
    BY <2>1 DEF PagesApart, Reads
  <2>2. CASE ~astray
    BY <2>2, GoodApart DEF IInv
  <2> QED BY <2>1, <2>2
<1> QED BY <1>1, Always, PTL

\* vm_map and unmap_lower_half lose no page and gain none: what was free or a
\* table at boot is one of the two between calls (memory.c:282-304, 388-434).
THEOREM NoPageIsLost == Spec => []PagesKept
<1>1. IInv => PagesKept
  <2>1. CASE astray
    BY <2>1 DEF PagesKept, Reads
  <2>2. CASE ~astray
    BY <2>2, GoodKept DEF IInv
  <2> QED BY <2>1, <2>2
<1> QED BY <1>1, Always, PTL

\* No freed table is scanned, no table in use is overwritten, and the free
\* list leads from node to node (memory.c:128-137, 276, 391-431).
THEOREM TablesAreRead == Spec => []ReadAsWritten
<1>1. IInv => ReadAsWritten
  <2>1. CASE astray
    BY <2>1 DEF ReadAsWritten
  <2>2. CASE ~astray
    BY <2>2, GoodReads DEF IInv
  <2> QED BY <2>1, <2>2
<1> QED BY <1>1, Always, PTL

LEMMA SpaceInit == Init => Space!Init
<1> SUFFICES ASSUME Init PROVE Space!Init
  OBVIOUS
<1>1. Means
  BY InitGood, GoodMeans
<1>2. Protections \in [Address -> Protection \cup {Unmapped}]
  BY <1>1 DEF Means, Protections
<1>3. ret = <<"boot">>
  BY DEF Init
<1> QED BY <1>2, <1>3, SpaceVars

LEMMA SpaceStep ==
  ASSUME IInv, ~astray, ~astray', Means, Means', [Next]_vars
  PROVE  Space!Next \/ UNCHANGED Space!vars
<1>1. PICK lev, n, s : Good(lev, n, s)
  BY DEF IInv
<1>a. Protections' = Protections /\ ret' = ret => UNCHANGED Space!vars
  BY DEF Space!vars, Protections
<1>2. SUFFICES \/ Space!Next
               \/ Protections' = Protections /\ ret' = ret
  BY Zenon, <1>a
<1>3. CASE UNCHANGED vars
  <2>1. mem' = mem /\ pc' = pc /\ ret' = ret
    BY <1>3 DEF vars
  <2>2. \A b \in Address : Mapping(b)' = Mapping(b)
    BY <2>1 DEF Mapping, ThroughHuge, Leaf, Entry2, Entry3, Entry4, Under, EntryAt, Unmapping, Low
  <2> QED BY <2>1, <2>2, SameProtections
<1>4. ASSUME NEW a \in Address, NEW p \in Protection, vm_map(a, p)
      PROVE  Protections' = Protections /\ ret' = ret
  <2>1. mem' = mem /\ ~Unmapping /\ ~Unmapping' /\ ret' = ret
    BY <1>4 DEF vm_map, Unmapping
  <2> QED BY <2>1, QuietProtections
<1>5. ASSUME NEW a \in Address, NEW p \in Protection, vm_protect(a, p) PROVE Space!Next
  BY <1>1, <1>5, SpaceReads
<1>6. ASSUME NEW a \in Address, translate(a) PROVE Space!Next
  BY <1>1, <1>6, SpaceReads
<1>7. CASE unmap_lower_half
  BY <1>7, SpaceClears
<1>8. CASE Walk
  <2>1. pc = "vm_map" /\ ~Unmapping
    BY <1>8 DEF Walk, Unmapping
  <2>2. CASE Descend
    <3>1. mem' = mem /\ ret' = ret /\ ~Unmapping'
      BY <2>1, <2>2 DEF Descend, Unmapping
    <3> QED BY <3>1, <2>1, QuietProtections
  <2>3. CASE DescendAstray
    BY Zenon, <2>3 DEF DescendAstray
  <2>4. CASE NewTable
    <3>1. ret' = ret /\ ~Unmapping'
      BY <2>1, <2>4 DEF NewTable, Unmapping
    <3>2. \A b \in Address : Mean(mem', b) = Mean(mem, b)
      BY <2>1, <2>4, <1>1, NewTableMeans, MemoryAssumption
    <3> QED BY <3>1, <3>2, <2>1, QuietProtections
  <2>5. CASE NoMemory
    <3>1. pc' = "idle" /\ mem' = mem /\ SaysNoMemory /\ ~CurEntry.present
      BY Zenon, <2>5 DEF NoMemory, Return, SaysNoMemory
    <3> QED BY <3>1, <2>1, <1>1, SpaceFails
  <2>6. CASE AlreadyMapped
    <3>1. pc' = "idle" /\ mem' = mem /\ SaysMapped /\ level = 1 /\ CurEntry.present
      BY Zenon, <2>6 DEF AlreadyMapped, Return, SaysMapped
    <3> QED BY <3>1, <2>1, <1>1, SpaceFails
  <2>7. CASE MapLeaf
    BY <2>7, <1>1, <1>8, SpaceMaps
  <2> QED BY <2>2, <2>3, <2>4, <2>5, <2>6, <2>7, <1>8 DEF Walk
<1>9. CASE Unmap
  <2>1. ret' = ret /\ Unmapping /\ \A b \in Address : b \in Page
    BY <1>9, MemoryAssumption DEF Unmap, LoopL4, LoopL3, LoopL2, Unmapping
  <2>2. CASE LoopL4
    <3>1. ~Unmapping' => pc' = "idle"
      BY <2>2 DEF LoopL4, Unmapping
    <3>2. \A b \in Address : b \notin Low => Mean(mem', b) = Mean(mem, b)
      BY <2>1, <2>2, <1>1, L4Means DEF Low
    <3>3. ~Unmapping' => \A b \in Low : Mean(mem', b) = Unmapped
      BY <2>1, <2>2, <3>1, <1>1, L4Means DEF Low
    <3> QED BY <3>2, <3>3, <2>1, LoopProtections
  <2>3. CASE LoopL3
    <3>1. Unmapping'
      BY <2>3 DEF LoopL3, Unmapping
    <3>2. \A b \in Address : Mean(mem', b) = Mean(mem, b)
      BY <2>1, <2>3, <1>1, L3Means
    <3> QED BY <3>1, <3>2, <2>1, LoopProtections
  <2>4. CASE LoopL2
    <3>1. Unmapping'
      BY <2>4 DEF LoopL2, Unmapping
    <3>2. \A b \in Address : Mean(mem', b) = Mean(mem, b)
      BY <2>1, <2>4, <1>1, L2Means
    <3> QED BY <3>1, <3>2, <2>1, LoopProtections
  <2> QED BY <2>2, <2>3, <2>4, <1>9 DEF Unmap
<1> QED BY <1>3, <1>4, <1>5, <1>6, <1>7, <1>8, <1>9 DEF Next

\* The page tables are a map of pages to protections: a page is mapped with
\* the protection asked for, once, until the lower half is cleared, and
\* mapping one, or failing to, changes no other (memory.c:260-326, 386-434).
THEOREM TablesImplementSpace == Spec => ImplementsAddressSpace
<1>1. Init => Space!Init
  BY SpaceInit
<1>2. [Next]_vars /\ astray => astray'
  <2>1. SUFFICES ASSUME [Next]_vars, ~astray' PROVE ~astray
    OBVIOUS
  <2> QED BY <2>1, StaysAstray
<1>3. IInv /\ ~astray => Means
  BY AlwaysMeans
<1>4. IInv /\ IInv' /\ ~astray /\ ~astray' /\ Means /\ Means' /\ [Next]_vars =>
        [astray' \/ UNCHANGED Space!vars \/ Space!Next]_(Space!vars)
  BY SpaceStep
<1> QED BY <1>1, <1>2, <1>3, <1>4, Always, PTL DEF Spec, ImplementsAddressSpace
=============================================================================
