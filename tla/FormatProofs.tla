---------------------------- MODULE FormatProofs ----------------------------
(***************************************************************************)
(* Proofs about formatted output, for every number that fits the buffer of *)
(* digits and every call whose directives have their arguments.  The       *)
(* provers do no induction: a recursive function is first shown to satisfy *)
(* its equation, and then what holds of all numbers, turns or lengths by   *)
(* ruling out the least of those of which it would not hold.               *)
(***************************************************************************)
EXTENDS Format, ModularArithmetic, SequenceTheorems, FiniteSetTheorems

-----------------------------------------------------------------------------
(* What is printed: sequences of sequences of characters, one behind the   *)
(* other                                                                   *)

LEMMA FlattenIs ==
  ASSUME NEW seqs, Len(seqs) \in Nat \ {0}
  PROVE  \E v : /\ FlattenSeq(seqs) = v[Len(seqs)]
                /\ \A n \in 1 .. Len(seqs) : v[n] = IF n = 1 THEN seqs[1] ELSE v[n - 1] \o seqs[n]
<1> PICK len : len = Len(seqs)
  OBVIOUS
<1>0. len \in Nat \ {0}
  OBVIOUS
<1> DEFINE Next1(f, n) == IF n = 1 THEN seqs[n] ELSE f[n - 1] \o seqs[n]
           Partial(f, m) == \A n \in 1 .. m : f[n] = Next1(f, n)
           IsAll(f) == f = [n \in 1 .. len |-> Next1(f, n)]
           Without == {m \in Nat : ~ \E f : Partial(f, m)}
<1>1. FlattenSeq(seqs) = (CHOOSE f : IsAll(f))[len]
  BY <1>0 DEF FlattenSeq
<1>2. Without = {}
  <2>1. SUFFICES ASSUME Without # {} PROVE FALSE
    OBVIOUS
  <2>2. PICK x \in Without : \A y \in Without : x <= y
    <3>1. Without \in SUBSET Nat
      OBVIOUS
    <3> HIDE DEF Without
    <3> QED BY <3>1, <2>1, Least
  <2>3. x \in Nat /\ ~ \E f : Partial(f, x)
    OBVIOUS
  <2>4. CASE x = 0
    <3> DEFINE f == [n \in 1 .. 0 |-> 0]
    <3>1. Partial(f, 0)
      OBVIOUS
    <3> QED BY <2>3, <2>4, <3>1
  <2>5. CASE x # 0
    <3>1. x - 1 \in Nat /\ x - 1 \notin Without
      BY <2>2, <2>3, <2>5
    <3>2. PICK f : Partial(f, x - 1)
      BY <3>1
    <3>3. PICK z : z = Next1(f, x)
      OBVIOUS
    <3> DEFINE g == [n \in 1 .. x |-> IF n = x THEN z ELSE f[n]]
    <3>4. \A n \in 1 .. x - 1 : g[n] = f[n]
      BY <2>3
    <3>5. g[x] = z
      BY <2>3, <2>5
    <3> HIDE DEF g
    <3>6. \A n \in 1 .. x - 1 : g[n] = Next1(g, n)
      BY <2>3, <3>2, <3>4
    <3>7. g[x] = Next1(g, x)
      BY <2>3, <2>5, <3>3, <3>4, <3>5
    <3>8. Partial(g, x)
      BY <2>3, <3>6, <3>7
    <3> QED BY <2>3, <3>8
  <2> QED BY <2>4, <2>5
<1>3. PICK f : Partial(f, len)
  BY <1>0, <1>2
<1> DEFINE w == [n \in 1 .. len |-> f[n]]
<1>4. \A n \in 1 .. len : w[n] = Next1(w, n)
  BY <1>0, <1>3
<1>5. w = [n \in 1 .. len |-> w[n]]
  OBVIOUS
<1> HIDE DEF w, Next1
<1>6. w = [n \in 1 .. len |-> Next1(w, n)]
  BY <1>4, <1>5
<1>7. IsAll(w)
  BY <1>6
<1> HIDE DEF IsAll
<1>8. PICK v : v = CHOOSE g : IsAll(g)
  OBVIOUS
<1>9. IsAll(v)
  BY <1>7, <1>8
<1>10. v = [n \in 1 .. len |-> Next1(v, n)]
  BY <1>9 DEF IsAll
<1>11. \A n \in 1 .. len : v[n] = Next1(v, n)
  BY <1>10
<1>12. FlattenSeq(seqs) = v[len]
  BY <1>1, <1>8
<1> QED BY <1>11, <1>12 DEF Next1

LEMMA FlattenNone == FlattenSeq(<<>>) = <<>>
  BY DEF FlattenSeq

\* Sequences of characters, one more at a time.
LEMMA FlattenAppend ==
  ASSUME NEW T, NEW seqs \in Seq(Seq(T)), NEW more \in Seq(T)
  PROVE  /\ FlattenSeq(seqs) \in Seq(T)
         /\ FlattenSeq(Append(seqs, more)) = FlattenSeq(seqs) \o more
<1> PICK len : len = Len(seqs)
  OBVIOUS
<1> PICK all : all = Append(seqs, more)
  OBVIOUS
<1>0. /\ len \in Nat /\ Len(all) = len + 1 /\ all \in Seq(Seq(T)) /\ all[len + 1] = more
      /\ \A n \in 1 .. len : all[n] = seqs[n] /\ seqs[n] \in Seq(T)
  OBVIOUS
<1>1. PICK v : /\ FlattenSeq(all) = v[Len(all)]
               /\ \A n \in 1 .. Len(all) : v[n] = IF n = 1 THEN all[1] ELSE v[n - 1] \o all[n]
  <2>1. Len(all) \in Nat \ {0}
    BY <1>0
  <2> QED BY <2>1, FlattenIs
<1>5. /\ FlattenSeq(all) = v[len + 1]
      /\ \A n \in 1 .. len + 1 : v[n] = IF n = 1 THEN all[1] ELSE v[n - 1] \o all[n]
  BY <1>0, <1>1
<1>2. CASE len = 0
  <2>1. seqs = <<>>
    BY <1>2, EmptySeq
  <2>2. FlattenSeq(seqs) = <<>> /\ <<>> \in Seq(T) /\ <<>> \o more = more
    BY <2>1, FlattenNone
  <2>3. v[1] = all[1]
    BY <1>2, <1>5
  <2> QED BY <1>0, <1>5, <1>2, <2>2, <2>3
<1>3. CASE len # 0
  <2>0. Len(seqs) \in Nat \ {0}
    BY <1>0, <1>3
  <2>11. PICK w : /\ FlattenSeq(seqs) = w[Len(seqs)]
                  /\ \A n \in 1 .. Len(seqs) : w[n] = IF n = 1 THEN seqs[1] ELSE w[n - 1] \o seqs[n]
    BY <2>0, FlattenIs
  <2>1. /\ FlattenSeq(seqs) = w[len]
        /\ \A n \in 1 .. len : w[n] = IF n = 1 THEN seqs[1] ELSE w[n - 1] \o seqs[n]
    BY <2>11
  <2> DEFINE Bad == {n \in Nat : n \in 1 .. len /\ ~(v[n] = w[n] /\ w[n] \in Seq(T))}
  <2>2. Bad = {}
    <3>1. SUFFICES ASSUME Bad # {} PROVE FALSE
      OBVIOUS
    <3>2. PICK x \in Bad : \A y \in Bad : x <= y
      <4>1. Bad \in SUBSET Nat
        OBVIOUS
      <4> HIDE DEF Bad
      <4> QED BY <4>1, <3>1, Least
    <3>3. x \in 1 .. len /\ ~(v[x] = w[x] /\ w[x] \in Seq(T)) /\ x \in 1 .. len + 1
      BY <1>0
    <3>4. x # 1
      BY <1>0, <1>5, <2>1, <3>3
    <3>5. x - 1 \in 1 .. len /\ x - 1 \notin Bad
      BY <3>2, <3>3, <3>4
    <3>6. v[x - 1] = w[x - 1] /\ w[x - 1] \in Seq(T)
      BY <3>5
    <3>7. w[x] = w[x - 1] \o seqs[x]
      BY <2>1, <3>3, <3>4
    <3>8. v[x] = v[x - 1] \o seqs[x]
      BY <1>0, <1>5, <3>3, <3>4
    <3>9. w[x - 1] \o seqs[x] \in Seq(T)
      <4>1. seqs[x] \in Seq(T)
        BY <1>0, <3>3
      <4> QED BY <3>6, <4>1
    <3> QED BY <3>3, <3>6, <3>7, <3>8, <3>9
  <2>3. v[len] = w[len] /\ w[len] \in Seq(T)
    BY <1>0, <1>3, <2>2
  <2>4. v[len + 1] = v[len] \o more
    <3>1. len + 1 \in 1 .. len + 1 /\ len + 1 # 1 /\ (len + 1) - 1 = len
      BY <1>0, <1>3
    <3> QED BY <1>0, <1>5, <3>1
  <2> QED BY <1>5, <2>1, <2>3, <2>4
<1> QED BY <1>2, <1>3

LEMMA FlattenOne ==
  ASSUME NEW T, NEW str \in Seq(T)
  PROVE  FlattenSeq(<<str>>) = str
<1>1. <<>> \in Seq(Seq(T)) /\ Append(<<>>, str) = <<str>> /\ <<>> \o str = str
  OBVIOUS
<1> QED BY <1>1, FlattenAppend, FlattenNone

\* Character by character.
LEMMA FlattenSingles ==
  ASSUME NEW T, NEW str \in Seq(T)
  PROVE  FlattenSeq([n \in DOMAIN str |-> <<str[n]>>]) = str
<1> DEFINE Cut(m) == [n \in 1 .. m |-> <<str[n]>>]
           Same(m) == FlattenSeq(Cut(m)) = SubSeq(str, 1, m)
           Bad == {m \in Nat : m <= Len(str) /\ ~Same(m)}
<1>0. Len(str) \in Nat /\ DOMAIN str = 1 .. Len(str) /\ SubSeq(str, 1, Len(str)) = str
  OBVIOUS
<1>1. Bad = {}
  <2>1. SUFFICES ASSUME Bad # {} PROVE FALSE
    OBVIOUS
  <2>2. PICK x \in Bad : \A y \in Bad : x <= y
    <3>1. Bad \in SUBSET Nat
      OBVIOUS
    <3> HIDE DEF Bad
    <3> QED BY <3>1, <2>1, Least
  <2> HIDE DEF Same
  <2>3. x \in Nat /\ x <= Len(str) /\ ~Same(x)
    OBVIOUS
  <2>4. x # 0
    <3>1. SUFFICES ASSUME x = 0 PROVE FALSE
      OBVIOUS
    <3>2. Cut(0) = <<>>
      OBVIOUS
    <3>3. SubSeq(str, 1, 0) = <<>>
      OBVIOUS
    <3> QED BY <2>3, <3>1, <3>2, <3>3, FlattenNone DEF Same
  <2>5. x - 1 \in Nat /\ x - 1 <= Len(str) /\ x - 1 \notin Bad
    BY <1>0, <2>2, <2>3, <2>4
  <2>6. PICK y \in Nat : y = x - 1
    BY <2>5
  <2>7. FlattenSeq(Cut(y)) = SubSeq(str, 1, y) /\ y + 1 = x /\ y <= Len(str)
    <3>1. Same(y) /\ y + 1 = x /\ y <= Len(str)
      BY <2>3, <2>5, <2>6
    <3> QED BY <3>1 DEF Same
  <2>8. str[x] \in T
    BY <2>3, <2>4
  <2>9. Cut(y) \in Seq(Seq(T)) /\ Len(Cut(y)) = y
    <3>1. \A n \in 1 .. y : <<str[n]>> \in Seq(T)
      BY <1>0, <2>6, <2>7
    <3> QED BY <2>6, <3>1
  <2>10. Cut(x) = Append(Cut(y), <<str[x]>>)
    BY <2>6, <2>7, <2>9
  <2>11. SubSeq(str, 1, x) = SubSeq(str, 1, y) \o <<str[x]>>
    BY <1>0, <2>3, <2>4, <2>6, <2>7
  <2> HIDE DEF Cut
  <2>12. FlattenSeq(Append(Cut(y), <<str[x]>>)) = FlattenSeq(Cut(y)) \o <<str[x]>>
    <3>1. <<str[x]>> \in Seq(T)
      BY <2>8
    <3> QED BY <2>9, <3>1, FlattenAppend
  <2> QED BY <2>3, <2>7, <2>10, <2>11, <2>12 DEF Same
<1>2. FlattenSeq(Cut(Len(str))) = SubSeq(str, 1, Len(str))
  <2> HIDE DEF Same
  <2>1. Same(Len(str))
    BY <1>0, <1>1
  <2> QED BY <2>1 DEF Same
<1> QED BY <1>0, <1>2

-----------------------------------------------------------------------------
(* The loops, turn by turn                                                 *)

Outset == [pos |-> 1, arg |-> 1, out |-> <<>>]

LEMMA TurnsAre ==
  ASSUME NEW format \in Seq(Nat), NEW args, NEW k \in 0 .. Len(format)
  PROVE  Turns(format, args)[k] = IF k = 0 THEN Outset ELSE Turn(Turns(format, args)[k - 1], format, args)
<1> PICK len : len = Len(format)
  OBVIOUS
<1>0. len \in Nat
  OBVIOUS
<1> DEFINE Next1(f, n) == IF n = 0 THEN Outset ELSE Turn(f[n - 1], format, args)
           Partial(f, m) == \A n \in 0 .. m : f[n] = Next1(f, n)
           IsAll(f) == f = [n \in 0 .. len |-> Next1(f, n)]
           Has(m) == \E f : Partial(f, m)
           Without == {m \in Nat : ~Has(m)}
<1>1. Turns(format, args) = CHOOSE f : IsAll(f)
  BY DEF Turns, Outset
<1>2. Without = {}
  <2>1. SUFFICES ASSUME Without # {} PROVE FALSE
    OBVIOUS
  <2>2. PICK x \in Without : \A y \in Without : x <= y
    <3>1. Without \in SUBSET Nat
      OBVIOUS
    <3> HIDE DEF Without
    <3> QED BY <3>1, <2>1, Least
  <2> HIDE DEF Has
  <2>3. x \in Nat /\ ~Has(x)
    OBVIOUS
  <2>4. CASE x = 0
    <3> DEFINE f == [n \in 0 .. 0 |-> Outset]
    <3>1. Partial(f, 0)
      OBVIOUS
    <3> QED BY <2>3, <2>4, <3>1 DEF Has
  <2>5. CASE x # 0
    <3>1. x - 1 \in Nat /\ x - 1 \notin Without
      BY <2>2, <2>3, <2>5
    <3>2. PICK f : Partial(f, x - 1)
      BY <3>1 DEF Has
    <3>3. PICK z : z = Next1(f, x)
      OBVIOUS
    <3> DEFINE g == [n \in 0 .. x |-> IF n = x THEN z ELSE f[n]]
    <3>4. \A n \in 0 .. x - 1 : g[n] = f[n]
      BY <2>3
    <3>5. g[x] = z
      BY <2>3
    <3> HIDE DEF g
    <3>6. ASSUME NEW n \in 0 .. x - 1
          PROVE  g[n] = Next1(g, n)
      <4>1. g[n] = f[n] /\ f[n] = Next1(f, n)
        BY <3>2, <3>4
      <4>2. n # 0 => g[n - 1] = f[n - 1]
        BY <2>3, <3>4
      <4> QED BY <4>1, <4>2
    <3>7. g[x] = Next1(g, x)
      BY <2>3, <2>5, <3>3, <3>4, <3>5
    <3>8. Partial(g, x)
      BY <2>3, <3>6, <3>7
    <3> QED BY <2>3, <3>8 DEF Has
  <2> QED BY <2>4, <2>5
<1>3. PICK f : Partial(f, len)
  <2> HIDE DEF Has
  <2>1. Has(len)
    BY <1>0, <1>2
  <2> QED BY <2>1 DEF Has
<1> DEFINE w == [n \in 0 .. len |-> f[n]]
<1>4. \A n \in 0 .. len : w[n] = Next1(w, n)
  BY <1>0, <1>3
<1>5. w = [n \in 0 .. len |-> w[n]]
  OBVIOUS
<1> HIDE DEF w, Next1
<1>6. w = [n \in 0 .. len |-> Next1(w, n)]
  BY <1>4, <1>5
<1>7. IsAll(w)
  BY <1>6
<1> HIDE DEF IsAll
<1>8. IsAll(Turns(format, args))
  BY <1>1, <1>7
<1>9. PICK v : v = Turns(format, args)
  OBVIOUS
<1>10. v = [n \in 0 .. len |-> Next1(v, n)]
  BY <1>8, <1>9 DEF IsAll
<1>11. v[k] = Next1(v, k)
  BY <1>10
<1> QED BY <1>9, <1>11 DEF Next1

LEMMA ReadingsAre ==
  ASSUME NEW str, NEW base, Len(str) \in Nat, NEW k \in 0 .. Len(str)
  PROVE  Readings(str, base)[k] = IF k = 0 THEN 0 ELSE Readings(str, base)[k - 1] * base + Worth(str[k])
<1> PICK len : len = Len(str)
  OBVIOUS
<1>0. len \in Nat
  OBVIOUS
<1> DEFINE Next1(f, n) == IF n = 0 THEN 0 ELSE f[n - 1] * base + Worth(str[n])
           Partial(f, m) == \A n \in 0 .. m : f[n] = Next1(f, n)
           IsAll(f) == f = [n \in 0 .. len |-> Next1(f, n)]
           Has(m) == \E f : Partial(f, m)
           Without == {m \in Nat : ~Has(m)}
<1>1. Readings(str, base) = CHOOSE f : IsAll(f)
  BY DEF Readings
<1>2. Without = {}
  <2>1. SUFFICES ASSUME Without # {} PROVE FALSE
    OBVIOUS
  <2>2. PICK x \in Without : \A y \in Without : x <= y
    <3>1. Without \in SUBSET Nat
      OBVIOUS
    <3> HIDE DEF Without
    <3> QED BY <3>1, <2>1, Least
  <2> HIDE DEF Has
  <2>3. x \in Nat /\ ~Has(x)
    OBVIOUS
  <2>4. CASE x = 0
    <3> DEFINE f == [n \in 0 .. 0 |-> 0]
    <3>1. Partial(f, 0)
      OBVIOUS
    <3> QED BY <2>3, <2>4, <3>1 DEF Has
  <2>5. CASE x # 0
    <3>1. x - 1 \in Nat /\ x - 1 \notin Without
      BY <2>2, <2>3, <2>5
    <3>2. PICK f : Partial(f, x - 1)
      BY <3>1 DEF Has
    <3>3. PICK z : z = Next1(f, x)
      OBVIOUS
    <3> DEFINE g == [n \in 0 .. x |-> IF n = x THEN z ELSE f[n]]
    <3>4. \A n \in 0 .. x - 1 : g[n] = f[n]
      BY <2>3
    <3>5. g[x] = z
      BY <2>3
    <3> HIDE DEF g
    <3>6. ASSUME NEW n \in 0 .. x - 1
          PROVE  g[n] = Next1(g, n)
      <4>1. g[n] = f[n] /\ f[n] = Next1(f, n)
        BY <3>2, <3>4
      <4>2. n # 0 => g[n - 1] = f[n - 1]
        BY <2>3, <3>4
      <4> QED BY <4>1, <4>2
    <3>7. g[x] = Next1(g, x)
      BY <2>3, <2>5, <3>3, <3>4, <3>5
    <3>8. Partial(g, x)
      BY <2>3, <3>6, <3>7
    <3> QED BY <2>3, <3>8 DEF Has
  <2> QED BY <2>4, <2>5
<1>3. PICK f : Partial(f, len)
  <2> HIDE DEF Has
  <2>1. Has(len)
    BY <1>0, <1>2
  <2> QED BY <2>1 DEF Has
<1> DEFINE w == [n \in 0 .. len |-> f[n]]
<1>4. \A n \in 0 .. len : w[n] = Next1(w, n)
  BY <1>0, <1>3
<1>5. w = [n \in 0 .. len |-> w[n]]
  OBVIOUS
<1> HIDE DEF w, Next1
<1>6. w = [n \in 0 .. len |-> Next1(w, n)]
  BY <1>4, <1>5
<1>7. IsAll(w)
  BY <1>6
<1> HIDE DEF IsAll
<1>8. IsAll(Readings(str, base))
  BY <1>1, <1>7
<1>9. PICK v : v = Readings(str, base)
  OBVIOUS
<1>10. v = [n \in 0 .. len |-> Next1(v, n)]
  BY <1>8, <1>9 DEF IsAll
<1>11. v[k] = Next1(v, k)
  BY <1>10
<1> QED BY <1>9, <1>11 DEF Next1

LEMMA PowersAre ==
  ASSUME NEW k \in 0 .. Length
  PROVE  PowersOfTen[k] = IF k = 0 THEN 1 ELSE 10 * PowersOfTen[k - 1]
<1> PICK len : len = Length
  OBVIOUS
<1>0. len \in Nat
  BY FormatAssumption
<1> DEFINE Next1(f, n) == IF n = 0 THEN 1 ELSE 10 * f[n - 1]
           Partial(f, m) == \A n \in 0 .. m : f[n] = Next1(f, n)
           IsAll(f) == f = [n \in 0 .. len |-> Next1(f, n)]
           Has(m) == \E f : Partial(f, m)
           Without == {m \in Nat : ~Has(m)}
<1>1. PowersOfTen = CHOOSE f : IsAll(f)
  BY DEF PowersOfTen
<1>2. Without = {}
  <2>1. SUFFICES ASSUME Without # {} PROVE FALSE
    OBVIOUS
  <2>2. PICK x \in Without : \A y \in Without : x <= y
    <3>1. Without \in SUBSET Nat
      OBVIOUS
    <3> HIDE DEF Without
    <3> QED BY <3>1, <2>1, Least
  <2> HIDE DEF Has
  <2>3. x \in Nat /\ ~Has(x)
    OBVIOUS
  <2>4. CASE x = 0
    <3> DEFINE f == [n \in 0 .. 0 |-> 1]
    <3>1. Partial(f, 0)
      OBVIOUS
    <3> QED BY <2>3, <2>4, <3>1 DEF Has
  <2>5. CASE x # 0
    <3>1. x - 1 \in Nat /\ x - 1 \notin Without
      BY <2>2, <2>3, <2>5
    <3>2. PICK f : Partial(f, x - 1)
      BY <3>1 DEF Has
    <3>3. PICK z : z = Next1(f, x)
      OBVIOUS
    <3> DEFINE g == [n \in 0 .. x |-> IF n = x THEN z ELSE f[n]]
    <3>4. \A n \in 0 .. x - 1 : g[n] = f[n]
      BY <2>3
    <3>5. g[x] = z
      BY <2>3
    <3> HIDE DEF g
    <3>6. ASSUME NEW n \in 0 .. x - 1
          PROVE  g[n] = Next1(g, n)
      <4>1. g[n] = f[n] /\ f[n] = Next1(f, n)
        BY <3>2, <3>4
      <4>2. n # 0 => g[n - 1] = f[n - 1]
        BY <2>3, <3>4
      <4> QED BY <4>1, <4>2
    <3>7. g[x] = Next1(g, x)
      BY <2>3, <2>5, <3>3, <3>4, <3>5
    <3>8. Partial(g, x)
      BY <2>3, <3>6, <3>7
    <3> QED BY <2>3, <3>8 DEF Has
  <2> QED BY <2>4, <2>5
<1>3. PICK f : Partial(f, len)
  <2> HIDE DEF Has
  <2>1. Has(len)
    BY <1>0, <1>2
  <2> QED BY <2>1 DEF Has
<1> DEFINE w == [n \in 0 .. len |-> f[n]]
<1>4. \A n \in 0 .. len : w[n] = Next1(w, n)
  BY <1>0, <1>3
<1>5. w = [n \in 0 .. len |-> w[n]]
  OBVIOUS
<1> HIDE DEF w, Next1
<1>6. w = [n \in 0 .. len |-> Next1(w, n)]
  BY <1>4, <1>5
<1>7. IsAll(w)
  BY <1>6
<1> HIDE DEF IsAll
<1>8. IsAll(PowersOfTen)
  BY <1>1, <1>7
<1>9. PICK v : v = PowersOfTen
  OBVIOUS
<1>10. v = [n \in 0 .. len |-> Next1(v, n)]
  BY <1>8, <1>9 DEF IsAll
<1>11. v[k] = Next1(v, k)
  BY <1>10
<1> QED BY <1>9, <1>11 DEF Next1

-----------------------------------------------------------------------------
(* Digits                                                                  *)

LEMMA Quotient ==
  ASSUME NEW v \in Nat, NEW base \in Nat, base > 1
  PROVE  /\ v \div base \in Nat /\ v % base \in 0 .. base - 1
         /\ v = base * (v \div base) + (v % base)
         /\ v \div base # 0 => v \div base < v
<1>1. base \in Nat \ {0}
  OBVIOUS
<1>0. PICK q, r : q = v \div base /\ r = v % base
  OBVIOUS
<1>2. q \in Int /\ r \in 0 .. base - 1 /\ q = v \div base /\ r = v % base /\ v = base * q + r
  BY <1>0, <1>1, DivMod
<1>3. q \in Nat
  <2>1. SUFFICES ASSUME 0 - q >= 1 PROVE FALSE
    BY <1>2
  <2>2. 0 - q \in Int /\ base * (0 - q) \in Int /\ base * (0 - q) >= base
    BY <2>1, <1>2, Times
  <2>3. base * (0 - q) = base * 0 - base * q /\ base * 0 = 0 /\ base * q \in Int
    BY <1>2, TimesMinus
  <2> QED BY <1>2, <2>2, <2>3
<1>4. ASSUME q # 0 PROVE q < v
  <2>1. q \in Nat /\ q >= 1 /\ base - 1 \in Nat /\ base - 1 >= 1
    BY <1>3, <1>4
  <2>2. q * (base - 1) \in Int /\ q * (base - 1) >= q
    BY <2>1, Times
  <2>3. q * (base - 1) = q * base - q * 1 /\ q * base = base * q /\ q * 1 = q
    BY <2>1, TimesMinus
  <2>4. base * q \in Int
    BY <2>1
  <2> QED BY <1>2, <2>1, <2>2, <2>3, <2>4
<1> QED BY <1>2, <1>3, <1>4

LEMMA DigitsAre ==
  ASSUME NEW v \in Nat, NEW base \in Nat, base > 1
  PROVE  Digits(v, base) = (IF v \div base # 0 THEN Digits(v \div base, base) ELSE <<>>)
                             \o <<DigitCode(v % base)>>
<1> DEFINE Next1(f, n) == (IF n \div base # 0 THEN f[n \div base] ELSE <<>>) \o <<DigitCode(n % base)>>
           Partial(f, m) == \A n \in 0 .. m : f[n] = Next1(f, n)
           IsAll(f) == f = [n \in Nat |-> Next1(f, n)]
           Has(m) == \E f : Partial(f, m)
           Without == {m \in Nat : ~Has(m)}
<1>1. \A n : Digits(n, base) = (CHOOSE f : IsAll(f))[n]
  BY DEF Digits
<1>2. \A n \in Nat : n \div base \in Nat /\ (n \div base # 0 => n \div base < n)
  BY Quotient
<1> HIDE DEF Next1
<1>3. ASSUME NEW f, NEW g, NEW n \in Nat, n \div base # 0 => f[n \div base] = g[n \div base]
      PROVE  Next1(f, n) = Next1(g, n)
  BY <1>3 DEF Next1
<1>4. Without = {}
  <2>1. SUFFICES ASSUME Without # {} PROVE FALSE
    OBVIOUS
  <2>2. PICK x \in Without : \A y \in Without : x <= y
    <3>1. Without \in SUBSET Nat
      OBVIOUS
    <3> HIDE DEF Without
    <3> QED BY <3>1, <2>1, Least
  <2> HIDE DEF Has
  <2>3. x \in Nat /\ ~Has(x)
    OBVIOUS
  <2>4. PICK f : Partial(f, x - 1)
    <3>1. CASE x = 0
      BY <3>1
    <3>2. CASE x # 0
      <4>1. x - 1 \in Nat /\ x - 1 \notin Without
        BY <2>2, <2>3, <3>2
      <4> QED BY <4>1 DEF Has
    <3> QED BY <3>1, <3>2
  <2>5. PICK z : z = Next1(f, x)
    OBVIOUS
  <2> DEFINE g == [n \in 0 .. x |-> IF n = x THEN z ELSE f[n]]
  <2>6. \A n \in 0 .. x - 1 : g[n] = f[n]
    BY <2>3
  <2>7. g[x] = z
    BY <2>3
  <2> HIDE DEF g
  <2>8. ASSUME NEW n \in 0 .. x - 1
        PROVE  g[n] = Next1(g, n)
    <3>1. n \in Nat /\ g[n] = f[n] /\ f[n] = Next1(f, n)
      BY <2>4, <2>6
    <3>2. n \div base # 0 => n \div base \in 0 .. x - 1
      BY <1>2, <2>3, <3>1
    <3>3. Next1(f, n) = Next1(g, n)
      BY <1>3, <2>6, <3>1, <3>2
    <3> QED BY <3>1, <3>3
  <2>9. g[x] = Next1(g, x)
    <3>1. x \div base # 0 => x \div base \in 0 .. x - 1
      BY <1>2, <2>3
    <3>2. Next1(f, x) = Next1(g, x)
      BY <1>3, <2>3, <2>6, <3>1
    <3> QED BY <2>5, <2>7, <3>2
  <2>10. Partial(g, x)
    BY <2>3, <2>8, <2>9
  <2> QED BY <2>3, <2>10 DEF Has
<1>5. ASSUME NEW n \in Nat
      PROVE  \E f : Partial(f, n)
  <2> HIDE DEF Has
  <2>1. Has(n)
    BY <1>4
  <2> QED BY <2>1 DEF Has
<1>6. ASSUME NEW f, NEW g, NEW m \in Nat, Partial(f, m), Partial(g, m), NEW n \in 0 .. m
      PROVE  f[n] = g[n]
  <2> DEFINE Bad == {k \in Nat : k \in 0 .. m /\ f[k] # g[k]}
  <2>1. SUFFICES ASSUME Bad # {} PROVE FALSE
    OBVIOUS
  <2>2. PICK x \in Bad : \A y \in Bad : x <= y
    <3>1. Bad \in SUBSET Nat
      OBVIOUS
    <3> HIDE DEF Bad
    <3> QED BY <3>1, <2>1, Least
  <2>3. x \in Nat /\ x \in 0 .. m /\ f[x] # g[x]
    OBVIOUS
  <2>4. f[x] = Next1(f, x) /\ g[x] = Next1(g, x)
    BY <1>6, <2>3
  <2>5. ASSUME x \div base # 0
        PROVE  f[x \div base] = g[x \div base]
    <3>1. PICK y : y = x \div base
      OBVIOUS
    <3>2. y \in Nat /\ y < x /\ y \in 0 .. m
      BY <1>2, <2>3, <2>5, <3>1
    <3>3. y \notin Bad
      BY <2>2, <3>2
    <3> QED BY <3>1, <3>2, <3>3
  <2>6. Next1(f, x) = Next1(g, x)
    BY <1>3, <2>3, <2>5
  <2> QED BY <2>3, <2>4, <2>6
<1> DEFINE p(n) == CHOOSE f : Partial(f, n)
<1>7. \A n \in Nat : Partial(p(n), n)
  BY <1>5
<1> HIDE DEF p
<1> DEFINE w == [n \in Nat |-> p(n)[n]]
<1>8. \A n \in Nat : w[n] = p(n)[n]
  OBVIOUS
<1>9. w = [n \in Nat |-> w[n]]
  OBVIOUS
<1> HIDE DEF w
<1>10. ASSUME NEW n \in Nat
       PROVE  w[n] = Next1(w, n)
  <2>1. w[n] = Next1(p(n), n)
    BY <1>7, <1>8
  <2>2. ASSUME n \div base # 0
        PROVE  p(n)[n \div base] = w[n \div base]
    <3>1. PICK y : y = n \div base
      OBVIOUS
    <3>2. y \in Nat /\ y < n /\ y \in 0 .. y
      BY <1>2, <2>2, <3>1
    <3>3. Partial(p(n), y)
      BY <1>7, <3>2
    <3>4. Partial(p(y), y)
      BY <1>7, <3>2
    <3>5. p(n)[y] = p(y)[y]
      BY <1>6, <3>2, <3>3, <3>4
    <3> QED BY <1>8, <3>1, <3>2, <3>5
  <2>3. Next1(p(n), n) = Next1(w, n)
    BY <1>3, <2>2
  <2> QED BY <2>1, <2>3
<1>11. w = [n \in Nat |-> Next1(w, n)]
  BY <1>9, <1>10
<1>12. IsAll(w)
  BY <1>11
<1> HIDE DEF IsAll
<1>13. PICK all : all = CHOOSE f : IsAll(f)
  OBVIOUS
<1>14. IsAll(all)
  BY <1>12, <1>13
<1>15. \A n \in Nat : all[n] = Next1(all, n)
  BY <1>14 DEF IsAll
<1>16. \A n \in Nat : Digits(n, base) = all[n]
  BY <1>1, <1>13
<1> QED BY <1>2, <1>15, <1>16 DEF Next1

LEMMA LowercaseIs ==
  ASSUME NEW digit \in 0 .. 15
  PROVE  /\ digit + 1 \in DOMAIN Lowercase
         /\ Lowercase[digit + 1] = DigitCode(digit)
<1>1. DOMAIN Lowercase = 1 .. 16
  BY DEF Lowercase
<1>2. /\ Lowercase[1] = 48 /\ Lowercase[2] = 49 /\ Lowercase[3] = 50 /\ Lowercase[4] = 51
      /\ Lowercase[5] = 52 /\ Lowercase[6] = 53 /\ Lowercase[7] = 54 /\ Lowercase[8] = 55
      /\ Lowercase[9] = 56 /\ Lowercase[10] = 57 /\ Lowercase[11] = 97 /\ Lowercase[12] = 98
      /\ Lowercase[13] = 99 /\ Lowercase[14] = 100 /\ Lowercase[15] = 101 /\ Lowercase[16] = 102
  BY DEF Lowercase
<1>3. \/ digit = 0 \/ digit = 1 \/ digit = 2 \/ digit = 3 \/ digit = 4 \/ digit = 5 \/ digit = 6 \/ digit = 7
      \/ digit = 8 \/ digit = 9 \/ digit = 10 \/ digit = 11 \/ digit = 12 \/ digit = 13 \/ digit = 14
      \/ digit = 15
  OBVIOUS
<1>4. Lowercase[digit + 1] = DigitCode(digit)
  BY <1>2, <1>3 DEF DigitCode
<1> QED BY <1>1, <1>4

\* The code of a digit is a lowercase digit, and worth it.
LEMMA DigitWorth ==
  ASSUME NEW digit \in 0 .. 15
  PROVE  /\ DigitCode(digit) \in Nat /\ DigitCode(digit) \in Range(Lowercase)
         /\ Worth(DigitCode(digit)) = digit
         /\ DigitCode(digit) = Lowercase[1] => digit = 0
<1>1. DigitCode(digit) \in Nat
  BY DEF DigitCode
<1>2. DigitCode(digit) \in Range(Lowercase)
  BY LowercaseIs DEF Range
<1>3. ASSUME NEW other \in 0 .. 15, DigitCode(other) = DigitCode(digit)
      PROVE  other = digit
  BY <1>3 DEF DigitCode
<1>4. \A other \in 0 .. 15 : Lowercase[other + 1] = DigitCode(digit) <=> other = digit
  BY <1>3, LowercaseIs
<1>5. Worth(DigitCode(digit)) = digit
  BY <1>4 DEF Worth
<1>6. Lowercase[1] = DigitCode(0)
  BY LowercaseIs
<1> QED BY <1>1, <1>2, <1>3, <1>5, <1>6

LEMMA ReadBackAppend ==
  ASSUME NEW str \in Seq(Nat), NEW c \in Nat, NEW base \in Nat
  PROVE  ReadBack(Append(str, c), base) = ReadBack(str, base) * base + Worth(c)
<1> PICK len : len = Len(str)
  OBVIOUS
<1> PICK more : more = Append(str, c)
  OBVIOUS
<1>0. /\ len \in Nat /\ Len(more) = len + 1 /\ more[len + 1] = c
      /\ \A n \in 1 .. len : more[n] = str[n]
  OBVIOUS
<1> DEFINE Same(n) == Readings(more, base)[n] = Readings(str, base)[n]
           Bad == {n \in Nat : n <= len /\ ~Same(n)}
<1>1. \A k \in 0 .. len : Readings(str, base)[k] = IF k = 0 THEN 0 ELSE Readings(str, base)[k - 1] * base + Worth(str[k])
  BY <1>0, ReadingsAre
<1>2. \A k \in 0 .. len + 1 :
        Readings(more, base)[k] = IF k = 0 THEN 0 ELSE Readings(more, base)[k - 1] * base + Worth(more[k])
  <2>1. Len(more) \in Nat
    BY <1>0
  <2>2. \A k \in 0 .. Len(more) :
          Readings(more, base)[k] = IF k = 0 THEN 0 ELSE Readings(more, base)[k - 1] * base + Worth(more[k])
    BY <2>1, ReadingsAre
  <2> QED BY <1>0, <2>2
<1> HIDE DEF Same
<1>3. Bad = {}
  <2>1. SUFFICES ASSUME Bad # {} PROVE FALSE
    OBVIOUS
  <2>2. PICK x \in Bad : \A y \in Bad : x <= y
    <3>1. Bad \in SUBSET Nat
      OBVIOUS
    <3> HIDE DEF Bad
    <3> QED BY <3>1, <2>1, Least
  <2>3. x \in Nat /\ x <= len /\ ~Same(x)
    OBVIOUS
  <2>4. CASE x = 0
    <3>1. 0 \in 0 .. len /\ 0 \in 0 .. len + 1
      BY <1>0
    <3> QED BY <1>1, <1>2, <2>3, <2>4, <3>1 DEF Same
  <2>5. CASE x # 0
    <3>1. x - 1 \in Nat /\ x - 1 <= len /\ x - 1 \notin Bad
      BY <1>0, <2>2, <2>3, <2>5
    <3>2. Same(x - 1)
      BY <3>1
    <3>3. x \in 0 .. len /\ x \in 0 .. len + 1 /\ more[x] = str[x]
      BY <1>0, <2>3, <2>5
    <3> QED BY <1>1, <1>2, <2>3, <2>5, <3>2, <3>3 DEF Same
  <2> QED BY <2>4, <2>5
<1>4. Same(len)
  BY <1>0, <1>3
<1>5. len + 1 \in 0 .. len + 1 /\ len + 1 # 0 /\ (len + 1) - 1 = len
  BY <1>0
<1>6. Readings(more, base)[len + 1] = Readings(more, base)[len] * base + Worth(c)
  BY <1>0, <1>2, <1>5
<1> QED BY <1>0, <1>4, <1>6 DEF Same, ReadBack

LEMMA ReadBackNothing ==
  ASSUME NEW base
  PROVE  ReadBack(<<>>, base) = 0
<1>1. Len(<<>>) = 0 /\ 0 \in 0 .. 0
  OBVIOUS
<1> QED BY <1>1, ReadingsAre DEF ReadBack

\* What Digits puts out is a numeral of its argument.
Reads(v, base) ==
  /\ Digits(v, base) \in Seq(Nat)
  /\ Len(Digits(v, base)) >= 1
  /\ v = 0 => Len(Digits(v, base)) = 1
  /\ Range(Digits(v, base)) \subseteq Range(Lowercase)
  /\ ReadBack(Digits(v, base), base) = v
  /\ v # 0 => Digits(v, base)[1] # Lowercase[1]

LEMMA LongerNumeral ==
  ASSUME NEW str \in Seq(Nat), NEW c \in Nat, Range(str) \subseteq Range(Lowercase), c \in Range(Lowercase)
  PROVE  /\ str \o <<c>> = Append(str, c)
         /\ Append(str, c) \in Seq(Nat) /\ Len(Append(str, c)) = Len(str) + 1
         /\ Range(Append(str, c)) \subseteq Range(Lowercase)
         /\ Append(str, c)[1] = IF Len(str) = 0 THEN c ELSE str[1]
<1> PICK len : len = Len(str)
  OBVIOUS
<1> PICK more : more = Append(str, c)
  OBVIOUS
<1>1. /\ len \in Nat /\ Len(more) = len + 1 /\ more[len + 1] = c /\ DOMAIN more = 1 .. len + 1
      /\ DOMAIN str = 1 .. len
      /\ \A n \in 1 .. len : more[n] = str[n]
  OBVIOUS
<1>2. str \o <<c>> = more /\ more \in Seq(Nat)
  OBVIOUS
<1>3. ASSUME NEW n \in 1 .. len + 1
      PROVE  more[n] \in Range(Lowercase)
  <2>1. CASE n = len + 1
    BY <1>1, <2>1
  <2>2. CASE n # len + 1
    <3>1. n \in 1 .. len
      BY <1>1, <2>2
    <3>2. str[n] \in Range(str)
      BY <1>1, <3>1 DEF Range
    <3> QED BY <1>1, <3>1, <3>2
  <2> QED BY <2>1, <2>2
<1>4. Range(more) \subseteq Range(Lowercase)
  <2>1. \A y \in Range(more) : \E n \in 1 .. len + 1 : y = more[n]
    BY <1>1 DEF Range
  <2> QED BY <1>3, <2>1
<1>5. more[1] = IF len = 0 THEN c ELSE str[1]
  BY <1>1
<1> QED BY <1>1, <1>2, <1>4, <1>5

LEMMA DigitsRead ==
  ASSUME NEW v \in Nat, NEW base \in {10, 16}
  PROVE  Reads(v, base)
<1> DEFINE Bad == {n \in Nat : ~Reads(n, base)}
<1>1. SUFFICES ASSUME Bad # {} PROVE FALSE
  OBVIOUS
<1>2. PICK x \in Bad : \A y \in Bad : x <= y
  <2>1. Bad \in SUBSET Nat
    OBVIOUS
  <2> HIDE DEF Bad
  <2> QED BY <2>1, <1>1, Least
<1>3. x \in Nat /\ ~Reads(x, base)
  OBVIOUS
<1>4. PICK q, r : q = x \div base /\ r = x % base
  OBVIOUS
<1>5. base \in Nat /\ base > 1
  OBVIOUS
<1>6. q \in Nat /\ r \in 0 .. base - 1 /\ x = base * q + r /\ (q # 0 => q < x)
  BY <1>3, <1>4, <1>5, Quotient
<1>7. r \in 0 .. 15
  BY <1>6
<1>8. PICK c : c = DigitCode(r)
  OBVIOUS
<1>9. c \in Nat /\ c \in Range(Lowercase) /\ Worth(c) = r /\ (c = Lowercase[1] => r = 0)
  BY <1>7, <1>8, DigitWorth
<1>10. PICK str : str = IF q # 0 THEN Digits(q, base) ELSE <<>>
  OBVIOUS
<1>11. Digits(x, base) = str \o <<c>>
  BY <1>3, <1>4, <1>5, <1>8, <1>10, DigitsAre
<1>12. q # 0 => Reads(q, base)
  BY <1>2, <1>6
<1>13. /\ str \in Seq(Nat) /\ Range(str) \subseteq Range(Lowercase) /\ ReadBack(str, base) = q
       /\ Len(str) \in Nat /\ (q = 0 <=> Len(str) = 0) /\ (q # 0 => str[1] # Lowercase[1])
  <2>1. CASE q # 0
    BY <1>6, <1>10, <1>12, <2>1 DEF Reads
  <2>2. CASE q = 0
    <3>1. str = <<>> /\ Range(<<>>) = {}
      BY <1>10, <2>2 DEF Range
    <3> QED BY <2>2, <3>1, ReadBackNothing
  <2> QED BY <2>1, <2>2
<1>14. PICK more : more = Append(str, c)
  OBVIOUS
<1>15. /\ Digits(x, base) = more /\ more \in Seq(Nat) /\ Len(more) = Len(str) + 1
       /\ Range(more) \subseteq Range(Lowercase) /\ more[1] = IF Len(str) = 0 THEN c ELSE str[1]
  BY <1>9, <1>11, <1>13, <1>14, LongerNumeral
<1>16. ReadBack(more, base) = x
  <2>1. ReadBack(more, base) = q * base + r
    BY <1>5, <1>9, <1>13, <1>14, ReadBackAppend
  <2> QED BY <1>6, <2>1
<1>17. x = 0 => q = 0
  BY <1>6
<1>18. x # 0 => more[1] # Lowercase[1]
  BY <1>6, <1>9, <1>13, <1>15
<1>19. Reads(x, base)
  BY <1>13, <1>15, <1>16, <1>17, <1>18 DEF Reads
<1> QED BY <1>3, <1>19

\* A number below 10^n has at most n digits.
LEMMA DigitsFit ==
  ASSUME NEW v \in Nat, NEW base \in {10, 16}, NEW n \in 1 .. Length, v < PowersOfTen[n]
  PROVE  Len(Digits(v, base)) <= n
<1>0. Length \in Nat \ {0} /\ base \in Nat /\ base > 1
  BY FormatAssumption
<1> DEFINE Fit(k) == /\ PowersOfTen[k] \in Nat
                     /\ k # 0 => \A x \in Nat : x < PowersOfTen[k] => Len(Digits(x, base)) <= k
           Bad == {k \in Nat : k <= Length /\ ~Fit(k)}
<1> HIDE DEF Fit
<1>1. Bad = {}
  <2>1. SUFFICES ASSUME Bad # {} PROVE FALSE
    OBVIOUS
  <2>2. PICK k \in Bad : \A y \in Bad : k <= y
    <3>1. Bad \in SUBSET Nat
      OBVIOUS
    <3> HIDE DEF Bad
    <3> QED BY <3>1, <2>1, Least
  <2>3. k \in Nat /\ k <= Length /\ ~Fit(k) /\ k \in 0 .. Length
    BY <1>0
  <2>4. CASE k = 0
    BY <2>3, <2>4, PowersAre DEF Fit
  <2>5. CASE k # 0
    <3>1. PICK y \in Nat : y = k - 1
      BY <2>3, <2>5
    <3>2. y \notin Bad /\ y <= Length
      BY <1>0, <2>2, <2>3, <3>1
    <3>3. Fit(y)
      BY <3>2
    <3>4. PICK power : power = PowersOfTen[y]
      OBVIOUS
    <3>5. power \in Nat /\ PowersOfTen[k] = 10 * power
      BY <2>3, <2>5, <3>1, <3>3, <3>4, PowersAre DEF Fit
    <3>6. ASSUME NEW x \in Nat, x < 10 * power
          PROVE  Len(Digits(x, base)) <= k
      <4>1. PICK q, r, c, str : /\ q = x \div base /\ r = x % base /\ c = DigitCode(r)
                                /\ str = IF q # 0 THEN Digits(q, base) ELSE <<>>
        OBVIOUS
      <4>2. q \in Nat /\ r \in 0 .. base - 1 /\ x = base * q + r
        BY <1>0, <4>1, Quotient
      <4>3. Digits(x, base) = str \o <<c>>
        BY <1>0, <4>1, DigitsAre
      <4>4. c \in Nat
        <5>1. r \in 0 .. 15
          BY <4>2
        <5> QED BY <4>1, <5>1, DigitWorth
      <4>5. CASE q = 0
        <5>1. str = <<>>
          BY <4>1, <4>5
        <5>2. Len(<<>> \o <<c>>) = 1
          OBVIOUS
        <5> QED BY <2>3, <2>5, <4>3, <5>1, <5>2
      <4>6. CASE q # 0
        <5>1. str = Digits(q, base) /\ str \in Seq(Nat)
          BY <4>1, <4>2, <4>6, DigitsRead DEF Reads
        <5>2. q < power
          BY <4>2, <3>5, <3>6
        <5>3. k - 1 # 0
          <6>1. SUFFICES ASSUME y = 0 PROVE FALSE
            BY <3>1
          <6>2. power = 1
            BY <1>0, <3>4, <6>1, PowersAre
          <6> QED BY <4>2, <4>6, <5>2, <6>2
        <5>4. Len(str) <= y
          BY <3>1, <3>3, <3>4, <4>2, <5>1, <5>2, <5>3 DEF Fit
        <5>5. Len(str \o <<c>>) = Len(str) + 1 /\ Len(str) \in Nat
          BY <4>4, <5>1
        <5> QED BY <2>3, <3>1, <4>3, <5>4, <5>5
      <4> QED BY <4>5, <4>6
    <3>7. 10 * power \in Nat
      BY <3>5
    <3> QED BY <2>3, <3>5, <3>6, <3>7 DEF Fit
  <2> QED BY <2>4, <2>5
<1>2. Fit(n)
  BY <1>0, <1>1
<1> QED BY <1>2 DEF Fit

-----------------------------------------------------------------------------
(* One directive                                                           *)

LEMMA DirectiveCodes == Range(Directive) = {99, 100, 112, 115, 120}
<1>1. DOMAIN Directive = {"c", "d", "p", "s", "x"}
  BY DEF Directive
<1>2. /\ Directive["c"] = 99 /\ Directive["d"] = 100 /\ Directive["p"] = 112
      /\ Directive["s"] = 115 /\ Directive["x"] = 120
  BY DEF Directive
<1>3. Range(Directive) = {Directive[name] : name \in {"c", "d", "p", "s", "x"}}
  BY <1>1 DEF Range
<1> QED BY <1>2, <1>3

LEMMA OneDirective ==
  ASSUME NEW code \in Range(Directive), NEW v
  PROVE  Pieces(<<Percent, code>>, <<v>>) = << <<code, v>> >>
<1> PICK format : format = <<Percent, code>>
  OBVIOUS
<1> PICK args : args = <<v>>
  OBVIOUS
<1>1. code \in Nat
  BY DirectiveCodes
<1>2. /\ format \in Seq(Nat) /\ Len(format) = 2 /\ format[1] = Percent /\ format[2] = code
      /\ args[1] = v
  BY <1>1 DEF Percent
<1> PICK turns : turns = Turns(format, args)
  OBVIOUS
<1>3. \A k \in 0 .. Len(format) : turns[k] = IF k = 0 THEN Outset ELSE Turn(turns[k - 1], format, args)
  BY <1>2, TurnsAre
<1>4. turns[0] = Outset /\ turns[1] = Turn(turns[0], format, args) /\ turns[2] = Turn(turns[1], format, args)
  BY <1>2, <1>3
<1>5. Turn(Outset, format, args) = [pos |-> 3, arg |-> 2, out |-> << <<code, v>> >>]
  <2>1. Outset.pos = 1 /\ Outset.arg = 1 /\ Outset.out = <<>>
    BY DEF Outset
  <2>2. ~(Outset.pos > Len(format)) /\ format[Outset.pos] = Percent /\ format[Outset.pos + 1] = code
    BY <1>2, <2>1
  <2>3. Append(Outset.out, <<code, args[Outset.arg]>>) = << <<code, v>> >>
    BY <1>2, <2>1
  <2> QED BY <2>1, <2>2, <2>3 DEF Turn, Takes
<1>6. Turn([pos |-> 3, arg |-> 2, out |-> << <<code, v>> >>], format, args)
        = [pos |-> 3, arg |-> 2, out |-> << <<code, v>> >>]
  BY <1>2 DEF Turn
<1>7. turns[2].out = << <<code, v>> >>
  BY <1>4, <1>5, <1>6
<1> QED BY <1>2, <1>7 DEF Pieces

LEMMA KernelPrintsOne ==
  ASSUME NEW code \in Range(Directive), NEW v, kprint(code, v) \in Seq(Nat)
  PROVE  kprintf(<<Percent, code>>, <<v>>) = kprint(code, v)
<1> PICK out : out = Pieces(<<Percent, code>>, <<v>>)
  OBVIOUS
<1>1. out = << <<code, v>> >>
  BY OneDirective
<1>2. DOMAIN out = {1} /\ out[1][1] = code /\ out[1][2] = v
  BY <1>1
<1>3. [k \in DOMAIN out |-> kprint(out[k][1], out[k][2])] = <<kprint(code, v)>>
  <2>1. [k \in {1} |-> kprint(out[k][1], out[k][2])] = [k \in {1} |-> kprint(code, v)]
    BY <1>2
  <2>2. <<kprint(code, v)>> = [k \in {1} |-> kprint(code, v)]
    <3>1. PICK piece : piece = kprint(code, v)
      OBVIOUS
    <3>2. <<piece>> = [k \in {1} |-> piece]
      OBVIOUS
    <3> QED BY <3>1, <3>2
  <2> QED BY <1>2, <2>1, <2>2
<1>4. FlattenSeq(<<kprint(code, v)>>) = kprint(code, v)
  BY FlattenOne
<1> QED BY <1>3, <1>4 DEF kprintf

\* What the kernel prints for each directive.
LEMMA CodeIs ==
  ASSUME NEW arg
  PROVE  /\ kprint(Directive.c, arg) = <<arg>>
         /\ kprint(Directive.s, arg) = kprint_s(arg)
         /\ kprint(Directive.d, arg) = Digits(arg, 10)
         /\ kprint(Directive.x, arg) = Digits(arg, 16)
         /\ kprint(Directive.p, arg) = Prefix \o Digits(arg, 16)
         /\ kprint(Percent, arg) = <<Percent>>
<1>1. /\ Directive.c = 99 /\ Directive.d = 100 /\ Directive.p = 112 /\ Directive.s = 115 /\ Directive.x = 120
      /\ Percent = 37
  BY DEF Directive, Percent
<1>2. /\ 99 \notin Range(Directive) \cup {Percent} <=> FALSE
      /\ 100 \notin Range(Directive) \cup {Percent} <=> FALSE
      /\ 112 \notin Range(Directive) \cup {Percent} <=> FALSE
      /\ 115 \notin Range(Directive) \cup {Percent} <=> FALSE
      /\ 120 \notin Range(Directive) \cup {Percent} <=> FALSE
      /\ 37 \notin Range(Directive) \cup {Percent} <=> FALSE
  BY <1>1, DirectiveCodes
<1>3. kprint(Directive.c, arg) = <<arg>>
  BY <1>1, <1>2 DEF kprint, kprint_c, term_write
<1>4. kprint(Directive.s, arg) = kprint_s(arg)
  BY <1>1, <1>2 DEF kprint
<1>5. kprint(Directive.d, arg) = Digits(arg, 10)
  BY <1>1, <1>2 DEF kprint, kprint_d, term_write
<1>6. kprint(Directive.x, arg) = Digits(arg, 16)
  BY <1>1, <1>2 DEF kprint, kprint_x, term_write
<1>7. kprint(Directive.p, arg) = Prefix \o Digits(arg, 16)
  BY <1>1, <1>2 DEF kprint, kprint_p, kprint_x, term_write
<1>8. kprint(Percent, arg) = <<Percent>>
  BY <1>1, <1>2 DEF kprint, kprint_c, term_write
<1> QED BY <1>3, <1>4, <1>5, <1>6, <1>7, <1>8

\* A string is printed character by character, and so is what a process writes.
LEMMA StringsArrive ==
  ASSUME NEW str \in Seq(Nat)
  PROVE  kprint_s(str) = str /\ write(str) = str /\ print_s(str) = str
<1>1. kprint_s(str) = str
  <2>1. kprint_s(str) = FlattenSeq([n \in DOMAIN str |-> <<str[n]>>])
    BY DEF kprint_s, kprint_c, term_write
  <2> QED BY <2>1, FlattenSingles
<1>2. ASSUME NEW any \in Seq(Nat)
      PROVE  write(any) = any
  <2>1. ASSUME NEW n \in DOMAIN any
        PROVE  kprintf(<<Percent, Directive.c>>, <<any[n]>>) = <<any[n]>>
    <3>1. any[n] \in Nat
      BY <1>2
    <3>2. kprint(Directive.c, any[n]) = <<any[n]>>
      BY CodeIs
    <3>3. kprint(Directive.c, any[n]) \in Seq(Nat)
      BY <3>1, <3>2
    <3>4. Directive.c \in Range(Directive)
      BY DirectiveCodes DEF Directive
    <3> QED BY <3>2, <3>3, <3>4, KernelPrintsOne
  <2>2. [n \in DOMAIN any |-> kprintf(<<Percent, Directive.c>>, <<any[n]>>)] = [n \in DOMAIN any |-> <<any[n]>>]
    BY <2>1
  <2>3. write(any) = FlattenSeq([n \in DOMAIN any |-> kprintf(<<Percent, Directive.c>>, <<any[n]>>)])
    BY DEF write, SYS_write, STD_OUT, STD_ERROR
  <2> QED BY <2>2, <2>3, FlattenSingles
<1>3. print_s(str) = str
  <2>1. ASSUME NEW n \in DOMAIN str
        PROVE  print_c(str[n]) = <<str[n]>>
    <3>1. <<str[n]>> \in Seq(Nat)
      OBVIOUS
    <3> QED BY <1>2, <3>1 DEF print_c
  <2>2. [n \in DOMAIN str |-> print_c(str[n])] = [n \in DOMAIN str |-> <<str[n]>>]
    BY <2>1
  <2> QED BY <2>2, FlattenSingles DEF print_s
<1> QED BY <1>1, <1>2, <1>3

\* What fits a directive, and the sequences such a directive prints.
Fits(code, arg) ==
  code \in Range(Directive) => arg \in IF code = Directive.s THEN Seq(Nat) ELSE Nat

LEMMA PrintsAlike ==
  ASSUME NEW code \in Nat, NEW arg, Fits(code, arg)
  PROVE  kprint(code, arg) \in Seq(Nat) /\ print(code, arg) = kprint(code, arg)
<1>1. /\ Directive.c = 99 /\ Directive.d = 100 /\ Directive.p = 112 /\ Directive.s = 115 /\ Directive.x = 120
      /\ Percent = 37
  BY DEF Directive, Percent
<1>2. code = 37 \/ code = 99 \/ code = 100 \/ code = 112 \/ code = 115 \/ code = 120 \/ code \notin Range(Directive) \cup {Percent}
  BY <1>1, DirectiveCodes
<1>3. CASE code = 37
  <2>1. <<Percent>> \in Seq(Nat)
    BY <1>1
  <2>2. print(code, arg) = print_c(Percent)
    BY <1>1, <1>3, DirectiveCodes DEF print
  <2>3. kprint(code, arg) = <<Percent>>
    BY <1>1, <1>3, CodeIs
  <2>4. print_c(Percent) = <<Percent>>
    BY <2>1, StringsArrive DEF print_c
  <2> QED BY <2>1, <2>2, <2>3, <2>4
<1>4. CASE code = 99
  <2>1. <<arg>> \in Seq(Nat)
    BY <1>1, <1>4, DirectiveCodes DEF Fits
  <2>2. print(code, arg) = print_c(arg)
    BY <1>1, <1>4, DirectiveCodes DEF print
  <2>3. kprint(code, arg) = <<arg>>
    BY <1>1, <1>4, CodeIs
  <2>4. print_c(arg) = <<arg>>
    BY <2>1, StringsArrive DEF print_c
  <2> QED BY <2>1, <2>2, <2>3, <2>4
<1>5. CASE code = 100
  <2>1. arg \in Nat
    BY <1>1, <1>5, DirectiveCodes DEF Fits
  <2>2. Digits(arg, 10) \in Seq(Nat)
    BY <2>1, DigitsRead DEF Reads
  <2>3. print(code, arg) = print_d(arg)
    BY <1>1, <1>5, DirectiveCodes DEF print
  <2>4. kprint(code, arg) = Digits(arg, 10)
    BY <1>1, <1>5, CodeIs
  <2>5. print_d(arg) = Digits(arg, 10)
    BY <2>2, StringsArrive DEF print_d
  <2> QED BY <2>2, <2>3, <2>4, <2>5
<1>6. CASE code = 112
  <2>1. arg \in Nat
    BY <1>1, <1>6, DirectiveCodes DEF Fits
  <2>2. Digits(arg, 16) \in Seq(Nat) /\ Prefix \in Seq(Nat)
    BY <2>1, DigitsRead DEF Reads, Prefix
  <2>3. print(code, arg) = print_s(Prefix) \o print_x(arg)
    BY <1>1, <1>6, DirectiveCodes DEF print, print_p
  <2>4. print_s(Prefix) = Prefix /\ print_x(arg) = Digits(arg, 16)
    BY <2>2, StringsArrive DEF print_x
  <2>5. kprint(code, arg) = Prefix \o Digits(arg, 16)
    BY <1>1, <1>6, CodeIs
  <2>6. Prefix \o Digits(arg, 16) \in Seq(Nat)
    BY <2>2
  <2> QED BY <2>3, <2>4, <2>5, <2>6
<1>7. CASE code = 115
  <2>1. arg \in Seq(Nat)
    BY <1>1, <1>7, DirectiveCodes DEF Fits
  <2>2. print(code, arg) = print_s(arg)
    BY <1>1, <1>7, DirectiveCodes DEF print
  <2>3. kprint(code, arg) = kprint_s(arg)
    BY <1>1, <1>7, CodeIs
  <2>4. kprint_s(arg) = arg /\ print_s(arg) = arg
    BY <2>1, StringsArrive
  <2> QED BY <2>1, <2>2, <2>3, <2>4
<1>8. CASE code = 120
  <2>1. arg \in Nat
    BY <1>1, <1>8, DirectiveCodes DEF Fits
  <2>2. Digits(arg, 16) \in Seq(Nat)
    BY <2>1, DigitsRead DEF Reads
  <2>3. print(code, arg) = print_x(arg)
    BY <1>1, <1>8, DirectiveCodes DEF print
  <2>4. kprint(code, arg) = Digits(arg, 16)
    BY <1>1, <1>8, CodeIs
  <2>5. print_x(arg) = Digits(arg, 16)
    BY <2>2, StringsArrive DEF print_x
  <2> QED BY <2>2, <2>3, <2>4, <2>5
<1>9. CASE code \notin Range(Directive) \cup {Percent}
  <2>1. Unknown \in Seq(Nat)
    BY DEF Unknown
  <2>2. code # Percent /\ code # 99 /\ code # 100 /\ code # 112 /\ code # 115 /\ code # 120
    BY <1>1, <1>9, DirectiveCodes
  <2>3. print(code, arg) = print_s(Unknown)
    BY <1>1, <1>9, <2>2 DEF print
  <2>4. kprint(code, arg) = kprint_s(Unknown)
    BY <1>1, <1>9, <2>2 DEF kprint
  <2> QED BY <2>1, <2>3, <2>4, StringsArrive
<1> QED BY <1>2, <1>3, <1>4, <1>5, <1>6, <1>7, <1>8, <1>9

LEMMA BothPrintOne ==
  ASSUME NEW code \in Range(Directive), NEW arg, Fits(code, arg), NEW str \in Printed(code, arg)
  PROVE  str = kprint(code, arg)
<1>1. code \in Nat
  BY DirectiveCodes
<1>2. kprint(code, arg) \in Seq(Nat) /\ print(code, arg) = kprint(code, arg)
  BY <1>1, PrintsAlike
<1>3. kprintf(<<Percent, code>>, <<arg>>) = kprint(code, arg)
  BY <1>2, KernelPrintsOne
<1>4. printf(<<Percent, code>>, <<arg>>) = kprintf(<<Percent, code>>, <<arg>>)
  <2>1. PICK out : out = Pieces(<<Percent, code>>, <<arg>>)
    OBVIOUS
  <2>2. DOMAIN out = {1} /\ out[1][1] = code /\ out[1][2] = arg
    BY <2>1, OneDirective
  <2>3. \A k \in DOMAIN out : print(out[k][1], out[k][2]) = kprint(out[k][1], out[k][2])
    BY <1>2, <2>2
  <2>4. [k \in DOMAIN out |-> print(out[k][1], out[k][2])] = [k \in DOMAIN out |-> kprint(out[k][1], out[k][2])]
    BY <2>3
  <2> QED BY <2>1, <2>4 DEF printf, kprintf
<1> QED BY <1>3, <1>4 DEF Printed

\* For every number below 10^Length, the limit of the buffer of digits: what
\* %d and %x print of it, in the kernel and in a process, is a numeral of it.
THEOREM NumbersAreReadBack == NumbersReadBack
<1>1. SUFFICES ASSUME NEW v \in Values, NEW code \in {Directive.d, Directive.x}, NEW str \in Printed(code, v)
               PROVE  Numeral(str, v, IF code = Directive.d THEN 10 ELSE 16)
  <2>1. Directive.d # Directive.x
    BY DEF Directive
  <2> QED BY <2>1 DEF NumbersReadBack, Unreadable
<1>2. Directive.d = 100 /\ Directive.x = 120 /\ Directive.s = 115
  BY DEF Directive
<1>3. v \in Nat /\ v < PowersOfTen[Length] /\ Length \in 1 .. Length /\ Length \in Nat
  BY FormatAssumption
<1>4. PICK base \in {10, 16} : base = IF code = Directive.d THEN 10 ELSE 16
  OBVIOUS
<1>5. str = Digits(v, base)
  <2>1. code \in Range(Directive) /\ Fits(code, v)
    BY <1>2, <1>3, DirectiveCodes DEF Fits
  <2>2. str = kprint(code, v)
    BY <2>1, BothPrintOne
  <2> QED BY <1>2, <1>4, <2>2, CodeIs
<1>6. Reads(v, base)
  BY <1>3, DigitsRead
<1>7. Len(Digits(v, base)) <= Length
  BY <1>3, DigitsFit
<1>8. ASSUME Len(str) > 1
      PROVE  str[1] # Lowercase[1]
  <2>1. v # 0
    <3>1. SUFFICES ASSUME v = 0 PROVE FALSE
      OBVIOUS
    <3>2. Len(Digits(v, base)) = 1
      BY <1>6, <3>1 DEF Reads
    <3> QED BY <1>5, <1>8, <3>2
  <2> QED BY <1>5, <1>6, <2>1 DEF Reads
<1> QED BY <1>4, <1>5, <1>6, <1>7, <1>8 DEF Reads, Numeral

-----------------------------------------------------------------------------
(* Where directives begin                                                  *)

\* An even number of % ends at p.
EvenRun(format, p) ==
  \E q \in 0 .. p :
    /\ q > 0 => format[q] # Percent
    /\ \A r \in q + 1 .. p : format[r] = Percent
    /\ (p - q) % 2 = 0

LEMMA BeginsBehindEven ==
  ASSUME NEW format \in Seq(Nat), NEW p \in DOMAIN format
  PROVE  p \in Begins(format) <=> format[p] = Percent /\ EvenRun(format, p - 1)
<1>0. p \in Nat /\ p >= 1 /\ DOMAIN format = 1 .. Len(format) /\ Len(format) \in Nat
  OBVIOUS
<1>1. ASSUME p \in Begins(format)
      PROVE  format[p] = Percent /\ EvenRun(format, p - 1)
  <2>1. format[p] = Percent
    BY <1>1 DEF Begins
  <2>2. PICK q \in 0 .. p - 1 : /\ q > 0 => format[q] # Percent
                                /\ \A r \in q + 1 .. p : format[r] = Percent
                                /\ (p - 1 - q) % 2 = 0
    BY <1>1 DEF Begins
  <2>3. \A r \in q + 1 .. p - 1 : format[r] = Percent
    BY <1>0, <2>2
  <2> QED BY <2>1, <2>2, <2>3 DEF EvenRun
<1>2. ASSUME format[p] = Percent, EvenRun(format, p - 1)
      PROVE  p \in Begins(format)
  <2>1. PICK q \in 0 .. p - 1 : /\ q > 0 => format[q] # Percent
                                /\ \A r \in q + 1 .. p - 1 : format[r] = Percent
                                /\ (p - 1 - q) % 2 = 0
    BY <1>2 DEF EvenRun
  <2>2. \A r \in q + 1 .. p : format[r] = Percent
    <3>1. \A r \in q + 1 .. p : r = p \/ r \in q + 1 .. p - 1
      BY <1>0
    <3> QED BY <1>2, <2>1, <3>1
  <2> QED BY <1>2, <2>1, <2>2 DEF Begins
<1> QED BY <1>1, <1>2

LEMMA EvenThenOdd ==
  ASSUME NEW d \in Nat, d % 2 = 0
  PROVE  (d + 1) % 2 # 0
<1> PICK base \in Nat : base = 2
  OBVIOUS
<1> PICK next \in Nat : next = d + 1
  OBVIOUS
<1> PICK half, rest, other, left : /\ half = d \div base /\ rest = d % base
                                  /\ other = next \div base /\ left = next % base
  OBVIOUS
<1>1. half \in Nat /\ d = base * half + rest
  <2>1. base > 1
    OBVIOUS
  <2> QED BY <2>1, Quotient
<1>2. other \in Nat /\ next = base * other + left
  <2>1. base > 1
    OBVIOUS
  <2> QED BY <2>1, Quotient
<1>3. rest = 0
  OBVIOUS
<1>4. left # 0
  BY <1>1, <1>2, <1>3
<1> QED BY <1>4

\* A % is behind an even number of others or ends an even number.
LEMMA OddOrEven ==
  ASSUME NEW format \in Seq(Nat), NEW p \in DOMAIN format, format[p] = Percent,
         EvenRun(format, p - 1)
  PROVE  ~EvenRun(format, p)
<1>0. p \in Nat /\ p >= 1
  OBVIOUS
<1>1. SUFFICES ASSUME EvenRun(format, p) PROVE FALSE
  OBVIOUS
<1>2. PICK q \in 0 .. p - 1 : /\ q > 0 => format[q] # Percent
                              /\ \A r \in q + 1 .. p - 1 : format[r] = Percent
                              /\ (p - 1 - q) % 2 = 0
  BY DEF EvenRun
<1>3. PICK o \in 0 .. p : /\ o > 0 => format[o] # Percent
                          /\ \A r \in o + 1 .. p : format[r] = Percent
                          /\ (p - o) % 2 = 0
  BY <1>1 DEF EvenRun
<1>4. o # p
  BY <1>0, <1>3
<1>5. ~(o < q)
  <2>1. SUFFICES ASSUME o < q PROVE FALSE
    OBVIOUS
  <2>2. q \in o + 1 .. p /\ q > 0
    BY <1>0, <1>2, <1>3, <2>1
  <2> QED BY <1>2, <1>3, <2>2
<1>6. ~(q < o)
  <2>1. SUFFICES ASSUME q < o PROVE FALSE
    OBVIOUS
  <2>2. o \in q + 1 .. p - 1 /\ o > 0
    BY <1>0, <1>2, <1>3, <1>4, <2>1
  <2> QED BY <1>2, <1>3, <2>2
<1>7. o = q
  BY <1>2, <1>3, <1>5, <1>6
<1>8. PICK d \in Nat : d = p - 1 - q
  BY <1>0, <1>2
<1>9. d % 2 = 0 /\ (d + 1) % 2 = 0
  <2>1. p - q = d + 1
    BY <1>0, <1>2, <1>8
  <2> QED BY <1>2, <1>3, <1>7, <1>8, <2>1
<1> QED BY <1>8, <1>9, EvenThenOdd

LEMMA BehindAnother ==
  ASSUME NEW format \in Seq(Nat), NEW p \in DOMAIN format, format[p] # Percent
  PROVE  EvenRun(format, p)
<1>1. p \in Nat /\ p \in 0 .. p /\ \A r \in p + 1 .. p : FALSE
  OBVIOUS
<1>2. (p - p) % 2 = 0
  BY <1>1
<1> QED BY <1>1, <1>2 DEF EvenRun

LEMMA BehindTwoMore ==
  ASSUME NEW format \in Seq(Nat), NEW p \in Nat, p + 2 \in DOMAIN format, EvenRun(format, p),
         format[p + 1] = Percent, format[p + 2] = Percent
  PROVE  EvenRun(format, p + 2)
<1>1. PICK q \in 0 .. p : /\ q > 0 => format[q] # Percent
                          /\ \A r \in q + 1 .. p : format[r] = Percent
                          /\ (p - q) % 2 = 0
  BY DEF EvenRun
<1>2. \A r \in q + 1 .. p + 2 : format[r] = Percent
  <2>1. \A r \in q + 1 .. p + 2 : r = p + 1 \/ r = p + 2 \/ r \in q + 1 .. p
    OBVIOUS
  <2> QED BY <1>1, <2>1
<1>3. ((p + 2) - q) % 2 = 0
  <2>1. PICK d \in Nat : d = p - q
    OBVIOUS
  <2>2. (p + 2) - q = d + 2 /\ (d + 2) % 2 = 0
    BY <1>1, <2>1
  <2> QED BY <2>2
<1>4. q \in 0 .. p + 2
  OBVIOUS
<1> QED BY <1>1, <1>2, <1>3, <1>4 DEF EvenRun

\* The next argument behind a position of a format.
Taking(format, p) == {q \in Begins(format) : q < p /\ format[q + 1] \in Range(Directive)}

LEMMA TakingIs ==
  ASSUME NEW format \in Seq(Nat), NEW p \in Nat
  PROVE  /\ Argument(format, p) = 1 + Cardinality(Taking(format, p))
         /\ IsFiniteSet(Taking(format, p)) /\ Cardinality(Taking(format, p)) \in Nat
         /\ Argument(format, p) \in Nat
<1>0. Len(format) \in Nat /\ DOMAIN format = 1 .. Len(format)
  OBVIOUS
<1>1. IsFiniteSet(1 .. Len(format))
  BY <1>0, FS_Interval
<1>2. Taking(format, p) \subseteq 1 .. Len(format)
  BY <1>0 DEF Taking, Begins
<1>3. IsFiniteSet(Taking(format, p))
  BY <1>1, <1>2, FS_Subset
<1>4. Cardinality(Taking(format, p)) \in Nat
  BY <1>3, FS_CardinalityType
<1>5. Argument(format, p) = 1 + Cardinality(Taking(format, p))
  BY DEF Argument, Taking
<1> QED BY <1>3, <1>4, <1>5

LEMMA ArgumentBehind ==
  ASSUME NEW format \in Seq(Nat), NEW p \in Nat
  PROVE  Argument(format, p + 1) =
           IF p \in Begins(format) /\ format[p + 1] \in Range(Directive) THEN Argument(format, p) + 1
           ELSE Argument(format, p)
<1>0. Begins(format) \subseteq Nat
  BY DEF Begins
<1>1. CASE p \in Begins(format) /\ format[p + 1] \in Range(Directive)
  <2>1. Taking(format, p + 1) = Taking(format, p) \cup {p} /\ p \notin Taking(format, p)
    BY <1>0, <1>1 DEF Taking
  <2>2. Cardinality(Taking(format, p) \cup {p}) = Cardinality(Taking(format, p)) + 1
    BY <2>1, TakingIs, FS_AddElement
  <2>3. Argument(format, p + 1) = 1 + Cardinality(Taking(format, p + 1))
    BY TakingIs
  <2>4. PICK n : n = Cardinality(Taking(format, p))
    OBVIOUS
  <2>5. n \in Nat /\ Argument(format, p) = 1 + n
    BY <2>4, TakingIs
  <2>6. Argument(format, p + 1) = 1 + (n + 1)
    BY <2>1, <2>2, <2>3, <2>4
  <2> QED BY <1>1, <2>5, <2>6
<1>2. CASE ~(p \in Begins(format) /\ format[p + 1] \in Range(Directive))
  <2>1. Taking(format, p + 1) = Taking(format, p)
    BY <1>0, <1>2 DEF Taking
  <2>2. Argument(format, p + 1) = 1 + Cardinality(Taking(format, p + 1))
    BY TakingIs
  <2> QED BY <1>2, <2>1, <2>2, TakingIs
<1> QED BY <1>1, <1>2

-----------------------------------------------------------------------------
(* A call, turn by turn                                                    *)

Fitting == {piece \in Nat \X (Nat \cup Seq(Nat)) : Fits(piece[1], piece[2])}
PrintedOf(out) == FlattenSeq([k \in DOMAIN out |-> kprint(out[k][1], out[k][2])])

LEMMA FittingPrints ==
  ASSUME NEW piece \in Fitting
  PROVE  /\ kprint(piece[1], piece[2]) \in Seq(Nat)
         /\ print(piece[1], piece[2]) = kprint(piece[1], piece[2])
<1>1. piece[1] \in Nat /\ Fits(piece[1], piece[2])
  BY DEF Fitting
<1> QED BY <1>1, PrintsAlike

LEMMA PrintedNothing == PrintedOf(<<>>) = <<>>
<1>1. [k \in DOMAIN <<>> |-> kprint(<<>>[k][1], <<>>[k][2])] = <<>>
  OBVIOUS
<1> QED BY <1>1, FlattenNone DEF PrintedOf

LEMMA PrintedMore ==
  ASSUME NEW out \in Seq(Fitting), NEW piece \in Fitting
  PROVE  /\ PrintedOf(out) \in Seq(Nat)
         /\ PrintedOf(Append(out, piece)) = PrintedOf(out) \o kprint(piece[1], piece[2])
<1> PICK len : len = Len(out)
  OBVIOUS
<1> PICK more : more = Append(out, piece)
  OBVIOUS
<1> PICK new : new = kprint(piece[1], piece[2])
  OBVIOUS
<1>0. /\ len \in Nat /\ DOMAIN out = 1 .. len /\ DOMAIN more = 1 .. len + 1
      /\ more[len + 1] = piece /\ \A k \in 1 .. len : more[k] = out[k] /\ out[k] \in Fitting
  OBVIOUS
<1> DEFINE Strings == [k \in 1 .. len |-> kprint(out[k][1], out[k][2])]
           AllStrings == [k \in 1 .. len + 1 |-> kprint(more[k][1], more[k][2])]
<1>1. \A k \in 1 .. len : kprint(out[k][1], out[k][2]) \in Seq(Nat)
  BY <1>0, FittingPrints
<1>2. new \in Seq(Nat)
  BY FittingPrints
<1>3. Strings \in Seq(Seq(Nat)) /\ Len(Strings) = len
  BY <1>0, <1>1
<1>4. AllStrings = Append(Strings, new)
  <2>1. \A k \in 1 .. len : AllStrings[k] = Strings[k]
    BY <1>0
  <2>2. AllStrings[len + 1] = new
    BY <1>0
  <2>3. \A k \in 1 .. len + 1 : AllStrings[k] = Append(Strings, new)[k]
    <3> HIDE DEF Strings, AllStrings
    <3>1. \A k \in 1 .. len : Append(Strings, new)[k] = Strings[k]
      BY <1>0, <1>3
    <3>2. Append(Strings, new)[len + 1] = new
      BY <1>0, <1>3
    <3>3. \A k \in 1 .. len + 1 : k \in 1 .. len \/ k = len + 1
      BY <1>0
    <3>4. PICK all, longer : all = AllStrings /\ longer = Append(Strings, new)
      OBVIOUS
    <3>5. /\ \A k \in 1 .. len : all[k] = longer[k]
          /\ all[len + 1] = longer[len + 1]
      BY <2>1, <2>2, <3>1, <3>2, <3>4
    <3>6. \A k \in 1 .. len + 1 : all[k] = longer[k]
      BY <3>3, <3>5
    <3> QED BY <3>4, <3>6
  <2>4. DOMAIN Append(Strings, new) = 1 .. len + 1
    <3> HIDE DEF Strings
    <3> QED BY <1>0, <1>3
  <2>5. Append(Strings, new) = [k \in 1 .. len + 1 |-> Append(Strings, new)[k]]
    <3> HIDE DEF Strings
    <3>1. Append(Strings, new) = [k \in DOMAIN Append(Strings, new) |-> Append(Strings, new)[k]]
      BY <1>2, <1>3
    <3> QED BY <2>4, <3>1
  <2>6. AllStrings = [k \in 1 .. len + 1 |-> AllStrings[k]]
    OBVIOUS
  <2> HIDE DEF Strings, AllStrings
  <2> QED BY <2>3, <2>5, <2>6
<1>5. PrintedOf(out) = FlattenSeq(Strings)
  BY <1>0 DEF PrintedOf
<1>6. PrintedOf(more) = FlattenSeq(AllStrings)
  BY <1>0 DEF PrintedOf
<1> HIDE DEF Strings, AllStrings
<1> QED BY <1>2, <1>3, <1>4, <1>5, <1>6, FlattenAppend

\* What is meant by the characters of a format, one by one.
MeantAt(format, args, p) ==
  IF p \in Begins(format)
  THEN kprint(format[p + 1], IF format[p + 1] \in Range(Directive) THEN args[Argument(format, p)] ELSE 0)
  ELSE IF p - 1 \in Begins(format) THEN <<>> ELSE <<format[p]>>
MeantTo(format, args, m) == FlattenSeq([p \in 1 .. m |-> MeantAt(format, args, p)])

LEMMA AnsweredFits ==
  ASSUME NEW format \in Seq(Nat), NEW args, Answered(format, args), NEW p \in Begins(format),
         NEW arg, arg = IF format[p + 1] \in Range(Directive) THEN args[Argument(format, p)] ELSE 0
  PROVE  /\ p \in 1 .. Len(format) /\ p + 1 \in 1 .. Len(format) /\ Len(format) \in Nat
         /\ format[p + 1] \in Nat /\ Fits(format[p + 1], arg)
         /\ <<format[p + 1], arg>> \in Fitting
         /\ MeantAt(format, args, p) = kprint(format[p + 1], arg)
         /\ kprint(format[p + 1], arg) \in Seq(Nat)
<1> PICK code : code = format[p + 1]
  OBVIOUS
<1>1. Len(format) \in Nat /\ p \in 1 .. Len(format)
  BY DEF Begins
<1>2. p < Len(format)
  BY DEF Answered
<1>3. p + 1 \in 1 .. Len(format) /\ code \in Nat
  BY <1>1, <1>2
<1>4. code \in Range(Directive) => arg \in IF code = Directive.s THEN Seq(Nat) ELSE Nat
  BY DEF Answered
<1>5. Fits(code, arg)
  BY <1>4 DEF Fits
<1>6. arg \in Nat \cup Seq(Nat)
  BY <1>4
<1>7. <<code, arg>> \in Fitting
  BY <1>3, <1>5, <1>6 DEF Fitting
<1>8. MeantAt(format, args, p) = kprint(code, arg)
  BY DEF MeantAt
<1>9. kprint(code, arg) \in Seq(Nat)
  BY <1>3, <1>5, PrintsAlike
<1> QED BY <1>1, <1>3, <1>5, <1>7, <1>8, <1>9

LEMMA MeantToIs ==
  ASSUME NEW format \in Seq(Nat), NEW args, Answered(format, args), NEW m \in 0 .. Len(format)
  PROVE  /\ MeantTo(format, args, 0) = <<>>
         /\ MeantTo(format, args, m) \in Seq(Nat)
         /\ m < Len(format) => /\ MeantAt(format, args, m + 1) \in Seq(Nat)
                               /\ MeantTo(format, args, m + 1)
                                    = MeantTo(format, args, m) \o MeantAt(format, args, m + 1)
<1>0. Len(format) \in Nat /\ m \in Nat
  OBVIOUS
<1>1. ASSUME NEW p \in 1 .. Len(format)
      PROVE  MeantAt(format, args, p) \in Seq(Nat)
  <2>1. CASE p \in Begins(format)
    <3>1. PICK arg : arg = IF format[p + 1] \in Range(Directive) THEN args[Argument(format, p)] ELSE 0
      OBVIOUS
    <3> QED BY <2>1, <3>1, AnsweredFits
  <2>2. CASE p \notin Begins(format)
    <3>1. <<format[p]>> \in Seq(Nat) /\ <<>> \in Seq(Nat)
      OBVIOUS
    <3> QED BY <2>2, <3>1 DEF MeantAt
  <2> QED BY <2>1, <2>2
<1> DEFINE At(p) == MeantAt(format, args, p)
           To(n) == [p \in 1 .. n |-> At(p)]
<1> HIDE DEF At
<1>2. To(m) \in Seq(Seq(Nat)) /\ Len(To(m)) = m
  <2>1. \A p \in 1 .. m : At(p) \in Seq(Nat)
    BY <1>0, <1>1 DEF At
  <2> QED BY <1>0, <2>1
<1>3. To(0) = <<>>
  OBVIOUS
<1>4. To(m + 1) = Append(To(m), At(m + 1))
  BY <1>0
<1>5. FlattenSeq(To(m)) \in Seq(Nat)
  <2>1. <<>> \in Seq(Nat)
    OBVIOUS
  <2> HIDE DEF To
  <2> QED BY <1>2, <2>1, FlattenAppend
<1>6. MeantTo(format, args, 0) = <<>>
  BY <1>3, FlattenNone DEF MeantTo, At
<1>7. MeantTo(format, args, m) = FlattenSeq(To(m))
  BY DEF MeantTo, At
<1>8. MeantTo(format, args, m + 1) = FlattenSeq(To(m + 1))
  BY DEF MeantTo, At
<1>9. ASSUME m < Len(format)
      PROVE  At(m + 1) \in Seq(Nat) /\ FlattenSeq(To(m + 1)) = FlattenSeq(To(m)) \o At(m + 1)
  <2>1. At(m + 1) \in Seq(Nat)
    BY <1>0, <1>1, <1>9 DEF At
  <2> HIDE DEF To
  <2> QED BY <1>2, <1>4, <2>1, FlattenAppend
<1> HIDE DEF To
<1> QED BY <1>5, <1>6, <1>7, <1>8, <1>9 DEF At

\* Between two turns: pos is behind an even number of %, arg at the next
\* argument, and what the turns so far print is what is meant before pos.
BetweenTurns(s, format, args) ==
  /\ s.pos \in 1 .. Len(format) + 1
  /\ EvenRun(format, s.pos - 1)
  /\ s.arg = Argument(format, s.pos)
  /\ s.out \in Seq(Fitting)
  /\ PrintedOf(s.out) = MeantTo(format, args, s.pos - 1)

LEMMA OutsetIsBetween ==
  ASSUME NEW format \in Seq(Nat), NEW args, Answered(format, args)
  PROVE  BetweenTurns(Outset, format, args)
<1>0. Len(format) \in Nat /\ 0 \in 0 .. Len(format)
  OBVIOUS
<1>1. Outset.pos = 1 /\ Outset.arg = 1 /\ Outset.out = <<>>
  BY DEF Outset
<1>2. 1 \in 1 .. Len(format) + 1 /\ 1 - 1 = 0
  BY <1>0
<1>3. EvenRun(format, 0)
  <2>1. 0 \in 0 .. 0 /\ (0 - 0) % 2 = 0 /\ ~(0 > 0) /\ \A r \in 0 + 1 .. 0 : FALSE
    OBVIOUS
  <2> QED BY <2>1 DEF EvenRun
<1>4. Argument(format, 1) = 1
  <2>1. Taking(format, 1) = {}
    BY DEF Taking, Begins
  <2>2. Argument(format, 1) = 1 + Cardinality(Taking(format, 1))
    BY TakingIs
  <2>3. Cardinality(Taking(format, 1)) = 0
    BY <2>1, FS_EmptySet
  <2> QED BY <2>2, <2>3
<1>5. MeantTo(format, args, 0) = <<>>
  BY <1>0, MeantToIs
<1>6. <<>> \in Seq(Fitting)
  OBVIOUS
<1> QED BY <1>1, <1>2, <1>3, <1>4, <1>5, <1>6, PrintedNothing DEF BetweenTurns

LEMMA AnotherTurn ==
  ASSUME NEW format \in Seq(Nat), NEW args, Answered(format, args), NEW s, BetweenTurns(s, format, args)
  PROVE  /\ BetweenTurns(Turn(s, format, args), format, args)
         /\ s.pos <= Len(format) => Turn(s, format, args).pos > s.pos
         /\ s.pos > Len(format) => Turn(s, format, args) = s
<1> PICK len \in Nat : len = Len(format)
  OBVIOUS
<1> PICK pos, arg, out : pos = s.pos /\ arg = s.arg /\ out = s.out
  OBVIOUS
<1> PICK t : t = Turn(s, format, args)
  OBVIOUS
<1>0. /\ pos \in 1 .. len + 1 /\ EvenRun(format, pos - 1) /\ arg = Argument(format, pos)
      /\ out \in Seq(Fitting) /\ PrintedOf(out) = MeantTo(format, args, pos - 1)
  BY DEF BetweenTurns
<1>1. CASE pos > len
  <2>1. t = s
    BY <1>1 DEF Turn
  <2> QED BY <1>0, <1>1, <2>1
<1>2. CASE pos <= len
  <2>1. pos \in 1 .. len /\ pos \in Nat /\ pos \in DOMAIN format /\ pos - 1 \in 0 .. len /\ pos - 1 < len
        /\ (pos - 1) + 1 = pos
    BY <1>0, <1>2
  <2>2. MeantTo(format, args, pos) = MeantTo(format, args, pos - 1) \o MeantAt(format, args, pos)
    <3>1. MeantTo(format, args, (pos - 1) + 1)
            = MeantTo(format, args, pos - 1) \o MeantAt(format, args, (pos - 1) + 1)
      BY <2>1, MeantToIs
    <3> QED BY <2>1, <3>1
  <2>8. ~(s.pos > Len(format)) /\ format[s.pos] = format[pos]
    BY <2>1
  <2>3. CASE format[pos] # Percent
    <3>1. PICK piece : piece = <<Directive.c, format[pos]>>
      OBVIOUS
    <3>2. piece \in Fitting /\ kprint(piece[1], piece[2]) = <<format[pos]>>
      <4>1. Directive.c \in Nat /\ Directive.c \in Range(Directive) /\ Directive.c # Directive.s
        BY DirectiveCodes DEF Directive
      <4>2. format[pos] \in Nat
        BY <2>1
      <4>3. Fits(Directive.c, format[pos])
        BY <4>1, <4>2 DEF Fits
      <4>4. piece[1] = Directive.c /\ piece[2] = format[pos]
        BY <3>1
      <4>5. piece \in Fitting
        BY <3>1, <4>1, <4>2, <4>3, <4>4 DEF Fitting
      <4> QED BY <4>4, <4>5, CodeIs
    <3>3. t = [pos |-> pos + 1, arg |-> arg + 0, out |-> Append(out, piece)]
      BY <2>3, <2>8, <3>1 DEF Turn
    <3>4. t.pos = pos + 1 /\ t.arg = arg + 0 /\ t.out = Append(out, piece)
      BY <3>3
    <3>5. pos \notin Begins(format)
      BY <2>3 DEF Begins
    <3>6. Argument(format, pos + 1) = arg + 0
      <4>1. Argument(format, pos) \in Nat
        BY <2>1, TakingIs
      <4>2. Argument(format, pos + 1) = Argument(format, pos)
        BY <2>1, <3>5, ArgumentBehind
      <4>3. PICK n \in Nat : n = Argument(format, pos)
        BY <4>1
      <4> QED BY <1>0, <4>2, <4>3
    <3>7. pos - 1 \notin Begins(format)
      <4>1. SUFFICES ASSUME pos - 1 \in Begins(format) PROVE FALSE
        OBVIOUS
      <4>2. pos - 1 \in DOMAIN format
        BY <4>1 DEF Begins
      <4>3. format[pos - 1] = Percent /\ EvenRun(format, (pos - 1) - 1)
        BY <4>1, <4>2, BeginsBehindEven
      <4> QED BY <1>0, <4>2, <4>3, OddOrEven
    <3>8. MeantAt(format, args, pos) = <<format[pos]>>
      BY <3>5, <3>7 DEF MeantAt
    <3>9. PrintedOf(t.out) = MeantTo(format, args, pos)
      BY <1>0, <2>2, <3>2, <3>4, <3>8, PrintedMore
    <3>10. EvenRun(format, pos)
      BY <2>1, <2>3, BehindAnother
    <3>11. t.out \in Seq(Fitting)
      BY <1>0, <3>2, <3>4
    <3>12. t.pos \in 1 .. Len(format) + 1 /\ t.pos - 1 = pos /\ t.pos > pos
      BY <2>1, <3>4
    <3>13. t.arg = Argument(format, t.pos)
      BY <3>4, <3>6
    <3> QED BY <1>2, <3>9, <3>10, <3>11, <3>12, <3>13 DEF BetweenTurns
  <2>4. CASE format[pos] = Percent
    <3>1. pos \in Begins(format)
      BY <1>0, <2>1, <2>4, BeginsBehindEven
    <3>2. PICK code : code = format[pos + 1]
      OBVIOUS
    <3>3. PICK value : value = IF code \in Range(Directive) THEN args[Argument(format, pos)] ELSE 0
      OBVIOUS
    <3>4. PICK piece : piece = <<code, value>>
      OBVIOUS
    <3>5. /\ pos + 1 \in 1 .. len /\ code \in Nat /\ piece \in Fitting
          /\ MeantAt(format, args, pos) = kprint(code, value) /\ kprint(code, value) \in Seq(Nat)
      BY <3>1, <3>2, <3>3, <3>4, AnsweredFits
    <3>6. t = [pos |-> pos + 2, arg |-> arg + (IF Takes(code) THEN 1 ELSE 0), out |-> Append(out, piece)]
      <4>1. CASE code \in Range(Directive)
        <5>1. t = [pos |-> s.pos + 2, arg |-> s.arg + 1, out |-> Append(s.out, <<code, args[s.arg]>>)]
          BY <2>4, <2>8, <3>2, <4>1 DEF Turn, Takes
        <5>2. value = args[s.arg]
          BY <1>0, <3>3, <4>1
        <5> QED BY <3>4, <4>1, <5>1, <5>2 DEF Takes
      <4>2. CASE code \notin Range(Directive)
        <5>1. t = [pos |-> s.pos + 2, arg |-> s.arg + 0, out |-> Append(s.out, <<code, 0>>)]
          BY <2>4, <2>8, <3>2, <4>2 DEF Turn, Takes
        <5>2. value = 0
          BY <3>3, <4>2
        <5> QED BY <3>4, <4>2, <5>1, <5>2 DEF Takes
      <4> QED BY <4>1, <4>2
    <3>7. /\ t.pos = pos + 2 /\ t.arg = arg + (IF Takes(code) THEN 1 ELSE 0) /\ t.out = Append(out, piece)
          /\ piece[1] = code /\ piece[2] = value
      BY <3>4, <3>6
    <3>8. pos + 1 \in DOMAIN format /\ (pos + 1) - 1 = pos /\ (pos + 1) + 1 = pos + 2 /\ pos + 1 \in Nat
      BY <2>1, <3>5
    <3>9. pos + 1 \notin Begins(format)
      <4>1. SUFFICES ASSUME pos + 1 \in Begins(format) PROVE FALSE
        OBVIOUS
      <4>2. format[pos + 1] = Percent /\ EvenRun(format, (pos + 1) - 1)
        BY <3>8, <4>1, BeginsBehindEven
      <4>3. EvenRun(format, pos)
        BY <3>8, <4>2
      <4> QED BY <1>0, <2>1, <2>4, <4>3, OddOrEven
    <3>10. Argument(format, pos + 2) = t.arg
      <4>1. arg \in Nat
        BY <1>0, <2>1, TakingIs
      <4>2. Argument(format, pos + 1) = arg + (IF Takes(code) THEN 1 ELSE 0)
        <5>1. Argument(format, pos + 1) = IF code \in Range(Directive) THEN Argument(format, pos) + 1 ELSE Argument(format, pos)
          BY <2>1, <3>1, <3>2, ArgumentBehind
        <5>2. PICK n \in Nat : n = Argument(format, pos)
          BY <1>0, <4>1
        <5> QED BY <1>0, <5>1, <5>2 DEF Takes
      <4>3. Argument(format, (pos + 1) + 1) = Argument(format, pos + 1)
        BY <3>8, <3>9, ArgumentBehind
      <4> QED BY <3>7, <3>8, <4>2, <4>3
    <3>11. MeantAt(format, args, pos + 1) = <<>>
      BY <3>1, <3>8, <3>9 DEF MeantAt
    <3>12. MeantTo(format, args, pos) \in Seq(Nat)
           /\ MeantTo(format, args, pos + 1) = MeantTo(format, args, pos) \o MeantAt(format, args, pos + 1)
      <4>1. pos \in 0 .. Len(format) /\ pos < Len(format)
        BY <2>1, <3>5
      <4> QED BY <4>1, MeantToIs
    <3>13. MeantTo(format, args, pos + 1) = MeantTo(format, args, pos)
      <4>1. PICK str \in Seq(Nat) : str = MeantTo(format, args, pos)
        BY <3>12
      <4>2. str \o <<>> = str
        OBVIOUS
      <4> QED BY <3>11, <3>12, <4>1, <4>2
    <3>14. PrintedOf(t.out) = MeantTo(format, args, pos + 1)
      BY <1>0, <2>2, <3>5, <3>7, <3>13, PrintedMore
    <3>15. EvenRun(format, pos + 1)
      <4>1. CASE format[pos + 1] # Percent
        BY <3>8, <4>1, BehindAnother
      <4>2. CASE format[pos + 1] = Percent
        <5>1. PICK p \in Nat : p = pos - 1
          BY <2>1
        <5>2. p + 2 \in DOMAIN format /\ p + 1 = pos /\ p + 2 = pos + 1
          <6>1. pos \in Nat
            BY <2>1
          <6>2. p + 1 = pos /\ p + 2 = pos + 1
            BY <5>1, <6>1
          <6> QED BY <3>8, <6>2
        <5>3. EvenRun(format, p + 2)
          BY <1>0, <2>4, <4>2, <5>1, <5>2, BehindTwoMore
        <5> QED BY <5>2, <5>3
      <4> QED BY <4>1, <4>2
    <3>16. t.out \in Seq(Fitting)
      BY <1>0, <3>5, <3>7
    <3>17. t.pos \in 1 .. Len(format) + 1 /\ t.pos - 1 = pos + 1 /\ t.pos > pos
      <4>1. PICK new : new = pos + 2
        OBVIOUS
      <4>2. pos \in 1 .. len /\ pos + 1 \in 1 .. len
        BY <2>1, <3>5
      <4>3. new \in 1 .. len + 1 /\ new - 1 = pos + 1 /\ new > pos
        BY <4>1, <4>2
      <4>4. t.pos = new
        BY <3>7, <4>1
      <4> QED BY <4>3, <4>4
    <3>18. t.arg = Argument(format, t.pos)
      BY <3>7, <3>10
    <3> QED BY <1>2, <3>14, <3>15, <3>16, <3>17, <3>18 DEF BetweenTurns
  <2> QED BY <2>3, <2>4
<1> QED BY <1>0, <1>1, <1>2

LEMMA AtTheEnd ==
  ASSUME NEW format \in Seq(Nat), NEW args, Answered(format, args)
  PROVE  /\ Pieces(format, args) \in Seq(Fitting)
         /\ PrintedOf(Pieces(format, args)) = Meant(format, args)
<1> PICK len \in Nat : len = Len(format)
  OBVIOUS
<1> PICK turns : turns = Turns(format, args)
  OBVIOUS
<1>1. \A k \in 0 .. len : turns[k] = IF k = 0 THEN Outset ELSE Turn(turns[k - 1], format, args)
  BY TurnsAre
<1> DEFINE Held(k) == BetweenTurns(turns[k], format, args) /\ turns[k].pos >= k + 1
           Bad == {k \in Nat : k <= len /\ ~Held(k)}
<1>2. Bad = {}
  <2>1. SUFFICES ASSUME Bad # {} PROVE FALSE
    OBVIOUS
  <2>2. PICK x \in Bad : \A y \in Bad : x <= y
    <3>1. Bad \in SUBSET Nat
      OBVIOUS
    <3> HIDE DEF Bad
    <3> QED BY <3>1, <2>1, Least
  <2> HIDE DEF Held
  <2>3. x \in Nat /\ x <= len /\ ~Held(x) /\ x \in 0 .. len
    OBVIOUS
  <2>4. CASE x = 0
    <3>1. turns[x] = Outset
      BY <1>1, <2>3, <2>4
    <3>2. Outset.pos = 1
      BY DEF Outset
    <3>3. Outset.pos >= x + 1
      BY <2>4, <3>2
    <3> QED BY <2>3, <3>1, <3>3, OutsetIsBetween DEF Held
  <2>5. CASE x # 0
    <3>1. PICK y \in Nat : y = x - 1
      BY <2>3, <2>5
    <3>2. y + 1 = x /\ y <= len /\ y \notin Bad
      BY <2>2, <2>3, <3>1
    <3>3. BetweenTurns(turns[y], format, args) /\ turns[y].pos >= y + 1
      <4>1. Held(y)
        BY <3>2
      <4> QED BY <4>1 DEF Held
    <3>4. turns[x] = Turn(turns[y], format, args)
      BY <1>1, <2>3, <2>5, <3>1
    <3>5. /\ BetweenTurns(turns[x], format, args)
          /\ turns[y].pos <= len => turns[x].pos > turns[y].pos
          /\ turns[y].pos > len => turns[x] = turns[y]
      BY <3>3, <3>4, AnotherTurn
    <3>6. turns[x].pos \in 1 .. len + 1 /\ turns[y].pos \in 1 .. len + 1
      BY <3>3, <3>5 DEF BetweenTurns
    <3>7. turns[x].pos >= x + 1
      <4>1. PICK old, new : old = turns[y].pos /\ new = turns[x].pos
        OBVIOUS
      <4>2. /\ old \in 1 .. len + 1 /\ new \in 1 .. len + 1 /\ old >= y + 1
            /\ old <= len => new > old
            /\ old > len => new = old
        BY <3>3, <3>5, <3>6, <4>1
      <4>3. new >= x + 1
        BY <2>3, <3>2, <4>2
      <4> QED BY <4>1, <4>3
    <3> QED BY <2>3, <3>5, <3>7 DEF Held
  <2> QED BY <2>4, <2>5
<1>3. BetweenTurns(turns[len], format, args) /\ turns[len].pos >= len + 1
  <2> HIDE DEF Held
  <2>1. Held(len)
    BY <1>2
  <2> QED BY <2>1 DEF Held
<1>4. turns[len].out \in Seq(Fitting) /\ PrintedOf(turns[len].out) = MeantTo(format, args, len)
  <2>1. turns[len].pos \in 1 .. len + 1
    BY <1>3 DEF BetweenTurns
  <2>2. turns[len].pos - 1 = len
    BY <1>3, <2>1
  <2> QED BY <1>3, <2>2 DEF BetweenTurns
<1>5. MeantTo(format, args, len) = Meant(format, args)
  <2>1. DOMAIN format = 1 .. len
    OBVIOUS
  <2> QED BY <2>1 DEF MeantTo, Meant, MeantAt
<1>6. Pieces(format, args) = turns[len].out
  BY DEF Pieces
<1> QED BY <1>4, <1>5, <1>6

\* For every call whose directives have their arguments: what the kernel and a
\* process print of it is what is meant.
THEOREM CallsPrintAsMeant == PrintsAsMeant
<1>1. SUFFICES ASSUME NEW call \in Prints, NEW printed \in {kprintf(call[1], call[2]), printf(call[1], call[2])}
               PROVE  printed = Meant(call[1], call[2])
  BY DEF PrintsAsMeant, Misprinted
<1>2. PICK format, args : format = call[1] /\ args = call[2]
  OBVIOUS
<1>3. format \in Seq(Nat) /\ Answered(format, args)
  BY <1>2, FormatAssumption
<1>4. PICK out : out = Pieces(format, args)
  OBVIOUS
<1>5. out \in Seq(Fitting) /\ PrintedOf(out) = Meant(format, args)
  BY <1>3, <1>4, AtTheEnd
<1>6. kprintf(format, args) = PrintedOf(out)
  BY <1>4 DEF kprintf, PrintedOf
<1>7. printf(format, args) = PrintedOf(out)
  <2>1. ASSUME NEW k \in DOMAIN out
        PROVE  print(out[k][1], out[k][2]) = kprint(out[k][1], out[k][2])
    <3>1. out[k] \in Fitting
      BY <1>5
    <3> QED BY <3>1, FittingPrints
  <2>2. [k \in DOMAIN out |-> print(out[k][1], out[k][2])] = [k \in DOMAIN out |-> kprint(out[k][1], out[k][2])]
    BY <2>1
  <2> QED BY <1>4, <2>2 DEF printf, PrintedOf
<1> QED BY <1>2, <1>5, <1>6, <1>7

=============================================================================
