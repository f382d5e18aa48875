-------------------------- MODULE ModularArithmetic --------------------------
(***************************************************************************)
(* Numbers: what the proofs need and the provers do not know.  Quotients   *)
(* and remainders are for addresses that wrap, the circular buffer and the *)
(* cells of the screen.                                                    *)
(***************************************************************************)
EXTENDS Integers, TLAPS, WellFoundedInduction

\* A set of numbers has a smallest one: what the proofs use for induction.
LEMMA Least ==
  ASSUME NEW S \in SUBSET Nat, S # {}
  PROVE  \E x \in S : \A y \in S : x <= y
<1>1. PICK x \in S : \A y \in S : ~ <<y, x>> \in OpToRel(<, Nat)
  BY NatLessThanWellFounded, WFMin
<1>2. ASSUME NEW y \in S, ~(x <= y) PROVE FALSE
  <2>1. y < x
    BY <1>2
  <2>2. <<y, x>> \in {ss \in Nat \X Nat : ss[1] < ss[2]}
    BY <2>1
  <2> QED BY <1>1, <2>2 DEF OpToRel
<1> QED BY <1>2

LEMMA DivMod ==
  ASSUME NEW a \in Int, NEW n \in Nat \ {0}
  PROVE  /\ a \div n \in Int /\ a % n \in 0 .. n - 1
         /\ a = n * (a \div n) + (a % n)
  OBVIOUS

LEMMA Times ==
  ASSUME NEW n \in Nat, NEW e \in Int, e >= 1
  PROVE  n * e \in Int /\ n * e >= n
<1>1. e - 1 \in Nat /\ n * (e - 1) \in Nat
  OBVIOUS
<1>2. n * e = n + n * (e - 1)
  OBVIOUS
<1> QED BY <1>1, <1>2

LEMMA TimesMinus ==
  ASSUME NEW n \in Int, NEW x \in Int, NEW y \in Int
  PROVE  /\ n * x \in Int /\ n * y \in Int /\ n * (x - y) \in Int
         /\ n * (x - y) = n * x - n * y
  OBVIOUS

LEMMA TimesPlus ==
  ASSUME NEW n \in Int, NEW x \in Int, NEW y \in Int
  PROVE  /\ n * x \in Int /\ n * y \in Int /\ n * (x + y) \in Int
         /\ n * (x + y) = n * x + n * y
  OBVIOUS

LEMMA NoMultipleBetween ==
  ASSUME NEW n \in Nat, NEW d \in Int, -n < n * d, n * d < n
  PROVE  d = 0
<1>1. n * d \in Int /\ n * (0 - d) = 0 - n * d
  BY TimesMinus
<1>2. ~(d >= 1)
  BY <1>1, Times
<1>3. ~(0 - d >= 1)
  <2>1. SUFFICES ASSUME 0 - d >= 1 PROVE FALSE
    OBVIOUS
  <2>2. 0 - d \in Int /\ n * (0 - d) >= n
    BY <2>1, Times
  <2> QED BY <1>1, <2>2
<1> QED BY <1>2, <1>3

LEMMA DivModUnique ==
  ASSUME NEW a \in Int, NEW n \in Nat \ {0}, NEW q \in Int, NEW r \in 0 .. n - 1,
         a = n * q + r
  PROVE  a \div n = q /\ a % n = r
<1> DEFINE p == a \div n
           m == a % n
<1>1. /\ p \in Int /\ m \in 0 .. n - 1
      /\ a = n * p + m
  BY DivMod
<1> HIDE DEF p, m
<1>2. /\ n * q \in Int /\ n * p \in Int /\ n * (q - p) \in Int
      /\ n * (q - p) = n * q - n * p
  BY <1>1, TimesMinus
<1>3. n * (q - p) = m - r
  BY <1>1, <1>2
<1>4. q - p \in Int /\ -n < n * (q - p) /\ n * (q - p) < n
  BY <1>1, <1>3
<1>5. q - p = 0
  BY <1>4, NoMultipleBetween
<1>6. n * q = n * p
  BY <1>1, <1>5
<1>7. q = p /\ m = r
  BY <1>1, <1>2, <1>5, <1>6
<1> QED BY <1>7 DEF p, m

LEMMA ModSmall ==
  ASSUME NEW n \in Nat \ {0}, NEW x \in 0 .. n - 1
  PROVE  x % n = x
<1>1. x \in Int /\ x = n * 0 + x
  OBVIOUS
<1> QED BY <1>1, DivModUnique

\* A remainder may be taken early.
LEMMA ModOnce ==
  ASSUME NEW n \in Nat \ {0}, NEW x \in Int, NEW y \in Int
  PROVE  ((x % n) + y) % n = (x + y) % n
<1> DEFINE q == x \div n
           m == x % n
           e == (m + y) \div n
           k == (m + y) % n
<1>1. /\ q \in Int /\ m \in Int
      /\ x = n * q + m
  BY DivMod
<1>2. /\ e \in Int /\ k \in 0 .. n - 1
      /\ m + y = n * e + k
  <2>1. m + y \in Int
    BY <1>1
  <2> QED BY <2>1, DivMod
<1> HIDE DEF q, m, e, k
<1>3. /\ n * q \in Int /\ n * e \in Int /\ n * (q + e) \in Int
      /\ n * (q + e) = n * q + n * e
  BY <1>1, <1>2, TimesPlus
<1>4. x + y = n * (q + e) + k /\ q + e \in Int /\ x + y \in Int
  BY <1>1, <1>2, <1>3
<1>5. (x + y) % n = k
  BY <1>2, <1>4, DivModUnique
<1> QED BY <1>5 DEF k, m

\* Numbers less than n apart have different remainders.
LEMMA ModDiffers ==
  ASSUME NEW n \in Nat \ {0}, NEW x \in Int, NEW y \in Int, x < y, y < x + n
  PROVE  x % n # y % n
<1> SUFFICES ASSUME x % n = y % n PROVE FALSE
  OBVIOUS
<1> DEFINE p == x \div n
           q == y \div n
           m == x % n
           k == y % n
<1>1. p \in Int /\ m \in Int /\ x = n * p + m
  BY DivMod
<1>2. q \in Int /\ k \in Int /\ y = n * q + k
  BY DivMod
<1>3. m = k
  OBVIOUS
<1> HIDE DEF p, q, m, k
<1>4. n * (q - p) = n * q - n * p /\ n * q \in Int /\ n * p \in Int
  BY <1>1, <1>2, TimesMinus
<1>5. n * (q - p) = y - x /\ q - p \in Int
  BY <1>1, <1>2, <1>3, <1>4
<1>6. q - p = 0
  BY <1>5, NoMultipleBetween
<1>7. n * (q - p) = 0
  BY <1>6
<1> QED BY <1>5, <1>7
=============================================================================
