------------------------------- MODULE Basics -------------------------------
(* Facts on numbers and sequences that the proofs share: non-empty sets of   *)
(* numbers have the extreme elements that the models name with CHOOSE, and   *)
(* a node taken off a list leaves the others.                                *)
EXTENDS Integers, Functions, List, WellFoundedInduction, TLAPS

\* A non-empty set of natural numbers has a least element.
LEMMA LeastElement ==
  ASSUME NEW S \in SUBSET Nat, S # {}
  PROVE  \E m \in S : \A n \in S : m <= n
<1>1. PICK m \in S : \A n \in S : ~(<<n, m>> \in OpToRel(<, Nat))
  BY NatLessThanWellFounded, WFMin, Zenon
<1>2. ASSUME NEW n \in S PROVE m <= n
  <2>1. m \in Nat /\ n \in Nat
    OBVIOUS
  <2>2. ~(n < m)
    BY <1>1, <2>1 DEF OpToRel
  <2> QED BY <2>1, <2>2
<1> QED BY <1>2

\* A non-empty set of natural numbers with a bound has a greatest element.
LEMMA GreatestElement ==
  ASSUME NEW b \in Nat, NEW S \in SUBSET (0 .. b), S # {}
  PROVE  \E m \in S : \A n \in S : n <= m
<1> DEFINE T == {b - n : n \in S}
<1>1. T \in SUBSET Nat /\ T # {}
  <2>1. \A n \in S : b - n \in Nat
    OBVIOUS
  <2>2. T \in SUBSET Nat
    BY <2>1, Zenon
  <2>3. T # {}
    BY Zenon
  <2> QED BY <2>2, <2>3
<1>2. PICK k \in T : \A n \in T : k <= n
  BY <1>1, LeastElement
<1>3. PICK m \in S : k = b - m
  OBVIOUS
<1>4. ASSUME NEW n \in S PROVE n <= m
  <2>1. m \in Int /\ n \in Int /\ b - n \in T
    OBVIOUS
  <2>2. b - m <= b - n
    BY <1>2, <1>3, <2>1
  <2> QED BY <2>1, <2>2
<1> QED BY <1>4

\* The list r is the list s without its element i.
Without(s, i, r) ==
  /\ Len(r) = Len(s) - 1
  /\ \A j \in 1 .. Len(s) - 1 : r[j] = IF j < i THEN s[j] ELSE s[j + 1]

\* list_remove of a node moves those after it up.
LEMMA UnlinkElements ==
  ASSUME NEW S, NEW s \in Seq(S), NEW t, Linked(s, t)
  PROVE  /\ Unlink(s, t) \in Seq(S)
         /\ \E i \in 1 .. Len(s) : s[i] = t /\ Without(s, i, Unlink(s, t))
<1> DEFINE i == CHOOSE i \in 1 .. Len(s) : s[i] = t
           a == SubSeq(s, 1, i - 1)
           b == SubSeq(s, i + 1, Len(s))
           r == a \o b
<1>1. i \in 1 .. Len(s) /\ s[i] = t
  BY DEF Linked
<1>0. Unlink(s, t) = r
  BY DEF Unlink
<1> HIDE DEF i
<1>2. Len(s) \in Nat /\ s \in [1 .. Len(s) -> S]
  OBVIOUS
<1>3. /\ a \in Seq(S)
      /\ Len(a) = i - 1
      /\ \A j \in 1 .. i - 1 : a[j] = s[j]
  BY <1>1, <1>2, SMT
<1>4. /\ b \in Seq(S)
      /\ Len(b) = Len(s) - i
      /\ \A j \in 1 .. Len(s) - i : b[j] = s[j + i]
  <2>1. /\ b \in Seq(S)
        /\ Len(b) = (IF i + 1 <= Len(s) THEN Len(s) - (i + 1) + 1 ELSE 0)
        /\ \A j \in 1 .. Len(s) - (i + 1) + 1 : b[j] = s[(i + 1) + j - 1]
    BY <1>1, <1>2, SMT
  <2> HIDE DEF b
  <2>2. Len(b) = Len(s) - i
    <3>1. CASE i + 1 <= Len(s)
      BY <1>1, <1>2, <2>1, <3>1
    <3>2. CASE ~(i + 1 <= Len(s))
      <4>1. Len(b) = 0
        BY <2>1, <3>2
      <4>2. i \in Int /\ i <= Len(s) /\ Len(s) \in Int
        BY <1>1, <1>2
      <4>3. Len(s) - i = 0
        BY <3>2, <4>2
      <4> QED BY <4>1, <4>3
    <3> QED BY <3>1, <3>2
  <2>3. ASSUME NEW j \in 1 .. Len(s) - i
        PROVE  b[j] = s[j + i]
    <3>1. /\ j \in 1 .. Len(s) - (i + 1) + 1
          /\ (i + 1) + j - 1 = j + i
      BY <1>1, <1>2
    <3> QED BY <2>1, <3>1
  <2> QED BY <2>1, <2>2, <2>3
<1> HIDE DEF a, b
<1>5. /\ r \in Seq(S)
      /\ Len(r) = Len(s) - 1
      /\ \A j \in 1 .. Len(s) - 1 : r[j] = IF j < i THEN s[j] ELSE s[j + 1]
  <2>1. /\ r \in Seq(S)
        /\ Len(r) = Len(a) + Len(b)
        /\ \A j \in 1 .. Len(a) + Len(b) :
             r[j] = IF j <= Len(a) THEN a[j] ELSE b[j - Len(a)]
    <3>1. a \in Seq(S) /\ b \in Seq(S) /\ Len(a) \in Nat /\ Len(b) \in Nat
      BY <1>3, <1>4
    <3> QED BY <3>1, SMTT(30)
  <2> HIDE DEF r
  <2>2. Len(a) + Len(b) = Len(s) - 1
    BY <1>1, <1>2, <1>3, <1>4
  <2>3. ASSUME NEW j \in 1 .. Len(s) - 1, j < i
        PROVE  r[j] = s[j]
    <3>1. j \in 1 .. i - 1 /\ j <= Len(a)
      BY <1>1, <1>2, <1>3, <2>3
    <3> QED BY <1>3, <2>1, <2>2, <3>1
  <2>4. ASSUME NEW j \in 1 .. Len(s) - 1, ~(j < i)
        PROVE  r[j] = s[j + 1]
    <3>1. /\ j - Len(a) \in 1 .. Len(s) - i
          /\ ~(j <= Len(a))
          /\ (j - Len(a)) + i = j + 1
      BY <1>1, <1>2, <1>3, <2>4
    <3> QED BY <1>4, <2>1, <2>2, <3>1
  <2> QED BY <2>1, <2>2, <2>3, <2>4
<1>6. Without(s, i, r)
  BY <1>5, Zenon DEF Without
<1> QED BY <1>0, <1>1, <1>5, <1>6, Zenon

\* list_remove of a node of a list without duplicates removes just it.
LEMMA UnlinkProperties ==
  ASSUME NEW S, NEW s \in Seq(S), IsInjective(s), NEW t, Linked(s, t)
  PROVE  /\ Unlink(s, t) \in Seq(S)
         /\ IsInjective(Unlink(s, t))
         /\ \A u : Linked(Unlink(s, t), u) <=> Linked(s, u) /\ u # t
<1> DEFINE r == Unlink(s, t)
<1>1. PICK i \in 1 .. Len(s) : s[i] = t /\ Without(s, i, r)
  BY UnlinkElements, Zenon
<1>2. Len(s) \in Nat /\ s \in [1 .. Len(s) -> S]
  OBVIOUS
<1>5. /\ r \in Seq(S)
      /\ Len(r) = Len(s) - 1
      /\ \A j \in 1 .. Len(s) - 1 : r[j] = IF j < i THEN s[j] ELSE s[j + 1]
  BY <1>1, UnlinkElements, Zenon DEF Without
<1> HIDE DEF r
<1>7. \A j, k \in 1 .. Len(s) : s[j] = s[k] => j = k
  BY <1>2 DEF IsInjective
<1>8. IsInjective(r)
  <2>1. DOMAIN r = 1 .. Len(s) - 1
    BY <1>5
  <2> QED BY <1>1, <1>2, <1>5, <1>7, <2>1, SMT DEF IsInjective
<1>9. ASSUME NEW u
      PROVE  Linked(r, u) <=> Linked(s, u) /\ u # t
  <2>1. ASSUME Linked(r, u) PROVE Linked(s, u) /\ u # t
    <3>1. PICK j \in 1 .. Len(s) - 1 : r[j] = u
      BY <2>1, <1>5 DEF Linked
    <3> QED BY <1>1, <1>2, <1>5, <1>7, <3>1, SMT DEF Linked
  <2>2. ASSUME Linked(s, u), u # t PROVE Linked(r, u)
    <3>1. PICK k \in 1 .. Len(s) : s[k] = u
      BY <2>2 DEF Linked
    <3>2. CASE k < i
      <4>1. k \in 1 .. Len(s) - 1 /\ r[k] = u
        BY <1>1, <1>2, <1>5, <3>1, <3>2, SMT
      <4> QED BY <1>5, <4>1 DEF Linked
    <3>3. CASE k > i
      <4>1. k - 1 \in 1 .. Len(s) - 1 /\ r[k - 1] = u
        BY <1>1, <1>2, <1>5, <3>1, <3>3, SMT
      <4> QED BY <1>5, <4>1 DEF Linked
    <3> QED BY <1>1, <1>2, <2>2, <3>1, <3>2, <3>3, SMT
  <2> QED BY <2>1, <2>2
<1> QED BY <1>5, <1>8, <1>9 DEF r

-----------------------------------------------------------------------------
(* Remainders.                                                             *)

LEMMA DivMod ==
  ASSUME NEW n \in Nat \ {0}, NEW a \in Int
  PROVE  /\ a \div n \in Int
         /\ a % n \in 0 .. n - 1
         /\ a = n * (a \div n) + (a % n)
OBVIOUS

LEMMA NoMultiple ==
  ASSUME NEW n \in Nat \ {0}, NEW k \in Int, n * k < n, n * k > -n
  PROVE  k = 0
<1>1. CASE k >= 1
  <2>1. n * k >= n
    BY <1>1
  <2> QED BY <2>1
<1>2. CASE k <= -1
  <2>1. n * k <= -n
    BY <1>2
  <2> QED BY <2>1
<1> QED BY <1>1, <1>2

LEMMA Distribute ==
  ASSUME NEW n \in Int, NEW j \in Int, NEW k \in Int
  PROVE  n * (j - k) = n * j - n * k
OBVIOUS

LEMMA SameResidue ==
  ASSUME NEW n \in Nat \ {0}, NEW j \in Int, NEW k \in Int,
         NEW r \in 0 .. n - 1, NEW s \in 0 .. n - 1,
         n * j + r = n * k + s
  PROVE  r = s
<1>1. j - k \in Int /\ n * j \in Int /\ n * k \in Int
  OBVIOUS
<1>2. n * (j - k) = s - r
  BY <1>1, Distribute
<1>3. j - k = 0
  BY <1>1, <1>2, NoMultiple
<1> QED BY <1>2, <1>3

LEMMA Residue ==
  ASSUME NEW n \in Nat \ {0}, NEW a \in Int, NEW k \in Int, NEW r \in 0 .. n - 1,
         a = n * k + r
  PROVE  a % n = r
BY DivMod, SameResidue

\* Positions less than n apart have different remainders.
LEMMA NearbyDiffer ==
  ASSUME NEW n \in Nat \ {0}, NEW a \in Int, NEW d \in 1 .. n - 1
  PROVE  (a + d) % n # a % n
<1> SUFFICES ASSUME (a + d) % n = a % n PROVE FALSE
  OBVIOUS
<1>1. PICK j \in Int : a = n * j + (a % n)
  BY DivMod
<1>2. PICK k \in Int : a + d = n * k + (a % n)
  BY DivMod, a + d \in Int
<1>3. a % n \in Int /\ n * j \in Int /\ n * k \in Int /\ k - j \in Int
  BY DivMod
<1>4. n * (k - j) = d
  BY <1>1, <1>2, <1>3, Distribute
<1>5. k - j = 0
  BY <1>3, <1>4, NoMultiple
<1> QED BY <1>4, <1>5
=============================================================================
