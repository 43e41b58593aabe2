---------------------------- MODULE ShellProofs -----------------------------
(***************************************************************************)
(* Proofs about the shell (ShellTable, Shell), for any set of commands,    *)
(* any sizes of the line and of the history and any characters: what the   *)
(* completion finds, what the terminal shows, what the history keeps and   *)
(* which arguments a command gets.                                         *)
(***************************************************************************)
EXTENDS Shell, Basics, FiniteSetTheorems

\* Leaves that name no prover are for Zenon; the others need arithmetic,
\* sequences or function updates and name the SMT solver.
USE ZenonT(30)

-----------------------------------------------------------------------------
(* Strings and their order.                                                *)

Agree(s, t, n) == \A i \in 1 .. n : s[i] = t[i]

LEMMA LeastIsLeast ==
  ASSUME NEW S \in SUBSET Nat, S # {}
  PROVE  Least(S) \in S /\ \A j \in S : Least(S) <= j
BY LeastElement DEF Least

LEMMA ElementType ==
  ASSUME NEW S, NEW s \in Seq(S), NEW i \in 1 .. Len(s)
  PROVE  s[i] \in S
BY SMTT(30)

LEMMA PrefixProperties ==
  ASSUME NEW S, NEW s \in Seq(S), NEW n \in 0 .. Len(s)
  PROVE  /\ SubSeq(s, 1, n) \in Seq(S)
         /\ Len(SubSeq(s, 1, n)) = n
         /\ \A i \in 1 .. n : SubSeq(s, 1, n)[i] = s[i]
BY SMTT(30)

LEMMA SuffixProperties ==
  ASSUME NEW S, NEW s \in Seq(S), NEW n \in 0 .. Len(s)
  PROVE  /\ SubSeq(s, n + 1, Len(s)) \in Seq(S)
         /\ Len(SubSeq(s, n + 1, Len(s))) = Len(s) - n
         /\ \A i \in 1 .. Len(s) - n : SubSeq(s, n + 1, Len(s))[i] = s[n + i]
<1> DEFINE b == SubSeq(s, n + 1, Len(s))
<1>1. Len(s) \in Nat /\ n \in Nat /\ n <= Len(s)
  BY SMTT(30)
<1>2. /\ b \in Seq(S)
      /\ Len(b) = (IF n + 1 <= Len(s) THEN Len(s) - (n + 1) + 1 ELSE 0)
      /\ \A i \in 1 .. Len(s) - (n + 1) + 1 : b[i] = s[(n + 1) + i - 1]
  BY <1>1, SMTT(30)
<1> HIDE DEF b
<1>3. Len(b) = Len(s) - n
  <2>1. CASE n + 1 <= Len(s)
    BY <1>1, <1>2, <2>1, SMTT(30)
  <2>2. CASE n = Len(s)
    BY <1>1, <1>2, <2>2, SMTT(30)
  <2> QED BY <1>1, <2>1, <2>2, SMTT(30)
<1>4. ASSUME NEW i \in 1 .. Len(s) - n PROVE b[i] = s[n + i]
  <2>1. i \in 1 .. Len(s) - (n + 1) + 1 /\ (n + 1) + i - 1 = n + i
    BY <1>1, SMTT(30)
  <2> QED BY <1>2, <2>1
<1> QED BY <1>2, <1>3, <1>4 DEF b

LEMMA JoinedProperties ==
  ASSUME NEW S, NEW s \in Seq(S), NEW t \in Seq(S)
  PROVE  /\ s \o t \in Seq(S)
         /\ Len(s \o t) = Len(s) + Len(t)
         /\ \A i \in 1 .. Len(s) : (s \o t)[i] = s[i]
         /\ \A i \in 1 .. Len(t) : (s \o t)[Len(s) + i] = t[i]
<1>1. Len(s) \in Nat /\ Len(t) \in Nat
  BY SMTT(30)
<1> QED BY <1>1, SMTT(30)

LEMMA SameSequence ==
  ASSUME NEW S, NEW s \in Seq(S), NEW t \in Seq(S), Len(s) = Len(t), Agree(s, t, Len(s))
  PROVE  s = t
BY SMTT(30) DEF Agree

LEMMA PrefixAgree ==
  ASSUME NEW S, NEW s \in Seq(S), NEW t \in Seq(S), NEW n \in Nat, n <= Len(s), n <= Len(t)
  PROVE  SubSeq(s, 1, n) = SubSeq(t, 1, n) <=> Agree(s, t, n)
<1> DEFINE a == SubSeq(s, 1, n)
           b == SubSeq(t, 1, n)
<1>1. /\ a \in Seq(S) /\ Len(a) = n /\ \A i \in 1 .. n : a[i] = s[i]
      /\ b \in Seq(S) /\ Len(b) = n /\ \A i \in 1 .. n : b[i] = t[i]
  BY PrefixProperties, SMTT(30)
<1> HIDE DEF a, b
<1>2. a = b => Agree(s, t, n)
  BY <1>1 DEF Agree
<1>3. Agree(s, t, n) => Agree(a, b, n)
  BY <1>1 DEF Agree
<1> QED BY <1>1, <1>2, <1>3, SameSequence DEF a, b

\* strncmp and the comparison of a string with a prefix, character by character.
LEMMA SamePrefixMeans ==
  ASSUME NEW s \in Seq(Nat), NEW t \in Seq(Nat), NEW n \in 0 .. Len(t)
  PROVE  SamePrefix(s, t, n) <=> Len(s) >= n /\ Agree(s, t, n)
<1>1. Start(t, n) = SubSeq(t, 1, n)
  BY SMTT(30) DEF Start
<1>2. CASE Len(s) >= n
  <2>1. Start(s, n) = SubSeq(s, 1, n)
    BY <1>2, SMTT(30) DEF Start
  <2> QED BY <1>1, <1>2, <2>1, PrefixAgree, SMTT(30) DEF SamePrefix
<1>3. CASE ~(Len(s) >= n)
  <2>1. Len(s) \in 0 .. Len(s) /\ Start(s, n) = SubSeq(s, 1, Len(s))
    BY <1>3, SMTT(30) DEF Start
  <2>2. Len(Start(s, n)) = Len(s) /\ Len(Start(t, n)) = n
    BY <1>1, <2>1, PrefixProperties, SMTT(30)
  <2> QED BY <1>3, <2>2, SMTT(30) DEF SamePrefix
<1> QED BY <1>2, <1>3

LEMMA BeginsWithMeans ==
  ASSUME NEW s \in Seq(Nat), NEW t \in Seq(Nat), NEW n \in 0 .. Len(t)
  PROVE  BeginsWith(s, SubSeq(t, 1, n)) <=> Len(s) >= n /\ Agree(s, t, n)
<1>1. Len(SubSeq(t, 1, n)) = n
  BY PrefixProperties
<1> QED BY <1>1, PrefixAgree, SMTT(30) DEF BeginsWith

\* Where s differs from t for the first time, it ends or has a smaller character.
LessAt(s, t, k) ==
  /\ k <= Len(t) /\ k <= Len(s) + 1 /\ Agree(s, t, k - 1)
  /\ k <= Len(s) => s[k] < t[k]

LEMMA LessMeans ==
  ASSUME NEW s \in Seq(Nat), NEW t \in Seq(Nat)
  PROVE  Less(s, t) <=> \E k \in Nat \ {0} : LessAt(s, t, k)
<1>1. ASSUME NEW k \in 1 .. Len(t), k <= Len(s) + 1
      PROVE  SubSeq(s, 1, k - 1) = SubSeq(t, 1, k - 1) <=> Agree(s, t, k - 1)
  <2>1. k - 1 \in Nat /\ k - 1 <= Len(s) /\ k - 1 <= Len(t)
    BY <1>1, SMTT(30)
  <2> QED BY <2>1, PrefixAgree
<1>2. ASSUME Less(s, t) PROVE \E k \in Nat \ {0} : LessAt(s, t, k)
  <2>1. PICK k \in 1 .. Len(t) :
          /\ Len(s) >= k - 1 /\ SubSeq(s, 1, k - 1) = SubSeq(t, 1, k - 1)
          /\ IF Len(s) = k - 1 THEN TRUE ELSE s[k] < t[k]
    BY <1>2 DEF Less
  <2>2. LessAt(s, t, k)
    BY <1>1, <2>1, SMTT(30) DEF LessAt
  <2> QED BY <2>2, SMTT(30)
<1>3. ASSUME NEW k \in Nat \ {0}, LessAt(s, t, k) PROVE Less(s, t)
  <2>1. k \in 1 .. Len(t) /\ k <= Len(s) + 1 /\ Len(s) >= k - 1
    BY <1>3, SMTT(30) DEF LessAt
  <2>2. SubSeq(s, 1, k - 1) = SubSeq(t, 1, k - 1)
    BY <1>1, <1>3, <2>1 DEF LessAt
  <2>3. IF Len(s) = k - 1 THEN TRUE ELSE s[k] < t[k]
    BY <1>3, <2>1, SMTT(30) DEF LessAt
  <2> QED BY <2>1, <2>2, <2>3 DEF Less
<1> QED BY <1>2, <1>3

\* strcmp is a strict total order.
LEMMA LessIrreflexive ==
  ASSUME NEW s \in Seq(Nat) PROVE ~Less(s, s)
<1> SUFFICES ASSUME NEW k \in Nat \ {0}, LessAt(s, s, k) PROVE FALSE
  BY LessMeans
<1>1. s[k] \in Nat /\ s[k] < s[k]
  BY SMTT(30) DEF LessAt
<1> QED BY <1>1, SMTT(30)

LEMMA LessTransitive ==
  ASSUME NEW s \in Seq(Nat), NEW t \in Seq(Nat), NEW u \in Seq(Nat), Less(s, t), Less(t, u)
  PROVE  Less(s, u)
<1>1. PICK k \in Nat \ {0} : LessAt(s, t, k)
  BY LessMeans
<1>2. PICK l \in Nat \ {0} : LessAt(t, u, l)
  BY LessMeans
<1>3. CASE k < l
  <2>1. k <= Len(t) /\ t[k] = u[k] /\ Agree(s, u, k - 1) /\ k <= Len(u)
    BY <1>1, <1>2, <1>3, SMTT(30) DEF LessAt, Agree
  <2>2. LessAt(s, u, k)
    BY <1>1, <2>1 DEF LessAt
  <2> QED BY <2>2, LessMeans
<1>4. CASE k = l
  <2>1. Agree(s, u, k - 1) /\ k <= Len(u) /\ k <= Len(t)
    BY <1>1, <1>2, <1>4 DEF LessAt, Agree
  <2>2. ASSUME k <= Len(s) PROVE s[k] < u[k]
    <3>1. k \in 1 .. Len(s) /\ k \in 1 .. Len(t) /\ k \in 1 .. Len(u)
      BY <2>1, <2>2, SMTT(30)
    <3>2. s[k] \in Nat /\ t[k] \in Nat /\ u[k] \in Nat
      BY <3>1, ElementType
    <3>3. s[k] < t[k] /\ t[k] < u[k]
      BY <1>1, <1>2, <1>4, <2>1, <2>2 DEF LessAt
    <3> QED BY <3>2, <3>3, SMTT(30)
  <2>3. LessAt(s, u, k)
    BY <1>1, <2>1, <2>2 DEF LessAt
  <2> QED BY <2>3, LessMeans
<1>5. CASE l < k
  <2>1. l <= Len(u) /\ l <= Len(s) /\ l <= Len(t) /\ l \in 1 .. k - 1
    <3>1. l <= Len(u) /\ k <= Len(s) + 1 /\ k <= Len(t)
      BY <1>1, <1>2, Zenon DEF LessAt
    <3>2. Len(s) \in Nat /\ Len(t) \in Nat
      BY SMTT(30)
    <3> QED BY <1>5, <3>1, <3>2, SMTT(30)
  <2>2. s[l] = t[l] /\ Agree(s, u, l - 1)
    <3>1. Agree(s, t, k - 1) /\ Agree(t, u, l - 1)
      BY <1>1, <1>2 DEF LessAt
    <3>2. \A i \in 1 .. l - 1 : i \in 1 .. k - 1
      BY <1>5, SMTT(30)
    <3> QED BY <2>1, <3>1, <3>2 DEF Agree
  <2>3. LessAt(s, u, l)
    BY <1>2, <2>1, <2>2, SMTT(30) DEF LessAt
  <2> QED BY <2>3, LessMeans
<1> QED BY <1>3, <1>4, <1>5, SMTT(30)

LEMMA LessTotal ==
  ASSUME NEW s \in Seq(Nat), NEW t \in Seq(Nat), s # t
  PROVE  Less(s, t) \/ Less(t, s)
<1> DEFINE D == {k \in Nat \ {0} : k > Len(s) \/ k > Len(t) \/ s[k] # t[k]}
<1>1. D \in SUBSET Nat /\ D # {}
  <2>1. Len(s) + 1 \in D
    BY SMTT(30)
  <2> QED BY <2>1
<1> DEFINE k == Least(D)
<1>2. k \in D /\ \A j \in D : k <= j
  BY <1>1, LeastIsLeast
<1> HIDE DEF k
<1>3. k <= Len(s) + 1 /\ k <= Len(t) + 1 /\ Agree(s, t, k - 1)
  <2>1. Len(s) + 1 \in D /\ Len(t) + 1 \in D
    BY SMTT(30)
  <2> QED BY <1>2, <2>1, SMTT(30) DEF Agree
<1>4. ~(k > Len(s) /\ k > Len(t))
  <2> SUFFICES ASSUME k > Len(s), k > Len(t) PROVE FALSE
    OBVIOUS
  <2>1. Len(s) = k - 1 /\ Len(t) = k - 1
    BY <1>2, <1>3, SMTT(30)
  <2> QED BY <1>3, <2>1, SameSequence
<1>5. LessAt(s, t, k) \/ LessAt(t, s, k)
  BY <1>2, <1>3, <1>4, SMTT(30) DEF LessAt, Agree
<1> QED BY <1>2, <1>5, LessMeans

\* Strings between two that begin alike begin like them.
LEMMA Between ==
  ASSUME NEW s \in Seq(Nat), NEW t \in Seq(Nat), NEW u \in Seq(Nat), Less(s, t), Less(t, u),
         NEW n \in Nat, n <= Len(s), n <= Len(u), Agree(s, u, n)
  PROVE  n <= Len(t) /\ Agree(s, t, n)
<1>1. PICK k \in Nat \ {0} : LessAt(s, t, k)
  BY LessMeans
<1>2. PICK l \in Nat \ {0} : LessAt(t, u, l)
  BY LessMeans
<1>3. CASE n < k
  BY <1>1, <1>3, SMTT(30) DEF LessAt, Agree
<1>4. CASE ~(n < k)
  <2>0. k \in 1 .. n /\ k <= Len(s) /\ k <= Len(t)
    BY <1>1, <1>4, SMTT(30) DEF LessAt
  <2>1. s[k] < t[k] /\ s[k] = u[k] /\ s[k] \in Nat /\ t[k] \in Nat
    <3>1. k \in 1 .. Len(s) /\ k \in 1 .. Len(t)
      BY <2>0, SMTT(30)
    <3> QED BY <1>1, <2>0, <3>1, ElementType DEF LessAt, Agree
  <2>2. CASE l > k
    <3>1. t[k] = u[k]
      BY <1>2, <2>2, SMTT(30) DEF LessAt, Agree
    <3> QED BY <2>1, <3>1, SMTT(30)
  <2>3. CASE l = k
    BY <1>2, <2>0, <2>1, <2>3, SMTT(30) DEF LessAt
  <2>4. CASE l < k
    <3>1. l \in 1 .. n /\ l \in 1 .. k - 1 /\ l \in 1 .. Len(t) /\ l <= Len(t)
      BY <2>0, <2>4, SMTT(30)
    <3>2. t[l] = s[l] /\ s[l] = u[l] /\ t[l] \in Nat
      BY <1>1, <3>1, ElementType DEF LessAt, Agree
    <3>3. t[l] < u[l]
      BY <1>2, <3>1 DEF LessAt
    <3> QED BY <3>2, <3>3, SMTT(30)
  <2> QED BY <1>1, <1>2, <2>2, <2>3, <2>4, SMTT(30)
<1> QED BY <1>1, <1>3, <1>4

-----------------------------------------------------------------------------
(* The command table.                                                      *)

Inserted(r, s, i, x, S) ==
  /\ r \in Seq(S)
  /\ Len(r) = Len(s) + 1
  /\ \A j \in 1 .. i : r[j] = s[j]
  /\ r[i + 1] = x
  /\ \A j \in i + 1 .. Len(s), k \in Nat : k = j + 1 => r[k] = s[j]

LEMMA InsertProperties ==
  ASSUME NEW S, NEW s \in Seq(S), NEW i \in 0 .. Len(s), NEW x \in S
  PROVE  Inserted(Insert(s, i, x), s, i, x, S)
<1> DEFINE a == SubSeq(s, 1, i)
           b == SubSeq(s, i + 1, Len(s))
           y == <<x>>
           c == a \o y
           q == c \o b
<1>1. Len(s) \in Nat /\ i \in Nat /\ i <= Len(s)
  BY SMTT(30)
<1>2. a \in Seq(S) /\ Len(a) = i /\ \A j \in 1 .. i : a[j] = s[j]
  BY PrefixProperties
<1>3. b \in Seq(S) /\ Len(b) = Len(s) - i /\ \A j \in 1 .. Len(s) - i : b[j] = s[i + j]
  BY SuffixProperties
<1>4. y \in Seq(S) /\ Len(y) = 1 /\ y[1] = x
  BY SMTT(30)
<1> HIDE DEF a, b, y
<1>a. a \in Seq(S) /\ b \in Seq(S) /\ y \in Seq(S)
  BY <1>2, <1>3, <1>4
<1>5. c \in Seq(S) /\ Len(c) = i + 1 /\ c[i + 1] = x /\ \A j \in 1 .. i : c[j] = s[j]
  <2>1. /\ c \in Seq(S) /\ Len(c) = Len(a) + Len(y)
        /\ \A j \in 1 .. Len(a) : c[j] = a[j]
        /\ \A j \in 1 .. Len(y) : c[Len(a) + j] = y[j]
    BY <1>a, JoinedProperties, SMTT(30)
  <2> HIDE DEF c
  <2> QED BY <1>1, <1>2, <1>4, <2>1, SMTT(30)
<1> HIDE DEF c
<1>6. /\ q \in Seq(S) /\ Len(q) = Len(c) + Len(b)
      /\ \A j \in 1 .. Len(c) : q[j] = c[j]
      /\ \A j \in 1 .. Len(b) : q[Len(c) + j] = b[j]
  <2>1. c \in Seq(S)
    BY <1>5
  <2> QED BY <1>a, <2>1, JoinedProperties, SMTT(30)
<1> HIDE DEF q
<1>7. q \in Seq(S) /\ Len(q) = Len(s) + 1 /\ q[i + 1] = x /\ \A j \in 1 .. i : q[j] = s[j]
  BY <1>1, <1>3, <1>5, <1>6, SMTT(30)
<1>8. ASSUME NEW j \in i + 1 .. Len(s) PROVE q[j + 1] = s[j]
  <2> DEFINE k == j - i
  <2>1. k \in 1 .. Len(s) - i /\ Len(c) + k = j + 1 /\ i + k = j /\ k \in 1 .. Len(b)
    BY <1>1, <1>3, <1>5, SMTT(30)
  <2> HIDE DEF k
  <2>2. b[k] = s[i + k]
    BY <1>3, <2>1
  <2>3. q[Len(c) + k] = b[k]
    BY <1>6, <2>1
  <2> QED BY <2>1, <2>2, <2>3
<1>9. Insert(s, i, x) = q
  BY DEF Insert, a, b, y, c, q
<1>10. Inserted(q, s, i, x, S)
  BY <1>7, <1>8 DEF Inserted
<1> QED BY <1>9, <1>10

\* The list is sorted, without repetitions, and its commands are in the hash table.
TableInv ==
  /\ shell_htable \in [Bucket -> SUBSET Name]
  /\ shell_list \in Seq(Name)
  /\ \A i \in 1 .. Len(shell_list) : Lookup(shell_list[i])
  /\ \A i, j \in 1 .. Len(shell_list) : i < j => Less(shell_list[i], shell_list[j])

LEMMA InitTable == TableInit => TableInv
<1> SUFFICES ASSUME TableInit PROVE TableInv
  OBVIOUS
<1>1. shell_list \in Seq(Name) /\ Len(shell_list) = 0
  BY SMTT(30) DEF TableInit
<1> QED BY <1>1, SMTT(30) DEF TableInit, TableInv

\* shell_cmd_add_list keeps the list sorted.
LEMMA AddListSorted ==
  ASSUME NEW list \in Seq(Name), NEW name \in Name,
         \A i \in 1 .. Len(list) : list[i] # name,
         \A i, j \in 1 .. Len(list) : i < j => Less(list[i], list[j]),
         NEW new, new = AddList(list, name)
  PROVE  /\ new \in Seq(Name)
         /\ \A i \in 1 .. Len(new) : new[i] = name \/ \E j \in 1 .. Len(list) : new[i] = list[j]
         /\ \A i, j \in 1 .. Len(new) : i < j => Less(new[i], new[j])
<1> DEFINE larger == {i \in 1 .. Len(list) : Less(name, list[i])}
           at == IF larger = {} THEN Len(list) ELSE Least(larger) - 1
<1>1. Len(list) \in Nat /\ \A i \in 1 .. Len(list) : list[i] \in Name
  BY SMTT(30)
<1>2. at \in 0 .. Len(list) /\ \A i \in larger : at < i
  <2>1. CASE larger = {}
    BY <1>1, <2>1, SMTT(30)
  <2>2. CASE larger # {}
    <3>1. larger \in SUBSET Nat
      BY SMTT(30)
    <3>2. Least(larger) \in larger /\ \A i \in larger : Least(larger) <= i
      BY <2>2, <3>1, LeastIsLeast
    <3> HIDE DEF larger
    <3>3. Least(larger) \in 1 .. Len(list) /\ \A i \in larger : i \in Int
      BY <3>2, SMTT(30) DEF larger
    <3> QED BY <1>1, <2>2, <3>2, <3>3, SMTT(30)
  <2> QED BY <2>1, <2>2
<1>3. at < Len(list) => at + 1 \in larger
  <2> SUFFICES ASSUME at < Len(list) PROVE at + 1 \in larger
    OBVIOUS
  <2>1. larger # {}
    BY <1>1, SMTT(30)
  <2>2. larger \in SUBSET Nat
    BY SMTT(30)
  <2>3. Least(larger) \in larger
    BY <2>1, <2>2, LeastIsLeast
  <2>4. Least(larger) \in Int
    BY <2>2, <2>3, SMTT(30)
  <2> QED BY <2>1, <2>3, <2>4, SMTT(30)
<1>4. new = Insert(list, at, name)
  BY DEF AddList
<1> HIDE DEF at
<1>5. /\ new \in Seq(Name) /\ Len(new) = Len(list) + 1
      /\ \A j \in 1 .. at : new[j] = list[j]
      /\ new[at + 1] = name
      /\ \A j \in at + 1 .. Len(list), k \in Nat : k = j + 1 => new[k] = list[j]
  <2>1. list \in Seq(Name) /\ at \in 0 .. Len(list) /\ name \in Name
    BY <1>1, <1>2
  <2>2. Inserted(Insert(list, at, name), list, at, name, Name)
    BY <2>1, InsertProperties
  <2> QED BY <1>4, <2>2 DEF Inserted
<1>6. ASSUME NEW i \in 1 .. Len(list), i <= at PROVE Less(list[i], name)
  <2>1. i \notin larger
    BY <1>1, <1>2, <1>6, SMTT(30)
  <2>2. list[i] \in Seq(Nat) /\ name \in Seq(Nat) /\ ~Less(name, list[i])
    BY <1>1, <2>1, TableAssumption
  <2> QED BY <2>2, LessTotal
<1>7. ASSUME NEW i \in 1 .. Len(list), i > at PROVE Less(name, list[i])
  <2>1. at + 1 \in 1 .. Len(list) /\ at < Len(list)
    BY <1>1, <1>2, <1>7, SMTT(30)
  <2>2. Less(name, list[at + 1])
    BY <1>3, <2>1
  <2>3. CASE i = at + 1
    BY <2>2, <2>3
  <2>4. CASE at + 1 < i
    <3>1. Less(list[at + 1], list[i])
      BY <2>1, <2>4
    <3>2. name \in Seq(Nat) /\ list[at + 1] \in Seq(Nat) /\ list[i] \in Seq(Nat)
      BY <1>1, <2>1, TableAssumption
    <3> QED BY <2>2, <3>1, <3>2, LessTransitive
  <2> QED BY <1>2, <1>7, <2>3, <2>4, SMTT(30)
<1> HIDE DEF larger
<1>8. ASSUME NEW i \in 1 .. Len(new)
      PROVE  new[i] = name \/ \E j \in 1 .. Len(list) : new[i] = list[j]
  <2>1. CASE i <= at
    BY <1>1, <1>2, <1>5, <2>1, SMTT(30)
  <2>2. CASE i = at + 1
    BY <1>1, <1>2, <1>5, <2>2
  <2>3. CASE i > at + 1
    <3>1. i - 1 \in at + 1 .. Len(list) /\ (i - 1) + 1 = i /\ i - 1 \in 1 .. Len(list)
      BY <1>1, <1>2, <1>5, <2>3, SMTT(30)
    <3>2. new[i] = list[i - 1]
      BY <1>5, <3>1, SMTT(30)
    <3> QED BY <3>1, <3>2
  <2> QED BY <1>2, <1>5, <2>1, <2>2, <2>3, SMTT(30)
<1>9. ASSUME NEW i \in 1 .. Len(new), NEW j \in 1 .. Len(new), i < j
      PROVE  Less(new[i], new[j])
  <2>1. i \in 1 .. Len(list) + 1 /\ j \in 1 .. Len(list) + 1
    BY <1>5
  <2>2. CASE j <= at
    <3>1. new[i] = list[i] /\ new[j] = list[j] /\ i \in 1 .. Len(list) /\ j \in 1 .. Len(list)
      BY <1>1, <1>2, <1>5, <1>9, <2>1, <2>2, SMTT(30)
    <3> QED BY <1>9, <3>1
  <2>3. CASE j = at + 1
    <3>1. new[i] = list[i] /\ new[j] = name /\ i \in 1 .. Len(list) /\ i <= at
      BY <1>1, <1>2, <1>5, <1>9, <2>1, <2>3, SMTT(30)
    <3> QED BY <1>6, <3>1
  <2>4. ASSUME j > at + 1
        PROVE  new[j] = list[j - 1] /\ j - 1 \in 1 .. Len(list) /\ j - 1 > at
    <3>1. j - 1 \in at + 1 .. Len(list) /\ (j - 1) + 1 = j
      BY <1>1, <1>2, <2>1, <2>4, SMTT(30)
    <3>2. new[j] = list[j - 1]
      BY <1>5, <3>1, SMTT(30)
    <3> QED BY <1>1, <1>2, <3>1, <3>2, SMTT(30)
  <2>5. CASE j > at + 1 /\ i <= at
    <3>1. new[i] = list[i] /\ i < j - 1 /\ i \in 1 .. Len(list)
      BY <1>1, <1>2, <1>5, <1>9, <2>1, <2>5, SMTT(30)
    <3> QED BY <2>4, <2>5, <3>1
  <2>6. CASE j > at + 1 /\ i = at + 1
    BY <1>5, <1>7, <2>4, <2>6
  <2>7. CASE i > at + 1
    <3>1. i - 1 \in at + 1 .. Len(list) /\ (i - 1) + 1 = i /\ i - 1 < j - 1 /\ j > at + 1
          /\ i - 1 \in 1 .. Len(list)
      BY <1>1, <1>2, <1>9, <2>1, <2>7, SMTT(30)
    <3>2. new[i] = list[i - 1]
      BY <1>5, <3>1, SMTT(30)
    <3> QED BY <2>4, <3>1, <3>2
  <2> QED BY <1>2, <1>9, <2>1, <2>2, <2>3, <2>5, <2>6, <2>7, SMTT(30)
<1> QED BY <1>5, <1>8, <1>9

LEMMA RegisterInv ==
  ASSUME TableInv, NEW name \in Name, Register(name)
  PROVE  TableInv'
<1>1. Hash[name] \in Bucket /\ \A n \in Name : Hash[n] \in Bucket
  BY TableAssumption
<1>2. /\ shell_htable' \in [Bucket -> SUBSET Name]
      /\ shell_htable'[Hash[name]] = shell_htable[Hash[name]] \cup {name}
      /\ \A b \in Bucket : shell_htable[b] \subseteq shell_htable'[b]
  BY <1>1 DEF TableInv, Register
<1>3. \A i \in 1 .. Len(shell_list) : shell_list[i] # name /\ shell_list[i] \in Name
  BY SMTT(30) DEF TableInv, Register, Lookup
<1>4. /\ shell_list' \in Seq(Name)
      /\ \A i \in 1 .. Len(shell_list') :
           shell_list'[i] = name \/ \E j \in 1 .. Len(shell_list) : shell_list'[i] = shell_list[j]
      /\ \A i, j \in 1 .. Len(shell_list') : i < j => Less(shell_list'[i], shell_list'[j])
  BY <1>3, AddListSorted, SMTT(30) DEF TableInv, Register
<1>5. ASSUME NEW i \in 1 .. Len(shell_list') PROVE shell_list'[i] \in shell_htable'[Hash[shell_list'[i]]]
  <2>1. CASE shell_list'[i] = name
    BY <1>2, <2>1
  <2>2. CASE \E j \in 1 .. Len(shell_list) : shell_list'[i] = shell_list[j]
    BY <1>1, <1>2, <1>3, <2>2 DEF TableInv, Lookup
  <2> QED BY <1>4, <2>1, <2>2
<1> QED BY <1>2, <1>4, <1>5 DEF TableInv, Lookup

\* The common length that shell_cmd_complete computes from two commands.
LEMMA CommonSizeMeans ==
  ASSUME NEW s \in Seq(Nat), NEW t \in Seq(Nat), NEW k \in Nat,
         k <= Len(s), k <= Len(t), Agree(s, t, k), NEW z, z = CommonSize(s, t, k)
  PROVE  /\ z \in Nat /\ z <= Len(s) /\ z <= Len(t) /\ Agree(s, t, z)
         /\ z < Len(s) => ~(Len(t) >= z + 1 /\ Agree(t, s, z + 1))
<1> DEFINE from == IF k = 0 THEN 1 ELSE k
           K == {i \in from .. Len(s) + 1 :
                   IF i > Len(s) \/ i > Len(t) THEN TRUE ELSE s[i] # t[i]}
           m == Least(K)
<1>1. Len(s) \in Nat /\ Len(t) \in Nat /\ from \in Nat \ {0} /\ from <= Len(s) + 1 /\ from <= k + 1
  BY SMTT(30)
<1> HIDE DEF from
<1>2. Len(s) + 1 \in K
  BY <1>1, SMTT(30)
<1>3. K \in SUBSET Nat
  BY <1>1, SMTT(30)
<1>4. m \in K /\ \A j \in K : m <= j
  BY <1>2, <1>3, LeastIsLeast
<1>5. z = m - 1
  BY DEF CommonSize, from
<1> HIDE DEF m
<1>6. m \in from .. Len(s) + 1 /\ (m <= Len(s) /\ m <= Len(t) => s[m] # t[m])
  BY <1>1, <1>4, SMTT(30)
<1>7. \A i \in from .. m - 1 : i <= Len(t) /\ s[i] = t[i]
  <2> SUFFICES ASSUME NEW i \in from .. m - 1 PROVE i <= Len(t) /\ s[i] = t[i]
    OBVIOUS
  <2>1. i \in from .. Len(s) + 1 /\ i \in Nat /\ i < m
    BY <1>1, <1>6, SMTT(30)
  <2>2. i \notin K
    BY <1>1, <1>4, <1>6, <2>1, SMTT(30)
  <2> QED BY <1>1, <2>1, <2>2, SMTT(30)
<1> HIDE DEF K
<1>8. \A i \in 1 .. m - 1 : i <= Len(t) /\ s[i] = t[i]
  <2> SUFFICES ASSUME NEW i \in 1 .. m - 1 PROVE i <= Len(t) /\ s[i] = t[i]
    OBVIOUS
  <2>1. CASE i < from
    BY <1>1, <2>1, SMTT(30) DEF Agree
  <2>2. CASE i >= from
    BY <1>1, <1>7, <2>2, SMTT(30)
  <2> QED BY <1>1, <2>1, <2>2, SMTT(30)
<1>9. z \in Nat /\ z <= Len(s) /\ z + 1 = m /\ Agree(s, t, z)
  BY <1>1, <1>5, <1>6, <1>8, SMTT(30) DEF Agree
<1>10. z <= Len(t)
  <2>1. CASE z = 0
    BY <1>1, <2>1, SMTT(30)
  <2>2. CASE z # 0
    <3>1. z \in 1 .. m - 1
      BY <1>5, <1>9, <2>2, SMTT(30)
    <3> QED BY <1>8, <3>1
  <2> QED BY <2>1, <2>2
<1>11. ASSUME z < Len(s), Len(t) >= z + 1, Agree(t, s, z + 1) PROVE FALSE
  <2>1. m \in 1 .. z + 1 /\ m <= Len(s) /\ m <= Len(t)
    BY <1>1, <1>9, <1>11, SMTT(30)
  <2> QED BY <1>6, <1>11, <2>1 DEF Agree
<1> QED BY <1>9, <1>10, <1>11

\* The commands that begin like the first k characters of word.
Matches(word, k) ==
  {i \in 1 .. Len(shell_list) : Len(shell_list[i]) >= k /\ Agree(shell_list[i], word, k)}

\* They follow one another in the sorted list.
LEMMA MatchesConvex ==
  ASSUME TableInv, NEW word \in Seq(Nat), NEW k \in 0 .. Len(word),
         NEW i \in Matches(word, k), NEW l \in Matches(word, k),
         NEW j \in 1 .. Len(shell_list), i < j, j < l
  PROVE  j \in Matches(word, k)
<1> DEFINE s == shell_list[i]
           t == shell_list[j]
           u == shell_list[l]
<1>1. /\ i \in 1 .. Len(shell_list) /\ Len(s) >= k /\ Agree(s, word, k)
      /\ l \in 1 .. Len(shell_list) /\ Len(u) >= k /\ Agree(u, word, k)
  BY DEF Matches
<1>2. s \in Seq(Nat) /\ t \in Seq(Nat) /\ u \in Seq(Nat)
  <2>1. s \in Name /\ t \in Name /\ u \in Name
    BY <1>1, ElementType DEF TableInv
  <2> QED BY <2>1, TableAssumption
<1>3. Less(s, t) /\ Less(t, u)
  BY <1>1 DEF TableInv
<1> HIDE DEF s, t, u
<1>4. Agree(s, u, k)
  BY <1>1 DEF Agree
<1>5. k \in Nat /\ k <= Len(s) /\ k <= Len(u)
  BY <1>1, <1>2, SMTT(30)
<1>6. k <= Len(t) /\ Agree(s, t, k)
  BY <1>2, <1>3, <1>4, <1>5, Between
<1>7. Agree(t, word, k)
  BY <1>1, <1>6 DEF Agree
<1>8. Len(t) >= k
  BY <1>2, <1>5, <1>6
<1> QED BY <1>7, <1>8 DEF Matches, t

\* What shell_cmd_complete returns for a word and a size within it.
CompleteResult(word, k, c) ==
  /\ c.found <=> Matches(word, k) # {}
  /\ c.found =>
       /\ c.name \in Name /\ c.size \in 0 .. Len(c.name)
       /\ \A i \in Matches(word, k) : Len(shell_list[i]) >= c.size
                                      /\ Agree(shell_list[i], c.name, c.size)
       /\ c.size < Len(c.name) =>
            \E i \in Matches(word, k) : ~(/\ Len(shell_list[i]) >= c.size + 1
                                          /\ Agree(shell_list[i], c.name, c.size + 1))
       /\ c.again <=> \E i, j \in Matches(word, k) : i # j

LEMMA CompleteCorrect ==
  ASSUME TableInv, NEW word \in Seq(Nat), NEW k \in 0 .. Len(word)
  PROVE  CompleteResult(word, k, Complete(word, k))
<1> DEFINE N == Len(shell_list)
           M == Matches(word, k)
           matching == {i \in 1 .. N : SamePrefix(shell_list[i], word, k)}
           first == Least(matching)
           name == shell_list[first]
           stops == {j \in first + 1 .. N : ~SamePrefix(name, shell_list[j], k)}
           last == (IF stops = {} THEN N + 1 ELSE Least(stops)) - 1
           size == IF last = first THEN Len(name) ELSE CommonSize(name, shell_list[last], k)
           result == [found |-> TRUE, again |-> last > first, name |-> name, size |-> size]
           c == Complete(word, k)
<1>1. N \in Nat /\ k \in Nat /\ \A i \in 1 .. N : shell_list[i] \in Name /\ shell_list[i] \in Seq(Nat)
  BY TableAssumption, SMTT(30) DEF TableInv
<1>2. matching = M
  BY <1>1, SamePrefixMeans DEF Matches
<1>3. c = IF matching = {} THEN NoMatch ELSE result
  BY DEF Complete
<1>4. CASE M = {}
  <2>1. c = NoMatch
    BY <1>2, <1>3, <1>4
  <2> QED BY <1>4, <2>1, SMTT(30) DEF CompleteResult, NoMatch
<1>5. CASE M # {}
  <2>1. M \in SUBSET Nat /\ M \subseteq 1 .. N
    BY <1>1, SMTT(30) DEF Matches
  <2>2. first \in M /\ \A j \in M : first <= j
    BY <1>2, <1>5, <2>1, LeastIsLeast
  <2>3. c = result
    BY <1>2, <1>3, <1>5
  <2> HIDE DEF first, matching
  <2>4. first \in 1 .. N /\ name \in Name /\ name \in Seq(Nat) /\ Len(name) >= k /\ Agree(name, word, k)
    BY <1>1, <2>1, <2>2 DEF Matches
  <2>5. stops = {j \in first + 1 .. N : j \notin M}
    <3>1. ASSUME NEW j \in first + 1 .. N
          PROVE  SamePrefix(name, shell_list[j], k) <=> j \in M
      <4>1. j \in 1 .. N /\ k \in 0 .. Len(name)
        BY <1>1, <2>4, SMTT(30)
      <4>2. shell_list[j] \in Seq(Nat)
        BY <1>1, <4>1
      <4> HIDE DEF name
      <4>3. SamePrefix(shell_list[j], name, k)
              <=> Len(shell_list[j]) >= k /\ Agree(shell_list[j], name, k)
        BY <2>4, <4>1, <4>2, SamePrefixMeans
      <4>4. SamePrefix(name, shell_list[j], k) <=> SamePrefix(shell_list[j], name, k)
        BY DEF SamePrefix
      <4>5. Agree(shell_list[j], name, k) <=> Agree(shell_list[j], word, k)
        BY <2>4 DEF Agree
      <4> QED BY <4>1, <4>3, <4>4, <4>5 DEF Matches
    <3> QED BY <3>1
  <2> HIDE DEF stops
  <2>6. /\ last \in first .. N
        /\ \A j \in first .. last : j \in M
        /\ last < N => last + 1 \in first + 1 .. N /\ last + 1 \notin M
    <3>1. CASE stops = {}
      <4>1. last = N
        BY <1>1, <3>1, SMTT(30)
      <4>2. ASSUME NEW j \in first .. N PROVE j \in M
        <5>1. CASE j = first
          BY <2>2, <5>1
        <5>2. CASE j # first
          BY <1>1, <2>4, <2>5, <3>1, <5>2, SMTT(30)
        <5> QED BY <5>1, <5>2
      <4> QED BY <1>1, <2>4, <4>1, <4>2, SMTT(30)
    <3>2. CASE stops # {}
      <4> DEFINE l == Least(stops)
      <4>1. stops \in SUBSET Nat
        BY <2>4, <2>5, SMTT(30)
      <4>2. l \in stops /\ \A j \in stops : l <= j
        BY <3>2, <4>1, LeastIsLeast
      <4>3. last = l - 1
        BY <3>2
      <4> HIDE DEF l, last
      <4>4. l \in first + 1 .. N /\ l \notin M
        BY <2>5, <4>2
      <4>5. ASSUME NEW j \in first .. l - 1 PROVE j \in M
        <5>1. CASE j = first
          BY <2>2, <5>1
        <5>2. CASE j # first
          <6>1. j \in first + 1 .. N /\ j < l
            BY <1>1, <2>4, <4>4, <5>2, SMTT(30)
          <6>2. j \notin stops
            BY <2>4, <4>2, <4>4, <6>1, SMTT(30)
          <6> QED BY <2>5, <6>1, <6>2
        <5> QED BY <5>1, <5>2
      <4>6. last \in first .. N /\ last + 1 = l
        BY <1>1, <2>4, <4>3, <4>4, SMTT(30)
      <4> QED BY <4>3, <4>4, <4>5, <4>6
    <3> QED BY <3>1, <3>2
  <2> HIDE DEF last
  <2>7. \A j \in M : j <= last
    <3> SUFFICES ASSUME NEW j \in M, ~(j <= last) PROVE FALSE
      OBVIOUS
    <3>1. j \in 1 .. N /\ last < N /\ last + 1 \in first + 1 .. N /\ last + 1 \notin M
      BY <1>1, <2>1, <2>4, <2>6, SMTT(30)
    <3>2. last + 1 # j
      BY <3>1
    <3>3. first < last + 1 /\ last + 1 < j /\ last + 1 \in 1 .. N
      <4>1. first \in Nat /\ last \in Nat /\ first >= 1 /\ first <= last
        BY <2>4, <2>6, SMTT(30)
      <4> QED BY <1>1, <3>1, <3>2, <4>1, SMTT(30)
    <3> QED BY <2>2, <3>1, <3>3, MatchesConvex
  <2>8. last \in M /\ last \in Nat /\ first \in Nat /\ first <= last
    BY <2>4, <2>6, SMTT(30)
  <2>a. c.found = TRUE /\ c.name = name /\ c.size = size /\ c.again = (last > first)
    <3> HIDE DEF c, name, size
    <3> QED BY <2>3
  <2>9. CASE last = first
    <3>1. c.found = TRUE /\ c.name = name /\ c.size = Len(name) /\ c.again = FALSE
      <4>1. size = Len(name)
        BY <2>9
      <4>2. (last > first) = FALSE
        BY <2>8, <2>9, SMTT(30)
      <4> HIDE DEF c, name, size
      <4> QED BY <2>a, <4>1, <4>2
    <3>2. \A i \in M : i = first
      BY <2>1, <2>2, <2>7, <2>9, <2>4, SMTT(30)
    <3>3. Len(name) \in Nat
      BY <2>4, SMTT(30)
    <3>4. \A i \in M : Len(shell_list[i]) >= Len(name) /\ Agree(shell_list[i], name, Len(name))
      BY <3>2, <3>3, SMTT(30) DEF Agree
    <3>5. ~\E i, j \in M : i # j
      BY <3>2
    <3>6. Len(name) \in 0 .. Len(name) /\ ~(Len(name) < Len(name))
      BY <3>3, SMTT(30)
    <3> HIDE DEF name, M, c
    <3> QED BY <1>5, <2>4, <3>1, <3>4, <3>5, <3>6 DEF CompleteResult, M, c
  <2>10. CASE last # first
    <3> DEFINE u == shell_list[last]
               z == CommonSize(name, u, k)
    <3>1. c.found = TRUE /\ c.name = name /\ c.size = z /\ c.again = TRUE
      <4>1. size = z
        BY <2>10
      <4>2. last > first
        BY <2>8, <2>10, SMTT(30)
      <4> HIDE DEF c, name, size, z
      <4> QED BY <2>a, <4>1, <4>2
    <3>2. u \in Seq(Nat) /\ k <= Len(u) /\ Agree(name, u, k)
      <4>1. u \in Seq(Nat) /\ Len(u) >= k /\ Agree(u, word, k)
        BY <1>1, <2>1, <2>8 DEF Matches
      <4> HIDE DEF name, u
      <4>2. Agree(name, u, k)
        BY <2>4, <4>1 DEF Agree
      <4> QED BY <1>1, <4>1, <4>2
    <3> HIDE DEF name, u
    <3>3. /\ z \in Nat /\ z <= Len(name) /\ z <= Len(u) /\ Agree(name, u, z)
          /\ z < Len(name) => ~(Len(u) >= z + 1 /\ Agree(u, name, z + 1))
      BY <1>1, <2>4, <3>2, CommonSizeMeans
    <3> HIDE DEF z
    <3>4. ASSUME NEW i \in M
          PROVE  Len(shell_list[i]) >= z /\ Agree(shell_list[i], name, z)
      <4>0. i \in 1 .. N /\ first <= i /\ i <= last
        BY <2>1, <2>2, <2>7
      <4>1. CASE i = first
        BY <3>3, <4>1 DEF name, Agree
      <4>2. CASE i = last
        BY <3>3, <4>2 DEF u, Agree
      <4>3. CASE i # first /\ i # last
        <5>1. Less(name, shell_list[i]) /\ Less(shell_list[i], u) /\ shell_list[i] \in Seq(Nat)
          BY <1>1, <2>1, <2>2, <2>8, <4>0, <4>3, SMTT(30) DEF TableInv, name, u
        <5>2. z <= Len(shell_list[i]) /\ Agree(name, shell_list[i], z)
          BY <2>4, <3>2, <3>3, <5>1, Between
        <5>3. Agree(shell_list[i], name, z)
          BY <5>2 DEF Agree
        <5> QED BY <3>3, <5>1, <5>2, <5>3
      <4> QED BY <4>1, <4>2, <4>3
    <3>5. z < Len(name) => \E i \in M : ~(/\ Len(shell_list[i]) >= z + 1
                                           /\ Agree(shell_list[i], name, z + 1))
      BY <2>8, <3>3 DEF u
    <3>6. \E i, j \in M : i # j
      BY <2>2, <2>8, <2>10
    <3>7. z \in 0 .. Len(name)
      BY <2>4, <3>3, SMTT(30)
    <3> HIDE DEF M, c
    <3> QED BY <1>5, <2>4, <3>1, <3>4, <3>5, <3>6, <3>7 DEF CompleteResult, M, c
  <2> QED BY <2>9, <2>10
<1> QED BY <1>4, <1>5

LEMMA TableCompletes ==
  ASSUME TableInv
  PROVE  CompletesCommonPrefix
<1> SUFFICES ASSUME NEW n \in Name, NEW k \in 0 .. Len(n)
             PROVE  LET prefix  == SubSeq(n, 1, k)
                        matches == {i \in 1 .. Len(shell_list) : BeginsWith(shell_list[i], prefix)}
                        c       == Complete(prefix, k)
                        Shared(size) == \A i \in matches :
                                          BeginsWith(shell_list[i], SubSeq(c.name, 1, size))
                    IN  /\ c.found <=> matches # {}
                        /\ c.found => /\ c.size <= Len(c.name) /\ Shared(c.size)
                                      /\ ~(Len(c.name) > c.size /\ Shared(c.size + 1))
                                      /\ c.again <=> \E i, j \in matches : i # j
  BY DEF CompletesCommonPrefix
<1> DEFINE prefix == SubSeq(n, 1, k)
           matches == {i \in 1 .. Len(shell_list) : BeginsWith(shell_list[i], prefix)}
           M == Matches(prefix, k)
           c == Complete(prefix, k)
<1>1. \A m \in Name : m \in Seq(Nat)
  BY TableAssumption
<1>2. \A i \in 1 .. Len(shell_list) : shell_list[i] \in Seq(Nat)
  BY <1>1, SMTT(30) DEF TableInv
<1>3. prefix \in Seq(Nat) /\ Len(prefix) = k /\ Agree(prefix, n, k)
  BY <1>1, PrefixProperties DEF Agree
<1>4. ASSUME NEW i \in 1 .. Len(shell_list)
      PROVE  BeginsWith(shell_list[i], prefix) <=> i \in M
  <2>1. BeginsWith(shell_list[i], prefix) <=> Len(shell_list[i]) >= k /\ Agree(shell_list[i], n, k)
    BY <1>1, <1>2, BeginsWithMeans
  <2> HIDE DEF prefix
  <2>2. Agree(shell_list[i], n, k) <=> Agree(shell_list[i], prefix, k)
    BY <1>3 DEF Agree
  <2> QED BY <2>1, <2>2 DEF Matches
<1>5. matches = M
  <2>1. M \subseteq 1 .. Len(shell_list)
    BY DEF Matches
  <2> QED BY <1>4, <2>1
<1> HIDE DEF prefix
<1>6. CompleteResult(prefix, k, c)
  <2>1. k \in 0 .. Len(prefix)
    BY <1>3, SMTT(30)
  <2> QED BY <1>3, <2>1, CompleteCorrect
<1> HIDE DEF matches, M, c
<1>7. ASSUME c.found, NEW size \in 0 .. Len(c.name)
      PROVE  (\A i \in M : BeginsWith(shell_list[i], SubSeq(c.name, 1, size)))
               <=> \A i \in M : Len(shell_list[i]) >= size /\ Agree(shell_list[i], c.name, size)
  <2>1. c.name \in Seq(Nat)
    BY <1>1, <1>6, <1>7 DEF CompleteResult
  <2>2. \A i \in M : shell_list[i] \in Seq(Nat)
    BY <1>2 DEF M, Matches
  <2> QED BY <2>1, <2>2, BeginsWithMeans
<1>8. c.found <=> M # {}
  BY <1>6 DEF CompleteResult, M
<1>9. ASSUME c.found
      PROVE  /\ c.size <= Len(c.name)
             /\ \A i \in M : BeginsWith(shell_list[i], SubSeq(c.name, 1, c.size))
             /\ ~(/\ Len(c.name) > c.size
                  /\ \A i \in M : BeginsWith(shell_list[i], SubSeq(c.name, 1, c.size + 1)))
             /\ c.again <=> \E i, j \in M : i # j
  <2>1. /\ c.name \in Name /\ c.size \in 0 .. Len(c.name)
        /\ \A i \in M : Len(shell_list[i]) >= c.size /\ Agree(shell_list[i], c.name, c.size)
        /\ c.size < Len(c.name) =>
             \E i \in M : ~(/\ Len(shell_list[i]) >= c.size + 1
                            /\ Agree(shell_list[i], c.name, c.size + 1))
        /\ c.again <=> \E i, j \in M : i # j
    BY <1>6, <1>9 DEF CompleteResult, M
  <2>2. Len(c.name) \in Nat
    BY <1>1, <2>1, SMTT(30)
  <2>3. c.size <= Len(c.name)
    BY <2>1, SMTT(30)
  <2>4. \A i \in M : BeginsWith(shell_list[i], SubSeq(c.name, 1, c.size))
    BY <1>7, <1>9, <2>1
  <2>5. ASSUME Len(c.name) > c.size,
               \A i \in M : BeginsWith(shell_list[i], SubSeq(c.name, 1, c.size + 1))
        PROVE  FALSE
    <3>1. c.size + 1 \in 0 .. Len(c.name) /\ c.size < Len(c.name)
      BY <2>1, <2>2, <2>5, SMTT(30)
    <3>2. \A i \in M : Len(shell_list[i]) >= c.size + 1 /\ Agree(shell_list[i], c.name, c.size + 1)
      BY <1>7, <1>9, <2>5, <3>1
    <3> QED BY <2>1, <3>1, <3>2
  <2> QED BY <2>1, <2>3, <2>4, <2>5
<1> QED BY <1>5, <1>8, <1>9 DEF prefix, c, matches

-----------------------------------------------------------------------------
(* The line editor.                                                        *)

LEMMA LineMeans ==
  /\ \A l \in Line : l \in Seq(Char) /\ Len(l) \in Nat /\ Len(l) < LineMax
  /\ \A l \in Seq(Char) : Len(l) < LineMax => l \in Line
  /\ <<>> \in Line /\ Len(<<>>) = 0
<1>1. LineMax \in Nat \ {0}
  BY ShellAssumption
<1>2. ASSUME NEW l \in Line PROVE l \in Seq(Char) /\ Len(l) \in Nat /\ Len(l) < LineMax
  <2>1. PICK n \in 0 .. LineMax - 1 : l \in [1 .. n -> Char]
    BY DEF Line
  <2>2. l \in Seq(Char) /\ Len(l) = n
    BY <1>1, <2>1, SMTT(30)
  <2> QED BY <1>1, <2>2, SMTT(30)
<1>3. ASSUME NEW l \in Seq(Char), Len(l) < LineMax PROVE l \in Line
  <2>1. Len(l) \in 0 .. LineMax - 1 /\ l \in [1 .. Len(l) -> Char]
    BY <1>1, <1>3, SMTT(30)
  <2> QED BY <2>1 DEF Line
<1>4. <<>> \in Seq(Char) /\ Len(<<>>) = 0
  BY SMTT(30)
<1>5. <<>> \in Line
  <2>1. Len(<<>>) < LineMax
    BY <1>1, <1>4, SMTT(30)
  <2> QED BY <1>3, <1>4, <2>1
<1> QED BY <1>2, <1>3, <1>4, <1>5

\* What the terminal shows of a line, and the state of the editor when it does.
Padded(line) ==
  [i \in 1 .. LineMax |-> IF i \in 1 .. Len(line) THEN line[i] ELSE Separator]
Showing(line, cursor) == [cells |-> Padded(line), col |-> cursor]
EditorOf(line, cursor, scr, error) ==
  [line |-> line, cursor |-> cursor, screen |-> scr, error |-> error]
Shown(line, cursor, error) == EditorOf(line, cursor, Showing(line, cursor), error)

LEMMA EditorFields ==
  ASSUME NEW l, NEW c, NEW s, NEW x
  PROVE  /\ EditorOf(l, c, s, x).line = l /\ EditorOf(l, c, s, x).cursor = c
         /\ EditorOf(l, c, s, x).screen = s /\ EditorOf(l, c, s, x).error = x
BY DEF EditorOf

\* Assignments to fields, each as a predicate: the provers do not instantiate
\* equations on records.
SetScreen(l, c, s, x, t) ==
  [EditorOf(l, c, s, x) EXCEPT !.screen = t] = EditorOf(l, c, t, x)
SetCursor(l, c, s, x, d, t) ==
  [EditorOf(l, c, s, x) EXCEPT !.cursor = d, !.screen = t] = EditorOf(l, d, t, x)
SetLine(l, c, s, x, m, d, t) ==
  [EditorOf(l, c, s, x) EXCEPT !.line = m, !.cursor = d, !.screen = t] = EditorOf(m, d, t, x)
TooLong == TRUE
Fits == FALSE
SetError(l, c, s, x) ==
  [EditorOf(l, c, s, x) EXCEPT !.error = TRUE] = EditorOf(l, c, s, TooLong)

LEMMA EditorAssigned ==
  ASSUME NEW l, NEW c, NEW s, NEW x, NEW m, NEW d, NEW t
  PROVE  /\ SetScreen(l, c, s, x, t) /\ SetCursor(l, c, s, x, d, t)
         /\ SetLine(l, c, s, x, m, d, t) /\ SetError(l, c, s, x)
<1> DEFINE e == EditorOf(l, c, s, x)
<1>1. /\ [EditorOf(l, c, s, x) EXCEPT !.line = m] = EditorOf(m, c, s, x)
      /\ [EditorOf(l, c, s, x) EXCEPT !.cursor = d] = EditorOf(l, d, s, x)
      /\ [EditorOf(m, c, s, x) EXCEPT !.cursor = d] = EditorOf(m, d, s, x)
      /\ [EditorOf(l, d, s, x) EXCEPT !.screen = t] = EditorOf(l, d, t, x)
      /\ [EditorOf(m, d, s, x) EXCEPT !.screen = t] = EditorOf(m, d, t, x)
      /\ [EditorOf(l, c, s, x) EXCEPT !.screen = t] = EditorOf(l, c, t, x)
      /\ [EditorOf(l, c, s, x) EXCEPT !.error = TooLong] = EditorOf(l, c, s, TooLong)
  BY SMTT(30) DEF EditorOf
<1>2. /\ [e EXCEPT !.cursor = d, !.screen = t] = [[e EXCEPT !.cursor = d] EXCEPT !.screen = t]
      /\ [e EXCEPT !.line = m, !.cursor = d, !.screen = t]
           = [[[e EXCEPT !.line = m] EXCEPT !.cursor = d] EXCEPT !.screen = t]
      /\ [e EXCEPT !.error = TRUE] = [e EXCEPT !.error = TooLong]
  BY DEF TooLong
<1>3. SetScreen(l, c, s, x, t)
  BY <1>1 DEF SetScreen
<1>4. SetCursor(l, c, s, x, d, t)
  BY <1>1, <1>2 DEF SetCursor
<1>5. SetLine(l, c, s, x, m, d, t)
  BY <1>1, <1>2 DEF SetLine
<1>6. SetError(l, c, s, x)
  BY <1>1, <1>2 DEF SetError
<1> QED BY <1>3, <1>4, <1>5, <1>6

\* The operations on the fields.
RawCharResult(e, c, l, k, s, x, line, rest) ==
  /\ x \/ Len(l) + 1 = LineMax => RawChar(e, c) = EditorOf(l, k, s, TooLong)
  /\ ~(x \/ Len(l) + 1 = LineMax) =>
       RawChar(e, c) = EditorOf(line, k + 1, Left(Put(s, rest), Len(rest) - 1), x)

LEMMA RawCharFields ==
  ASSUME NEW l, NEW k, NEW s, NEW x \in BOOLEAN, NEW c, NEW line, line = Insert(l, k, c),
         NEW rest, rest = SubSeq(line, k + 1, Len(line)),
         NEW e, e = EditorOf(l, k, s, x)
  PROVE  RawCharResult(e, c, l, k, s, x, line, rest)
<1> DEFINE scr == Left(Put(s, rest), Len(rest) - 1)
           d == k + 1
<1>1. e.line = l /\ e.cursor = k /\ e.screen = s /\ e.error = x
  BY EditorFields, SMTT(30)
<1>2. [e EXCEPT !.error = TRUE] = EditorOf(l, k, s, TooLong)
  <2>1. SetError(l, k, s, x)
    BY EditorAssigned
  <2> QED BY <2>1 DEF SetError
<1>3. [e EXCEPT !.line = line, !.cursor = d, !.screen = scr] = EditorOf(line, d, scr, x)
  <2> HIDE DEF scr, d
  <2>1. SetLine(l, k, s, x, line, d, scr)
    BY EditorAssigned
  <2> QED BY <2>1 DEF SetLine
<1>4. ASSUME x \/ Len(l) + 1 = LineMax PROVE RawChar(e, c) = [e EXCEPT !.error = TRUE]
  BY <1>1, <1>4 DEF RawChar
<1>5. ASSUME ~(x \/ Len(l) + 1 = LineMax)
      PROVE  RawChar(e, c) = [e EXCEPT !.line = line, !.cursor = d, !.screen = scr]
  BY <1>1, <1>5 DEF RawChar, LineInsert
<1> QED BY <1>2, <1>3, <1>4, <1>5 DEF RawCharResult

\* Printing text at column c makes a terminal that shows l show line.
Covers(l, line, c, text) ==
  \A i \in 1 .. LineMax :
    IF i \in c + 1 .. c + Len(text) THEN text[i - c] = Padded(line)[i]
    ELSE Padded(l)[i] = Padded(line)[i]

LEMMA PutShows ==
  ASSUME NEW l, NEW line, NEW c, NEW text, Covers(l, line, c, text)
  PROVE  Put(Showing(l, c), text) = Showing(line, c + Len(text))
<1> DEFINE p == Padded(l)
           q == Padded(line)
           r == [i \in 1 .. LineMax |->
                   IF i \in c + 1 .. c + Len(text) THEN text[i - c] ELSE p[i]]
<1>1. Put(Showing(l, c), text) = [cells |-> r, col |-> c + Len(text)]
  BY DEF Put, Showing
<1>2. q = [i \in 1 .. LineMax |-> q[i]]
  BY DEF Padded
<1> HIDE DEF p, q
<1>3. r = [i \in 1 .. LineMax |-> q[i]]
  BY DEF p, q, Covers
<1> QED BY <1>1, <1>2, <1>3 DEF Showing, q

LEMMA LeftShows ==
  ASSUME NEW l, NEW c, NEW n
  PROVE  Left(Showing(l, c), n) = Showing(l, c - n)
BY SMTT(30) DEF Left, Showing

LEMMA PromptShows == Prompt = Showing(<<>>, 0)
<1>1. Padded(<<>>) = Blanks(LineMax)
  BY ShellAssumption, SMTT(30) DEF Padded, Blanks
<1> QED BY <1>1 DEF Prompt, Showing

\* The whole line printed after the prompt, and the cursor moved back.
LEMMA LineShows ==
  ASSUME NEW l \in Line, NEW c \in 0 .. Len(l)
  PROVE  /\ Put(Prompt, l) = Showing(l, Len(l))
         /\ Left(Put(Prompt, l), Len(l) - c) = Showing(l, c)
<1>1. l \in Seq(Char) /\ Len(l) \in Nat /\ Len(l) < LineMax /\ LineMax \in Nat
  BY LineMeans, ShellAssumption
<1>2. Put(Showing(<<>>, 0), l) = Showing(l, 0 + Len(l))
  <2>1. ASSUME NEW i \in 1 .. LineMax
        PROVE  IF i \in 0 + 1 .. 0 + Len(l) THEN l[i - 0] = Padded(l)[i]
               ELSE Padded(<<>>)[i] = Padded(l)[i]
    <3>1. (i \in 0 + 1 .. 0 + Len(l) <=> i \in 1 .. Len(l)) /\ i - 0 = i /\ i \notin 1 .. Len(<<>>)
      BY <1>1, SMTT(30)
    <3> QED BY <3>1 DEF Padded
  <2>2. Covers(<<>>, l, 0, l)
    BY <2>1 DEF Covers
  <2> QED BY <2>2, PutShows, SMTT(30)
<1>3. 0 + Len(l) = Len(l) /\ Len(l) - (Len(l) - c) = c
  BY <1>1, SMTT(30)
<1> QED BY <1>2, <1>3, PromptShows, LeftShows, SMTT(30)

\* The two parts of a line, before and after the cursor.
LEMMA Parts ==
  ASSUME NEW S, NEW a \in Seq(S), NEW b \in Seq(S)
  PROVE  SubSeq(a \o b, 1, Len(a)) = a /\ SubSeq(a \o b, Len(a) + 1, Len(a \o b)) = b
<1> DEFINE l == a \o b
<1>1. Len(a) \in Nat /\ Len(b) \in Nat
  BY SMTT(30)
<1>2. /\ l \in Seq(S) /\ Len(l) = Len(a) + Len(b)
      /\ \A i \in 1 .. Len(a) : l[i] = a[i]
      /\ \A i \in 1 .. Len(b) : l[Len(a) + i] = b[i]
  BY JoinedProperties, SMTT(30)
<1> HIDE DEF l
<1>3. Len(a) \in 0 .. Len(l) /\ Len(l) - Len(a) = Len(b)
  BY <1>1, <1>2, SMTT(30)
<1> DEFINE p == SubSeq(l, 1, Len(a))
           q == SubSeq(l, Len(a) + 1, Len(l))
<1>4. p \in Seq(S) /\ Len(p) = Len(a) /\ \A i \in 1 .. Len(a) : p[i] = l[i]
  BY <1>2, <1>3, PrefixProperties
<1>5. q \in Seq(S) /\ Len(q) = Len(l) - Len(a) /\ \A i \in 1 .. Len(l) - Len(a) : q[i] = l[Len(a) + i]
  BY <1>2, <1>3, SuffixProperties
<1> HIDE DEF p, q
<1>6. Agree(p, a, Len(p))
  BY <1>2, <1>4 DEF Agree
<1>7. Agree(q, b, Len(q))
  BY <1>2, <1>3, <1>5 DEF Agree
<1>8. p = a
  BY <1>4, <1>6, SameSequence
<1>9. q = b
  BY <1>3, <1>5, <1>7, SameSequence
<1> QED BY <1>8, <1>9 DEF p, q, l

Splits(l, c, a, b) == l = a \o b /\ Len(a) = c

LEMMA SplitAt ==
  ASSUME NEW S, NEW l \in Seq(S), NEW c \in 0 .. Len(l)
  PROVE  \E a, b \in Seq(S) : Splits(l, c, a, b)
<1> DEFINE a == SubSeq(l, 1, c)
           b == SubSeq(l, c + 1, Len(l))
           r == a \o b
<1>1. Len(l) \in Nat /\ c \in Nat /\ c <= Len(l)
  BY SMTT(30)
<1>2. a \in Seq(S) /\ Len(a) = c /\ \A i \in 1 .. c : a[i] = l[i]
  BY PrefixProperties
<1>3. b \in Seq(S) /\ Len(b) = Len(l) - c /\ \A i \in 1 .. Len(l) - c : b[i] = l[c + i]
  BY SuffixProperties
<1> HIDE DEF a, b
<1>4. /\ r \in Seq(S) /\ Len(r) = Len(a) + Len(b)
      /\ \A i \in 1 .. Len(a) : r[i] = a[i]
      /\ \A i \in 1 .. Len(b) : r[Len(a) + i] = b[i]
  <2>1. a \in Seq(S) /\ b \in Seq(S)
    BY <1>2, <1>3
  <2> QED BY <2>1, JoinedProperties, SMTT(30)
<1> HIDE DEF r
<1>5. Len(r) = Len(l)
  BY <1>1, <1>2, <1>3, <1>4, SMTT(30)
<1>6. ASSUME NEW i \in 1 .. Len(l) PROVE r[i] = l[i]
  <2>1. CASE i <= c
    BY <1>1, <1>2, <1>4, <2>1, SMTT(30)
  <2>2. CASE ~(i <= c)
    <3> DEFINE k == i - c
    <3>1. k \in 1 .. Len(l) - c /\ k \in 1 .. Len(b) /\ c + k = i /\ Len(a) + k = i
      BY <1>1, <1>2, <1>3, <2>2, SMTT(30)
    <3> HIDE DEF k
    <3> QED BY <1>3, <1>4, <3>1
  <2> QED BY <2>1, <2>2
<1>7. r = l
  <2>1. Agree(r, l, Len(r))
    BY <1>5, <1>6 DEF Agree
  <2> QED BY <1>4, <1>5, <2>1, SameSequence
<1> QED BY <1>2, <1>3, <1>7 DEF r, Splits

Regroups(a, b, c) == (a \o b) \o c = a \o (b \o c)

LEMMA Associative ==
  ASSUME NEW a \in Seq(Char), NEW b \in Seq(Char), NEW c \in Seq(Char)
  PROVE  Regroups(a, b, c)
BY SMTT(30) DEF Regroups

LEMMA OneElement ==
  ASSUME NEW S, NEW x \in S
  PROVE  <<x>> \in Seq(S) /\ Len(<<x>>) = 1 /\ <<x>>[1] = x
BY SMTT(30)

\* Every character that the terminal shows of a line in two parts.
LEMMA PaddedParts ==
  ASSUME NEW a \in Seq(Char), NEW b \in Seq(Char), NEW i \in 1 .. LineMax
  PROVE  /\ i <= Len(a) => Padded(a \o b)[i] = a[i]
         /\ \A k \in 1 .. Len(b) : i = Len(a) + k => Padded(a \o b)[i] = b[k]
         /\ i > Len(a) + Len(b) => Padded(a \o b)[i] = Separator
<1> DEFINE l == a \o b
<1>1. Len(a) \in Nat /\ Len(b) \in Nat
  BY SMTT(30)
<1>2. /\ l \in Seq(Char) /\ Len(l) = Len(a) + Len(b)
      /\ \A j \in 1 .. Len(a) : l[j] = a[j]
      /\ \A j \in 1 .. Len(b) : l[Len(a) + j] = b[j]
  BY JoinedProperties, SMTT(30)
<1> HIDE DEF l
<1>3. Padded(l)[i] = IF i \in 1 .. Len(l) THEN l[i] ELSE Separator
  BY DEF Padded
<1>4. i <= Len(a) => Padded(l)[i] = a[i]
  BY <1>1, <1>2, <1>3, SMTT(30)
<1>5. \A k \in 1 .. Len(b) : i = Len(a) + k => Padded(l)[i] = b[k]
  BY <1>1, <1>2, <1>3, SMTT(30)
<1>6. i > Len(a) + Len(b) => Padded(l)[i] = Separator
  BY <1>1, <1>2, <1>3, SMTT(30)
<1> QED BY <1>4, <1>5, <1>6 DEF l

\* Printing the rest of a line shows it, unless something longer was there.
LEMMA CoversRest ==
  ASSUME NEW a \in Seq(Char), NEW r \in Seq(Char), NEW t \in Seq(Char), Len(r) <= Len(t)
  PROVE  Put(Showing(a \o r, Len(a)), t) = Showing(a \o t, Len(a) + Len(t))
<1>1. Len(a) \in Nat /\ Len(r) \in Nat /\ Len(t) \in Nat /\ LineMax \in Nat
  BY ShellAssumption, SMTT(30)
<1>2. ASSUME NEW i \in 1 .. LineMax
      PROVE  IF i \in Len(a) + 1 .. Len(a) + Len(t) THEN t[i - Len(a)] = Padded(a \o t)[i]
             ELSE Padded(a \o r)[i] = Padded(a \o t)[i]
  <2> DEFINE p == Padded(a \o r)[i]
             q == Padded(a \o t)[i]
  <2>1. /\ i <= Len(a) => p = a[i] /\ q = a[i]
        /\ \A k \in 1 .. Len(t) : i = Len(a) + k => q = t[k]
        /\ i > Len(a) + Len(r) => p = Separator
        /\ i > Len(a) + Len(t) => q = Separator
    BY PaddedParts
  <2> HIDE DEF p, q
  <2>2. CASE i \in Len(a) + 1 .. Len(a) + Len(t)
    <3> DEFINE k == i - Len(a)
    <3>1. k \in 1 .. Len(t) /\ i = Len(a) + k
      BY <1>1, <2>2, SMTT(30)
    <3>2. q = t[k]
      BY <2>1, <3>1, SMTT(30)
    <3> QED BY <2>2, <3>2 DEF q
  <2>3. CASE i <= Len(a)
    <3>1. i \notin Len(a) + 1 .. Len(a) + Len(t)
      BY <1>1, <2>3, SMTT(30)
    <3> QED BY <2>1, <2>3, <3>1 DEF p, q
  <2>4. CASE i > Len(a) + Len(t)
    <3>1. i \notin Len(a) + 1 .. Len(a) + Len(t) /\ i > Len(a) + Len(r)
      BY <1>1, <2>4, SMTT(30)
    <3> QED BY <2>1, <2>4, <3>1 DEF p, q
  <2> QED BY <1>1, <2>2, <2>3, <2>4, SMTT(30)
<1>3. Covers(a \o r, a \o t, Len(a), t)
  BY <1>2 DEF Covers
<1> QED BY <1>3, PutShows, SMTT(30)

\* Blanks at the end of a line do not show.
LEMMA BlanksDoNotShow ==
  ASSUME NEW a \in Seq(Char), NEW t \in Seq(Char), \A k \in 1 .. Len(t) : t[k] = Separator, NEW c
  PROVE  Showing(a \o t, c) = Showing(a, c)
<1>1. Len(a) \in Nat /\ Len(t) \in Nat /\ LineMax \in Nat
  BY ShellAssumption, SMTT(30)
<1>2. ASSUME NEW i \in 1 .. LineMax PROVE Padded(a \o t)[i] = Padded(a)[i]
  <2> DEFINE p == Padded(a \o t)[i]
  <2>0. Padded(a)[i] = IF i \in 1 .. Len(a) THEN a[i] ELSE Separator
    BY DEF Padded
  <2>1. /\ i <= Len(a) => p = a[i]
        /\ \A k \in 1 .. Len(t) : i = Len(a) + k => p = t[k]
        /\ i > Len(a) + Len(t) => p = Separator
    BY PaddedParts
  <2> HIDE DEF p
  <2>2. CASE i \in Len(a) + 1 .. Len(a) + Len(t)
    <3> DEFINE k == i - Len(a)
    <3>1. k \in 1 .. Len(t) /\ i = Len(a) + k /\ i \notin 1 .. Len(a)
      BY <1>1, <2>2, SMTT(30)
    <3>2. p = t[k] /\ t[k] = Separator
      BY <2>1, <3>1, SMTT(30)
    <3> QED BY <2>0, <3>1, <3>2 DEF p
  <2>3. CASE i <= Len(a)
    <3>1. i \in 1 .. Len(a)
      BY <1>1, <2>3, SMTT(30)
    <3> QED BY <2>0, <2>1, <2>3, <3>1 DEF p
  <2>4. CASE i > Len(a) + Len(t)
    <3>1. i \notin 1 .. Len(a)
      BY <1>1, <2>4, SMTT(30)
    <3> QED BY <2>0, <2>1, <2>4, <3>1 DEF p
  <2> QED BY <1>1, <2>2, <2>3, <2>4, SMTT(30)
<1> DEFINE p == Padded(a \o t)
           q == Padded(a)
<1>3. p = [i \in 1 .. LineMax |-> p[i]] /\ q = [i \in 1 .. LineMax |-> q[i]]
  BY DEF Padded
<1> HIDE DEF p, q
<1>4. p = q
  <2>1. \A i \in 1 .. LineMax : p[i] = q[i]
    BY <1>2 DEF p, q
  <2> QED BY <1>3, <2>1
<1> QED BY <1>4 DEF Showing, p, q

\* The editor with the cursor between the two parts of the line.
At(a, b, error) == Shown(a \o b, Len(a), error)

\* shell_process_raw_char inserts the character at the cursor, or reports a
\* line that is too long, and the terminal follows.
LEMMA RawCharAt ==
  ASSUME NEW a \in Seq(Char), NEW b \in Seq(Char), NEW c \in Char
  PROVE  /\ Len(a) + Len(b) + 1 = LineMax => RawChar(At(a, b, Fits), c) = At(a, b, TooLong)
         /\ Len(a) + Len(b) + 1 # LineMax => RawChar(At(a, b, Fits), c) = At(a \o <<c>>, b, Fits)
         /\ RawChar(At(a, b, TooLong), c) = At(a, b, TooLong)
<1> DEFINE l == a \o b
           y == <<c>>
           line == (a \o y) \o b
           t == y \o b
<1>1. Len(a) \in Nat /\ Len(b) \in Nat
  BY SMTT(30)
<1>2. y \in Seq(Char) /\ Len(y) = 1
  BY OneElement
<1>3. Insert(l, Len(a), c) = line
  <2>1. SubSeq(l, 1, Len(a)) = a /\ SubSeq(l, Len(a) + 1, Len(l)) = b
    BY Parts, SMTT(30)
  <2> HIDE DEF l
  <2> QED BY <2>1 DEF Insert
<1> HIDE DEF y
<1>4. t \in Seq(Char) /\ Len(t) = Len(b) + 1
  <2>1. t \in Seq(Char) /\ Len(t) = Len(y) + Len(b)
    BY <1>2, JoinedProperties
  <2> HIDE DEF t
  <2> QED BY <1>1, <1>2, <2>1, SMTT(30)
<1>5. line = a \o t
  <2>1. Regroups(a, y, b)
    BY <1>2, Associative
  <2> QED BY <2>1 DEF Regroups
<1>6. SubSeq(line, Len(a) + 1, Len(line)) = t
  <2> HIDE DEF line, t
  <2>1. SubSeq(a \o t, Len(a) + 1, Len(a \o t)) = t
    <3>1. t \in Seq(Char)
      BY <1>4
    <3> QED BY <3>1, Parts, SMTT(30)
  <2> QED BY <1>5, <2>1
<1>7. Len(l) = Len(a) + Len(b)
  BY JoinedProperties
<1>8. Len(a \o y) = Len(a) + 1
  <2>1. Len(a \o y) = Len(a) + Len(y)
    BY <1>2, JoinedProperties
  <2> QED BY <1>2, <2>1
<1>9. Left(Put(Showing(l, Len(a)), t), Len(t) - 1) = Showing(line, Len(a) + 1)
  <2>1. Put(Showing(l, Len(a)), t) = Showing(a \o t, Len(a) + Len(t))
    <3>1. Len(b) <= Len(t)
      BY <1>1, <1>4, SMTT(30)
    <3> HIDE DEF t
    <3> QED BY <1>4, <3>1, CoversRest, SMTT(30)
  <2> HIDE DEF t, line, l
  <2>2. Left(Showing(line, Len(a) + Len(t)), Len(t) - 1)
          = Showing(line, Len(a) + Len(t) - (Len(t) - 1))
    BY LeftShows, SMTT(30)
  <2>3. Len(a) + Len(t) - (Len(t) - 1) = Len(a) + 1
    BY <1>1, <1>4, SMTT(30)
  <2> QED BY <1>5, <2>1, <2>2, <2>3
<1>10. /\ At(a, b, Fits) = Shown(l, Len(a), Fits)
       /\ At(a, b, TooLong) = Shown(l, Len(a), TooLong)
       /\ At(a \o y, b, Fits) = Shown(line, Len(a) + 1, Fits)
  BY <1>8 DEF At
<1> HIDE DEF l, line, t
<1>11. ASSUME NEW x \in BOOLEAN
       PROVE  /\ x \/ Len(l) + 1 = LineMax =>
                   RawChar(Shown(l, Len(a), x), c) = Shown(l, Len(a), TooLong)
              /\ ~(x \/ Len(l) + 1 = LineMax) =>
                   RawChar(Shown(l, Len(a), x), c) = Shown(line, Len(a) + 1, x)
  <2> DEFINE e == Shown(l, Len(a), x)
  <2>1. e = EditorOf(l, Len(a), Showing(l, Len(a)), x)
    BY DEF Shown
  <2> HIDE DEF e
  <2>2. line = Insert(l, Len(a), c) /\ t = SubSeq(line, Len(a) + 1, Len(line))
    BY <1>3, <1>6
  <2>3. RawCharResult(e, c, l, Len(a), Showing(l, Len(a)), x, line, t)
    BY <2>1, <2>2, RawCharFields
  <2> QED BY <1>9, <2>3 DEF Shown, e, RawCharResult
<1>12. TooLong \in BOOLEAN /\ TooLong /\ Fits \in BOOLEAN /\ ~Fits
  BY DEF TooLong, Fits
<1> QED BY <1>7, <1>10, <1>11, <1>12 DEF y

BackspaceResult(e, line, k, s, x, rest) ==
  Backspace(e) = EditorOf(line, k - 1, Left(Put(Left(s, 1), rest), Len(rest)), x)

LEMMA BackspaceFields ==
  ASSUME NEW l, NEW k, k # 0, NEW s, NEW x, NEW line, line = LineErase(l, k - 1),
         NEW rest, rest = SubSeq(line, k, Len(line)) \o <<Separator>>,
         NEW e, e = EditorOf(l, k, s, x)
  PROVE  BackspaceResult(e, line, k, s, x, rest)
<1> DEFINE scr == Left(Put(Left(s, 1), rest), Len(rest))
           d == k - 1
<1>1. e.line = l /\ e.cursor = k /\ e.screen = s
  BY EditorFields, SMTT(30)
<1>2. [e EXCEPT !.line = line, !.cursor = d, !.screen = scr] = EditorOf(line, d, scr, x)
  <2> HIDE DEF scr, d
  <2>1. SetLine(l, k, s, x, line, d, scr)
    BY EditorAssigned
  <2> QED BY <2>1 DEF SetLine
<1>3. Backspace(e) = [e EXCEPT !.line = line, !.cursor = d, !.screen = scr]
  BY <1>1 DEF Backspace
<1> QED BY <1>2, <1>3 DEF BackspaceResult

\* shell_process_backspace removes the character before the cursor, if there
\* is one, and the terminal follows.
LEMMA BackspaceAt ==
  ASSUME NEW a \in Seq(Char), NEW b \in Seq(Char), NEW c \in Char, NEW x
  PROVE  Backspace(At(a \o <<c>>, b, x)) = At(a, b, x)
<1> DEFINE y == <<c>>
           z == <<Separator>>
           p == a \o y
           l == p \o b
           u == y \o b
           line == a \o b
           t == b \o z
           k == Len(p)
<1>1. Len(a) \in Nat /\ Len(b) \in Nat /\ Separator \in Char
  BY ShellAssumption, SMTT(30)
<1>2. y \in Seq(Char) /\ Len(y) = 1 /\ z \in Seq(Char) /\ Len(z) = 1 /\ z[1] = Separator
  BY <1>1, OneElement
<1> HIDE DEF y, z
<1>a. y \in Seq(Char) /\ z \in Seq(Char)
  BY <1>2
<1>3. p \in Seq(Char) /\ k = Len(a) + 1
  <2>1. p \in Seq(Char) /\ Len(p) = Len(a) + Len(y)
    BY <1>a, JoinedProperties
  <2> QED BY <1>2, <2>1
<1>4. u \in Seq(Char) /\ Len(u) = Len(b) + 1
  <2>1. u \in Seq(Char) /\ Len(u) = Len(y) + Len(b)
    BY <1>a, JoinedProperties
  <2> HIDE DEF u
  <2> QED BY <1>1, <1>2, <2>1, SMTT(30)
<1>5. t \in Seq(Char) /\ Len(t) = Len(b) + 1
  <2>1. t \in Seq(Char) /\ Len(t) = Len(b) + Len(z)
    BY <1>a, JoinedProperties
  <2> HIDE DEF t
  <2> QED BY <1>1, <1>2, <2>1
<1>6. l = a \o u
  <2>1. Regroups(a, y, b)
    BY <1>a, Associative
  <2> QED BY <2>1 DEF Regroups
<1>7. a \o t = line \o z
  <2>1. Regroups(a, b, z)
    BY <1>a, Associative
  <2> QED BY <2>1 DEF Regroups
<1>8. SubSeq(l, 1, Len(a)) = a
  <2>1. SubSeq(a \o u, 1, Len(a)) = a
    <3> HIDE DEF u
    <3> QED BY <1>4, Parts, SMTT(30)
  <2> HIDE DEF l, u
  <2> QED BY <1>6, <2>1
<1>9. SubSeq(l, Len(p) + 1, Len(l)) = b
  <2> HIDE DEF p
  <2> QED BY <1>3, Parts, SMTT(30)
<1>10. line \in Seq(Char) /\ SubSeq(line, Len(a) + 1, Len(line)) = b
  BY Parts, JoinedProperties
<1>11. LineErase(l, k - 1) = line
  <2>1. k - 1 = Len(a) /\ (k - 1) + 2 = Len(p) + 1
    BY <1>1, <1>3, SMTT(30)
  <2> HIDE DEF l, p, k
  <2> QED BY <1>8, <1>9, <2>1 DEF LineErase
<1>12. SubSeq(line, k, Len(line)) \o <<Separator>> = t
  <2> HIDE DEF line, k, p
  <2> QED BY <1>3, <1>10 DEF z
<1>13. Left(Put(Left(Showing(l, k), 1), t), Len(t)) = Showing(line, Len(a))
  <2> HIDE DEF l, u, t, line, k, p
  <2>1. Left(Showing(l, k), 1) = Showing(l, k - 1) /\ k - 1 = Len(a)
    BY <1>1, <1>3, LeftShows, SMTT(30)
  <2>2. Put(Showing(a \o u, Len(a)), t) = Showing(a \o t, Len(a) + Len(t))
    <3>1. Len(u) <= Len(t) /\ u \in Seq(Char) /\ t \in Seq(Char)
      BY <1>1, <1>4, <1>5, SMTT(30)
    <3> QED BY <3>1, CoversRest, SMTT(30)
  <2> DEFINE n == Len(a) + Len(t)
  <2>3. n - Len(t) = Len(a)
    BY <1>1, <1>5, SMTT(30)
  <2> HIDE DEF n
  <2>4. Showing(line \o z, n) = Showing(line, n)
    <3>1. \A i \in 1 .. Len(z) : z[i] = Separator
      BY <1>2, SMTT(30)
    <3> QED BY <1>2, <1>10, <3>1, BlanksDoNotShow, SMTT(30)
  <2>5. Left(Showing(line, n), Len(t)) = Showing(line, n - Len(t))
    BY LeftShows
  <2> QED BY <1>6, <1>7, <2>1, <2>2, <2>3, <2>4, <2>5 DEF n
<1>14. At(p, b, x) = EditorOf(l, k, Showing(l, k), x) /\ At(a, b, x) = EditorOf(line, Len(a), Showing(line, Len(a)), x)
  BY DEF At, Shown
<1>15. k # 0 /\ k - 1 = Len(a)
  BY <1>1, <1>3, SMTT(30)
<1> DEFINE e == At(p, b, x)
<1> HIDE DEF l, u, t, line, k, p, e
<1>16. BackspaceResult(e, line, k, Showing(l, k), x, t)
  <2>1. e = EditorOf(l, k, Showing(l, k), x) /\ line = LineErase(l, k - 1)
        /\ t = SubSeq(line, k, Len(line)) \o <<Separator>>
    BY <1>11, <1>12, <1>14 DEF e
  <2> QED BY <1>15, <2>1, BackspaceFields
<1> QED BY <1>13, <1>14, <1>15, <1>16 DEF BackspaceResult, e, p, y

LEMMA BackspaceAtStart ==
  ASSUME NEW b \in Seq(Char), NEW x
  PROVE  Backspace(At(<<>>, b, x)) = At(<<>>, b, x)
<1> DEFINE e == At(<<>>, b, x)
<1>1. e.cursor = 0
  BY EditorFields, SMTT(30) DEF At, Shown
<1> HIDE DEF e
<1> QED BY <1>1 DEF Backspace, e

\* Moves of the cursor.
LEMMA MoveToShown ==
  ASSUME NEW l, NEW c \in Int, NEW d \in Int, NEW x
  PROVE  MoveTo(Shown(l, c, x), d) = Shown(l, d, x)
<1> DEFINE e == Shown(l, c, x)
           s == Showing(l, c)
           scr == Left(s, c - d)
<1>1. e.cursor = c /\ e.screen = s
  BY EditorFields, SMTT(30) DEF Shown
<1>2. scr = Showing(l, d)
  <2>1. c - (c - d) = d
    BY SMTT(30)
  <2> QED BY <2>1, LeftShows, SMTT(30)
<1>3. e = EditorOf(l, c, s, x)
  BY DEF Shown
<1> HIDE DEF s, e
<1>4. MoveTo(e, d) = [e EXCEPT !.cursor = d, !.screen = scr]
  BY <1>1 DEF MoveTo
<1> HIDE DEF scr
<1>5. SetCursor(l, c, s, x, d, scr)
  BY EditorAssigned
<1>6. MoveTo(e, d) = EditorOf(l, d, scr, x)
  BY <1>3, <1>4, <1>5 DEF SetCursor
<1> QED BY <1>2, <1>6 DEF Shown, e

LEMMA BlanksProperties ==
  ASSUME NEW n \in Nat
  PROVE  /\ Blanks(n) \in Seq(Char) /\ Len(Blanks(n)) = n
         /\ \A i \in 1 .. Len(Blanks(n)) : Blanks(n)[i] = Separator
<1>1. Separator \in Char
  BY ShellAssumption
<1>2. Blanks(n) \in [1 .. n -> Char]
  BY <1>1 DEF Blanks
<1>3. Blanks(n) \in Seq(Char) /\ Len(Blanks(n)) = n
  BY <1>2, SMTT(30)
<1> QED BY <1>3 DEF Blanks

LEMMA EmptyBefore ==
  ASSUME NEW S, NEW a \in Seq(S)
  PROVE  <<>> \o a = a /\ a \o <<>> = a /\ <<>> \in Seq(S) /\ Len(<<>>) = 0
BY SMTT(30)

\* shell_erase: blanks over the line, from the cursor and then from the start.
LEMMA EraseShown ==
  ASSUME NEW l \in Line, NEW c \in 0 .. Len(l)
  PROVE  Left(Put(Left(Put(Showing(l, c), Blanks(Len(l) - c)), Len(l)), Blanks(Len(l))), Len(l))
           = Prompt
<1>1. l \in Seq(Char) /\ Len(l) \in Nat /\ c \in Nat /\ c <= Len(l)
  BY LineMeans, SMTT(30)
<1>0. PICK a, b \in Seq(Char) : Splits(l, c, a, b)
  BY <1>1, SplitAt
<1>2. l = a \o b /\ Len(a) = c
  BY <1>0 DEF Splits
<1>3. Len(l) = Len(a) + Len(b)
  BY <1>2, JoinedProperties
<1> DEFINE n == Len(l) - c
           t == Blanks(n)
           w == Blanks(Len(l))
<1>4. n \in Nat /\ n = Len(b) /\ c + n = Len(l)
  BY <1>1, <1>2, <1>3, SMTT(30)
<1> HIDE DEF n
<1>5. /\ t \in Seq(Char) /\ Len(t) = n /\ \A i \in 1 .. Len(t) : t[i] = Separator
      /\ w \in Seq(Char) /\ Len(w) = Len(l) /\ \A i \in 1 .. Len(w) : w[i] = Separator
  BY <1>1, <1>4, BlanksProperties
<1> HIDE DEF t, w
<1>6. Put(Showing(l, c), t) = Showing(a, Len(l))
  <2>1. Put(Showing(a \o b, Len(a)), t) = Showing(a \o t, Len(a) + Len(t))
    <3>1. Len(b) <= Len(t) /\ t \in Seq(Char)
      BY <1>4, <1>5, SMTT(30)
    <3> QED BY <3>1, CoversRest, SMTT(30)
  <2>2. Showing(a \o t, Len(l)) = Showing(a, Len(l))
    BY <1>5, BlanksDoNotShow
  <2> QED BY <1>2, <1>4, <1>5, <2>1, <2>2
<1>7. Left(Showing(a, Len(l)), Len(l)) = Showing(a, 0)
  <2>1. Len(l) - Len(l) = 0
    BY <1>1, SMTT(30)
  <2> QED BY <2>1, LeftShows
<1>8. Put(Showing(a, 0), w) = Showing(<<>>, Len(l))
  <2> DEFINE z == <<>>
  <2>1. z \in Seq(Char) /\ Len(z) = 0 /\ z \o a = a
    BY EmptyBefore
  <2> HIDE DEF z
  <2>2. Put(Showing(z \o a, Len(z)), w) = Showing(z \o w, Len(z) + Len(w))
    <3>1. Len(a) <= Len(w) /\ w \in Seq(Char) /\ z \in Seq(Char)
      BY <1>3, <1>5, <2>1, SMTT(30)
    <3> QED BY <3>1, CoversRest, SMTT(30)
  <2>3. Showing(z \o w, Len(l)) = Showing(z, Len(l))
    BY <1>5, <2>1, BlanksDoNotShow
  <2>4. Len(z) + Len(w) = Len(l)
    BY <1>1, <1>5, <2>1, SMTT(30)
  <2> QED BY <2>1, <2>2, <2>3, <2>4 DEF z
<1>9. Left(Showing(<<>>, Len(l)), Len(l)) = Showing(<<>>, 0)
  <2>1. Len(l) - Len(l) = 0
    BY <1>1, SMTT(30)
  <2> QED BY <2>1, LeftShows
<1> QED BY <1>6, <1>7, <1>8, <1>9, PromptShows DEF n, t, w

LEMMA ReplaceShown ==
  ASSUME NEW l \in Line, NEW c \in 0 .. Len(l), NEW m \in Line, NEW x
  PROVE  Replace(Shown(l, c, x), m) = Shown(m, Len(m), x)
<1> DEFINE e == Shown(l, c, x)
           s == Showing(l, c)
           erased == Left(Put(Left(Put(s, Blanks(Len(l) - c)), Len(l)), Blanks(Len(l))), Len(l))
           scr == Put(erased, m)
<1>1. e.line = l /\ e.cursor = c /\ e.screen = s
  BY EditorFields, SMTT(30) DEF Shown
<1>2. scr = Showing(m, Len(m))
  <2>1. erased = Prompt
    BY EraseShown
  <2>2. Len(m) \in 0 .. Len(m)
    BY LineMeans, SMTT(30)
  <2> HIDE DEF erased
  <2> QED BY <2>1, <2>2, LineShows
<1>3. e = EditorOf(l, c, s, x)
  BY DEF Shown
<1> HIDE DEF s, e
<1>4. Replace(e, m) = [e EXCEPT !.line = m, !.cursor = Len(m), !.screen = scr]
  BY <1>1 DEF Replace
<1> HIDE DEF scr
<1>5. SetLine(l, c, s, x, m, Len(m), scr)
  BY EditorAssigned
<1>6. Replace(e, m) = EditorOf(m, Len(m), scr, x)
  BY <1>3, <1>4, <1>5 DEF SetLine
<1> QED BY <1>2, <1>6 DEF Shown, e

\* A prefix and the next element.
LEMMA PrefixGrows ==
  ASSUME NEW S, NEW s \in Seq(S), NEW n \in Nat, n < Len(s)
  PROVE  SubSeq(s, 1, n + 1) = SubSeq(s, 1, n) \o <<s[n + 1]>>
<1> DEFINE p == SubSeq(s, 1, n)
           q == SubSeq(s, 1, n + 1)
           y == <<s[n + 1]>>
           r == p \o y
<1>1. n \in 0 .. Len(s) /\ n + 1 \in 0 .. Len(s) /\ n + 1 \in 1 .. Len(s) /\ Len(s) \in Nat
  BY SMTT(30)
<1>2. p \in Seq(S) /\ Len(p) = n /\ \A i \in 1 .. n : p[i] = s[i]
  BY <1>1, PrefixProperties
<1>3. q \in Seq(S) /\ Len(q) = n + 1 /\ \A i \in 1 .. n + 1 : q[i] = s[i]
  BY <1>1, PrefixProperties
<1>4. y \in Seq(S) /\ Len(y) = 1 /\ y[1] = s[n + 1]
  BY <1>1, ElementType, OneElement
<1> HIDE DEF p, q, y
<1>5. /\ r \in Seq(S) /\ Len(r) = Len(p) + Len(y)
      /\ \A i \in 1 .. Len(p) : r[i] = p[i]
      /\ \A i \in 1 .. Len(y) : r[Len(p) + i] = y[i]
  <2>1. p \in Seq(S) /\ y \in Seq(S)
    BY <1>2, <1>4
  <2> QED BY <2>1, JoinedProperties, SMTT(30)
<1> HIDE DEF r
<1>6. Len(r) = Len(q) /\ Agree(q, r, Len(q))
  BY <1>1, <1>2, <1>3, <1>4, <1>5, SMTT(30) DEF Agree
<1>7. q = r
  BY <1>3, <1>5, <1>6, SameSequence
<1> QED BY <1>7 DEF q, r, p, y

\* The loop of the completion that erases: it stops before the cursor is at
\* the start of the line, and leaves the part after the cursor alone.
LEMMA BackspacesAt ==
  ASSUME NEW a \in Seq(Char), NEW b \in Seq(Char), NEW x, NEW n \in 0 .. Len(a)
  PROVE  Backspaces(At(a, b, x), n) = At(SubSeq(a, 1, Len(a) - n), b, x)
<1> DEFINE e == At(a, b, x)
           Turn(g) == [k \in 0 .. n |-> IF k = 0 THEN e ELSE Backspace(g[k - 1])]
           Before(k) == SubSeq(a, 1, Len(a) - k)
           f == [k \in 0 .. n |-> At(Before(k), b, x)]
           w == CHOOSE g : g = Turn(g)
<1>1. Len(a) \in Nat /\ n \in Nat /\ n <= Len(a)
  BY SMTT(30)
<1>2. Before(0) = a
  <2>1. Len(a) - 0 = Len(a) /\ SubSeq(a, 1, Len(a)) = a
    BY <1>1, SMTT(30)
  <2> QED BY <2>1
<1>3. ASSUME NEW k \in 0 .. n, k # 0
      PROVE  Backspace(At(Before(k - 1), b, x)) = At(Before(k), b, x)
  <2> DEFINE m == Len(a) - k
  <2>1. m \in Nat /\ m < Len(a) /\ Len(a) - (k - 1) = m + 1 /\ m \in 0 .. Len(a) /\ m + 1 \in 1 .. Len(a)
    BY <1>1, <1>3, SMTT(30)
  <2> HIDE DEF m
  <2>2. SubSeq(a, 1, m + 1) = SubSeq(a, 1, m) \o <<a[m + 1]>>
    BY <2>1, PrefixGrows
  <2>3. SubSeq(a, 1, m) \in Seq(Char) /\ a[m + 1] \in Char
    BY <2>1, PrefixProperties, ElementType
  <2>4. Backspace(At(SubSeq(a, 1, m) \o <<a[m + 1]>>, b, x)) = At(SubSeq(a, 1, m), b, x)
    <3> DEFINE u == SubSeq(a, 1, m)
               v == a[m + 1]
    <3> HIDE DEF u, v
    <3>0. u \in Seq(Char) /\ v \in Char
      BY <2>3 DEF u, v
    <3>1. Backspace(At(u \o <<v>>, b, x)) = At(u, b, x)
      BY <3>0, BackspaceAt
    <3> QED BY <3>1 DEF u, v
  <2> QED BY <2>1, <2>2, <2>4 DEF m
<1> HIDE DEF e, Before
<1>4. \A k \in 0 .. n : f[k] = At(Before(k), b, x)
  OBVIOUS
<1>5. f = Turn(f)
  <2>1. ASSUME NEW k \in 0 .. n PROVE f[k] = Turn(f)[k]
    <3>1. CASE k = 0
      BY <1>2, <1>4, <3>1 DEF e
    <3>2. CASE k # 0
      <4>1. k - 1 \in 0 .. n
        BY <1>1, <3>2, SMTT(30)
      <4>2. f[k - 1] = At(Before(k - 1), b, x)
        BY <1>4, <4>1
      <4> QED BY <1>3, <1>4, <3>2, <4>2
    <3> QED BY <3>1, <3>2
  <2> QED BY <2>1
<1>6. w = Turn(w)
  BY <1>5
<1> HIDE DEF w, f
<1>7. ASSUME NEW k \in 0 .. n PROVE w[k] = f[k]
  <2> DEFINE B == {i \in 0 .. n : w[i] # f[i]}
  <2> SUFFICES ASSUME B # {} PROVE FALSE
    OBVIOUS
  <2>1. PICK m \in B : \A i \in B : m <= i
    <3>1. B \in SUBSET Nat
      BY <1>1, SMTT(30)
    <3> HIDE DEF B
    <3> QED BY <3>1, LeastElement
  <2>2. w[m] = IF m = 0 THEN e ELSE Backspace(w[m - 1])
    BY <1>6
  <2>3. f[m] = IF m = 0 THEN e ELSE Backspace(f[m - 1])
    BY <1>5
  <2>4. m # 0 => w[m - 1] = f[m - 1]
    BY <1>1, <2>1, SMTT(30)
  <2> QED BY <2>1, <2>2, <2>3, <2>4
<1>8. Backspaces(e, n) = w[n]
  BY DEF Backspaces, w
<1>9. n \in 0 .. n
  BY <1>1, SMTT(30)
<1> QED BY <1>4, <1>7, <1>8, <1>9 DEF e, Before

\* The loop of the completion that types the name: all of it, or what fits
\* before the error.
Typed(a, b, s, k, x) ==
  /\ Len(a) + Len(b) + k < LineMax
  /\ RawChars(At(a, b, Fits), s) = At(a \o SubSeq(s, 1, k), b, x)
  /\ x => Len(a) + Len(b) + Len(s) >= LineMax
  /\ ~x => k = Len(s)

LEMMA RawCharsAt ==
  ASSUME NEW a \in Seq(Char), NEW b \in Seq(Char), NEW s \in Seq(Char),
         Len(a) + Len(b) < LineMax
  PROVE  \E k \in 0 .. Len(s), x \in BOOLEAN : Typed(a, b, s, k, x)
<1> DEFINE e == At(a, b, Fits)
           n == Len(s)
           m == LineMax - 1 - (Len(a) + Len(b))
           Turn(g) == [k \in 0 .. n |-> IF k = 0 THEN e ELSE RawChar(g[k - 1], s[k])]
           Before(k) == a \o SubSeq(s, 1, k)
           Value(k) == IF k <= m THEN At(Before(k), b, Fits) ELSE At(Before(m), b, TooLong)
           f == [k \in 0 .. n |-> Value(k)]
           w == CHOOSE g : g = Turn(g)
<1>1. Len(a) \in Nat /\ Len(b) \in Nat /\ n \in Nat /\ m \in Nat /\ LineMax \in Nat
      /\ Len(a) + Len(b) + m + 1 = LineMax
  BY ShellAssumption, SMTT(30)
<1> HIDE DEF m
<1>2. Before(0) = a
  <2>1. SubSeq(s, 1, 0) = <<>>
    BY SMTT(30)
  <2> QED BY <2>1, EmptyBefore
<1>3. ASSUME NEW k \in 0 .. n
      PROVE  Before(k) \in Seq(Char) /\ Len(Before(k)) = Len(a) + k
  <2> DEFINE p == SubSeq(s, 1, k)
  <2>1. p \in Seq(Char) /\ Len(p) = k
    BY <1>1, PrefixProperties
  <2> HIDE DEF p
  <2>2. a \o p \in Seq(Char) /\ Len(a \o p) = Len(a) + Len(p)
    <3>1. p \in Seq(Char)
      BY <2>1
    <3> QED BY <3>1, JoinedProperties
  <2> QED BY <2>1, <2>2 DEF p
<1>4. ASSUME NEW k \in 0 .. n, k < n
      PROVE  Before(k) \o <<s[k + 1]>> = Before(k + 1) /\ s[k + 1] \in Char
  <2> DEFINE p == SubSeq(s, 1, k)
             y == <<s[k + 1]>>
  <2>1. k \in Nat /\ k < Len(s) /\ k + 1 \in 1 .. Len(s) /\ k \in 0 .. Len(s)
    BY <1>1, <1>4, SMTT(30)
  <2>2. SubSeq(s, 1, k + 1) = p \o y
    BY <2>1, PrefixGrows
  <2>3. s[k + 1] \in Char
    BY <2>1, ElementType
  <2>4. p \in Seq(Char) /\ y \in Seq(Char)
    BY <2>1, <2>3, PrefixProperties, OneElement
  <2> HIDE DEF p, y
  <2>5. (a \o p) \o y = a \o (p \o y)
    <3>1. Regroups(a, p, y)
      BY <2>4, Associative
    <3> QED BY <3>1 DEF Regroups
  <2> QED BY <2>2, <2>3, <2>5 DEF p, y
<1> HIDE DEF Before
<1>5. ASSUME NEW k \in 0 .. n, k # 0 PROVE RawChar(Value(k - 1), s[k]) = Value(k)
  <2> DEFINE j == k - 1
             p == Before(j)
  <2>1. j \in 0 .. n /\ j < n /\ j + 1 = k /\ j \in Nat
    BY <1>1, <1>5, SMTT(30)
  <2> HIDE DEF j
  <2>2. /\ p \in Seq(Char) /\ Len(p) = Len(a) + j
        /\ p \o <<s[k]>> = Before(k) /\ s[k] \in Char
    BY <1>3, <1>4, <2>1
  <2> HIDE DEF p
  <2>3. /\ Len(p) + Len(b) + 1 = LineMax => RawChar(At(p, b, Fits), s[k]) = At(p, b, TooLong)
        /\ Len(p) + Len(b) + 1 # LineMax =>
             RawChar(At(p, b, Fits), s[k]) = At(p \o <<s[k]>>, b, Fits)
        /\ RawChar(At(p, b, TooLong), s[k]) = At(p, b, TooLong)
    BY <2>2, RawCharAt
  <2>4. CASE k <= m
    <3>1. Len(p) + Len(b) + 1 # LineMax /\ j <= m
      BY <1>1, <2>1, <2>2, <2>4, SMTT(30)
    <3>2. Value(j) = At(p, b, Fits) /\ Value(k) = At(p \o <<s[k]>>, b, Fits)
      BY <2>2, <2>4, <3>1 DEF p
    <3> QED BY <2>3, <3>1, <3>2 DEF j
  <2>5. CASE k = m + 1
    <3>1. j = m /\ j <= m /\ ~(k <= m) /\ Len(p) + Len(b) + 1 = LineMax
      BY <1>1, <2>1, <2>2, <2>5, SMTT(30)
    <3>2. Value(j) = At(p, b, Fits) /\ Value(k) = At(p, b, TooLong)
      BY <3>1 DEF p
    <3> QED BY <2>3, <3>1, <3>2 DEF j
  <2>6. CASE k > m + 1
    <3>1. ~(j <= m) /\ ~(k <= m) /\ m \in 0 .. n
      BY <1>1, <2>1, <2>6, SMTT(30)
    <3>2. Value(j) = At(Before(m), b, TooLong) /\ Value(k) = At(Before(m), b, TooLong)
      BY <3>1
    <3>3. RawChar(At(Before(m), b, TooLong), s[k]) = At(Before(m), b, TooLong)
      BY <1>3, <2>2, <3>1, RawCharAt
    <3> QED BY <3>2, <3>3 DEF j
  <2> QED BY <1>1, <2>4, <2>5, <2>6, SMTT(30)
<1>6. Value(0) = e
  BY <1>1, <1>2, SMTT(30)
<1> HIDE DEF e, Value
<1>7. \A k \in 0 .. n : f[k] = Value(k)
  OBVIOUS
<1>8. f = Turn(f)
  <2>1. ASSUME NEW k \in 0 .. n PROVE f[k] = Turn(f)[k]
    <3>1. CASE k = 0
      BY <1>6, <1>7, <3>1
    <3>2. CASE k # 0
      <4>1. k - 1 \in 0 .. n
        BY <1>1, <3>2, SMTT(30)
      <4>2. f[k - 1] = Value(k - 1)
        BY <1>7, <4>1
      <4> QED BY <1>5, <1>7, <3>2, <4>2
    <3> QED BY <3>1, <3>2
  <2> QED BY <2>1
<1>9. w = Turn(w)
  BY <1>8
<1> HIDE DEF w, f
<1>10. ASSUME NEW k \in 0 .. n PROVE w[k] = f[k]
  <2> DEFINE B == {i \in 0 .. n : w[i] # f[i]}
  <2> SUFFICES ASSUME B # {} PROVE FALSE
    OBVIOUS
  <2>1. PICK q \in B : \A i \in B : q <= i
    <3>1. B \in SUBSET Nat
      BY <1>1, SMTT(30)
    <3> HIDE DEF B
    <3> QED BY <3>1, LeastElement
  <2>2. w[q] = IF q = 0 THEN e ELSE RawChar(w[q - 1], s[q])
    BY <1>9
  <2>3. f[q] = IF q = 0 THEN e ELSE RawChar(f[q - 1], s[q])
    BY <1>8
  <2>4. q # 0 => w[q - 1] = f[q - 1]
    BY <1>1, <2>1, SMTT(30)
  <2> QED BY <2>1, <2>2, <2>3, <2>4
<1>11. RawChars(e, s) = w[n]
  BY DEF RawChars, w
<1>12. n \in 0 .. n
  BY <1>1, SMTT(30)
<1>13. RawChars(At(a, b, Fits), s) = Value(n)
  BY <1>7, <1>10, <1>11, <1>12 DEF e
<1>14. TooLong \in BOOLEAN /\ Fits \in BOOLEAN /\ TooLong /\ ~Fits
  BY DEF TooLong, Fits
<1>15. CASE n <= m
  <2>1. n \in 0 .. Len(s) /\ Len(a) + Len(b) + n < LineMax
    BY <1>1, <1>15, SMTT(30)
  <2>2. Value(n) = At(a \o SubSeq(s, 1, n), b, Fits)
    BY <1>15 DEF Value, Before
  <2>3. Typed(a, b, s, n, Fits)
    BY <1>13, <1>14, <2>1, <2>2 DEF Typed
  <2> QED BY <1>14, <2>1, <2>3
<1>16. CASE ~(n <= m)
  <2>1. m \in 0 .. Len(s) /\ Len(a) + Len(b) + m < LineMax /\ Len(a) + Len(b) + n >= LineMax
    BY <1>1, <1>16, SMTT(30)
  <2>2. Value(n) = At(a \o SubSeq(s, 1, m), b, TooLong)
    BY <1>16 DEF Value, Before
  <2>3. Typed(a, b, s, m, TooLong)
    BY <1>13, <1>14, <2>1, <2>2 DEF Typed
  <2> QED BY <1>14, <2>1, <2>3
<1> QED BY <1>15, <1>16

-----------------------------------------------------------------------------
(* The invariant of the shell thread, and the end of every handler.        *)

ShellInv ==
  /\ TableInv
  /\ shell_history \in [0 .. HistorySize - 1 -> Line]
  /\ shell_history_oldest \in Nat /\ shell_history_newest \in Nat /\ shell_history_index \in Nat
  /\ shell_history_oldest <= shell_history_index /\ shell_history_index <= shell_history_newest
  /\ shell_history_newest - shell_history_oldest < HistorySize
  /\ shell_cursor \in 0 .. Len(Current)
  /\ screen = Showing(Current, shell_cursor)

Steady(e) ==
  \E l \in Line : \E c \in 0 .. Len(l), x \in BOOLEAN : e = Shown(l, c, x)

LEMMA SlotType ==
  ASSUME NEW i \in Int
  PROVE  Slot(i) \in 0 .. HistorySize - 1
BY ShellAssumption, SMTT(30) DEF Slot

LEMMA CurrentType ==
  ASSUME ShellInv
  PROVE  /\ Current \in Line /\ Current \in Seq(Char) /\ Len(Current) \in Nat
         /\ Len(Current) < LineMax /\ shell_cursor \in 0 .. Len(Current)
         /\ Slot(shell_history_newest) \in 0 .. HistorySize - 1
<1>1. Slot(shell_history_newest) \in 0 .. HistorySize - 1
  <2>1. shell_history_newest \in Nat
    BY DEF ShellInv
  <2>2. shell_history_newest \in Int
    BY <2>1, SMTT(30)
  <2> QED BY <2>2, SlotType
<1>2. Current \in Line
  BY <1>1 DEF ShellInv, Current
<1> QED BY <1>1, <1>2, LineMeans DEF ShellInv

LEMMA EditorShown ==
  ASSUME ShellInv
  PROVE  Editor = Shown(Current, shell_cursor, Fits) /\ Steady(Editor)
<1>1. Editor = Shown(Current, shell_cursor, Fits)
  <2>1. screen = Showing(Current, shell_cursor)
    BY DEF ShellInv
  <2> QED BY <2>1 DEF Editor, Shown, EditorOf, Fits
<1>2. Fits \in BOOLEAN
  BY DEF Fits
<1>3. Steady(Editor)
  BY <1>1, <1>2, CurrentType DEF Steady
<1> QED BY <1>1, <1>3

\* The two parts of the line that the editor shows.
LEMMA EditorAt ==
  ASSUME NEW l \in Line, NEW c \in 0 .. Len(l), NEW x
  PROVE  \E a, b \in Seq(Char) :
           /\ l = a \o b /\ Len(a) = c /\ Len(a) + Len(b) < LineMax
           /\ Shown(l, c, x) = At(a, b, x)
<1>1. l \in Seq(Char) /\ Len(l) < LineMax
  BY LineMeans
<1>0. PICK a, b \in Seq(Char) : Splits(l, c, a, b)
  BY <1>1, SplitAt
<1>2. l = a \o b /\ Len(a) = c
  BY <1>0 DEF Splits
<1>3. Len(a \o b) = Len(a) + Len(b)
  BY JoinedProperties
<1>4. Len(a) + Len(b) < LineMax
  BY <1>1, <1>2, <1>3
<1>5. Shown(l, c, x) = At(a, b, x)
  BY <1>2 DEF At
<1> QED BY <1>2, <1>4, <1>5

LEMMA AtSteady ==
  ASSUME NEW a \in Seq(Char), NEW b \in Seq(Char), Len(a) + Len(b) < LineMax, NEW x \in BOOLEAN
  PROVE  /\ a \o b \in Line /\ Len(a) \in 0 .. Len(a \o b)
         /\ Steady(At(a, b, x))
<1>1. Len(a) \in Nat /\ Len(b) \in Nat
  BY SMTT(30)
<1>2. a \o b \in Seq(Char) /\ Len(a \o b) = Len(a) + Len(b)
  BY JoinedProperties
<1>3. a \o b \in Line
  BY <1>2, LineMeans
<1>4. Len(a) \in 0 .. Len(a \o b)
  BY <1>1, <1>2, SMTT(30)
<1>5. Steady(At(a, b, x))
  BY <1>3, <1>4 DEF Steady, At
<1> QED BY <1>3, <1>4, <1>5

LEMMA RawCharSteady ==
  ASSUME NEW e, Steady(e), NEW c \in Char
  PROVE  Steady(RawChar(e, c))
<1>1. PICK l \in Line : \E k \in 0 .. Len(l), x \in BOOLEAN : e = Shown(l, k, x)
  BY DEF Steady
<1>2. PICK k \in 0 .. Len(l), x \in BOOLEAN : e = Shown(l, k, x)
  BY <1>1
<1>3. PICK a, b \in Seq(Char) :
        /\ l = a \o b /\ Len(a) = k /\ Len(a) + Len(b) < LineMax
        /\ Shown(l, k, x) = At(a, b, x)
  BY EditorAt
<1>4. e = At(a, b, x)
  BY <1>2, <1>3
<1>5. TooLong \in BOOLEAN /\ Fits \in BOOLEAN /\ (x = TooLong \/ x = Fits)
  BY DEF TooLong, Fits
<1>6. Steady(At(a, b, TooLong))
  BY <1>3, <1>5, AtSteady
<1>7. ASSUME Len(a) + Len(b) + 1 # LineMax PROVE Steady(At(a \o <<c>>, b, Fits))
  <2> DEFINE y == <<c>>
  <2>1. y \in Seq(Char) /\ Len(y) = 1
    BY OneElement
  <2> HIDE DEF y
  <2> DEFINE q == a \o y
  <2>2. q \in Seq(Char) /\ Len(q) = Len(a) + Len(y)
    <3>1. y \in Seq(Char)
      BY <2>1
    <3> QED BY <3>1, JoinedProperties
  <2> HIDE DEF q
  <2>3. Len(q) + Len(b) < LineMax
    <3>1. Len(a) \in Nat /\ Len(b) \in Nat /\ LineMax \in Nat
      BY ShellAssumption, SMTT(30)
    <3>2. Len(a) + Len(b) < LineMax
      BY <1>3
    <3> QED BY <1>7, <2>1, <2>2, <3>1, <3>2, SMTT(30)
  <2> QED BY <1>5, <2>2, <2>3, AtSteady DEF q, y
<1>8. /\ Len(a) + Len(b) + 1 = LineMax => RawChar(At(a, b, Fits), c) = At(a, b, TooLong)
      /\ Len(a) + Len(b) + 1 # LineMax => RawChar(At(a, b, Fits), c) = At(a \o <<c>>, b, Fits)
      /\ RawChar(At(a, b, TooLong), c) = At(a, b, TooLong)
  BY RawCharAt
<1> QED BY <1>4, <1>5, <1>6, <1>7, <1>8

LEMMA BackspaceSteady ==
  ASSUME NEW e, Steady(e)
  PROVE  Steady(Backspace(e))
<1>1. PICK l \in Line : \E k \in 0 .. Len(l), x \in BOOLEAN : e = Shown(l, k, x)
  BY DEF Steady
<1>2. PICK k \in 0 .. Len(l), x \in BOOLEAN : e = Shown(l, k, x)
  BY <1>1
<1>3. PICK a, b \in Seq(Char) :
        /\ l = a \o b /\ Len(a) = k /\ Len(a) + Len(b) < LineMax
        /\ Shown(l, k, x) = At(a, b, x)
  BY EditorAt
<1>4. e = At(a, b, x)
  BY <1>2, <1>3
<1>5. CASE a = <<>>
  <2>1. Backspace(e) = e
    BY <1>4, <1>5, BackspaceAtStart
  <2> QED BY <2>1
<1>6. CASE a # <<>>
  <2> DEFINE n == Len(a) - 1
             p == SubSeq(a, 1, n)
             c == a[n + 1]
  <2>1. n \in Nat /\ n < Len(a) /\ n + 1 = Len(a) /\ n + 1 \in 1 .. Len(a) /\ n \in 0 .. Len(a)
    BY <1>6, SMTT(30)
  <2> HIDE DEF n
  <2>2. SubSeq(a, 1, n + 1) = p \o <<c>> /\ SubSeq(a, 1, Len(a)) = a
    BY <2>1, PrefixGrows, SMTT(30)
  <2>3. p \in Seq(Char) /\ Len(p) = n /\ c \in Char
    BY <2>1, PrefixProperties, ElementType
  <2> HIDE DEF p, c
  <2>4. a = p \o <<c>>
    BY <2>1, <2>2
  <2>5. Backspace(At(p \o <<c>>, b, x)) = At(p, b, x)
    BY <2>3, BackspaceAt, SMTT(30)
  <2>6. Len(p) + Len(b) < LineMax
    <3>1. Len(a) \in Nat /\ Len(b) \in Nat /\ LineMax \in Nat
      BY ShellAssumption, SMTT(30)
    <3> QED BY <1>3, <2>1, <2>3, <3>1, SMTT(30)
  <2>7. Steady(At(p, b, x))
    BY <2>3, <2>6, AtSteady
  <2> QED BY <1>4, <2>4, <2>5, <2>7
<1> QED BY <1>5, <1>6

LEMMA MovesSteady ==
  ASSUME NEW l \in Line, NEW c \in 0 .. Len(l), NEW x \in BOOLEAN
  PROVE  /\ \A d \in 0 .. Len(l) : Steady(MoveTo(Shown(l, c, x), d))
         /\ Steady(Delete(Shown(l, c, x)))
         /\ \A m \in Line : Steady(Replace(Shown(l, c, x), m))
<1>1. Len(l) \in Nat /\ c \in Int /\ c <= Len(l) /\ c >= 0
  BY LineMeans, SMTT(30)
<1>2. ASSUME NEW d \in 0 .. Len(l)
      PROVE  MoveTo(Shown(l, c, x), d) = Shown(l, d, x) /\ Steady(Shown(l, d, x))
  <2>1. d \in Int
    BY <1>1, SMTT(30)
  <2>2. MoveTo(Shown(l, c, x), d) = Shown(l, d, x)
    BY <1>1, <2>1, MoveToShown
  <2>3. Steady(Shown(l, d, x))
    BY DEF Steady
  <2> QED BY <2>2, <2>3
<1>3. Steady(Delete(Shown(l, c, x)))
  <2> DEFINE e == Shown(l, c, x)
  <2>1. e.line = l /\ e.cursor = c
    BY EditorFields, SMTT(30) DEF Shown
  <2>2. Steady(e)
    BY DEF Steady
  <2> HIDE DEF e
  <2>3. CASE c = Len(l)
    <3>1. Delete(e) = e
      BY <2>1, <2>3 DEF Delete
    <3> QED BY <2>2, <3>1 DEF e
  <2>4. CASE c # Len(l)
    <3>1. c + 1 \in 0 .. Len(l)
      BY <1>1, <2>4, SMTT(30)
    <3>2. Delete(e) = Backspace(MoveTo(e, c + 1))
      BY <2>1, <2>4 DEF Delete
    <3>3. Steady(MoveTo(e, c + 1))
      BY <1>2, <3>1 DEF e
    <3>4. Steady(Backspace(MoveTo(e, c + 1)))
      BY <3>3, BackspaceSteady
    <3> QED BY <3>2, <3>4 DEF e
  <2> QED BY <2>3, <2>4
<1>4. ASSUME NEW m \in Line PROVE Steady(Replace(Shown(l, c, x), m))
  <2>1. Replace(Shown(l, c, x), m) = Shown(m, Len(m), x)
    BY ReplaceShown
  <2>2. Len(m) \in 0 .. Len(m)
    BY LineMeans, SMTT(30)
  <2>3. Steady(Shown(m, Len(m), x))
    BY <2>2 DEF Steady
  <2> QED BY <2>1, <2>3
<1> QED BY <1>2, <1>3, <1>4

\* The slot of the current line, and the others.
Here == Slot(shell_history_newest)

Settled ==
  /\ shell_history' \in [0 .. HistorySize - 1 -> Line]
  /\ shell_cursor' \in 0 .. Len(shell_history'[Here])
  /\ screen' = Showing(shell_history'[Here], shell_cursor')
  /\ \A i \in 0 .. HistorySize - 1 : i # Here => shell_history'[i] = shell_history[i]

LEMMA BecomesShown ==
  ASSUME ShellInv, NEW l \in Line, NEW c \in 0 .. Len(l), NEW x \in BOOLEAN,
         NEW e, e = Shown(l, c, x), Becomes(e)
  PROVE  /\ Settled
         /\ x => shell_history'[Here] = <<>>
         /\ ~x => shell_history'[Here] = l /\ shell_cursor' = c
<1> DEFINE s == Showing(l, c)
           z == <<>>
<1>1. e = EditorOf(l, c, s, x)
  BY DEF Shown
<1>2. e.line = l /\ e.cursor = c /\ e.screen = s /\ e.error = x
  BY <1>1, EditorFields, SMTT(30)
<1>3. Here \in 0 .. HistorySize - 1 /\ shell_history \in [0 .. HistorySize - 1 -> Line]
  BY CurrentType DEF Here, ShellInv
<1>4. z \in Line /\ Len(z) = 0 /\ 0 \in 0 .. Len(z)
  BY LineMeans, SMTT(30)
<1>5. ASSUME NEW m \in Line, NEW d \in 0 .. Len(m),
             shell_history' = [shell_history EXCEPT ![Here] = m],
             shell_cursor' = d, screen' = Showing(m, d)
      PROVE  Settled /\ shell_history'[Here] = m
  <2>1. shell_history'[Here] = m
    BY <1>3, <1>5
  <2>2. shell_history' \in [0 .. HistorySize - 1 -> Line]
    BY <1>3, <1>5
  <2>3. \A i \in 0 .. HistorySize - 1 : i # Here => shell_history'[i] = shell_history[i]
    BY <1>3, <1>5
  <2> QED BY <1>5, <2>1, <2>2, <2>3 DEF Settled
<1> HIDE DEF z, s
<1>6. CASE x
  <2> DEFINE f == [e EXCEPT !.line = z, !.cursor = 0, !.screen = Prompt]
  <2>1. SetLine(l, c, s, x, z, 0, Prompt)
    BY EditorAssigned
  <2>2. f = EditorOf(z, 0, Prompt, x)
    BY <1>1, <2>1 DEF SetLine
  <2>3. f.line = z /\ f.cursor = 0 /\ f.screen = Prompt
    <3> HIDE DEF f
    <3> QED BY <2>2, EditorFields, SMTT(30)
  <2>4. /\ shell_history' = [shell_history EXCEPT ![Here] = f.line]
        /\ shell_cursor' = f.cursor /\ screen' = f.screen
    BY <1>2, <1>6 DEF Becomes, Here, z
  <2> HIDE DEF f
  <2>5. screen' = Showing(z, 0)
    BY <2>3, <2>4, PromptShows DEF z
  <2>6. shell_history' = [shell_history EXCEPT ![Here] = z] /\ shell_cursor' = 0
    BY <2>3, <2>4
  <2>7. Settled /\ shell_history'[Here] = z
    BY <1>4, <1>5, <2>5, <2>6
  <2> QED BY <1>6, <2>7 DEF z
<1>7. CASE ~x
  <2>1. /\ shell_history' = [shell_history EXCEPT ![Here] = l]
        /\ shell_cursor' = c /\ screen' = Showing(l, c)
    BY <1>2, <1>7 DEF Becomes, Here, s
  <2>2. Settled /\ shell_history'[Here] = l
    BY <1>5, <2>1
  <2> QED BY <1>7, <2>1, <2>2
<1> QED BY <1>6, <1>7

LEMMA BecomesSteady ==
  ASSUME ShellInv, NEW e, Steady(e), Becomes(e)
  PROVE  Settled
<1>1. PICK l \in Line : \E c \in 0 .. Len(l), x \in BOOLEAN : e = Shown(l, c, x)
  BY DEF Steady
<1>2. PICK c \in 0 .. Len(l), x \in BOOLEAN : e = Shown(l, c, x)
  BY <1>1
<1> QED BY <1>2, BecomesShown

-----------------------------------------------------------------------------
(* The completion of the line.                                             *)

LEMMA WordStartType ==
  ASSUME NEW l \in Line
  PROVE  WordStart(l) \in 0 .. Len(l)
<1> DEFINE S == {i \in 0 .. Len(l) : i = Len(l) \/ l[i + 1] # Separator}
<1>1. Len(l) \in Nat
  BY LineMeans
<1>2. S \in SUBSET Nat /\ S \in SUBSET (0 .. Len(l)) /\ Len(l) \in S
  BY <1>1, SMTT(30)
<1>3. Least(S) \in S
  <2> HIDE DEF S
  <2> QED BY <1>2, LeastIsLeast
<1>4. WordStart(l) = Least(S)
  BY DEF WordStart
<1> HIDE DEF S
<1> QED BY <1>2, <1>3, <1>4

\* With the cursor in the word or after it, shell_cmd_complete is given a
\* part of the word, and what it returns can be typed.
LEMMA CompletionTypeable ==
  ASSUME ShellInv, shell_cursor >= WordStart(Current), NEW c, c = Complete(Word, WordSize), c.found
  PROVE  SubSeq(c.name, 1, c.size) \in Seq(Char)
<1> DEFINE ws == WordStart(Current)
           len == Len(Current)
<1>1. Current \in Line /\ Current \in Seq(Char) /\ len \in Nat /\ len < LineMax /\ shell_cursor \in 0 .. len
  BY CurrentType
<1>2. ws \in 0 .. len
  BY <1>1, WordStartType
<1>3. Word \in Seq(Char) /\ Len(Word) = len - ws
  BY <1>1, <1>2, SuffixProperties DEF Word
<1>4. Word \in Seq(Nat)
  <2>1. Char \subseteq Nat
    BY ShellAssumption
  <2>2. \A i \in 1 .. Len(Word) : Word[i] \in Nat
    BY <1>3, <2>1, ElementType
  <2> QED BY <1>3, <2>2, SMTT(30)
<1> HIDE DEF ws, len
<1>5. WordSize = shell_cursor - ws /\ WordSize \in 0 .. Len(Word)
  <2>1. shell_cursor - ws \in Nat /\ shell_cursor - ws < SizeRange /\ SizeRange \in Nat \ {0}
    BY <1>1, <1>2, ShellAssumption, SMTT(30) DEF ws
  <2>2. (shell_cursor - ws) % SizeRange = shell_cursor - ws
    BY <2>1, SMTT(30)
  <2>3. WordSize = shell_cursor - ws
    BY <2>2 DEF WordSize, ws
  <2>4. shell_cursor - ws \in 0 .. len - ws
    BY <1>1, <1>2, <2>1, SMTT(30)
  <2> QED BY <1>3, <2>3, <2>4
<1>6. CompleteResult(Word, WordSize, c)
  <2>1. TableInv
    BY DEF ShellInv
  <2> QED BY <1>4, <1>5, <2>1, CompleteCorrect
<1>7. c.name \in Name /\ c.size \in 0 .. Len(c.name)
  BY <1>6 DEF CompleteResult
<1>8. c.name \in Seq(Char)
  <2>1. c.name \in Seq(Char \ {Separator})
    BY <1>7, ShellAssumption
  <2>2. \A i \in 1 .. Len(c.name) : c.name[i] \in Char
    BY <2>1, ElementType
  <2> QED BY <2>1, <2>2, SMTT(30)
<1> QED BY <1>7, <1>8, PrefixProperties

LEMMA JoinedPrefix ==
  ASSUME NEW S, NEW a \in Seq(S), NEW b \in Seq(S), NEW k \in 0 .. Len(a)
  PROVE  SubSeq(a \o b, 1, k) = SubSeq(a, 1, k)
<1> DEFINE l == a \o b
           u == SubSeq(l, 1, k)
           v == SubSeq(a, 1, k)
<1>1. l \in Seq(S) /\ Len(l) = Len(a) + Len(b) /\ \A i \in 1 .. Len(a) : l[i] = a[i]
  BY JoinedProperties
<1>2. k \in 0 .. Len(l) /\ \A i \in 1 .. k : i \in 1 .. Len(a)
  BY <1>1, SMTT(30)
<1> HIDE DEF l
<1>3. u \in Seq(S) /\ Len(u) = k /\ \A i \in 1 .. k : u[i] = l[i]
  BY <1>1, <1>2, PrefixProperties
<1>4. v \in Seq(S) /\ Len(v) = k /\ \A i \in 1 .. k : v[i] = a[i]
  BY PrefixProperties
<1> HIDE DEF u, v
<1>5. Agree(u, v, Len(u)) /\ Len(u) = Len(v)
  BY <1>1, <1>2, <1>3, <1>4 DEF Agree
<1>6. u = v
  BY <1>3, <1>4, <1>5, SameSequence
<1> QED BY <1>6 DEF u, v, l

\* What comes to stand in front of b, the text after the cursor, and whether
\* the line became too long on the way.
Outcome(p, b, x) ==
  LET before == Beginning(Complete(Word, WordSize))
  IN  IF shell_cursor < WordStart(Current) THEN p = <<>> /\ ~x
      ELSE /\ x => ~(Len(before) + Len(b) < LineMax)
           /\ ~x => p = before /\ Len(before) + Len(b) < LineMax

\* The part of the line after the cursor stays, whatever becomes of the rest.
LEMMA TabulationStep ==
  ASSUME ShellInv, Tabulation
  PROVE  \E a, b, p \in Seq(Char), x \in BOOLEAN :
           /\ Current = a \o b /\ Len(a) = shell_cursor
           /\ Len(p) + Len(b) < LineMax
           /\ Becomes(At(p, b, x))
           /\ Outcome(p, b, x)
<1>1. Current \in Line /\ shell_cursor \in 0 .. Len(Current) /\ WordStart(Current) \in 0 .. Len(Current)
  BY CurrentType, WordStartType
<1>2. PICK a, b \in Seq(Char) :
        /\ Current = a \o b /\ Len(a) = shell_cursor /\ Len(a) + Len(b) < LineMax
        /\ Shown(Current, shell_cursor, Fits) = At(a, b, Fits)
  BY <1>1, EditorAt
<1>3. Editor = At(a, b, Fits)
  BY <1>2, EditorShown
<1>4. Len(a) \in Nat /\ Len(b) \in Nat /\ LineMax \in Nat /\ Len(Current) \in Nat
      /\ Len(a) + Len(b) < LineMax
  BY <1>1, <1>2, LineMeans, ShellAssumption, SMTT(30)
<1>5. TooLong \in BOOLEAN /\ Fits \in BOOLEAN /\ ~Fits
  BY DEF TooLong, Fits
<1> DEFINE c == Complete(Word, WordSize)
           ws == WordStart(Current)
<1>6. CASE shell_cursor < ws
  <2> DEFINE p == SubSeq(a, 1, Len(a) - shell_cursor)
  <2>1. Becomes(Backspaces(Editor, shell_cursor))
    BY <1>6 DEF Tabulation
  <2>2. shell_cursor \in 0 .. Len(a) /\ Len(a) - shell_cursor \in 0 .. Len(a)
    BY <1>2, <1>4, SMTT(30)
  <2>3. Backspaces(At(a, b, Fits), shell_cursor) = At(p, b, Fits)
    BY <2>2, BackspacesAt
  <2>4. p \in Seq(Char) /\ Len(p) = Len(a) - shell_cursor
    BY <2>2, PrefixProperties
  <2> HIDE DEF p
  <2>5. Len(p) + Len(b) < LineMax
    BY <1>4, <2>2, <2>4, SMTT(30)
  <2>6. Becomes(At(p, b, Fits))
    BY <1>3, <2>1, <2>3
  <2>7. Outcome(p, b, Fits)
    <3>1. p = <<>>
      BY <1>2, <1>4, <2>4, SMTT(30)
    <3> QED BY <1>5, <1>6, <3>1 DEF Outcome
  <2> QED BY <1>2, <1>5, <2>4, <2>5, <2>6, <2>7
<1>7. CASE ~(shell_cursor < ws)
  <2> DEFINE s == SubSeq(c.name, 1, c.size)
             n == shell_cursor - ws
             q == SubSeq(a, 1, Len(a) - n)
  <2>1. c.found /\ Becomes(Completed(Editor, c))
    BY <1>7 DEF Tabulation
  <2>2. s \in Seq(Char)
    <3>1. shell_cursor >= ws
      BY <1>1, <1>7, SMTT(30)
    <3> HIDE DEF c, ws
    <3> QED BY <2>1, <3>1, CompletionTypeable DEF c, ws
  <2>3. Completed(Editor, c) = RawChars(Backspaces(Editor, n), s)
    <3> DEFINE e == Editor
    <3>1. e.line = Current /\ e.cursor = shell_cursor /\ e.screen = screen
      BY DEF Editor
    <3>2. Left(Put(Prompt, Current), Len(Current) - shell_cursor) = screen
      BY <1>1, LineShows DEF ShellInv
    <3>3. [e EXCEPT !.screen = screen] = e
      <4> DEFINE l == Current
                 k == shell_cursor
                 y == Fits
      <4>1. e = EditorOf(l, k, screen, y)
        BY EditorShown DEF Shown, ShellInv
      <4> HIDE DEF l, k, y, e
      <4>2. SetScreen(l, k, screen, y, screen)
        BY EditorAssigned
      <4> QED BY <4>1, <4>2 DEF SetScreen
    <3> HIDE DEF e, c
    <3>4. [e EXCEPT !.screen = Left(Put(Prompt, e.line), Len(e.line) - e.cursor)] = e
      BY <3>1, <3>2, <3>3
    <3>5. Completed(e, c) = RawChars(Backspaces(e, e.cursor - WordStart(e.line)), SubSeq(c.name, 1, c.size))
      BY <3>4 DEF Completed
    <3> QED BY <3>1, <3>5 DEF e
  <2> HIDE DEF s
  <2>4. n \in 0 .. Len(a) /\ Len(a) - n \in 0 .. Len(a)
    BY <1>1, <1>2, <1>4, <1>7, SMTT(30)
  <2> HIDE DEF n
  <2>5. Backspaces(At(a, b, Fits), n) = At(q, b, Fits)
    BY <2>4, BackspacesAt, SMTT(30)
  <2>6. q \in Seq(Char) /\ Len(q) = Len(a) - n
    BY <2>4, PrefixProperties
  <2> HIDE DEF q
  <2>7. Len(q) + Len(b) < LineMax
    BY <1>4, <2>4, <2>6, SMTT(30)
  <2>8. PICK k \in 0 .. Len(s), x \in BOOLEAN : Typed(q, b, s, k, x)
    BY <2>2, <2>6, <2>7, RawCharsAt
  <2> DEFINE t == SubSeq(s, 1, k)
             p == q \o t
  <2>9. t \in Seq(Char) /\ Len(t) = k
    BY <2>2, PrefixProperties
  <2> HIDE DEF t
  <2>10. p \in Seq(Char) /\ Len(p) = Len(q) + Len(t)
    <3>1. q \in Seq(Char) /\ t \in Seq(Char)
      BY <2>6, <2>9
    <3> QED BY <3>1, JoinedProperties
  <2>11. Becomes(At(p, b, x))
    <3> HIDE DEF c
    <3>1. Backspaces(Editor, n) = At(q, b, Fits)
      BY <1>3, <2>5
    <3>2. RawChars(Backspaces(Editor, n), s) = At(p, b, x)
      BY <2>8, <3>1 DEF t, Typed
    <3>3. Completed(Editor, c) = At(p, b, x)
      BY <2>3, <3>2
    <3> QED BY <2>1, <3>3
  <2> HIDE DEF p
  <2>12. Len(p) + Len(b) < LineMax
    <3>1. Len(q) \in Nat /\ k \in Nat
      BY <1>4, <2>2, <2>4, <2>6, SMTT(30)
    <3>2. Len(q) + Len(b) + k < LineMax
      BY <2>8 DEF Typed
    <3> QED BY <1>4, <2>9, <2>10, <3>1, <3>2, SMTT(30)
  <2>13. Outcome(p, b, x)
    <3> DEFINE before == Beginning(c)
    <3>1. before = q \o s
      <4>1. Len(a) - n = ws /\ ws \in 0 .. Len(a)
        BY <1>1, <1>2, <1>4, <2>4, SMTT(30) DEF n
      <4>2. SubSeq(Current, 1, ws) = q
        BY <1>2, <4>1, JoinedPrefix DEF q
      <4> QED BY <4>2 DEF Beginning, s
    <3> HIDE DEF before, c, ws
    <3>2. Len(before) = Len(q) + Len(s) /\ Len(q) \in Nat /\ Len(s) \in Nat
      <4>1. Len(q \o s) = Len(q) + Len(s)
        BY <2>2, <2>6, JoinedProperties
      <4>2. Len(q) \in Nat /\ Len(s) \in Nat
        BY <2>2, <2>6, SMTT(30)
      <4> QED BY <3>1, <4>1, <4>2
    <3>3. /\ Len(q) + Len(b) + k < LineMax
          /\ x => Len(q) + Len(b) + Len(s) >= LineMax
          /\ ~x => k = Len(s)
      BY <2>8 DEF Typed
    <3>4. CASE x
      <4>1. ~(Len(before) + Len(b) < LineMax)
        BY <1>4, <3>2, <3>3, <3>4, SMTT(30)
      <4> QED BY <1>7, <3>4, <4>1 DEF Outcome, before, c, ws
    <3>5. CASE ~x
      <4>1. Len(before) + Len(b) < LineMax
        BY <1>4, <3>2, <3>3, <3>5, SMTT(30)
      <4>2. t = s
        <5>1. SubSeq(s, 1, Len(s)) = s
          BY <2>2, SMTT(30)
        <5> QED BY <3>3, <3>5, <5>1 DEF t
      <4>3. p = before
        BY <3>1, <4>2 DEF p
      <4> QED BY <1>7, <3>5, <4>1, <4>3 DEF Outcome, before, c, ws
    <3> QED BY <3>4, <3>5
  <2> QED BY <1>2, <2>10, <2>11, <2>12, <2>13
<1> QED BY <1>6, <1>7

-----------------------------------------------------------------------------
(* The steps of the shell: the current line is edited, or ends, or is      *)
(* replaced by one of the history.                                         *)

EditStep == Settled /\ UNCHANGED historyVars

BackStep ==
  /\ Settled
  /\ shell_history_index # shell_history_oldest
  /\ shell_history_index' = shell_history_index - 1
  /\ shell_history'[Here] = shell_history[Slot(shell_history_index - 1)]
  /\ UNCHANGED <<shell_history_newest, shell_history_oldest>>

ForwardStep ==
  /\ Settled
  /\ shell_history_index # shell_history_newest
  /\ shell_history_index' = shell_history_index + 1
  /\ shell_history'[Here] = IF shell_history_index + 1 = shell_history_newest THEN <<>>
                            ELSE shell_history[Slot(shell_history_index + 1)]
  /\ UNCHANGED <<shell_history_newest, shell_history_oldest>>

Kinds == EditStep \/ BackStep \/ ForwardStep \/ Enter

LEMMA UnchangedSettled ==
  ASSUME ShellInv, UNCHANGED <<shell_history, historyVars, shell_cursor, screen>>
  PROVE  EditStep
<1>1. /\ shell_history' = shell_history /\ shell_cursor' = shell_cursor /\ screen' = screen
      /\ UNCHANGED historyVars
  OBVIOUS
<1>2. Settled
  BY <1>1 DEF ShellInv, Settled, Here, Current
<1> QED BY <1>1, <1>2 DEF EditStep

\* shell_process_up and shell_process_down show a line of the history.
LEMMA ReplaceStep ==
  ASSUME ShellInv, NEW m \in Line, Becomes(Replace(Editor, m))
  PROVE  Settled /\ shell_history'[Here] = m
<1>1. Current \in Line /\ shell_cursor \in 0 .. Len(Current)
  BY CurrentType
<1>2. Replace(Editor, m) = Shown(m, Len(m), Fits)
  <2>1. Editor = Shown(Current, shell_cursor, Fits)
    BY EditorShown
  <2>2. Replace(Shown(Current, shell_cursor, Fits), m) = Shown(m, Len(m), Fits)
    BY <1>1, ReplaceShown
  <2> QED BY <2>1, <2>2
<1>3. Len(m) \in 0 .. Len(m)
  BY LineMeans, SMTT(30)
<1>4. Fits \in BOOLEAN /\ ~Fits
  BY DEF Fits
<1> QED BY <1>2, <1>3, <1>4, BecomesShown

LEMMA UpStep ==
  ASSUME ShellInv, Up
  PROVE  EditStep \/ BackStep
<1>1. CASE shell_history_index = shell_history_oldest
  <2>1. Becomes(Replace(Editor, Current)) /\ UNCHANGED historyVars
    BY <1>1 DEF Up, historyVars
  <2> QED BY <2>1, ReplaceStep, CurrentType DEF EditStep
<1>2. CASE shell_history_index # shell_history_oldest
  <2> DEFINE m == shell_history[Slot(shell_history_index - 1)]
  <2>1. /\ Becomes(Replace(Editor, m)) /\ shell_history_index' = shell_history_index - 1
        /\ UNCHANGED <<shell_history_newest, shell_history_oldest>>
    BY <1>2 DEF Up
  <2>2. m \in Line
    <3>1. shell_history_index \in Nat /\ shell_history \in [0 .. HistorySize - 1 -> Line]
      BY DEF ShellInv
    <3>2. shell_history_index - 1 \in Int
      BY <3>1, SMTT(30)
    <3>3. Slot(shell_history_index - 1) \in 0 .. HistorySize - 1
      BY <3>2, SlotType
    <3> QED BY <3>1, <3>3
  <2>3. Settled /\ shell_history'[Here] = m
    BY <2>1, <2>2, ReplaceStep
  <2> QED BY <1>2, <2>1, <2>3 DEF BackStep
<1> QED BY <1>1, <1>2

LEMMA DownStep ==
  ASSUME ShellInv, Down
  PROVE  EditStep \/ ForwardStep
<1>1. CASE shell_history_index = shell_history_newest
  <2>1. Becomes(Replace(Editor, Current)) /\ UNCHANGED historyVars
    BY <1>1 DEF Down, historyVars
  <2> QED BY <2>1, ReplaceStep, CurrentType DEF EditStep
<1>2. CASE shell_history_index # shell_history_newest
  <2> DEFINE i == shell_history_index + 1
             m == IF i = shell_history_newest THEN <<>> ELSE shell_history[Slot(i)]
  <2>1. /\ Becomes(Replace(Editor, m)) /\ shell_history_index' = i
        /\ UNCHANGED <<shell_history_newest, shell_history_oldest>>
    BY <1>2 DEF Down
  <2>2. m \in Line
    <3>1. shell_history_index \in Nat /\ shell_history \in [0 .. HistorySize - 1 -> Line]
      BY DEF ShellInv
    <3>2. i \in Int
      BY <3>1, SMTT(30)
    <3>3. Slot(i) \in 0 .. HistorySize - 1
      BY <3>2, SlotType
    <3>4. shell_history[Slot(i)] \in Line /\ <<>> \in Line
      BY <3>1, <3>3, LineMeans
    <3> QED BY <3>4
  <2>3. Settled /\ shell_history'[Here] = m
    BY <2>1, <2>2, ReplaceStep
  <2> QED BY <1>2, <2>1, <2>3 DEF ForwardStep
<1> QED BY <1>1, <1>2

LEMMA MovesStep ==
  ASSUME ShellInv, NEW e, Steady(e), Moves(e)
  PROVE  EditStep
BY BecomesSteady DEF Moves, EditStep

LEMMA EscSeqStep ==
  ASSUME ShellInv, NEW s, EscSeq(s)
  PROVE  EditStep \/ BackStep \/ ForwardStep
<1>1. /\ Current \in Line /\ shell_cursor \in 0 .. Len(Current) /\ Len(Current) \in Nat
  BY CurrentType
<1>2. Fits \in BOOLEAN
  BY DEF Fits
<1>3. /\ Steady(Editor)
      /\ \A d \in 0 .. Len(Current) : Steady(MoveTo(Editor, d))
      /\ Steady(Delete(Editor))
  BY <1>1, <1>2, EditorShown, MovesSteady
<1>4. 0 \in 0 .. Len(Current) /\ Len(Current) \in 0 .. Len(Current)
  BY <1>1, SMTT(30)
<1>5. CASE Up
  BY <1>5, UpStep
<1>6. CASE Down
  BY <1>6, DownStep
<1>7. CASE Moves(IF shell_cursor = Len(Current) THEN Editor ELSE MoveTo(Editor, shell_cursor + 1))
  <2>1. CASE shell_cursor = Len(Current)
    BY <1>3, <1>7, <2>1, MovesStep
  <2>2. CASE shell_cursor # Len(Current)
    <3>1. shell_cursor + 1 \in 0 .. Len(Current)
      BY <1>1, <2>2, SMTT(30)
    <3>2. Steady(MoveTo(Editor, shell_cursor + 1)) /\ Moves(MoveTo(Editor, shell_cursor + 1))
      BY <1>3, <1>7, <2>2, <3>1
    <3> QED BY <3>2, MovesStep
  <2> QED BY <2>1, <2>2
<1>8. CASE Moves(IF shell_cursor = 0 THEN Editor ELSE MoveTo(Editor, shell_cursor - 1))
  <2>1. CASE shell_cursor = 0
    BY <1>3, <1>8, <2>1, MovesStep
  <2>2. CASE shell_cursor # 0
    <3>1. shell_cursor - 1 \in 0 .. Len(Current)
      BY <1>1, <2>2, SMTT(30)
    <3>2. Steady(MoveTo(Editor, shell_cursor - 1)) /\ Moves(MoveTo(Editor, shell_cursor - 1))
      BY <1>3, <1>8, <2>2, <3>1
    <3> QED BY <3>2, MovesStep
  <2> QED BY <2>1, <2>2
<1>9. CASE Moves(MoveTo(Editor, 0)) \/ Moves(Delete(Editor)) \/ Moves(MoveTo(Editor, Len(Current)))
  BY <1>3, <1>4, <1>9, MovesStep
<1> QED BY <1>5, <1>6, <1>7, <1>8, <1>9 DEF EscSeq

LEMMA TableStutter ==
  ASSUME TableInv, UNCHANGED tableVars
  PROVE  TableInv'
BY DEF TableInv, tableVars, Lookup

LEMMA TabulationSettles ==
  ASSUME ShellInv, Tabulation
  PROVE  EditStep
<1>1. PICK a, b, p \in Seq(Char), x \in BOOLEAN :
         Len(p) + Len(b) < LineMax /\ Becomes(At(p, b, x))
  BY TabulationStep
<1>2. Steady(At(p, b, x))
  BY <1>1, AtSteady
<1>3. Settled
  BY <1>1, <1>2, BecomesSteady
<1>4. UNCHANGED historyVars
  BY DEF Tabulation
<1> QED BY <1>3, <1>4 DEF EditStep

LEMMA ReadStep ==
  ASSUME ShellInv, Read
  PROVE  Kinds /\ UNCHANGED tableVars
<1>1. CASE \E c \in Final \cup Param : EscChar(c)
  <2>1. PICK c : EscChar(c)
    BY <1>1
  <2>2. /\ \/ EscSeq(Append(seq, c))
           \/ UNCHANGED <<shell_history, historyVars, shell_cursor, screen>>
        /\ UNCHANGED tableVars
    BY <2>1 DEF EscChar
  <2> QED BY <2>2, EscSeqStep, UnchangedSettled DEF Kinds
<1>2. CASE \E to \in {"start", "csi", "none"} : Escape(to)
  <2>1. UNCHANGED <<shell_history, historyVars, shell_cursor, screen>> /\ UNCHANGED tableVars
    BY <1>2 DEF Escape
  <2> QED BY <2>1, UnchangedSettled DEF Kinds
<1>3. CASE \E c \in Char : Type(RawChar(Editor, c))
  <2>1. PICK c \in Char : Type(RawChar(Editor, c))
    BY <1>3
  <2>2. Moves(RawChar(Editor, c)) /\ UNCHANGED tableVars
    BY <2>1 DEF Type
  <2>3. Steady(RawChar(Editor, c))
    BY EditorShown, RawCharSteady
  <2> QED BY <2>2, <2>3, MovesStep DEF Kinds
<1>4. CASE Type(Backspace(Editor))
  <2>2. Moves(Backspace(Editor)) /\ UNCHANGED tableVars
    BY <1>4 DEF Type
  <2>3. Steady(Backspace(Editor))
    BY EditorShown, BackspaceSteady
  <2> QED BY <2>2, <2>3, MovesStep DEF Kinds
<1>5. CASE Tabulation
  <2>1. UNCHANGED tableVars
    BY <1>5 DEF Tabulation
  <2> QED BY <1>5, <2>1, TabulationSettles DEF Kinds
<1>6. CASE Enter
  <2>1. UNCHANGED tableVars
    BY <1>6 DEF Enter
  <2> QED BY <1>6, <2>1 DEF Kinds
<1> QED BY <1>1, <1>2, <1>3, <1>4, <1>5, <1>6 DEF Read

\* Every step edits the line, browses or ends it, and keeps the table.
LEMMA StepKinds ==
  ASSUME ShellInv, [Next]_vars
  PROVE  Kinds /\ TableInv'
<1>1. TableInv
  BY DEF ShellInv
<1>2. CASE Boot
  <2>1. EditStep
    BY <1>2, UnchangedSettled DEF Boot
  <2>2. TableInv'
    <3>1. CASE \E n \in Name : Register(n)
      BY <1>1, <3>1, RegisterInv
    <3>2. CASE UNCHANGED tableVars
      BY <1>1, <3>2, TableStutter
    <3> QED BY <1>2, <3>1, <3>2 DEF Boot
  <2> QED BY <2>1, <2>2 DEF Kinds
<1>3. CASE Read
  BY <1>1, <1>3, ReadStep, TableStutter
<1>4. CASE Loop \/ UNCHANGED vars
  <2>1. UNCHANGED tableVars /\ UNCHANGED <<shell_history, historyVars, shell_cursor, screen>>
    BY <1>4 DEF Loop, vars
  <2> QED BY <1>1, <2>1, TableStutter, UnchangedSettled DEF Kinds
<1> QED BY <1>2, <1>3, <1>4 DEF Next

-----------------------------------------------------------------------------
(* The invariant.                                                          *)

LEMMA SettledInv ==
  ASSUME ShellInv, TableInv', Settled,
         UNCHANGED <<shell_history_newest, shell_history_oldest>>,
         shell_history_index' \in Int,
         shell_history_oldest <= shell_history_index', shell_history_index' <= shell_history_newest
  PROVE  ShellInv'
<1>1. /\ shell_history_newest' = shell_history_newest
      /\ shell_history_oldest' = shell_history_oldest
  OBVIOUS
<1>2. /\ shell_history_oldest' \in Nat /\ shell_history_newest' \in Nat
      /\ shell_history_index' \in Nat
      /\ shell_history_oldest' <= shell_history_index'
      /\ shell_history_index' <= shell_history_newest'
      /\ shell_history_newest' - shell_history_oldest' < HistorySize
  BY <1>1, SMTT(30) DEF ShellInv
<1>3. Current' = shell_history'[Here]
  BY <1>1 DEF Current, Here, Slot
<1> QED BY <1>2, <1>3 DEF ShellInv, Settled

\* The entry that becomes the current one is empty, and the oldest ones go.
LEMMA EnterIndexes ==
  ASSUME ShellInv, Enter
  PROVE  /\ shell_history_newest' \in {shell_history_newest, shell_history_newest + 1}
         /\ shell_history_newest' \in Nat /\ shell_history_oldest' \in Nat
         /\ shell_history_index' = shell_history_newest'
         /\ shell_history_oldest' <= shell_history_newest'
         /\ shell_history_newest' - shell_history_oldest' < HistorySize
         /\ shell_history' = [shell_history EXCEPT ![Slot(shell_history_newest')] = <<>>]
         /\ shell_history_newest' = shell_history_newest
              => shell_history_oldest' = shell_history_oldest
         /\ shell_history_newest' = shell_history_newest + 1
              => shell_history_oldest'
                   = IF shell_history_newest + 1 - shell_history_oldest = HistorySize
                     THEN shell_history_oldest + 1 ELSE shell_history_oldest
<1>1. HistorySize \in Nat \ {0}
  BY ShellAssumption
<1>2. /\ shell_history_oldest \in Nat /\ shell_history_newest \in Nat
      /\ shell_history_oldest <= shell_history_newest
      /\ shell_history_newest - shell_history_oldest < HistorySize
  BY SMTT(30) DEF ShellInv
<1>3. /\ shell_history_newest' \in {shell_history_newest, shell_history_newest + 1}
      /\ shell_history_index' = shell_history_newest'
      /\ shell_history_oldest' = Oldest(shell_history_newest')
      /\ shell_history' = [shell_history EXCEPT ![Slot(shell_history_newest')] = <<>>]
  BY DEF Enter
<1>4. shell_history_newest' \in Nat
  BY <1>2, <1>3, SMTT(30)
<1>5. shell_history_oldest' = IF shell_history_newest' - shell_history_oldest >= HistorySize
                              THEN shell_history_newest' - HistorySize + 1
                              ELSE shell_history_oldest
  BY <1>3 DEF Oldest
<1>6. /\ shell_history_oldest' \in Nat
      /\ shell_history_oldest' <= shell_history_newest'
      /\ shell_history_newest' - shell_history_oldest' < HistorySize
      /\ shell_history_newest' = shell_history_newest
           => shell_history_oldest' = shell_history_oldest
      /\ shell_history_newest' = shell_history_newest + 1
           => shell_history_oldest'
                = IF shell_history_newest + 1 - shell_history_oldest = HistorySize
                  THEN shell_history_oldest + 1 ELSE shell_history_oldest
  <2>1. CASE shell_history_newest' = shell_history_newest
    BY <1>1, <1>2, <1>5, <2>1, SMTT(30)
  <2>2. CASE shell_history_newest' = shell_history_newest + 1
    BY <1>1, <1>2, <1>5, <2>2, SMTT(30)
  <2> QED BY <1>3, <2>1, <2>2
<1> QED BY <1>3, <1>4, <1>6

LEMMA EnterInv ==
  ASSUME ShellInv, TableInv', Enter
  PROVE  ShellInv' /\ Current' = <<>>
<1> DEFINE k == Slot(shell_history_newest')
<1>1. /\ shell_history' = [shell_history EXCEPT ![k] = <<>>]
      /\ shell_history \in [0 .. HistorySize - 1 -> Line] /\ <<>> \in Line /\ Len(<<>>) = 0
      /\ shell_history_newest' \in Nat
  BY EnterIndexes, LineMeans DEF ShellInv
<1>2. k \in 0 .. HistorySize - 1
  <2>1. shell_history_newest' \in Int
    BY <1>1, SMTT(30)
  <2> QED BY <2>1, SlotType
<1>3. Current' = shell_history'[k]
  BY DEF Current, Slot
<1> HIDE DEF k
<1>4. shell_history' \in [0 .. HistorySize - 1 -> Line] /\ shell_history'[k] = <<>>
  BY <1>1, <1>2
<1>5. Current' = <<>>
  BY <1>3, <1>4
<1>6. shell_cursor' = 0 /\ screen' = Showing(<<>>, 0) /\ 0 \in 0 .. Len(<<>>)
  BY <1>1, PromptShows, SMTT(30) DEF Enter
<1>7. /\ shell_history_oldest' \in Nat /\ shell_history_newest' \in Nat
      /\ shell_history_index' \in Nat
      /\ shell_history_oldest' <= shell_history_index'
      /\ shell_history_index' <= shell_history_newest'
      /\ shell_history_newest' - shell_history_oldest' < HistorySize
  <2>1. /\ shell_history_index' = shell_history_newest' /\ shell_history_newest' \in Nat
        /\ shell_history_oldest' \in Nat /\ shell_history_oldest' <= shell_history_newest'
        /\ shell_history_newest' - shell_history_oldest' < HistorySize
    BY EnterIndexes
  <2> QED BY <2>1, SMTT(30)
<1> QED BY <1>4, <1>5, <1>6, <1>7 DEF ShellInv

LEMMA KindsInv ==
  ASSUME ShellInv, TableInv', Kinds
  PROVE  ShellInv'
<1>0. /\ shell_history_oldest \in Nat /\ shell_history_newest \in Nat /\ shell_history_index \in Nat
      /\ shell_history_oldest <= shell_history_index /\ shell_history_index <= shell_history_newest
  BY DEF ShellInv
<1>1. CASE EditStep
  <2>1. /\ Settled /\ UNCHANGED <<shell_history_newest, shell_history_oldest>>
        /\ shell_history_index' = shell_history_index
    BY <1>1 DEF EditStep, historyVars
  <2>2. /\ shell_history_index' \in Int /\ shell_history_oldest <= shell_history_index'
        /\ shell_history_index' <= shell_history_newest
    BY <1>0, <2>1, SMTT(30)
  <2> QED BY <2>1, <2>2, SettledInv
<1>2. CASE BackStep
  <2>1. /\ Settled /\ UNCHANGED <<shell_history_newest, shell_history_oldest>>
        /\ shell_history_index' = shell_history_index - 1
        /\ shell_history_index # shell_history_oldest
    BY <1>2 DEF BackStep
  <2>2. /\ shell_history_index' \in Int /\ shell_history_oldest <= shell_history_index'
        /\ shell_history_index' <= shell_history_newest
    BY <1>0, <2>1, SMTT(30)
  <2> QED BY <2>1, <2>2, SettledInv
<1>3. CASE ForwardStep
  <2>1. /\ Settled /\ UNCHANGED <<shell_history_newest, shell_history_oldest>>
        /\ shell_history_index' = shell_history_index + 1
        /\ shell_history_index # shell_history_newest
    BY <1>3 DEF ForwardStep
  <2>2. /\ shell_history_index' \in Int /\ shell_history_oldest <= shell_history_index'
        /\ shell_history_index' <= shell_history_newest
    BY <1>0, <2>1, SMTT(30)
  <2> QED BY <2>1, <2>2, SettledInv
<1>4. CASE Enter
  BY <1>4, EnterInv
<1> QED BY <1>1, <1>2, <1>3, <1>4 DEF Kinds

LEMMA InitShell ==
  ASSUME Init
  PROVE  ShellInv /\ Current = <<>>
<1>1. HistorySize \in Nat \ {0}
  BY ShellAssumption
<1>2. /\ TableInit /\ shell_history_newest = 0 /\ shell_history_oldest = 0
      /\ shell_history_index = 0 /\ shell_cursor = 0 /\ screen = Prompt
      /\ shell_history = [i \in 0 .. HistorySize - 1 |-> <<>>]
  BY DEF Init
<1>3. <<>> \in Line /\ Len(<<>>) = 0
  BY LineMeans
<1>4. Slot(0) \in 0 .. HistorySize - 1
  BY SlotType, SMTT(30)
<1>5. shell_history \in [0 .. HistorySize - 1 -> Line] /\ Current = <<>>
  BY <1>2, <1>3, <1>4 DEF Current
<1>6. /\ shell_history_oldest \in Nat /\ shell_history_newest \in Nat /\ shell_history_index \in Nat
      /\ shell_history_oldest <= shell_history_index /\ shell_history_index <= shell_history_newest
      /\ shell_history_newest - shell_history_oldest < HistorySize
      /\ shell_cursor \in 0 .. Len(Current)
  BY <1>1, <1>2, <1>3, <1>5, SMTT(30)
<1>7. screen = Showing(Current, shell_cursor)
  BY <1>2, <1>5, PromptShows
<1>8. TableInv
  BY <1>2, InitTable
<1> QED BY <1>5, <1>6, <1>7, <1>8 DEF ShellInv

\* The table stays sorted, the three indexes of the history stay in order and
\* less than its size apart, and the terminal shows the current line with the
\* cursor in it.
THEOREM ShellInvariance == Spec => []ShellInv
<1>1. Init => ShellInv
  BY InitShell
<1>2. ShellInv /\ [Next]_vars => ShellInv'
  BY StepKinds, KindsInv
<1> QED BY <1>1, <1>2, PTL DEF Spec

\* shell_cmd_complete returns the common prefix of all the registered commands
\* that begin with the word, for any set of commands and any beginning of a name.
THEOREM CompletionIsCommonPrefix == Spec => []CompletesCommonPrefix
<1>1. ShellInv => CompletesCommonPrefix
  BY TableCompletes DEF ShellInv
<1> QED BY <1>1, ShellInvariance, PTL

\* The handlers of shell_run print what makes the terminal show the line, for
\* any size of the line and of the history, except from the message about a
\* too long escape sequence to the next prompt.
THEOREM ScreenIsLine == Spec => []ScreenShowsLine
<1>1. ShellInv => ScreenShowsLine
  <2> SUFFICES ASSUME ShellInv PROVE ScreenShowsLine
    OBVIOUS
  <2>1. Current \in Line /\ shell_cursor \in 0 .. Len(Current)
    BY CurrentType
  <2>2. Left(Put(Prompt, Current), Len(Current) - shell_cursor) = Showing(Current, shell_cursor)
    BY <2>1, LineShows
  <2>3. screen = Showing(Current, shell_cursor)
    BY DEF ShellInv
  <2> QED BY <2>2, <2>3 DEF ScreenShowsLine
<1> QED BY <1>1, ShellInvariance, PTL

\* The line that a tabulation leaves.
TabulationLeaves ==
  LET before == Beginning(Complete(Word, WordSize))
  IN  IF mode' = "loop" THEN Current' = Rest /\ shell_cursor' = 0
      ELSE IF Len(before) + Len(Rest) < LineMax
      THEN Current' = before \o Rest /\ shell_cursor' = Len(before)
      ELSE Current' = <<>> /\ shell_cursor' = 0

LEMMA TabulationKeepsRest ==
  ASSUME ShellInv, mode = "read", Tabulation
  PROVE  TabulationLeaves
<1>1. PICK a, b, p \in Seq(Char), x \in BOOLEAN :
        /\ Current = a \o b /\ Len(a) = shell_cursor
        /\ Len(p) + Len(b) < LineMax /\ Becomes(At(p, b, x)) /\ Outcome(p, b, x)
  BY TabulationStep
<1>2. p \o b \in Line /\ Len(p) \in 0 .. Len(p \o b)
  BY <1>1, AtSteady
<1>3. /\ Settled
      /\ x => shell_history'[Here] = <<>>
      /\ ~x => shell_history'[Here] = p \o b /\ shell_cursor' = Len(p)
  BY <1>1, <1>2, BecomesShown DEF At
<1>4. Current' = shell_history'[Here]
  <2>1. shell_history_newest' = shell_history_newest
    BY DEF Tabulation, historyVars
  <2> QED BY <2>1 DEF Current, Here, Slot
<1>5. b = Rest
  <2>1. SubSeq(a \o b, Len(a) + 1, Len(a \o b)) = b
    BY Parts, SMTT(30)
  <2> QED BY <1>1, <2>1 DEF Rest
<1>6. mode' = "loop" <=> shell_cursor < WordStart(Current)
  BY DEF Tabulation
<1> DEFINE before == Beginning(Complete(Word, WordSize))
<1>7. CASE mode' = "loop"
  <2>1. p = <<>> /\ ~x
    BY <1>1, <1>6, <1>7 DEF Outcome
  <2>2. <<>> \o b = b /\ Len(<<>>) = 0
    BY SMTT(30)
  <2>3. Current' = b /\ shell_cursor' = 0
    BY <1>3, <1>4, <2>1, <2>2
  <2> QED BY <1>5, <1>7, <2>3 DEF TabulationLeaves
<1>8. CASE mode' # "loop" /\ ~x
  <2>1. p = before /\ Len(before) + Len(b) < LineMax
    BY <1>1, <1>6, <1>8 DEF Outcome
  <2>2. Current' = before \o b /\ shell_cursor' = Len(before)
    BY <1>3, <1>4, <1>8, <2>1
  <2> HIDE DEF before
  <2> QED BY <1>5, <1>8, <2>1, <2>2 DEF TabulationLeaves, before
<1>9. CASE mode' # "loop" /\ x
  <2>1. ~(Len(before) + Len(b) < LineMax)
    BY <1>1, <1>6, <1>9 DEF Outcome
  <2>2. Current' = <<>>
    BY <1>3, <1>4, <1>9
  <2>3. shell_cursor' = 0
    <3>1. shell_cursor' \in 0 .. Len(<<>>)
      BY <1>3, <1>4, <2>2 DEF Settled
    <3> QED BY <3>1, SMTT(30)
  <2> HIDE DEF before
  <2> QED BY <1>5, <1>9, <2>1, <2>2, <2>3 DEF TabulationLeaves, before
<1> QED BY <1>7, <1>8, <1>9

\* Whatever the completion replaces, the text to the right of the cursor stays
\* behind the command and the cursor; when they have no room together, and
\* only then, shell_run discards the whole line.
THEOREM CompletionLeavesRest == Spec => CompletionKeepsRest
<1>1. ShellInv /\ [Next]_vars =>
        [mode = "read" /\ escape = "none" /\ Tabulation => TabulationLeaves]_vars
  BY TabulationKeepsRest
<1> QED BY <1>1, ShellInvariance, PTL DEF Spec, CompletionKeepsRest, TabulationLeaves

-----------------------------------------------------------------------------
(* The history.                                                            *)

\* The entries of a history h, from o to n.
Entries(h, o, n) == [i \in 1 .. n - o |-> h[Slot(o + i - 1)]]

\* The entries less than the size of the history apart have slots of their own.
LEMMA SlotsDiffer ==
  ASSUME NEW i \in Int, NEW j \in Int, i < j, j - i < HistorySize
  PROVE  Slot(i) # Slot(j)
<1>1. HistorySize \in Nat \ {0}
  BY ShellAssumption
<1>2. j - i \in 1 .. HistorySize - 1 /\ i + (j - i) = j
  BY <1>1, SMTT(30)
<1>3. (i + (j - i)) % HistorySize # i % HistorySize
  BY <1>1, <1>2, NearbyDiffer
<1> QED BY <1>2, <1>3 DEF Slot

LEMMA EntriesProperties ==
  ASSUME NEW h \in [0 .. HistorySize - 1 -> Line], NEW o \in Nat, NEW n \in Nat, o <= n
  PROVE  /\ Entries(h, o, n) \in Seq(Line)
         /\ Len(Entries(h, o, n)) = n - o
         /\ \A i \in 1 .. n - o : Entries(h, o, n)[i] = h[Slot(o + i - 1)]
<1> DEFINE e == Entries(h, o, n)
<1>1. n - o \in Nat
  BY SMTT(30)
<1>2. ASSUME NEW i \in 1 .. n - o PROVE h[Slot(o + i - 1)] \in Line
  <2>1. o + i - 1 \in Int
    BY SMTT(30)
  <2>2. Slot(o + i - 1) \in 0 .. HistorySize - 1
    BY <2>1, SlotType
  <2> QED BY <2>2
<1>3. /\ e \in [1 .. n - o -> Line]
      /\ \A i \in 1 .. n - o : e[i] = h[Slot(o + i - 1)]
  BY <1>2 DEF Entries
<1> HIDE DEF e
<1>4. e \in Seq(Line) /\ Len(e) = n - o
  BY <1>1, <1>3, SMTT(30)
<1> QED BY <1>3, <1>4 DEF e

\* Two sequences of lines that agree.
LEMMA SameLines ==
  ASSUME NEW S, NEW s \in Seq(S), NEW t \in Seq(S), Len(s) = Len(t),
         \A i \in 1 .. Len(s) : s[i] = t[i]
  PROVE  s = t
BY SMTT(30)

\* A change of an entry within the size of the history changes no older one.
LEMMA EntriesKept ==
  ASSUME NEW h \in [0 .. HistorySize - 1 -> Line], NEW g \in [0 .. HistorySize - 1 -> Line],
         NEW o \in Nat, NEW n \in Nat, o <= n, NEW k \in Nat, n <= k, k - o < HistorySize,
         \A i \in 0 .. HistorySize - 1 : i # Slot(k) => g[i] = h[i]
  PROVE  Entries(g, o, n) = Entries(h, o, n)
<1>1. ASSUME NEW i \in 1 .. n - o
      PROVE  g[Slot(o + i - 1)] = h[Slot(o + i - 1)]
  <2> DEFINE j == o + i - 1
  <2>1. j \in Int /\ k \in Int /\ j < k /\ k - j < HistorySize
    BY ShellAssumption, SMTT(30)
  <2> HIDE DEF j
  <2>2. Slot(j) # Slot(k)
    BY <2>1, SlotsDiffer
  <2>3. Slot(j) \in 0 .. HistorySize - 1
    BY <2>1, SlotType
  <2>4. g[Slot(j)] = h[Slot(j)]
    BY <2>2, <2>3
  <2> QED BY <2>4 DEF j
<1> QED BY <1>1 DEF Entries

LEMMA PastEntries ==
  /\ Past = Entries(shell_history, shell_history_oldest, shell_history_newest)
  /\ Past' = Entries(shell_history', shell_history_oldest', shell_history_newest')
BY DEF Past, Entries, Slot

LEMMA SettledPast ==
  ASSUME ShellInv, Settled, UNCHANGED <<shell_history_newest, shell_history_oldest>>
  PROVE  Past' = Past
<1> DEFINE o == shell_history_oldest
           n == shell_history_newest
           h == shell_history
           g == shell_history'
<1>1. /\ h \in [0 .. HistorySize - 1 -> Line] /\ o \in Nat /\ n \in Nat
      /\ o <= n /\ n - o < HistorySize
  BY SMTT(30) DEF ShellInv
<1>2. /\ g \in [0 .. HistorySize - 1 -> Line]
      /\ \A i \in 0 .. HistorySize - 1 : i # Slot(n) => g[i] = h[i]
  BY DEF Settled, Here
<1>3. n <= n
  BY <1>1, SMTT(30)
<1>4. Past = Entries(h, o, n) /\ Past' = Entries(g, o, n)
  BY PastEntries
<1> HIDE DEF o, n, h, g
<1>5. Entries(g, o, n) = Entries(h, o, n)
  BY <1>1, <1>2, <1>3, EntriesKept
<1> QED BY <1>4, <1>5

LEMMA EntriesGrow ==
  ASSUME NEW h \in [0 .. HistorySize - 1 -> Line], NEW o \in Nat, NEW n \in Nat, o <= n
  PROVE  Entries(h, o, n + 1) = Append(Entries(h, o, n), h[Slot(n)])
<1> DEFINE s == Entries(h, o, n)
           t == Entries(h, o, n + 1)
           l == h[Slot(n)]
           m == n - o
           k == n + 1
<1>1. m \in Nat /\ n + 1 \in Nat /\ o <= n + 1 /\ n + 1 - o = m + 1 /\ o + (m + 1) - 1 = n
  BY SMTT(30)
<1>2. s \in Seq(Line) /\ Len(s) = m /\ \A i \in 1 .. m : s[i] = h[Slot(o + i - 1)]
  BY EntriesProperties
<1>3. t \in Seq(Line) /\ Len(t) = m + 1 /\ \A i \in 1 .. m + 1 : t[i] = h[Slot(o + i - 1)]
  <2>1. k \in Nat /\ o <= k /\ k - o = m + 1 /\ t = Entries(h, o, k)
    BY <1>1, SMTT(30)
  <2> HIDE DEF k, t, m
  <2>2. /\ t \in Seq(Line) /\ Len(t) = k - o
        /\ \A i \in 1 .. k - o : t[i] = h[Slot(o + i - 1)]
    BY <2>1, EntriesProperties
  <2> QED BY <2>1, <2>2
<1>4. t[m + 1] = l
  <2>1. m + 1 \in 1 .. m + 1
    BY <1>1, SMTT(30)
  <2>2. t[m + 1] = h[Slot(o + (m + 1) - 1)]
    BY <1>3, <2>1
  <2> QED BY <1>1, <2>2
<1>5. ASSUME NEW i \in 1 .. m PROVE t[i] = s[i]
  <2>1. i \in 1 .. m + 1
    BY <1>1, SMTT(30)
  <2> QED BY <1>2, <1>3, <2>1
<1>6. l \in Line
  <2>1. n \in Int
    BY SMTT(30)
  <2>2. Slot(n) \in 0 .. HistorySize - 1
    BY <2>1, SlotType
  <2> QED BY <2>2
<1> HIDE DEF s, t, l, m
<1>7. s \in Seq(Line) /\ Len(s) = m /\ t \in Seq(Line) /\ Len(t) = m + 1
  BY <1>2, <1>3
<1>8. t = Append(s, l)
  BY <1>1, <1>4, <1>5, <1>6, <1>7, SMTT(30)
<1> QED BY <1>8 DEF s, t, l

LEMMA EntriesShrink ==
  ASSUME NEW h \in [0 .. HistorySize - 1 -> Line], NEW o \in Nat, NEW n \in Nat, o + 1 <= n
  PROVE  Entries(h, o + 1, n) = Tail(Entries(h, o, n))
<1> DEFINE s == Entries(h, o, n)
           t == Entries(h, o + 1, n)
           m == n - (o + 1)
<1>1. m \in Nat /\ o + 1 \in Nat /\ o <= n /\ n - o = m + 1
  BY SMTT(30)
<1>2. /\ s \in Seq(Line) /\ Len(s) = m + 1
      /\ \A i \in 1 .. n - o : s[i] = h[Slot(o + i - 1)]
  <2>1. /\ s \in Seq(Line) /\ Len(s) = n - o
        /\ \A i \in 1 .. n - o : s[i] = h[Slot(o + i - 1)]
    BY <1>1, EntriesProperties
  <2> QED BY <1>1, <2>1
<1>3. /\ t \in Seq(Line) /\ Len(t) = m
      /\ \A i \in 1 .. m : t[i] = h[Slot(o + 1 + i - 1)]
  BY <1>1, EntriesProperties
<1>5. ASSUME NEW i \in 1 .. m PROVE t[i] = s[i + 1]
  <2>1. i + 1 \in 1 .. n - o /\ o + (i + 1) - 1 = o + 1 + i - 1
    BY <1>1, SMTT(30)
  <2>2. s[i + 1] = h[Slot(o + (i + 1) - 1)]
    BY <1>2, <2>1
  <2>3. t[i] = h[Slot(o + 1 + i - 1)]
    BY <1>3
  <2> QED BY <2>1, <2>2, <2>3
<1> HIDE DEF s, t, m
<1>7. s \in Seq(Line) /\ Len(s) = m + 1 /\ t \in Seq(Line) /\ Len(t) = m
  BY <1>2, <1>3
<1>8. t = Tail(s)
  BY <1>1, <1>5, <1>7, SMTT(30)
<1> QED BY <1>8 DEF s, t

\* The position of the template.
Position == shell_history_index - shell_history_oldest + 1

LEMMA PastProperties ==
  ASSUME ShellInv
  PROVE  /\ Past \in Seq(Line)
         /\ Len(Past) = shell_history_newest - shell_history_oldest
         /\ \A i \in 1 .. shell_history_newest - shell_history_oldest :
              Past[i] = shell_history[Slot(shell_history_oldest + i - 1)]
<1>1. /\ shell_history \in [0 .. HistorySize - 1 -> Line] /\ shell_history_oldest \in Nat
      /\ shell_history_newest \in Nat /\ shell_history_oldest <= shell_history_newest
  BY SMTT(30) DEF ShellInv
<1>2. Past = Entries(shell_history, shell_history_oldest, shell_history_newest)
  BY PastEntries
<1> QED BY <1>1, <1>2, EntriesProperties

\* The line above the current one.
LEMMA PastLine ==
  ASSUME ShellInv, NEW k \in Int, shell_history_oldest <= k, k < shell_history_newest
  PROVE  /\ k - shell_history_oldest + 1 \in 1 .. Len(Past)
         /\ Past[k - shell_history_oldest + 1] = shell_history[Slot(k)]
<1> DEFINE i == k - shell_history_oldest + 1
<1>1. shell_history_oldest \in Nat /\ shell_history_newest \in Nat
  BY DEF ShellInv
<1>2. i \in 1 .. shell_history_newest - shell_history_oldest /\ shell_history_oldest + i - 1 = k
  BY <1>1, SMTT(30)
<1> HIDE DEF i
<1>3. Past[i] = shell_history[Slot(shell_history_oldest + i - 1)]
  BY <1>2, PastProperties
<1>4. i \in 1 .. Len(Past)
  BY <1>2, PastProperties
<1> QED BY <1>2, <1>3, <1>4 DEF i

LEMMA EditRefines ==
  ASSUME ShellInv, ShellInv', EditStep
  PROVE  History!Edit
<1>1. /\ Settled /\ UNCHANGED <<shell_history_newest, shell_history_oldest>>
      /\ shell_history_index' = shell_history_index
      /\ shell_history_oldest' = shell_history_oldest
  BY DEF EditStep, historyVars
<1>2. Past' = Past
  BY <1>1, SettledPast
<1>3. Current' \in Line
  <2>1. Slot(shell_history_newest') \in 0 .. HistorySize - 1
    <3>1. shell_history_newest' \in Int
      BY SMTT(30) DEF ShellInv
    <3> QED BY <3>1, SlotType, SMTT(30)
  <2> QED BY <2>1 DEF ShellInv, Current, Slot
<1> QED BY <1>1, <1>2, <1>3 DEF History!Edit

LEMMA BackRefines ==
  ASSUME ShellInv, BackStep
  PROVE  History!Back
<1>1. /\ Settled /\ UNCHANGED <<shell_history_newest, shell_history_oldest>>
      /\ shell_history_newest' = shell_history_newest
      /\ shell_history_oldest' = shell_history_oldest
      /\ shell_history_index # shell_history_oldest
      /\ shell_history_index' = shell_history_index - 1
      /\ shell_history'[Here] = shell_history[Slot(shell_history_index - 1)]
  BY DEF BackStep
<1>2. Past' = Past
  BY <1>1, SettledPast
<1>3. Current' = shell_history[Slot(shell_history_index - 1)]
  BY <1>1 DEF Current, Here, Slot
<1>4. /\ shell_history_oldest \in Nat /\ shell_history_newest \in Nat /\ shell_history_index \in Nat
      /\ shell_history_oldest <= shell_history_index /\ shell_history_index <= shell_history_newest
  BY DEF ShellInv
<1>5. /\ shell_history_index - 1 \in Int /\ shell_history_oldest <= shell_history_index - 1
      /\ shell_history_index - 1 < shell_history_newest
      /\ shell_history_index - 1 - shell_history_oldest + 1 = Position - 1
      /\ Position > 1 /\ Position' = Position - 1
  BY <1>1, <1>4, SMTT(30) DEF Position
<1>6. Past[shell_history_index - 1 - shell_history_oldest + 1]
        = shell_history[Slot(shell_history_index - 1)]
  BY <1>5, PastLine
<1>7. Past[Position - 1] = shell_history[Slot(shell_history_index - 1)]
  BY <1>5, <1>6
<1>8. Position > 1 /\ Position' = Position - 1 /\ Current' = Past[Position - 1] /\ Past' = Past
  BY <1>2, <1>3, <1>5, <1>7
<1> QED BY <1>8 DEF History!Back, Position

LEMMA ForwardRefines ==
  ASSUME ShellInv, ForwardStep
  PROVE  History!Forward
<1>1. /\ Settled /\ UNCHANGED <<shell_history_newest, shell_history_oldest>>
      /\ shell_history_newest' = shell_history_newest
      /\ shell_history_oldest' = shell_history_oldest
      /\ shell_history_index # shell_history_newest
      /\ shell_history_index' = shell_history_index + 1
      /\ shell_history'[Here] = IF shell_history_index + 1 = shell_history_newest THEN <<>>
                                ELSE shell_history[Slot(shell_history_index + 1)]
  BY DEF ForwardStep
<1>2. Past' = Past
  BY <1>1, SettledPast
<1>3. Current' = IF shell_history_index + 1 = shell_history_newest THEN <<>>
                 ELSE shell_history[Slot(shell_history_index + 1)]
  BY <1>1 DEF Current, Here, Slot
<1>4. /\ shell_history_oldest \in Nat /\ shell_history_newest \in Nat /\ shell_history_index \in Nat
      /\ shell_history_oldest <= shell_history_index /\ shell_history_index <= shell_history_newest
  BY DEF ShellInv
<1>5. /\ Position < Len(Past) + 1 /\ Position' = Position + 1
      /\ (shell_history_index + 1 = shell_history_newest) <=> (Position + 1 = Len(Past) + 1)
  <2>1. Len(Past) = shell_history_newest - shell_history_oldest
    BY PastProperties
  <2> QED BY <1>1, <1>4, <2>1, SMTT(30) DEF Position
<1>6. ASSUME shell_history_index + 1 # shell_history_newest
      PROVE  Past[Position + 1] = shell_history[Slot(shell_history_index + 1)]
  <2> DEFINE k == shell_history_index + 1
  <2>1. /\ k \in Int /\ shell_history_oldest <= k /\ k < shell_history_newest
        /\ k - shell_history_oldest + 1 = Position + 1
    BY <1>1, <1>4, <1>6, SMTT(30) DEF Position
  <2> HIDE DEF k
  <2>2. Past[k - shell_history_oldest + 1] = shell_history[Slot(k)]
    BY <2>1, PastLine
  <2> QED BY <2>1, <2>2 DEF k
<1>7. Current' = IF Position + 1 = Len(Past) + 1 THEN <<>> ELSE Past[Position + 1]
  BY <1>3, <1>5, <1>6
<1> QED BY <1>2, <1>5, <1>7 DEF History!Forward, History!Here, Position

\* The test against the newest entry of the history.
LEMMA RepeatedMeans ==
  ASSUME ShellInv
  PROVE  SameNewest <=> History!Repeated
<1>1. /\ shell_history_oldest \in Nat /\ shell_history_newest \in Nat
      /\ shell_history_oldest <= shell_history_newest
  BY SMTT(30) DEF ShellInv
<1>2. Past \in Seq(Line) /\ Len(Past) = shell_history_newest - shell_history_oldest
  BY PastProperties
<1>3. CASE shell_history_newest = shell_history_oldest
  <2>1. Len(Past) = 0
    BY <1>1, <1>2, <1>3, SMTT(30)
  <2>2. Past = <<>>
    BY <1>2, <2>1, SMTT(30)
  <2> QED BY <1>3, <2>2 DEF SameNewest, History!Repeated
<1>4. CASE shell_history_newest # shell_history_oldest
  <2> DEFINE k == shell_history_newest - 1
  <2>1. k \in Int /\ shell_history_oldest <= k /\ k < shell_history_newest
    BY <1>1, <1>4, SMTT(30)
  <2>2. k - shell_history_oldest + 1 = Len(Past) /\ Len(Past) # 0
    BY <1>1, <1>2, <1>4, SMTT(30)
  <2>3. Past # <<>>
    BY <1>2, <2>2, SMTT(30)
  <2> HIDE DEF k
  <2>4. Past[k - shell_history_oldest + 1] = shell_history[Slot(k)]
    BY <2>1, PastLine
  <2>5. Past[Len(Past)] = shell_history[Slot(shell_history_newest - 1)]
    BY <2>2, <2>4 DEF k
  <2>6. SameNewest <=> Current = Past[Len(Past)]
    BY <1>4, <2>5 DEF SameNewest
  <2> QED BY <2>3, <2>6 DEF History!Repeated
<1> QED BY <1>3, <1>4

\* The end of a line: its entry joins the others, without the oldest of them
\* when there were as many as the history keeps.
LEMMA EnterPast ==
  ASSUME ShellInv, Enter
  PROVE  Past' = IF Current = <<>> \/ SameNewest THEN Past
                 ELSE IF Len(Past) < HistorySize - 1 THEN Append(Past, Current)
                 ELSE Tail(Append(Past, Current))
<1> DEFINE o == shell_history_oldest
           n == shell_history_newest
           h == shell_history
           g == shell_history'
           p == shell_history_oldest'
           k == shell_history_newest'
<1>1. /\ h \in [0 .. HistorySize - 1 -> Line] /\ o \in Nat /\ n \in Nat
      /\ o <= n /\ n - o < HistorySize /\ HistorySize \in Nat \ {0}
  BY ShellAssumption, SMTT(30) DEF ShellInv
<1>2. /\ g = [h EXCEPT ![Slot(k)] = <<>>] /\ k \in Nat /\ p \in Nat /\ p <= k
      /\ k - p < HistorySize
      /\ k = n => p = o
      /\ k = n + 1 => p = IF n + 1 - o = HistorySize THEN o + 1 ELSE o
  BY EnterIndexes
<1>3. k = IF Current = <<>> \/ SameNewest THEN n ELSE n + 1
  BY DEF Enter
<1>4. Past = Entries(h, o, n) /\ Past' = Entries(g, p, k) /\ Current = h[Slot(n)]
  BY PastEntries DEF Current
<1>5. Len(Past) = n - o
  BY PastProperties
<1> HIDE DEF o, n, h, g, p, k
<1>6. /\ g \in [0 .. HistorySize - 1 -> Line]
      /\ \A i \in 0 .. HistorySize - 1 : i # Slot(k) => g[i] = h[i]
  <2>1. <<>> \in Line /\ k \in Int
    BY <1>2, LineMeans, SMTT(30)
  <2>2. Slot(k) \in 0 .. HistorySize - 1
    BY <2>1, SlotType
  <2>3. g \in [0 .. HistorySize - 1 -> Line]
    BY <1>1, <1>2, <2>1
  <2>4. ASSUME NEW i \in 0 .. HistorySize - 1, i # Slot(k) PROVE g[i] = h[i]
    BY <1>1, <1>2, <2>4
  <2> QED BY <2>3, <2>4
<1>7. k \in Nat /\ p \in Nat /\ p <= k /\ k <= k /\ k - p < HistorySize
  BY <1>2, SMTT(30)
<1>8. Entries(g, p, k) = Entries(h, p, k)
  <2>1. h \in [0 .. HistorySize - 1 -> Line]
    BY <1>1
  <2> QED BY <1>6, <1>7, <2>1, EntriesKept
<1>9. CASE Current = <<>> \/ SameNewest
  BY <1>2, <1>3, <1>4, <1>8, <1>9
<1>10. CASE ~(Current = <<>> \/ SameNewest)
  <2>1. k = n + 1
    BY <1>3, <1>10
  <2>2. Entries(h, o, n + 1) = Append(Past, Current)
    BY <1>1, <1>4, EntriesGrow
  <2>3. Entries(h, o, k) = Append(Past, Current)
    BY <2>1, <2>2
  <2>4. CASE n + 1 - o = HistorySize
    <3>1. p = o + 1 /\ ~(Len(Past) < HistorySize - 1) /\ o + 1 <= k
      BY <1>1, <1>2, <1>5, <2>1, <2>4, SMTT(30)
    <3>2. Entries(h, o + 1, k) = Tail(Entries(h, o, k))
      BY <1>1, <1>2, <3>1, EntriesShrink
    <3> QED BY <1>4, <1>8, <1>10, <2>3, <3>1, <3>2
  <2>5. CASE n + 1 - o # HistorySize
    <3>1. p = o /\ Len(Past) < HistorySize - 1
      BY <1>1, <1>2, <1>5, <2>1, <2>5, SMTT(30)
    <3> QED BY <1>4, <1>8, <1>10, <2>3, <3>1
  <2> QED BY <2>4, <2>5
<1> QED BY <1>9, <1>10

LEMMA EnterRefines ==
  ASSUME ShellInv, ShellInv', Enter
  PROVE  History!Enter
<1>1. Past' = IF Current = <<>> \/ History!Repeated THEN Past
              ELSE IF Len(Past) < HistorySize - 1 THEN Append(Past, Current)
              ELSE Tail(Append(Past, Current))
  BY EnterPast, RepeatedMeans
<1>2. Current' = <<>>
  <2>1. TableInv'
    BY DEF ShellInv
  <2> QED BY <2>1, EnterInv
<1>3. Position' = Len(Past') + 1
  <2>1. /\ shell_history' \in [0 .. HistorySize - 1 -> Line] /\ shell_history_oldest' \in Nat
        /\ shell_history_newest' \in Nat /\ shell_history_oldest' <= shell_history_newest'
        /\ shell_history_index' = shell_history_newest'
    BY EnterIndexes DEF ShellInv
  <2>2. Len(Past') = shell_history_newest' - shell_history_oldest'
    BY <2>1, PastEntries, EntriesProperties
  <2> QED BY <2>1, <2>2 DEF Position
<1> QED BY <1>1, <1>2, <1>3 DEF History!Enter, History!Here, Position

\* The ring of entries is a list of the last lines: what LineHistory promises
\* holds for any size of the history, however many lines are entered.
THEOREM HistoryRefinement == Spec => ImplementsHistory
<1>1. Init => History!Init
  <2> SUFFICES ASSUME Init PROVE History!Init
    OBVIOUS
  <2>1. ShellInv /\ Current = <<>>
    BY InitShell
  <2>2. shell_history_index = 0 /\ shell_history_oldest = 0 /\ shell_history_newest = 0
    BY DEF Init
  <2>3. Past \in Seq(Line) /\ Len(Past) = shell_history_newest - shell_history_oldest
    BY <2>1, PastProperties
  <2>4. Past = <<>>
    BY <2>2, <2>3, SMTT(30)
  <2>5. shell_history_index - shell_history_oldest + 1 = 1
    BY <2>2, SMTT(30)
  <2> QED BY <2>1, <2>4, <2>5 DEF History!Init
<1>2. ShellInv /\ ShellInv' /\ [Next]_vars =>
        [History!Next]_<<Past, Current, shell_history_index - shell_history_oldest + 1>>
  <2> SUFFICES ASSUME ShellInv, ShellInv', [Next]_vars PROVE History!Next
    OBVIOUS
  <2>1. EditStep \/ BackStep \/ ForwardStep \/ Enter
    BY StepKinds DEF Kinds
  <2> QED BY <2>1, EditRefines, BackRefines, ForwardRefines, EnterRefines
          DEF History!Next
<1> QED BY <1>1, <1>2, ShellInvariance, PTL DEF Spec, ImplementsHistory, History!Spec

-----------------------------------------------------------------------------
(* The arguments of a command.                                             *)

\* The words that start in the first k characters.
StartsIn(line, k) == {i \in WordStarts(line) : i <= k}

\* The characters that are cut off, and the line with those among the first k.
EndsWord(line, i) == line[i] = Separator /\ PreviousChar(line, i) # Separator
CutLine(line, k) ==
  [i \in 1 .. Len(line) |-> IF i <= k /\ EndsWord(line, i) THEN Cut ELSE line[i]]

ArgsOf(tmp_line, argv, error) == [tmp_line |-> tmp_line, argv |-> argv, error |-> error]

\* The arguments found so far are the words that start so far.
Found(line, k, argv) ==
  /\ argv \in Seq(Nat)
  /\ Len(argv) = Cardinality(StartsIn(line, k))
  /\ \A j \in 1 .. Len(argv) : argv[j] \in StartsIn(line, k)
  /\ \A i \in StartsIn(line, k) : \E j \in 1 .. Len(argv) : argv[j] = i
  /\ \A j, m \in 1 .. Len(argv) : j < m => argv[j] < argv[m]

Running == FALSE

\* The state of shell_process_args after k characters.
Splitting(line, k, args) ==
  \/ args.error /\ Cardinality(StartsIn(line, k)) >= MaxArgs
  \/ \E argv : /\ args = ArgsOf(CutLine(line, k), argv, Running)
               /\ Found(line, k, argv) /\ Len(argv) < MaxArgs

\* The three cases of a turn.
LEMMA TurnError ==
  ASSUME NEW args, NEW line, NEW i, args.error
  PROVE  ArgsTurn(args, line, i) = args
BY DEF ArgsTurn

\* Assignments to fields, each as a predicate: the provers do not instantiate
\* equations on records.
SetTmpLine(t, v, x, u) == [ArgsOf(t, v, x) EXCEPT !.tmp_line = u] = ArgsOf(u, v, x)
SetArgv(t, v, x, w, y) == [ArgsOf(t, v, x) EXCEPT !.argv = w, !.error = y] = ArgsOf(t, w, y)

LEMMA ArgsAssigned ==
  ASSUME NEW t, NEW v, NEW x, NEW u, NEW w, NEW y
  PROVE  SetTmpLine(t, v, x, u) /\ SetArgv(t, v, x, w, y)
<1>1. /\ [ArgsOf(t, v, x) EXCEPT !.tmp_line = u] = ArgsOf(u, v, x)
      /\ [ArgsOf(t, v, x) EXCEPT !.argv = w] = ArgsOf(t, w, x)
      /\ [ArgsOf(t, w, x) EXCEPT !.error = y] = ArgsOf(t, w, y)
  BY SMTT(30) DEF ArgsOf
<1>2. [ArgsOf(t, v, x) EXCEPT !.argv = w, !.error = y]
        = [[ArgsOf(t, v, x) EXCEPT !.argv = w] EXCEPT !.error = y]
  OBVIOUS
<1> QED BY <1>1, <1>2 DEF SetTmpLine, SetArgv

TurnGives(args, line, i, new) == ArgsTurn(args, line, i) = new
CutOnce(t, i, u) == u = [t EXCEPT ![i] = Cut]

LEMMA TurnCuts ==
  ASSUME NEW t, NEW v, NEW line, NEW i, EndsWord(line, i),
         NEW u, CutOnce(t, i, u)
  PROVE  TurnGives(ArgsOf(t, v, Running), line, i, ArgsOf(u, v, Running))
<1> DEFINE a == ArgsOf(t, v, Running)
<1>1. ~a.error /\ a.tmp_line = t /\ a.argv = v
  BY DEF ArgsOf, Running
<1>2. line[i] = Separator /\ PreviousChar(line, i) # Separator
  BY DEF EndsWord
<1>3. ArgsTurn(a, line, i) = [a EXCEPT !.tmp_line = u]
  <2> HIDE DEF a
  <2> QED BY <1>1, <1>2 DEF ArgsTurn, CutOnce
<1>4. SetTmpLine(t, v, Running, u)
  BY ArgsAssigned
<1> QED BY <1>3, <1>4 DEF SetTmpLine, TurnGives

LEMMA TurnStarts ==
  ASSUME NEW t, NEW v, NEW line, NEW i,
         line[i] # Separator, PreviousChar(line, i) = Separator,
         NEW w, w = Append(v, i)
  PROVE  /\ Len(v) + 1 = MaxArgs => ArgsTurn(ArgsOf(t, v, Running), line, i).error
         /\ Len(v) + 1 # MaxArgs =>
              ArgsTurn(ArgsOf(t, v, Running), line, i) = ArgsOf(t, w, Running)
<1> DEFINE a == ArgsOf(t, v, Running)
           y == (Len(v) + 1 = MaxArgs)
<1>1. ~a.error /\ a.tmp_line = t /\ a.argv = v
  BY DEF ArgsOf, Running
<1>2. ArgsTurn(a, line, i) = [a EXCEPT !.argv = w, !.error = y]
  <2> HIDE DEF a
  <2> QED BY <1>1 DEF ArgsTurn
<1>3. ASSUME NEW z, z = y PROVE ArgsTurn(a, line, i) = ArgsOf(t, w, z)
  <2>1. SetArgv(t, v, Running, w, z)
    BY ArgsAssigned
  <2> QED BY <1>2, <1>3, <2>1 DEF SetArgv
<1>4. ASSUME Len(v) + 1 # MaxArgs PROVE ArgsTurn(a, line, i) = ArgsOf(t, w, Running)
  <2>1. Running = y
    BY <1>4 DEF Running
  <2> QED BY <1>3, <2>1
<1>5. ASSUME Len(v) + 1 = MaxArgs PROVE ArgsTurn(a, line, i).error
  <2>1. PICK z : z = y
    OBVIOUS
  <2>2. ArgsTurn(a, line, i).error = z
    <3>1. ArgsTurn(a, line, i) = ArgsOf(t, w, z)
      BY <1>3, <2>1
    <3>2. ArgsOf(t, w, z).error = z
      BY DEF ArgsOf
    <3> QED BY <3>1, <3>2
  <2> QED BY <1>5, <2>1, <2>2
<1> QED BY <1>4, <1>5

LEMMA TurnSkips ==
  ASSUME NEW t, NEW v, NEW line, NEW i, ~EndsWord(line, i),
         ~(line[i] # Separator /\ PreviousChar(line, i) = Separator)
  PROVE  ArgsTurn(ArgsOf(t, v, Running), line, i) = ArgsOf(t, v, Running)
<1> DEFINE a == ArgsOf(t, v, Running)
<1>1. ~a.error
  BY DEF ArgsOf, Running
<1> HIDE DEF a
<1>2. ArgsTurn(a, line, i) = a
  BY <1>1 DEF ArgsTurn, EndsWord
<1> QED BY <1>2 DEF a

\* What one character adds to the words and to the cuts.
LEMMA StartsGrow ==
  ASSUME NEW S, NEW line \in Seq(S), NEW k \in 1 .. Len(line)
  PROVE  /\ IsFiniteSet(StartsIn(line, k)) /\ IsFiniteSet(StartsIn(line, k - 1))
         /\ k \in WordStarts(line) =>
              /\ k \notin StartsIn(line, k - 1)
              /\ StartsIn(line, k) = StartsIn(line, k - 1) \cup {k}
              /\ Cardinality(StartsIn(line, k)) = Cardinality(StartsIn(line, k - 1)) + 1
         /\ k \notin WordStarts(line) => StartsIn(line, k) = StartsIn(line, k - 1)
         /\ Cardinality(StartsIn(line, k - 1)) \in Nat
         /\ Cardinality(StartsIn(line, k - 1)) <= Cardinality(StartsIn(line, k))
<1>1. Len(line) \in Nat /\ k \in Nat /\ k \in Int
  BY SMTT(30)
<1>2. WordStarts(line) \subseteq 1 .. Len(line)
  BY SMTT(30) DEF WordStarts
<1>3. IsFiniteSet(1 .. Len(line))
  BY <1>1, FS_Interval, SMTT(30)
<1>4. StartsIn(line, k) \subseteq 1 .. Len(line) /\ StartsIn(line, k - 1) \subseteq 1 .. Len(line)
  BY <1>2 DEF StartsIn
<1>5. IsFiniteSet(StartsIn(line, k)) /\ IsFiniteSet(StartsIn(line, k - 1))
  BY <1>3, <1>4, FS_Subset
<1>6. \A i \in WordStarts(line) : i \in Int /\ (i <= k <=> i <= k - 1 \/ i = k)
  BY <1>1, <1>2, SMTT(30)
<1>7. ASSUME k \notin WordStarts(line) PROVE StartsIn(line, k) = StartsIn(line, k - 1)
  BY <1>6, <1>7 DEF StartsIn
<1>8. ~(k <= k - 1) /\ k <= k
  BY <1>1, SMTT(30)
<1>9. ASSUME k \in WordStarts(line)
      PROVE  /\ k \notin StartsIn(line, k - 1)
             /\ StartsIn(line, k) = StartsIn(line, k - 1) \cup {k}
  BY <1>6, <1>8, <1>9 DEF StartsIn
<1>10. Cardinality(StartsIn(line, k - 1)) \in Nat
  BY <1>5, FS_CardinalityType
<1>11. ASSUME k \in WordStarts(line)
       PROVE  Cardinality(StartsIn(line, k)) = Cardinality(StartsIn(line, k - 1)) + 1
  BY <1>5, <1>9, <1>11, FS_AddElement
<1>12. Cardinality(StartsIn(line, k - 1)) <= Cardinality(StartsIn(line, k))
  <2>1. CASE k \in WordStarts(line)
    BY <1>10, <1>11, <2>1, SMTT(30)
  <2>2. CASE k \notin WordStarts(line)
    BY <1>7, <1>10, <2>2, SMTT(30)
  <2> QED BY <2>1, <2>2
<1> QED BY <1>5, <1>7, <1>9, <1>10, <1>11, <1>12

LEMMA CutsGrow ==
  ASSUME NEW S, NEW line \in Seq(S), NEW k \in 1 .. Len(line)
  PROVE  /\ EndsWord(line, k) => [CutLine(line, k - 1) EXCEPT ![k] = Cut] = CutLine(line, k)
         /\ ~EndsWord(line, k) => CutLine(line, k - 1) = CutLine(line, k)
<1>1. Len(line) \in Nat
  BY SMTT(30)
<1>2. \A i \in 1 .. Len(line) : (i <= k <=> i <= k - 1 \/ i = k) /\ ~(k <= k - 1)
  BY <1>1, SMTT(30)
<1>3. ASSUME ~EndsWord(line, k) PROVE CutLine(line, k - 1) = CutLine(line, k)
  <2>1. \A i \in 1 .. Len(line) : i <= k /\ EndsWord(line, i) <=> i <= k - 1 /\ EndsWord(line, i)
    BY <1>2, <1>3
  <2> QED BY <2>1 DEF CutLine
<1>4. ASSUME EndsWord(line, k)
      PROVE  [CutLine(line, k - 1) EXCEPT ![k] = Cut] = CutLine(line, k)
  <2> DEFINE E(i) == EndsWord(line, i)
  <2>1. E(k)
    BY <1>4
  <2> HIDE DEF E
  <2>2. CutLine(line, k - 1) = [i \in 1 .. Len(line) |-> IF i <= k - 1 /\ E(i) THEN Cut ELSE line[i]]
        /\ CutLine(line, k) = [i \in 1 .. Len(line) |-> IF i <= k /\ E(i) THEN Cut ELSE line[i]]
    BY DEF CutLine, E
  <2> QED BY <1>2, <2>1, <2>2, SMTT(30)
<1> QED BY <1>3, <1>4

LEMMA FoundGrows ==
  ASSUME NEW S, NEW line \in Seq(S), NEW k \in 1 .. Len(line), k \in WordStarts(line),
         NEW argv, Found(line, k - 1, argv)
  PROVE  Found(line, k, Append(argv, k)) /\ Len(Append(argv, k)) = Len(argv) + 1
<1> DEFINE w == Append(argv, k)
           A == StartsIn(line, k - 1)
           B == StartsIn(line, k)
<1>1. argv \in Seq(Nat) /\ Len(argv) \in Nat /\ k \in Nat
  BY SMTT(30) DEF Found
<1>2. /\ Len(argv) = Cardinality(A)
      /\ \A j \in 1 .. Len(argv) : argv[j] \in A
      /\ \A i \in A : \E j \in 1 .. Len(argv) : argv[j] = i
      /\ \A j, m \in 1 .. Len(argv) : j < m => argv[j] < argv[m]
  BY DEF Found
<1>3. B = A \cup {k} /\ Cardinality(B) = Cardinality(A) + 1
  BY StartsGrow, SMTT(30)
<1>4. \A i \in A : i <= k - 1
  BY DEF StartsIn
<1>5. /\ w \in Seq(Nat) /\ Len(w) = Len(argv) + 1
      /\ \A j \in 1 .. Len(argv) : w[j] = argv[j]
      /\ w[Len(argv) + 1] = k
  BY <1>1, SMTT(30)
<1> HIDE DEF w, A, B
<1>6. \A j \in 1 .. Len(w) : j \in 1 .. Len(argv) \/ j = Len(argv) + 1
  BY <1>1, <1>5, SMTT(30)
<1>7. \A j \in 1 .. Len(argv) : j \in 1 .. Len(w)
  BY <1>1, <1>5, SMTT(30)
<1>8. Len(argv) + 1 \in 1 .. Len(w)
  BY <1>1, <1>5, SMTT(30)
<1>9. \A j \in 1 .. Len(w) : w[j] \in B
  BY <1>2, <1>3, <1>5, <1>6
<1>10. ASSUME NEW i \in B PROVE \E j \in 1 .. Len(w) : w[j] = i
  <2>1. CASE i = k
    BY <1>5, <1>8, <2>1
  <2>2. CASE i \in A
    BY <1>2, <1>5, <1>7, <2>2
  <2> QED BY <1>3, <2>1, <2>2
<1>11. ASSUME NEW j \in 1 .. Len(w), NEW m \in 1 .. Len(w), j < m PROVE w[j] < w[m]
  <2>1. j \in 1 .. Len(argv)
    BY <1>1, <1>5, <1>11, SMTT(30)
  <2>2. CASE m \in 1 .. Len(argv)
    BY <1>2, <1>5, <1>11, <2>1, <2>2
  <2>3. CASE m = Len(argv) + 1
    <3>1. argv[j] <= k - 1 /\ argv[j] \in Nat /\ w[j] = argv[j] /\ w[m] = k
      BY <1>1, <1>2, <1>4, <1>5, <2>1, <2>3, SMTT(30)
    <3> QED BY <1>1, <3>1, SMTT(30)
  <2> QED BY <1>6, <2>2, <2>3
<1>12. Len(w) = Cardinality(B)
  BY <1>2, <1>3, <1>5
<1> QED BY <1>5, <1>9, <1>10, <1>11, <1>12 DEF Found, w, A, B

LEMMA TurnSplits ==
  ASSUME NEW S, NEW line \in Seq(S), NEW k \in 1 .. Len(line),
         NEW args, Splitting(line, k - 1, args)
  PROVE  Splitting(line, k, ArgsTurn(args, line, k))
<1> DEFINE A == StartsIn(line, k - 1)
           B == StartsIn(line, k)
           prev == PreviousChar(line, k)
<1>1. MaxArgs \in Nat
  BY ArgsAssumption
<1>2. Cardinality(A) \in Nat /\ Cardinality(A) <= Cardinality(B)
  BY StartsGrow
<1>3. Cardinality(B) \in Nat
  BY StartsGrow, FS_CardinalityType
<1>4. CASE args.error /\ Cardinality(A) >= MaxArgs
  <2>1. ArgsTurn(args, line, k) = args
    BY <1>4, TurnError
  <2>2. Cardinality(B) >= MaxArgs
    <3> HIDE DEF A, B
    <3> QED BY <1>1, <1>2, <1>3, <1>4, SMTT(30)
  <2> QED BY <1>4, <2>1, <2>2 DEF Splitting
<1>5. CASE ~(args.error /\ Cardinality(A) >= MaxArgs)
  <2> DEFINE t == CutLine(line, k - 1)
             u == CutLine(line, k)
             new == ArgsTurn(args, line, k)
  <2>1. PICK v : args = ArgsOf(t, v, Running) /\ Found(line, k - 1, v) /\ Len(v) < MaxArgs
    BY <1>5 DEF Splitting
  <2>3. k \in WordStarts(line) <=> line[k] # Separator /\ prev = Separator
    <3>1. k \in DOMAIN line
      BY SMTT(30)
    <3> QED BY <3>1 DEF WordStarts
  <2>4. CASE EndsWord(line, k)
    <3>1. [t EXCEPT ![k] = Cut] = u
      BY <2>4, CutsGrow
    <3>2. new = ArgsOf(u, v, Running)
      <4> HIDE DEF t, u
      <4>1. CutOnce(t, k, u)
        BY <3>1 DEF CutOnce
      <4>2. TurnGives(ArgsOf(t, v, Running), line, k, ArgsOf(u, v, Running))
        BY <2>4, <4>1, TurnCuts
      <4> QED BY <2>1, <4>2 DEF TurnGives
    <3>3. k \notin WordStarts(line)
      BY <2>3, <2>4 DEF EndsWord
    <3>4. Found(line, k, v)
      <4>1. A = B
        BY <3>3, StartsGrow
      <4> QED BY <2>1, <4>1 DEF Found
    <3> QED BY <2>1, <3>2, <3>4 DEF Splitting
  <2>5. CASE k \in WordStarts(line)
    <3> DEFINE w == Append(v, k)
    <3>1. ~EndsWord(line, k)
      BY <2>3, <2>5 DEF EndsWord
    <3>2. t = u
      BY <3>1, CutsGrow
    <3>3. /\ Len(v) + 1 = MaxArgs => new.error
          /\ Len(v) + 1 # MaxArgs => new = ArgsOf(u, w, Running)
      <4>1. line[k] # Separator /\ PreviousChar(line, k) = Separator
        BY <2>3, <2>5
      <4> HIDE DEF t, u
      <4> QED BY <2>1, <3>2, <4>1, TurnStarts
    <3>4. Found(line, k, w) /\ Len(w) = Len(v) + 1
      BY <2>1, <2>5, FoundGrows
    <3>5. Len(v) \in Nat /\ Len(w) = Cardinality(B)
      BY <2>1, <3>4, SMTT(30) DEF Found
    <3>6. CASE Len(v) + 1 = MaxArgs
      <4>1. new.error
        BY <3>3, <3>6
      <4>2. Cardinality(B) >= MaxArgs
        <5> HIDE DEF B, w
        <5> QED BY <1>1, <1>3, <3>4, <3>5, <3>6, SMTT(30)
      <4> QED BY <4>1, <4>2 DEF Splitting
    <3>7. CASE Len(v) + 1 # MaxArgs
      <4>1. new = ArgsOf(u, w, Running)
        BY <3>3, <3>7
      <4>2. Len(w) < MaxArgs
        <5> HIDE DEF w
        <5> QED BY <1>1, <2>1, <3>4, <3>5, <3>7, SMTT(30)
      <4> QED BY <3>4, <4>1, <4>2 DEF Splitting
    <3> QED BY <3>6, <3>7
  <2>6. CASE ~EndsWord(line, k) /\ k \notin WordStarts(line)
    <3>1. t = u
      BY <2>6, CutsGrow
    <3>2. new = ArgsOf(t, v, Running)
      <4>1. ~(line[k] # Separator /\ PreviousChar(line, k) = Separator)
        BY <2>3, <2>6
      <4> HIDE DEF t
      <4> QED BY <2>1, <2>6, <4>1, TurnSkips
    <3>3. Found(line, k, v)
      <4>1. A = B
        BY <2>6, StartsGrow
      <4> QED BY <2>1, <4>1 DEF Found
    <3> QED BY <2>1, <3>1, <3>2, <3>3 DEF Splitting
  <2> QED BY <2>4, <2>5, <2>6
<1> QED BY <1>4, <1>5

\* The turns of the loop up to the kth character.
ArgsStart(line) == [tmp_line |-> line, argv |-> <<>>, error |-> FALSE]
ArgsTurns(line, k, g) ==
  g = [i \in 0 .. k |-> IF i = 0 THEN ArgsStart(line) ELSE ArgsTurn(g[i - 1], line, i)]

LEMMA TurnsExtend ==
  ASSUME NEW line, NEW k \in Nat, k # 0, NEW g, ArgsTurns(line, k - 1, g)
  PROVE  \E h : ArgsTurns(line, k, h)
<1> DEFINE h == [i \in 0 .. k |-> IF i = k THEN ArgsTurn(g[k - 1], line, k) ELSE g[i]]
           V(i) == IF i = 0 THEN ArgsStart(line) ELSE ArgsTurn(h[i - 1], line, i)
<1>1. \A i \in 0 .. k - 1 : g[i] = IF i = 0 THEN ArgsStart(line) ELSE ArgsTurn(g[i - 1], line, i)
  BY DEF ArgsTurns
<1>2. \A i \in 0 .. k : h[i] = IF i = k THEN ArgsTurn(g[k - 1], line, k) ELSE g[i]
  OBVIOUS
<1>3. h = [i \in 0 .. k |-> h[i]]
  OBVIOUS
<1> HIDE DEF h
<1>4. ASSUME NEW i \in 0 .. k PROVE h[i] = V(i)
  <2>1. CASE i = k
    <3>1. k - 1 \in 0 .. k /\ k - 1 # k
      BY SMTT(30)
    <3>2. h[k - 1] = g[k - 1]
      BY <1>2, <3>1
    <3> QED BY <1>2, <2>1, <3>2
  <2>2. CASE i # k
    <3>1. i \in 0 .. k - 1 /\ (i # 0 => i - 1 \in 0 .. k /\ i - 1 # k)
      BY <2>2, SMTT(30)
    <3>2. h[i] = g[i] /\ (i # 0 => h[i - 1] = g[i - 1])
      BY <1>2, <2>2, <3>1
    <3>3. g[i] = IF i = 0 THEN ArgsStart(line) ELSE ArgsTurn(g[i - 1], line, i)
      BY <1>1, <3>1
    <3>4. CASE i = 0
      BY <3>2, <3>3, <3>4
    <3>5. CASE i # 0
      BY <3>2, <3>3, <3>5
    <3> QED BY <3>4, <3>5
  <2> QED BY <2>1, <2>2
<1>5. [i \in 0 .. k |-> h[i]] = [i \in 0 .. k |-> V(i)]
  BY <1>4
<1>6. ArgsTurns(line, k, h)
  BY <1>3, <1>5 DEF ArgsTurns
<1> QED BY <1>6

LEMMA TurnsExist ==
  ASSUME NEW line, NEW n \in Nat
  PROVE  \E g : ArgsTurns(line, n, g)
<1> DEFINE B == {k \in Nat : ~ \E g : ArgsTurns(line, k, g)}
<1> SUFFICES ASSUME n \in B PROVE FALSE
  OBVIOUS
<1>1. PICK m \in B : \A k \in B : m <= k
  <2>1. B \in SUBSET Nat /\ B # {}
    OBVIOUS
  <2> HIDE DEF B
  <2> QED BY <2>1, LeastElement
<1>2. m \in Nat /\ ~ \E g : ArgsTurns(line, m, g)
  BY <1>1
<1>3. m # 0
  <2> DEFINE g == [i \in 0 .. 0 |-> ArgsStart(line)]
  <2>1. \A i \in 0 .. 0 : i = 0
    BY SMTT(30)
  <2>2. ArgsTurns(line, 0, g)
    BY <2>1 DEF ArgsTurns
  <2> QED BY <1>2, <2>2
<1>4. m - 1 \in Nat /\ ~(m <= m - 1)
  BY <1>2, <1>3, SMTT(30)
<1>5. m - 1 \notin B
  BY <1>1, <1>4
<1>6. PICK g : ArgsTurns(line, m - 1, g)
  BY <1>4, <1>5
<1> QED BY <1>2, <1>3, <1>6, TurnsExtend

LEMMA TurnsSplit ==
  ASSUME NEW S, NEW line \in Seq(S), NEW g, ArgsTurns(line, Len(line), g)
  PROVE  Splitting(line, Len(line), g[Len(line)])
<1> DEFINE n == Len(line)
           B == {k \in 0 .. n : ~Splitting(line, k, g[k])}
<1>1. n \in Nat /\ n \in 0 .. n /\ 0 \in 0 .. n
  BY SMTT(30)
<1>2. \A i \in 0 .. n : g[i] = IF i = 0 THEN ArgsStart(line) ELSE ArgsTurn(g[i - 1], line, i)
  BY DEF ArgsTurns
<1> SUFFICES ASSUME n \in B PROVE FALSE
  BY <1>1
<1>3. PICK m \in B : \A k \in B : m <= k
  <2>1. B \in SUBSET Nat /\ B # {}
    BY <1>1, SMTT(30)
  <2> HIDE DEF B
  <2> QED BY <2>1, LeastElement
<1>4. m \in 0 .. n /\ ~Splitting(line, m, g[m])
  BY <1>3
<1>5. CASE m = 0
  <2>1. g[0] = ArgsStart(line)
    BY <1>1, <1>2
  <2>2. Splitting(line, 0, ArgsStart(line))
    <3>1. StartsIn(line, 0) = {} /\ Cardinality(StartsIn(line, 0)) = 0
      <4>1. \A i \in DOMAIN line : ~(i <= 0)
        BY SMTT(30)
      <4>2. StartsIn(line, 0) = {}
        BY <4>1 DEF StartsIn, WordStarts
      <4> QED BY <4>2, FS_EmptySet
    <3>2. CutLine(line, 0) = line
      <4>1. line = [i \in 1 .. Len(line) |-> line[i]]
        BY SMTT(30)
      <4>2. \A i \in 1 .. Len(line) : ~(i <= 0)
        BY SMTT(30)
      <4>3. CutLine(line, 0) = [i \in 1 .. Len(line) |-> line[i]]
        BY <4>2 DEF CutLine
      <4> QED BY <4>1, <4>3
    <3>3. <<>> \in Seq(Nat) /\ Len(<<>>) = 0 /\ (\A j \in 1 .. Len(<<>>) : FALSE)
      BY SMTT(30)
    <3>4. Found(line, 0, <<>>)
      BY <3>1, <3>3 DEF Found
    <3>5. Len(<<>>) < MaxArgs
      BY <3>3, ArgsAssumption, SMTT(30)
    <3>6. ArgsStart(line) = ArgsOf(CutLine(line, 0), <<>>, Running)
      BY <3>2 DEF ArgsStart, ArgsOf, Running
    <3> QED BY <3>4, <3>5, <3>6 DEF Splitting
  <2> QED BY <1>4, <1>5, <2>1, <2>2
<1>6. CASE m # 0
  <2>1. m - 1 \in 0 .. n /\ ~(m <= m - 1) /\ m \in 1 .. Len(line)
    BY <1>1, <1>4, <1>6, SMTT(30)
  <2>2. Splitting(line, m - 1, g[m - 1])
    BY <1>3, <2>1
  <2>3. g[m] = ArgsTurn(g[m - 1], line, m)
    BY <1>2, <1>4, <1>6
  <2>4. Splitting(line, m, ArgsTurn(g[m - 1], line, m))
    BY <2>1, <2>2, TurnSplits
  <2> QED BY <1>4, <2>3, <2>4
<1> QED BY <1>5, <1>6

LEMMA ProcessSplits ==
  ASSUME NEW S, NEW line \in Seq(S)
  PROVE  Splitting(line, Len(line), ProcessArgs(line))
<1> DEFINE w == CHOOSE g : ArgsTurns(line, Len(line), g)
<1>1. Len(line) \in Nat
  BY SMTT(30)
<1>2. ArgsTurns(line, Len(line), w)
  BY <1>1, TurnsExist
<1>3. ProcessArgs(line) = w[Len(line)]
  BY DEF ProcessArgs, ArgsTurns, ArgsStart
<1> HIDE DEF w
<1> QED BY <1>2, <1>3, TurnsSplit

\* A word has an end.
LEMMA WordHasEnd ==
  ASSUME NEW S, NEW line \in Seq(S), NEW at \in WordStarts(line)
  PROVE  Ends(Separator, line, at) # {}
<1> DEFINE n == Len(line)
           G == {i \in at .. n : \A k \in at .. i : line[k] # Separator}
<1>1. n \in Nat /\ at \in 1 .. n /\ line[at] # Separator
  BY SMTT(30) DEF WordStarts
<1>2. at \in G
  <2>1. at \in at .. n /\ \A k \in at .. at : k = at
    BY <1>1, SMTT(30)
  <2> QED BY <1>1, <2>1
<1>3. PICK m \in G : \A i \in G : i <= m
  <2>1. G \in SUBSET (0 .. n) /\ G # {}
    BY <1>1, <1>2, SMTT(30)
  <2> HIDE DEF G
  <2> QED BY <1>1, <2>1, GreatestElement
<1>4. m \in at .. n /\ \A k \in at .. m : line[k] # Separator
  BY <1>3
<1>5. CASE m = n
  BY <1>4, <1>5 DEF Ends
<1>6. CASE m # n
  <2> DEFINE p == m + 1
  <2>1. p \in at .. n /\ ~(p <= m) /\ \A k \in at .. p : k \in at .. m \/ k = p
    BY <1>1, <1>4, <1>6, SMTT(30)
  <2> HIDE DEF p
  <2>2. line[p] = Separator
    <3>1. p \notin G
      BY <1>3, <2>1
    <3> QED BY <1>4, <2>1, <3>1
  <2>3. m \in Ends(Separator, line, at)
    BY <1>4, <1>6, <2>2 DEF Ends, p
  <2> QED BY <2>3
<1> QED BY <1>5, <1>6

\* The first separator after the start of a word is the one that is cut.
LEMMA NoCutInWord ==
  ASSUME NEW S, NEW line \in Seq(S), NEW at \in WordStarts(line), NEW i \in at .. Len(line)
  PROVE  (\A k \in at .. i : ~EndsWord(line, k)) <=> (\A k \in at .. i : line[k] # Separator)
<1>1. Len(line) \in Nat /\ at \in 1 .. Len(line) /\ line[at] # Separator
  BY SMTT(30) DEF WordStarts
<1>2. ASSUME \A k \in at .. i : line[k] # Separator
      PROVE  \A k \in at .. i : ~EndsWord(line, k)
  BY <1>2 DEF EndsWord
<1>3. ASSUME \A k \in at .. i : ~EndsWord(line, k), NEW j \in at .. i, line[j] = Separator
      PROVE  FALSE
  <2> DEFINE B == {k \in at .. i : line[k] = Separator}
  <2>1. PICK m \in B : \A k \in B : m <= k
    <3>1. B \in SUBSET Nat /\ B # {}
      BY <1>1, <1>3, SMTT(30)
    <3> HIDE DEF B
    <3> QED BY <3>1, LeastElement
  <2>2. m \in at .. i /\ line[m] = Separator /\ m # at
    BY <1>1, <2>1
  <2>3. m - 1 \in at .. i /\ ~(m <= m - 1) /\ m # 1
    BY <1>1, <2>2, SMTT(30)
  <2>4. line[m - 1] # Separator
    BY <2>1, <2>3
  <2>5. EndsWord(line, m)
    BY <2>2, <2>3, <2>4 DEF EndsWord, PreviousChar
  <2> QED BY <1>3, <2>2, <2>5
<1> QED BY <1>2, <1>3

LEMMA CutLineProperties ==
  ASSUME NEW S, NEW line \in Seq(S), Cut \notin S
  PROVE  LET t == CutLine(line, Len(line))
         IN  /\ t \in Seq(S \cup {Cut}) /\ Len(t) = Len(line)
             /\ \A i \in 1 .. Len(line) :
                  (t[i] = Cut <=> EndsWord(line, i)) /\ (~EndsWord(line, i) => t[i] = line[i])
<1> DEFINE n == Len(line)
           t == CutLine(line, n)
<1>1. n \in Nat /\ \A i \in 1 .. n : line[i] \in S /\ line[i] # Cut /\ i <= n
  BY SMTT(30)
<1>2. ASSUME NEW i \in 1 .. n
      PROVE  t[i] = IF EndsWord(line, i) THEN Cut ELSE line[i]
  BY <1>1 DEF CutLine
<1>3. t = [i \in 1 .. n |-> t[i]]
  BY DEF CutLine
<1> HIDE DEF t
<1>4. \A i \in 1 .. n : (t[i] = Cut <=> EndsWord(line, i)) /\ (~EndsWord(line, i) => t[i] = line[i])
  BY <1>1, <1>2
<1>5. \A i \in 1 .. n : t[i] \in S \cup {Cut}
  BY <1>1, <1>2
<1>6. t \in Seq(S \cup {Cut}) /\ Len(t) = n
  BY <1>1, <1>3, <1>5, SMTT(30)
<1> QED BY <1>4, <1>6 DEF t

\* A string in the cut line is the word that starts there.
LEMMA CutIsWord ==
  ASSUME NEW S, NEW line \in Seq(S), Cut \notin S, NEW at \in WordStarts(line)
  PROVE  UpTo(Cut, CutLine(line, Len(line)), at) = UpTo(Separator, line, at)
<1> DEFINE n == Len(line)
           t == CutLine(line, n)
           P == Ends(Cut, t, at)
           Q == Ends(Separator, line, at)
           e == CHOOSE i \in Q : TRUE
<1>1. n \in Nat /\ at \in 1 .. n
  BY SMTT(30) DEF WordStarts
<1>2. /\ t \in Seq(S \cup {Cut}) /\ Len(t) = n
      /\ \A i \in 1 .. n :
           (t[i] = Cut <=> EndsWord(line, i)) /\ (~EndsWord(line, i) => t[i] = line[i])
  BY CutLineProperties
<1> HIDE DEF t
<1>3. ASSUME NEW i \in at .. n
      PROVE  (\A k \in at .. i : t[k] # Cut) <=> (\A k \in at .. i : line[k] # Separator)
  <2>1. \A k \in at .. i : k \in 1 .. n
    BY <1>1, SMTT(30)
  <2>2. (\A k \in at .. i : t[k] # Cut) <=> (\A k \in at .. i : ~EndsWord(line, k))
    BY <1>2, <2>1
  <2> QED BY <2>2, NoCutInWord
<1>4. ASSUME NEW i \in at .. n, i # n, \A k \in at .. i : line[k] # Separator
      PROVE  t[i + 1] = Cut <=> line[i + 1] = Separator
  <2>1. i + 1 \in 1 .. n /\ i + 1 # 1 /\ (i + 1) - 1 = i /\ i \in at .. i
    BY <1>1, <1>4, SMTT(30)
  <2>2. PreviousChar(line, i + 1) # Separator
    BY <1>4, <2>1 DEF PreviousChar
  <2>3. EndsWord(line, i + 1) <=> line[i + 1] = Separator
    BY <2>2 DEF EndsWord
  <2> QED BY <1>2, <2>1, <2>3
<1>5. P = Q
  <2>1. ASSUME NEW i PROVE i \in P <=> i \in Q
    <3>1. /\ i \in P <=> /\ i \in at .. n /\ \A k \in at .. i : t[k] # Cut
                         /\ i = n \/ t[i + 1] = Cut
          /\ i \in Q <=> /\ i \in at .. n /\ \A k \in at .. i : line[k] # Separator
                         /\ i = n \/ line[i + 1] = Separator
      BY <1>2 DEF Ends
    <3> QED BY <1>3, <1>4, <3>1
  <2> QED BY <2>1
<1>6. Q # {}
  BY WordHasEnd
<1>7. e \in Q
  BY <1>6
<1>8. e \in at .. n /\ \A k \in at .. e : line[k] # Separator
  BY <1>7 DEF Ends
<1>9. UpTo(Cut, t, at) = SubSeq(t, at, e) /\ UpTo(Separator, line, at) = SubSeq(line, at, e)
  BY <1>5 DEF UpTo
<1> HIDE DEF e
<1>10. \A k \in at .. e : t[k] = line[k]
  <2>1. \A k \in at .. e : k \in 1 .. n
    BY <1>1, <1>8, SMTT(30)
  <2> QED BY <1>2, <1>8, <2>1 DEF EndsWord
<1>11. SubSeq(t, at, e) = SubSeq(line, at, e)
  <2> DEFINE u == SubSeq(t, at, e)
             v == SubSeq(line, at, e)
             m == e - at + 1
  <2>1. /\ at \in Nat \ {0} /\ e \in Nat /\ at <= e /\ e <= n /\ m \in Nat
        /\ \A j \in 1 .. m : at + j - 1 \in at .. e
    BY <1>1, <1>8, SMTT(30)
  <2>2. u \in Seq(S \cup {Cut}) /\ Len(u) = m /\ \A j \in 1 .. m : u[j] = t[at + j - 1]
    BY <1>2, <2>1, SMTT(30)
  <2>3. v \in Seq(S) /\ Len(v) = m /\ \A j \in 1 .. m : v[j] = line[at + j - 1]
    BY <2>1, SMTT(30)
  <2>4. v \in Seq(S \cup {Cut})
    <3> HIDE DEF v
    <3> QED BY <2>3, SMTT(30)
  <2> HIDE DEF u, v, m
  <2>5. Agree(u, v, Len(u))
    BY <1>10, <2>1, <2>2, <2>3 DEF Agree
  <2>6. Len(u) = Len(v)
    BY <2>2, <2>3
  <2>7. u = v
    BY <2>2, <2>4, <2>5, <2>6, SameSequence
  <2> QED BY <2>7 DEF u, v
<1> QED BY <1>9, <1>11 DEF t

\* Whatever line is entered, shell_process_args gives the command the words
\* of the line, in order, or refuses a line with too many of them; cutting in
\* place never splits a word nor joins two.
THEOREM ArgumentsAreWords ==
  ASSUME NEW S, NEW line \in Seq(S), Cut \notin S
  PROVE  SplitIntoWords(line, ProcessArgs(line))
<1> DEFINE n == Len(line)
           args == ProcessArgs(line)
           W == WordStarts(line)
<1>1. Splitting(line, n, args)
  BY ProcessSplits
<1>2. StartsIn(line, n) = W
  <2>1. \A i \in DOMAIN line : i <= n
    BY SMTT(30)
  <2> QED BY <2>1 DEF StartsIn, WordStarts
<1> HIDE DEF args
<1>3. CASE args.error /\ Cardinality(W) >= MaxArgs
  BY <1>3 DEF SplitIntoWords, args
<1>4. CASE ~(args.error /\ Cardinality(W) >= MaxArgs)
  <2>1. PICK v : args = ArgsOf(CutLine(line, n), v, Running) /\ Found(line, n, v) /\ Len(v) < MaxArgs
    BY <1>1, <1>2, <1>4 DEF Splitting
  <2>2. args.argv = v /\ args.tmp_line = CutLine(line, n) /\ ~args.error
    BY <2>1 DEF ArgsOf, Running
  <2>3. /\ v \in Seq(Nat) /\ Len(v) = Cardinality(W)
        /\ \A j \in 1 .. Len(v) : v[j] \in W
        /\ \A i \in W : \E j \in 1 .. Len(v) : v[j] = i
        /\ \A j, m \in 1 .. Len(v) : j < m => v[j] < v[m]
    BY <1>2, <2>1 DEF Found
  <2>4. DOMAIN v = 1 .. Len(v)
    BY <2>3, SMTT(30)
  <2>5. ~(Cardinality(W) >= MaxArgs)
    <3>1. Len(v) \in Nat /\ MaxArgs \in Nat
      BY <2>3, ArgsAssumption, SMTT(30)
    <3> HIDE DEF W
    <3> QED BY <2>1, <2>3, <3>1, SMTT(30)
  <2>6. {v[j] : j \in DOMAIN v} = W
    BY <2>3, <2>4
  <2>7. \A j \in DOMAIN v : Argument(args, j) = UpTo(Separator, line, v[j])
    <3>1. ASSUME NEW j \in DOMAIN v PROVE Argument(args, j) = UpTo(Separator, line, v[j])
      <4>1. v[j] \in W
        BY <2>3, <2>4
      <4>2. UpTo(Cut, CutLine(line, n), v[j]) = UpTo(Separator, line, v[j])
        BY <4>1, CutIsWord
      <4> QED BY <2>2, <4>2 DEF Argument
    <3> QED BY <3>1
  <2>8. {args.argv[j] : j \in DOMAIN args.argv} = W
    BY <2>2, <2>6
  <2>9. \A j, m \in DOMAIN args.argv : j < m => args.argv[j] < args.argv[m]
    BY <2>2, <2>3, <2>4
  <2>10. \A j \in DOMAIN args.argv : Argument(args, j) = UpTo(Separator, line, args.argv[j])
    BY <2>2, <2>7
  <2>11. ~args.error
    BY <2>2
  <2> QED BY <2>5, <2>8, <2>9, <2>10, <2>11 DEF SplitIntoWords, args
<1> QED BY <1>3, <1>4
=============================================================================
