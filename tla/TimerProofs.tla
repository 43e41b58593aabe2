----------------------------- MODULE TimerProofs ----------------------------
(***************************************************************************)
(* Proofs about the timers (Timer): the list stays linked and sorted       *)
(* across the wrap-around of the tick counter, the interrupt handler knows *)
(* the first timer, and no timer fires early.  They hold for any number of *)
(* timers and clients and any range of the tick counter.                   *)
(***************************************************************************)
EXTENDS Timer, Basics, FiniteSetTheorems

\* Leaves that name no prover are for Zenon; the others need arithmetic,
\* sequences or function updates and name the SMT solver.
USE ZenonT(30)

Labels == {"idle", "check", "p_take", "p_publish", "fire", "s_insert", "s_publish"}

\* The timers in the list.
Pending == {Listed[i] : i \in 1 .. Len(Listed)}

\* s is the list that h holds.
Chain(h, s) ==
  /\ s \in Seq(Timer)
  /\ \A i, j \in 1 .. Len(s) : s[i] = s[j] => i = j
  /\ Represents(h, timer_list, s)

\* a is d ticks after the tick b, on the circle of ticks.
After(a, b, d) == a - b - d \in {-Modulus, 0, Modulus}

\* Who holds the mutex, has a timer to schedule, or fires one.
Control ==
  /\ pc \in [Threads -> Labels]
  /\ pc[timer_thread] # "idle"
  /\ \A th \in Client : pc[th] \in {"idle", "s_insert", "s_publish"}
  /\ \A th \in Threads : mutex = th <=> pc[th] \in {"s_publish", "p_publish"}
  /\ \A th \in Threads : arg[th] # NULL <=> pc[th] \in {"s_insert", "s_publish"}
  /\ asleep => pc[timer_thread] = "check"
  /\ cur # NULL <=> pc[timer_thread] \in {"fire", "s_insert", "s_publish"}

\* A timer is scheduled by one caller, and in the list once the caller has
\* inserted it.
Callers ==
  /\ \A th, u \in Threads : arg[th] # NULL /\ arg[th] = arg[u] => th = u
  /\ \A th \in Threads : pc[th] = "s_insert" => arg[th] \notin Pending
  /\ \A th \in Threads : pc[th] = "s_publish" => arg[th] \in Pending

\* The times in the structures mean what due says.
Times ==
  /\ \A t \in Pending : After(time[t], timer_ticks, due[t])
  /\ \A th \in Threads : pc[th] = "s_insert" => After(val[th], timer_ticks, due[arg[th]])

\* How late a timer and the timer thread can be.
Lateness ==
  /\ asleep => \A t \in Pending : due[t] >= -MaxLate
  /\ \A th \in Threads : arg[th] # NULL => due[arg[th]] >= -MaxLate
  /\ pc[timer_thread] \notin {"check", "p_publish"} => Sub(timer_ticks, now) <= MaxLate

Sorted == \A i, j \in 1 .. Len(Listed) : i < j => due[Listed[i]] <= due[Listed[j]]

\* While the timer thread waits, the interrupt handler knows of a timer that is
\* due no later than any other, but for one whose caller is about to tell it.
Known ==
  pc[timer_thread] = "check" =>
    \A t \in Pending :
      \/ \E th \in Threads : pc[th] = "s_publish" /\ arg[th] = t
      \/ /\ ~timer_list_empty
         /\ \E f \in Pending : timer_wakeup_ticks = time[f] /\ due[f] <= due[t]

TimerInv ==
  /\ TimerTypeOK /\ Control /\ Chain(links, Listed) /\ Callers
  /\ Times /\ Lateness /\ Sorted /\ Known /\ InterruptView

-----------------------------------------------------------------------------
(* The list.                                                               *)

\* The nodes of a circle differ, whether the head is counted first or last.
LEMMA CircleProperties ==
  ASSUME NEW h, NEW s, Chain(h, s)
  PROVE  /\ Len(s) \in Nat
         /\ \A i \in 0 .. Len(s) + 1 : Circle(timer_list, s, i) \in Node
         /\ \A i, j \in 0 .. Len(s) :
              Circle(timer_list, s, i) = Circle(timer_list, s, j) => i = j
         /\ \A i, j \in 1 .. Len(s) + 1 :
              Circle(timer_list, s, i) = Circle(timer_list, s, j) => i = j
<1>1. Len(s) \in Nat /\ \A i \in 1 .. Len(s) : s[i] \in Timer
  BY SMTT(30) DEF Chain
<1>2. timer_list \notin Timer
  BY TimerAssumption
<1>3. \A i, j \in 1 .. Len(s) : s[i] = s[j] => i = j
  BY DEF Chain
<1>4. \A i \in 0 .. Len(s) + 1 : Circle(timer_list, s, i) \in Node
  BY <1>1, SMTT(30) DEF Circle, Node
<1>5. \A i, j \in 0 .. Len(s) :
        Circle(timer_list, s, i) = Circle(timer_list, s, j) => i = j
  BY <1>1, <1>2, <1>3, SMTT(30) DEF Circle
<1>6. \A i, j \in 1 .. Len(s) + 1 :
        Circle(timer_list, s, i) = Circle(timer_list, s, j) => i = j
  BY <1>1, <1>2, <1>3, SMTT(30) DEF Circle
<1> QED BY <1>1, <1>4, <1>5, <1>6

\* A list has at most as many nodes as there are timers.
LEMMA ChainLength ==
  ASSUME NEW h, NEW s, Chain(h, s)
  PROVE  Cardinality(Timer) \in Nat /\ Len(s) <= Cardinality(Timer)
<1> DEFINE R == {s[i] : i \in 1 .. Len(s)}
<1>1. Len(s) \in Nat /\ R \subseteq Timer /\ s \in [1 .. Len(s) -> Timer]
  BY SMTT(30) DEF Chain
<1>2. IsFiniteSet(Timer)
  BY TimerAssumption
<1>3. IsFiniteSet(R) /\ Cardinality(R) <= Cardinality(Timer)
  BY <1>1, <1>2, FS_Subset
<1>4. Cardinality(R) = Len(s)
  <2>1. s \in Bijection(1 .. Len(s), R)
    <3>1. \A i, j \in 1 .. Len(s) : s[i] = s[j] => i = j
      BY DEF Chain
    <3>2. s \in [1 .. Len(s) -> R]
      BY <1>1
    <3>3. s \in Injection(1 .. Len(s), R)
      BY <3>1, <3>2 DEF Injection, IsInjective
    <3>4. s \in Surjection(1 .. Len(s), R)
      BY <3>2 DEF Surjection
    <3> QED BY <3>3, <3>4 DEF Bijection
  <2>2. ExistsBijection(1 .. Len(s), R)
    BY <2>1 DEF ExistsBijection
  <2> QED BY <1>1, <1>3, <2>2, FS_CountingElements
<1>5. Cardinality(Timer) \in Nat
  BY <1>2, FS_CardinalityType
<1> QED BY <1>3, <1>4, <1>5

\* The list whose head is unlinked from its timers: the walk of the model
\* finds the list that the pointers hold.
LEMMA WalkFindsList ==
  ASSUME NEW h, NEW s, Chain(h, s)
  PROVE  Walk(h) = s
<1> DEFINE N == Cardinality(Timer)
           End(r) == IF r = <<>> THEN timer_list ELSE r[Len(r)]
           Step(r) == IF h.next[End(r)] = timer_list
                           \/ \E i \in 1 .. Len(r) : r[i] = h.next[End(r)]
                      THEN r ELSE Append(r, h.next[End(r)])
           Turn(g) == [k \in 0 .. N |-> IF k = 0 THEN <<>> ELSE Step(g[k - 1])]
           f == [k \in 0 .. N |-> IF k <= Len(s) THEN SubSeq(s, 1, k) ELSE s]
<1>1. N \in Nat /\ Len(s) <= N
  BY ChainLength
<1>2. Len(s) \in Nat /\ s \in Seq(Timer)
  BY SMTT(30) DEF Chain
<1>3. SubSeq(s, 1, 0) = <<>> /\ SubSeq(s, 1, Len(s)) = s
  BY <1>2, SMTT(30)
<1>4. ASSUME NEW k \in 0 .. Len(s) - 1
      PROVE  Step(SubSeq(s, 1, k)) = SubSeq(s, 1, k + 1)
  <2> DEFINE r == SubSeq(s, 1, k)
  <2>1. r \in Seq(Timer) /\ Len(r) = k /\ \A i \in 1 .. k : r[i] = s[i]
    BY <1>2, <1>4, SMTT(30)
  <2> HIDE DEF r
  <2>2. End(r) = Circle(timer_list, s, k)
    BY <1>2, <1>4, <2>1, SMTT(30) DEF Circle
  <2>3. h.next[Circle(timer_list, s, k)] = Circle(timer_list, s, k + 1)
    BY <1>2, <1>4, SMTT(30) DEF Chain, Represents
  <2>4. Circle(timer_list, s, k + 1) = s[k + 1] /\ s[k + 1] \in Timer
    BY <1>2, <1>4, SMTT(30) DEF Circle
  <2>5. s[k + 1] # timer_list
    BY <2>4, TimerAssumption
  <2>6. ~ \E i \in 1 .. Len(r) : r[i] = s[k + 1]
    BY <1>2, <1>4, <2>1, SMTT(30) DEF Chain
  <2>7. Step(r) = Append(r, s[k + 1])
    BY <2>2, <2>3, <2>4, <2>5, <2>6
  <2>8. Append(r, s[k + 1]) = SubSeq(s, 1, k + 1)
    BY <1>2, <1>4, SMTT(30) DEF r
  <2> QED BY <2>7, <2>8 DEF r
<1>5. Step(s) = s
  <2>1. End(s) = Circle(timer_list, s, Len(s))
    BY <1>2, SMTT(30) DEF Circle
  <2>2. h.next[Circle(timer_list, s, Len(s))] = timer_list
    BY <1>2, SMTT(30) DEF Chain, Represents, Circle
  <2> QED BY <2>1, <2>2
<1> HIDE DEF Step
<1>6. f = Turn(f)
  <2>1. ASSUME NEW k \in 0 .. N PROVE f[k] = Turn(f)[k]
    <3>1. CASE k = 0
      BY <1>1, <1>2, <1>3, <3>1, SMTT(30)
    <3>2. CASE k # 0 /\ k <= Len(s)
      <4>1. k - 1 \in 0 .. N /\ k - 1 \in 0 .. Len(s) - 1 /\ (k - 1) + 1 = k
        BY <1>1, <1>2, <3>2, SMTT(30)
      <4>2. f[k - 1] = SubSeq(s, 1, k - 1)
        BY <1>2, <4>1, SMTT(30)
      <4>3. Step(f[k - 1]) = SubSeq(s, 1, k)
        BY <1>4, <4>1, <4>2
      <4> QED BY <3>2, <4>3
    <3>3. CASE k # 0 /\ ~(k <= Len(s))
      <4>1. k - 1 \in 0 .. N /\ k - 1 >= Len(s)
        BY <1>1, <1>2, <3>3, SMTT(30)
      <4>2. f[k - 1] = s
        <5>1. CASE k - 1 = Len(s)
          BY <1>2, <1>3, <4>1, <5>1
        <5>2. CASE k - 1 # Len(s)
          BY <1>2, <4>1, <5>2, SMTT(30)
        <5> QED BY <5>1, <5>2
      <4>3. Step(f[k - 1]) = s
        BY <1>5, <4>2
      <4> QED BY <3>3, <4>3
    <3> QED BY <3>1, <3>2, <3>3
  <2> QED BY <2>1
<1> DEFINE w == CHOOSE g : g = Turn(g)
<1>7. w = Turn(w)
  BY <1>6
<1> HIDE DEF w
<1>8. ASSUME NEW k \in 0 .. N PROVE w[k] = f[k]
  <2> DEFINE B == {i \in 0 .. N : w[i] # f[i]}
  <2> SUFFICES ASSUME B # {} PROVE FALSE
    OBVIOUS
  <2>1. PICK m \in B : \A n \in B : m <= n
    <3>1. B \in SUBSET Nat
      BY <1>1, SMTT(30)
    <3> HIDE DEF B
    <3> QED BY <3>1, LeastElement
  <2>2. w[m] = IF m = 0 THEN <<>> ELSE Step(w[m - 1])
    BY <1>7
  <2>3. f[m] = IF m = 0 THEN <<>> ELSE Step(f[m - 1])
    BY <1>6
  <2>4. m # 0 => w[m - 1] = f[m - 1]
    BY <1>1, <2>1, SMTT(30)
  <2> QED BY <2>1, <2>2, <2>3, <2>4
<1>9. f[N] = s
  BY <1>1, <1>2, <1>3, SMTT(30)
<1>10. Walk(h) = w[N]
  BY DEF Walk, w, Step
<1>11. N \in 0 .. N
  BY <1>1, SMTT(30)
<1> HIDE DEF f, N
<1> QED BY <1>8, <1>9, <1>10, <1>11

\* list_remove of the first node leaves the others, in order.
LEMMA TakeFirst ==
  ASSUME NEW h \in [next : [Node -> Node], prev : [Node -> Node]], NEW s, Chain(h, s),
         s # <<>>
  PROVE  /\ h.next[timer_list] = s[1]
         /\ Chain(ListRemove(h, s[1]), Tail(s))
         /\ ListRemove(h, s[1]) \in [next : [Node -> Node], prev : [Node -> Node]]
<1> DEFINE r == Tail(s)
           C(i) == Circle(timer_list, s, i)
           D(i) == Circle(timer_list, r, i)
           e == ListRemove(h, s[1])
<1>1. s \in Seq(Timer) /\ Len(s) \in Nat /\ Len(s) >= 1
  BY SMTT(30) DEF Chain
<1>2. r \in Seq(Timer) /\ Len(r) = Len(s) - 1 /\ \A i \in 1 .. Len(r) : r[i] = s[i + 1]
  BY <1>1, SMTT(30)
<1>3. /\ \A i \in 0 .. Len(s) + 1 : C(i) \in Node
      /\ \A i, j \in 0 .. Len(s) : C(i) = C(j) => i = j
      /\ \A i, j \in 1 .. Len(s) + 1 : C(i) = C(j) => i = j
  BY CircleProperties
<1>4. \A i \in 0 .. Len(s) : h.next[C(i)] = C(i + 1) /\ h.prev[C(i + 1)] = C(i)
  BY DEF Chain, Represents
<1>5. C(0) = timer_list /\ C(1) = s[1]
  BY <1>1, SMTT(30) DEF Circle
<1>6. D(0) = timer_list /\ \A i \in 1 .. Len(r) + 1 : D(i) = C(i + 1)
  <2> HIDE DEF r
  <2>1. ASSUME NEW i \in 1 .. Len(r) + 1 PROVE D(i) = C(i + 1)
    <3>1. CASE i = Len(r) + 1
      BY <1>1, <1>2, <3>1, SMTT(30) DEF Circle
    <3>2. CASE i # Len(r) + 1
      <4>1. i \in 1 .. Len(r) /\ i # 0 /\ i + 1 # 0 /\ i + 1 # Len(s) + 1
        BY <1>1, <1>2, <3>2, SMTT(30)
      <4> QED BY <1>2, <3>2, <4>1 DEF Circle
    <3> QED BY <3>1, <3>2
  <2> QED BY <2>1 DEF Circle
<1> HIDE DEF C, D, r
<1>7. h.next[C(0)] = C(1) /\ h.prev[C(1)] = C(0) /\ h.next[C(1)] = C(2) /\ h.prev[C(2)] = C(1)
  BY <1>1, <1>4, SMTT(30)
<1>8. /\ e.next = [h.next EXCEPT ![C(0)] = C(2)]
      /\ e.prev = [h.prev EXCEPT ![C(2)] = C(0)]
  BY <1>5, <1>7 DEF ListRemove
<1>9. C(0) \in Node /\ C(2) \in Node
  BY <1>1, <1>3, SMTT(30)
<1>10. e \in [next : [Node -> Node], prev : [Node -> Node]]
  BY <1>5, <1>7, <1>9 DEF ListRemove
<1> HIDE DEF e
<1>11. ASSUME NEW i \in 0 .. Len(r)
       PROVE  e.next[D(i)] = D(i + 1) /\ e.prev[D(i + 1)] = D(i)
  <2>1. i + 1 \in 1 .. Len(r) + 1 /\ D(i + 1) = C(i + 2)
    BY <1>1, <1>2, <1>6, SMTT(30)
  <2>2. CASE i = 0
    <3>1. D(i) = C(0) /\ D(i + 1) = C(2)
      BY <1>5, <1>6, <2>1, <2>2, SMTT(30)
    <3> QED BY <1>8, <1>9, <3>1, SMTT(30)
  <2>3. CASE i # 0
    <3>1. /\ D(i) = C(i + 1)
          /\ i + 1 \in 0 .. Len(s) /\ i + 2 \in 1 .. Len(s) + 1
          /\ 2 \in 1 .. Len(s) + 1 /\ 0 \in 0 .. Len(s)
          /\ i + 1 # 0 /\ i + 2 # 2
      BY <1>1, <1>2, <1>6, <2>3, SMTT(30)
    <3>2. C(i + 1) # C(0) /\ C(i + 2) # C(2)
      BY <1>3, <3>1
    <3>3. C(i + 1) \in Node /\ C(i + 2) \in Node
      BY <1>3, <3>1, <1>1, SMTT(30)
    <3>4. h.next[C(i + 1)] = C(i + 2) /\ h.prev[C(i + 2)] = C(i + 1)
      BY <1>1, <1>4, <3>1, SMTT(30)
    <3> QED BY <1>8, <2>1, <3>1, <3>2, <3>3, <3>4, SMTT(30)
  <2> QED BY <2>2, <2>3
<1>12. Represents(e, timer_list, r)
  BY <1>11 DEF Represents, D
<1>13. \A i, j \in 1 .. Len(r) : r[i] = r[j] => i = j
  <2>1. \A i, j \in 1 .. Len(s) : s[i] = s[j] => i = j
    BY DEF Chain
  <2> QED BY <1>1, <1>2, <2>1, SMTT(30)
<1>14. Chain(e, r)
  BY <1>2, <1>12, <1>13 DEF Chain
<1>15. h.next[timer_list] = s[1]
  BY <1>5, <1>7
<1> QED BY <1>10, <1>14, <1>15 DEF e, r

\* s with t inserted at position p.
Inserted(s, p, t) ==
  [k \in 1 .. Len(s) + 1 |-> IF k < p THEN s[k] ELSE IF k = p THEN t ELSE s[k - 1]]

\* list_insert_before a node, or before the head, puts the new node there.
LEMMA InsertBefore ==
  ASSUME NEW h \in [next : [Node -> Node], prev : [Node -> Node]], NEW s, Chain(h, s),
         NEW t \in Timer, \A i \in 1 .. Len(s) : s[i] # t,
         NEW p \in 1 .. Len(s) + 1,
         NEW x, x = Circle(timer_list, s, p)
  PROVE  /\ Chain(ListInsertBefore(h, x, t), Inserted(s, p, t))
         /\ ListInsertBefore(h, x, t) \in [next : [Node -> Node], prev : [Node -> Node]]
<1> DEFINE r == Inserted(s, p, t)
           C(i) == Circle(timer_list, s, i)
           D(i) == Circle(timer_list, r, i)
           e == ListInsertBefore(h, x, t)
<1>1. s \in Seq(Timer) /\ Len(s) \in Nat /\ \A i \in 1 .. Len(s) : s[i] \in Timer
  BY SMTT(30) DEF Chain
<1>2. /\ r \in Seq(Timer) /\ Len(r) = Len(s) + 1
      /\ \A k \in 1 .. Len(s) + 1 :
           r[k] = IF k < p THEN s[k] ELSE IF k = p THEN t ELSE s[k - 1]
  BY <1>1, SMTT(30) DEF Inserted
<1>3. /\ \A i \in 0 .. Len(s) + 1 : C(i) \in Node
      /\ \A i, j \in 0 .. Len(s) : C(i) = C(j) => i = j
      /\ \A i, j \in 1 .. Len(s) + 1 : C(i) = C(j) => i = j
  BY CircleProperties
<1>4. \A i \in 0 .. Len(s) : h.next[C(i)] = C(i + 1) /\ h.prev[C(i + 1)] = C(i)
  BY DEF Chain, Represents
<1>5. t # timer_list /\ t \in Node
  BY TimerAssumption DEF Node
<1>6. \A i \in 0 .. Len(s) + 1 : C(i) # t
  BY <1>1, <1>5, SMTT(30) DEF Circle
<1>7. \A i \in 0 .. Len(s) + 2 :
        D(i) = IF i < p THEN C(i) ELSE IF i = p THEN t ELSE C(i - 1)
  BY <1>1, <1>2, SMTT(30) DEF Circle
<1>8. x = C(p)
  OBVIOUS
<1>9. \A i, j \in 1 .. Len(s) : s[i] = s[j] => i = j
  BY DEF Chain
<1> HIDE DEF C, D, r
<1>10. p - 1 \in 0 .. Len(s) /\ (p - 1) + 1 = p /\ p \in 0 .. Len(s) + 1
  BY <1>1, SMTT(30)
<1>11. h.prev[C(p)] = C(p - 1)
  BY <1>4, <1>10
<1>12. /\ e.next = [h.next EXCEPT ![t] = C(p), ![C(p - 1)] = t]
       /\ e.prev = [h.prev EXCEPT ![C(p)] = t, ![t] = C(p - 1)]
  BY <1>8, <1>11 DEF ListInsertBefore, ListAdd
<1>13. C(p) \in Node /\ C(p - 1) \in Node /\ C(p) # t /\ C(p - 1) # t
  BY <1>1, <1>3, <1>6, <1>10, SMTT(30)
<1>14. e \in [next : [Node -> Node], prev : [Node -> Node]]
  BY <1>5, <1>8, <1>11, <1>13 DEF ListInsertBefore, ListAdd
<1>15. /\ e.next[t] = C(p) /\ e.next[C(p - 1)] = t
       /\ e.prev[C(p)] = t /\ e.prev[t] = C(p - 1)
       /\ \A n \in Node : n # t /\ n # C(p - 1) => e.next[n] = h.next[n]
       /\ \A n \in Node : n # t /\ n # C(p) => e.prev[n] = h.prev[n]
  BY <1>5, <1>12, <1>13
<1> HIDE DEF e
<1>16. ASSUME NEW i \in 0 .. Len(s), i # p - 1
       PROVE  e.next[C(i)] = C(i + 1) /\ e.prev[C(i + 1)] = C(i)
  <2>1. i \in 0 .. Len(s) + 1 /\ i + 1 \in 1 .. Len(s) + 1 /\ i + 1 \in 0 .. Len(s) + 1
        /\ i + 1 # p
    BY <1>1, <1>16, SMTT(30)
  <2>2. C(i) # C(p - 1) /\ C(i + 1) # C(p)
    BY <1>3, <1>10, <1>16, <2>1
  <2>3. C(i) \in Node /\ C(i + 1) \in Node /\ C(i) # t /\ C(i + 1) # t
    BY <1>3, <1>6, <2>1
  <2> QED BY <1>4, <1>15, <2>2, <2>3
<1>17. ASSUME NEW i \in 0 .. Len(r)
       PROVE  e.next[D(i)] = D(i + 1) /\ e.prev[D(i + 1)] = D(i)
  <2>1. /\ i \in Int /\ p \in Int /\ Len(s) \in Int
        /\ i \in 0 .. Len(s) + 2 /\ i + 1 \in 0 .. Len(s) + 2
    BY <1>1, <1>2, SMTT(30)
  <2>2. CASE i < p - 1
    <3>1. i < p /\ i + 1 < p /\ i \in 0 .. Len(s) /\ i # p - 1
      BY <1>1, <2>1, <2>2, SMTT(30)
    <3>2. D(i) = C(i) /\ D(i + 1) = C(i + 1)
      BY <1>7, <2>1, <3>1
    <3> QED BY <1>16, <3>1, <3>2
  <2>3. CASE i = p - 1
    <3>1. i < p /\ i + 1 = p
      BY <2>1, <2>3, SMTT(30)
    <3>2. D(i) = C(p - 1) /\ D(i + 1) = t
      BY <1>7, <2>1, <2>3, <3>1, SMTT(30)
    <3> QED BY <1>15, <3>2
  <2>4. CASE i = p
    <3>1. ~(i + 1 < p) /\ i + 1 # p /\ (i + 1) - 1 = p
      BY <2>1, <2>4, SMTT(30)
    <3>2. D(i) = t /\ D(i + 1) = C(p)
      BY <1>7, <2>1, <2>4, <3>1, SMTT(30)
    <3> QED BY <1>15, <3>2
  <2>5. CASE i > p
    <3>1. /\ ~(i < p) /\ i # p /\ ~(i + 1 < p) /\ i + 1 # p
          /\ i - 1 \in 0 .. Len(s) /\ i - 1 # p - 1
          /\ (i + 1) - 1 = (i - 1) + 1
      BY <1>2, <2>1, <2>5, SMTT(30)
    <3>2. D(i) = C(i - 1) /\ D(i + 1) = C((i - 1) + 1)
      BY <1>7, <2>1, <3>1
    <3> QED BY <1>16, <3>1, <3>2
  <2> QED BY <2>1, <2>2, <2>3, <2>4, <2>5, SMTT(30)
<1>18. Represents(e, timer_list, r)
  BY <1>17 DEF Represents, D
<1>19. ASSUME NEW i \in 1 .. Len(r), NEW j \in 1 .. Len(r), r[i] = r[j] PROVE i = j
  <2> DEFINE u(k) == IF k < p THEN k ELSE k - 1
  <2>1. /\ i \in 1 .. Len(s) + 1 /\ j \in 1 .. Len(s) + 1
        /\ i # p => u(i) \in 1 .. Len(s) /\ r[i] = s[u(i)]
        /\ j # p => u(j) \in 1 .. Len(s) /\ r[j] = s[u(j)]
        /\ i = p => r[i] = t
        /\ j = p => r[j] = t
    BY <1>1, <1>2, SMTT(30)
  <2>2. i = p <=> j = p
    BY <1>19, <2>1
  <2>3. i # p => u(i) = u(j)
    BY <1>9, <1>19, <2>1, <2>2
  <2> QED BY <1>1, <2>1, <2>2, <2>3, SMTT(30)
<1>20. Chain(e, r)
  BY <1>2, <1>18, <1>19 DEF Chain
<1> QED BY <1>14, <1>20 DEF e, r

-----------------------------------------------------------------------------
(* Time.                                                                   *)

Span == -MaxLate - 1 .. MaxDelay

\* timer_ticks_expired tells which of two times that lie close to the current
\* tick comes first.
LEMMA ExpiredMeansEarlier ==
  ASSUME NEW T \in Ticks, NEW a \in Ticks, NEW b \in Ticks, NEW d \in Span, NEW e \in Span,
         After(a, T, d), After(b, T, e)
  PROVE  TicksExpired(a, b) <=> d < e
BY TimerAssumption, SMTT(30) DEF After, TicksExpired, Sub, Ticks, Modulus, Span

\* timer_ticks_occurred tells whether a time that lies close to the current
\* tick has come.
LEMMA OccurredMeansDue ==
  ASSUME NEW T \in Ticks, NEW a \in Ticks, NEW d \in Span, After(a, T, d)
  PROVE  TicksOccurred(a, T) <=> d <= 0
BY TimerAssumption, SMTT(30) DEF After, TicksOccurred, TicksExpired, Sub, Ticks, Modulus, Span

\* A time that had come at a recent tick has come.
LEMMA OccurredStays ==
  ASSUME NEW T \in Ticks, NEW n \in Ticks, NEW a \in Ticks, NEW d \in Span,
         After(a, T, d), Sub(T, n) <= MaxLate, TicksOccurred(a, n)
  PROVE  d <= 0
BY TimerAssumption, SMTT(30) DEF After, TicksOccurred, TicksExpired, Sub, Ticks, Modulus, Span

\* One tick brings every time one tick nearer.
LEMMA AfterTick ==
  ASSUME NEW T \in Ticks
  PROVE  /\ Add(T, 1) \in Ticks
         /\ \A a \in Ticks, d \in Span : After(a, T, d) => After(a, Add(T, 1), d - 1)
         /\ \A n \in Ticks : Sub(T, n) < MaxLate => Sub(Add(T, 1), n) <= MaxLate
BY TimerAssumption, SMTT(30) DEF After, Add, Sub, Ticks, Modulus, Span

\* timer_now() + delay.
LEMMA AfterDelay ==
  ASSUME NEW T \in Ticks, NEW d \in 0 .. MaxDelay
  PROVE  Add(T, d) \in Ticks /\ After(Add(T, d), T, d)
BY TimerAssumption, SMTT(30) DEF After, Add, Ticks, Modulus

-----------------------------------------------------------------------------
(* The invariant.                                                          *)

\* What the invariant says of the list.
LEMMA ListFacts ==
  ASSUME TimerInv
  PROVE  /\ Pending \subseteq Timer
         /\ \A t : InList(t) <=> t \in Pending
         /\ Listed \in Seq(Timer) /\ Len(Listed) \in Nat
         /\ \A i \in 1 .. Len(Listed) : Listed[i] \in Pending
         /\ ListEmpty(links, timer_list) <=> Listed = <<>>
         /\ Listed # <<>> => ListFirst(links, timer_list) = Listed[1] /\ 1 \in 1 .. Len(Listed)
         /\ \A t \in Pending : Listed # <<>> /\ due[Listed[1]] <= due[t]
<1>1. Listed \in Seq(Timer) /\ Len(Listed) \in Nat /\ Represents(links, timer_list, Listed)
  BY SMTT(30) DEF TimerInv, Chain
<1>2. Pending \subseteq Timer /\ \A t : InList(t) <=> t \in Pending
  BY <1>1, SMTT(30) DEF Pending, InList
<1>3. \A i \in 1 .. Len(Listed) : Listed[i] \in Pending
  BY DEF Pending
<1>4. links.next[timer_list] = Circle(timer_list, Listed, 1)
  BY <1>1, SMTT(30) DEF Represents, Circle
<1>5. ASSUME Listed = <<>> PROVE links.next[timer_list] = timer_list
  BY <1>4, <1>5, SMTT(30) DEF Circle
<1>6. ASSUME Listed # <<>>
      PROVE  /\ links.next[timer_list] = Listed[1] /\ 1 \in 1 .. Len(Listed)
             /\ Listed[1] # timer_list
  <2>1. 1 \in 1 .. Len(Listed) /\ Len(Listed) # 0
    BY <1>1, <1>6, SMTT(30)
  <2>2. Listed[1] \in Timer
    BY <1>1, <2>1, SMTT(30)
  <2> QED BY <1>1, <1>4, <2>1, <2>2, TimerAssumption, SMTT(30) DEF Circle
<1>7. ASSUME NEW t \in Pending PROVE Listed # <<>> /\ due[Listed[1]] <= due[t]
  <2>1. PICK i \in 1 .. Len(Listed) : t = Listed[i]
    BY DEF Pending
  <2>2. Listed # <<>>
    BY <1>1, <2>1, SMTT(30)
  <2>3. due \in [Timer -> Span] /\ t \in Timer
    BY <1>2 DEF TimerInv, TimerTypeOK, Span
  <2>4. due[t] \in Int
    BY <2>3, TimerAssumption, SMTT(30) DEF Span
  <2>5. CASE i = 1
    BY <2>1, <2>2, <2>4, <2>5, SMTT(30)
  <2>6. CASE i # 1
    BY <1>1, <2>1, <2>2, <2>6, SMTT(30) DEF TimerInv, Sorted
  <2> QED BY <2>5, <2>6
<1> QED BY <1>1, <1>2, <1>3, <1>5, <1>6, <1>7 DEF ListEmpty, ListFirst

\* timer_setup establishes the invariant.
LEMMA InitTimerInv == TimerInit => TimerInv
<1> SUFFICES ASSUME TimerInit PROVE TimerInv
  OBVIOUS
<1> USE TimerAssumption
<1>1. Chain(links, <<>>)
  <2>1. links.next[timer_list] = timer_list /\ links.prev[timer_list] = timer_list
    BY DEF TimerInit, Node
  <2>2. Represents(links, timer_list, <<>>)
    BY <2>1, SMTT(30) DEF Represents, Circle
  <2> QED BY <2>2, SMTT(30) DEF Chain
<1>2. Listed = <<>> /\ Pending = {}
  <2>1. Listed = <<>>
    BY <1>1, WalkFindsList DEF Listed
  <2> QED BY <2>1, SMTT(30) DEF Pending
<1>3. TimerTypeOK
  <2>1. 0 \in Ticks /\ 0 \in -MaxLate - 1 .. MaxDelay
    BY SMTT(30) DEF Ticks, Modulus
  <2>2. links \in [next : [Node -> Node], prev : [Node -> Node]]
    BY DEF TimerInit
  <2> QED BY <2>1, <2>2 DEF TimerInit, TimerTypeOK
<1>4. Control
  <2>1. \A th \in Threads : th # NULL
    BY DEF Threads
  <2>2. /\ pc \in [Threads -> Labels] /\ pc[timer_thread] = "check"
        /\ \A th \in Client : pc[th] = "idle"
        /\ \A th \in Threads : pc[th] \in {"check", "idle"}
    BY DEF TimerInit, Threads, Labels
  <2>3. mutex = NULL /\ (\A th \in Threads : arg[th] = NULL) /\ cur = NULL /\ ~asleep
    BY DEF TimerInit
  <2> QED BY <2>1, <2>2, <2>3 DEF Control
<1>5. Callers /\ Times /\ Lateness /\ Sorted /\ Known
  BY <1>2, SMTT(30) DEF TimerInit, Callers, Times, Lateness, Sorted, Known, Threads
<1>6. InterruptView
  BY <1>2 DEF TimerInit, InterruptView
<1> QED BY <1>1, <1>2, <1>3, <1>4, <1>5, <1>6 DEF TimerInv

\* What does not change when neither the list nor the times in it do.
LEMMA SameList ==
  ASSUME TimerInv, UNCHANGED links
  PROVE  Listed' = Listed /\ Pending' = Pending /\ Chain(links, Listed)'
<1>1. Listed' = Listed
  BY DEF Listed
<1>2. Pending' = Pending
  BY <1>1 DEF Pending
<1>3. Chain(links, Listed)'
  BY <1>1 DEF TimerInv, Chain, Represents
<1> QED BY <1>1, <1>2, <1>3

\* The timer thread looks for work, and sleeps only when no timer is late.
LEMMA CheckStep == TimerInv /\ TimerCheck => TimerInv'
<1> SUFFICES ASSUME TimerInv, TimerCheck PROVE TimerInv'
  OBVIOUS
<1> USE TimerAssumption
<1>1. Listed' = Listed /\ Pending' = Pending /\ Chain(links, Listed)'
  BY SameList DEF TimerCheck
<1>2. /\ Pending \subseteq Timer /\ timer_thread \in Threads
      /\ due \in [Timer -> Span] /\ time \in [Timer -> Ticks] /\ timer_ticks \in Ticks
      /\ arg \in [Threads -> Timer \cup {NULL}]
  BY ListFacts DEF TimerInv, TimerTypeOK, Threads, Span
<1>3. pc[timer_thread] = "check" /\ ~asleep
  BY DEF TimerCheck, At
<1>4. TimerTypeOK'
  BY <1>2 DEF TimerInv, TimerTypeOK, TimerCheck
<1>5. /\ \A th \in Threads : th # timer_thread => pc'[th] = pc[th]
      /\ pc' \in [Threads -> Labels]
      /\ \/ pc'[timer_thread] = "p_take" /\ asleep' = asleep /\ now' = timer_ticks
         \/ pc' = pc /\ now' = now /\ ~WorkPending(timer_ticks)
      /\ UNCHANGED <<timer_ticks, timer_list_empty, timer_wakeup_ticks, time, mutex, arg,
                     val, cur, due>>
  BY <1>2 DEF TimerInv, Control, TimerCheck, Goto, Labels
<1>6. Control'
  BY <1>2, <1>3, <1>5, SMTT(30) DEF TimerInv, Control, Threads
<1>7. Callers'
  BY <1>1, <1>2, <1>3, <1>5 DEF TimerInv, Callers
<1>8. Times'
  BY <1>1, <1>2, <1>3, <1>5 DEF TimerInv, Times
<1>9. Sorted'
  BY <1>1, <1>5 DEF TimerInv, Sorted
<1>10. ASSUME NEW t \in Pending, ~WorkPending(timer_ticks) PROVE due[t] >= -MaxLate
  <2>1. CASE \E th \in Threads : pc[th] = "s_publish" /\ arg[th] = t
    <3>1. t # NULL
      BY <1>2
    <3> QED BY <2>1, <3>1 DEF TimerInv, Lateness
  <2>2. CASE /\ ~timer_list_empty
             /\ \E f \in Pending : timer_wakeup_ticks = time[f] /\ due[f] <= due[t]
    <3>1. PICK f \in Pending : timer_wakeup_ticks = time[f] /\ due[f] <= due[t]
      BY <2>2
    <3>2. ~TicksOccurred(time[f], timer_ticks)
      BY <1>10, <2>2, <3>1 DEF WorkPending
    <3>3. /\ due[f] \in Span /\ due[t] \in Span /\ time[f] \in Ticks
          /\ After(time[f], timer_ticks, due[f])
      BY <1>2 DEF TimerInv, Times
    <3>4. ~(due[f] <= 0)
      BY <1>2, <3>2, <3>3, OccurredMeansDue
    <3> QED BY <3>1, <3>3, <3>4, SMTT(30) DEF Span
  <2> QED BY <1>3, <2>1, <2>2 DEF TimerInv, Known
<1>11. Lateness'
  <2>1. asleep' => \A t \in Pending : due[t] >= -MaxLate
    BY <1>3, <1>5, <1>10
  <2>2. pc'[timer_thread] = "p_take" /\ now' = timer_ticks => Sub(timer_ticks, now') <= MaxLate
    BY <1>2, SMTT(30) DEF Sub, Ticks, Modulus
  <2>3. pc'[timer_thread] \notin {"check", "p_publish"} => Sub(timer_ticks, now') <= MaxLate
    BY <1>3, <1>5, <2>2
  <2> QED BY <1>1, <1>5, <2>1, <2>3 DEF TimerInv, Lateness
<1>12. Known'
  BY <1>1, <1>2, <1>3, <1>5 DEF TimerInv, Known
<1>13. InterruptView'
  BY <1>1, <1>3, <1>5 DEF TimerInv, InterruptView
<1> QED BY <1>1, <1>4, <1>6, <1>7, <1>8, <1>9, <1>11, <1>12, <1>13 DEF TimerInv

\* The first timer is taken off the list, or the loop ends.
LEMMA TakeStep ==
  TimerInv /\ TimerTake => TimerInv' /\ (cur' # cur /\ cur' # NULL => due[cur'] <= 0)
<1> SUFFICES ASSUME TimerInv, TimerTake
             PROVE  TimerInv' /\ (cur' # cur /\ cur' # NULL => due[cur'] <= 0)
  OBVIOUS
<1> USE TimerAssumption
<1> DEFINE first == ListFirst(links, timer_list)
           taken == ~ListEmpty(links, timer_list) /\ TicksOccurred(time[first], now)
<1>1. /\ Pending \subseteq Timer /\ timer_thread \in Threads
      /\ due \in [Timer -> Span] /\ time \in [Timer -> Ticks]
      /\ timer_ticks \in Ticks /\ now \in Ticks
      /\ links \in [next : [Node -> Node], prev : [Node -> Node]]
      /\ NULL \notin Threads
  BY ListFacts DEF TimerInv, TimerTypeOK, Threads, Span
<1>2. pc[timer_thread] = "p_take" /\ ~asleep /\ mutex = NULL
  BY DEF TimerTake, At
<1>3. /\ UNCHANGED <<timer_ticks, timer_list_empty, timer_wakeup_ticks, time, asleep, arg,
                     val, due>>
      /\ \A th \in Threads : th # timer_thread => pc'[th] = pc[th]
      /\ pc' \in [Threads -> Labels]
  BY <1>1, SMTT(30) DEF TimerInv, Control, TimerTake, Goto, Labels
<1>4. \A th \in Threads : pc[th] # "s_publish"
  BY <1>1, <1>2 DEF TimerInv, Control
<1>5. CASE taken
  <2>1. /\ links' = ListRemove(links, first) /\ cur' = first
        /\ pc'[timer_thread] = "fire" /\ mutex' = mutex /\ now' = now
    BY <1>1, <1>5 DEF TimerInv, Control, TimerTake, Goto
  <2>2. Listed # <<>> /\ first = Listed[1] /\ first \in Pending /\ Chain(links, Listed)
    BY <1>5, ListFacts DEF TimerInv
  <2> DEFINE s == Listed
  <2>3. s \in Seq(Timer) /\ s # <<>> /\ first = s[1] /\ Chain(links, s)
    BY <2>2 DEF Chain
  <2>4. /\ Chain(links', Tail(s))
        /\ links' \in [next : [Node -> Node], prev : [Node -> Node]]
    <3> HIDE DEF s, first
    <3> QED BY <1>1, <2>1, <2>3, TakeFirst
  <2>5. Listed' = Tail(s)
    <3> HIDE DEF s
    <3>1. Walk(links') = Tail(s)
      BY <2>4, WalkFindsList
    <3> QED BY <3>1 DEF Listed
  <2>6. /\ Len(Listed') = Len(s) - 1 /\ Len(s) \in Nat
        /\ \A i \in 1 .. Len(Listed') : Listed'[i] = s[i + 1] /\ i + 1 \in 1 .. Len(s)
    <3> HIDE DEF s
    <3> QED BY <2>3, <2>5, SMTT(30)
  <2>7. Pending' \subseteq Pending
    BY <2>6 DEF Pending
  <2>8. TimerTypeOK'
    BY <1>1, <1>3, <2>1, <2>2, <2>4 DEF TimerInv, TimerTypeOK
  <2>9. first # NULL
    BY <1>1, <2>2
  <2> HIDE DEF first, taken
  <2>10. Control'
    BY <1>1, <1>2, <1>3, <2>1, <2>9 DEF TimerInv, Control, Threads
  <2>11. Chain(links, Listed)'
    BY <2>4, <2>5
  <2>12. Callers'
    BY <1>2, <1>3, <1>4, <2>1, <2>7 DEF TimerInv, Callers
  <2>13. Times'
    BY <1>2, <1>3, <2>1, <2>7 DEF TimerInv, Times
  <2>14. Lateness'
    BY <1>2, <1>3, <2>1, <2>7 DEF TimerInv, Lateness
  <2>15. Sorted'
    <3>1. \A i, j \in 1 .. Len(s) : i < j => due[s[i]] <= due[s[j]]
      BY DEF TimerInv, Sorted
    <3> HIDE DEF s
    <3> QED BY <1>3, <2>6, <3>1, SMTT(30) DEF Sorted
  <2>16. Known' /\ InterruptView'
    BY <2>1 DEF Known, InterruptView
  <2>17. due[first] <= 0
    <3>1. Sub(timer_ticks, now) <= MaxLate
      BY <1>2 DEF TimerInv, Lateness
    <3>2. After(time[first], timer_ticks, due[first])
      BY <2>2 DEF TimerInv, Times
    <3>3. time[first] \in Ticks /\ due[first] \in Span
      BY <1>1, <2>2
    <3>4. TicksOccurred(time[first], now)
      BY <1>5 DEF taken
    <3> QED BY <1>1, <3>1, <3>2, <3>3, <3>4, OccurredStays
  <2> QED BY <2>1, <2>8, <2>10, <2>11, <2>12, <2>13, <2>14, <2>15, <2>16, <2>17 DEF TimerInv
<1>6. CASE ~taken
  <2>1. /\ mutex' = timer_thread /\ now' = 0 /\ pc'[timer_thread] = "p_publish"
        /\ UNCHANGED <<links, cur>>
    BY <1>1, <1>6 DEF TimerInv, Control, TimerTake, Goto
  <2>2. Listed' = Listed /\ Pending' = Pending /\ Chain(links, Listed)'
    BY <2>1, SameList
  <2>3. TimerTypeOK'
    BY <1>1, <1>3, <2>1, SMTT(30) DEF TimerInv, TimerTypeOK, Ticks, Modulus
  <2> HIDE DEF first, taken
  <2>4. Control'
    BY <1>1, <1>2, <1>3, <2>1 DEF TimerInv, Control, Threads
  <2>5. Callers' /\ Times' /\ Lateness' /\ Sorted'
    BY <1>2, <1>3, <2>1, <2>2 DEF TimerInv, Callers, Times, Lateness, Sorted
  <2>6. Known' /\ InterruptView'
    BY <2>1 DEF Known, InterruptView
  <2> QED BY <2>1, <2>2, <2>3, <2>4, <2>5, <2>6 DEF TimerInv
<1> QED BY <1>5, <1>6

\* The end of timer_process_list tells the interrupt handler of the first timer.
LEMMA PublishStep == TimerInv /\ TimerPublish => TimerInv'
<1> SUFFICES ASSUME TimerInv, TimerPublish PROVE TimerInv'
  OBVIOUS
<1> USE TimerAssumption
<1>1. /\ Pending \subseteq Timer /\ timer_thread \in Threads /\ NULL \notin Threads
      /\ time \in [Timer -> Ticks] /\ timer_wakeup_ticks \in Ticks
  BY ListFacts DEF TimerInv, TimerTypeOK, Threads
<1>2. pc[timer_thread] = "p_publish" /\ ~asleep /\ mutex = timer_thread
  BY <1>1 DEF TimerInv, Control, TimerPublish, At
<1>3. /\ UNCHANGED <<timer_ticks, links, time, asleep, arg, val, now, cur, due>>
      /\ mutex' = NULL
      /\ \A th \in Threads : th # timer_thread => pc'[th] = pc[th]
      /\ pc' \in [Threads -> Labels] /\ pc'[timer_thread] = "check"
  BY <1>1 DEF TimerInv, Control, TimerPublish, Goto, Labels
<1>4. Listed' = Listed /\ Pending' = Pending /\ Chain(links, Listed)'
  BY <1>3, SameList
<1>5. /\ timer_list_empty' \in BOOLEAN
      /\ timer_list_empty' <=> Listed = <<>>
      /\ Listed # <<>> => timer_wakeup_ticks' = time[Listed[1]] /\ Listed[1] \in Pending
      /\ Listed = <<>> => timer_wakeup_ticks' = timer_wakeup_ticks
  BY ListFacts DEF TimerPublish, ListEmpty
<1>6. TimerTypeOK'
  <2>1. timer_wakeup_ticks' \in Ticks
    BY <1>1, <1>5
  <2> QED BY <1>3, <1>5, <2>1 DEF TimerInv, TimerTypeOK
<1>7. Control'
  BY <1>1, <1>2, <1>3 DEF TimerInv, Control, Threads
<1>8. Callers' /\ Times' /\ Sorted'
  BY <1>2, <1>3, <1>4 DEF TimerInv, Callers, Times, Sorted
<1>9. Lateness'
  BY <1>2, <1>3, <1>4 DEF TimerInv, Lateness
<1>10. Known'
  <2>1. \A t \in Pending : Listed # <<>> /\ due[Listed[1]] <= due[t]
    BY ListFacts
  <2> QED BY <1>3, <1>4, <1>5, <2>1 DEF Known
<1>11. InterruptView'
  BY <1>3, <1>4, <1>5 DEF InterruptView
<1> QED BY <1>4, <1>6, <1>7, <1>8, <1>9, <1>10, <1>11 DEF TimerInv

\* The function of a timer returns.
LEMMA ReturnStep == TimerInv /\ FireReturn => TimerInv'
<1> SUFFICES ASSUME TimerInv, FireReturn PROVE TimerInv'
  OBVIOUS
<1> USE TimerAssumption
<1>1. timer_thread \in Threads /\ NULL \notin Threads
  BY DEF Threads
<1>2. pc[timer_thread] = "fire" /\ ~asleep
  BY DEF FireReturn, At
<1>3. /\ UNCHANGED <<timer_ticks, timer_list_empty, timer_wakeup_ticks, links, time, mutex,
                     asleep, arg, val, now, due>>
      /\ cur' = NULL
      /\ \A th \in Threads : th # timer_thread => pc'[th] = pc[th]
      /\ pc' \in [Threads -> Labels] /\ pc'[timer_thread] = "p_take"
  BY <1>1 DEF TimerInv, Control, FireReturn, Goto, Labels
<1>4. Listed' = Listed /\ Pending' = Pending /\ Chain(links, Listed)'
  BY <1>3, SameList
<1>5. TimerTypeOK'
  BY <1>3 DEF TimerInv, TimerTypeOK
<1>6. Control'
  BY <1>1, <1>2, <1>3 DEF TimerInv, Control, Threads
<1>7. Callers' /\ Times' /\ Sorted' /\ Lateness'
  BY <1>2, <1>3, <1>4 DEF TimerInv, Callers, Times, Sorted, Lateness
<1>8. Known' /\ InterruptView'
  BY <1>3 DEF Known, InterruptView
<1> QED BY <1>4, <1>5, <1>6, <1>7, <1>8 DEF TimerInv

\* A tick brings every timer nearer, and wakes the timer thread before a timer
\* is too late.
LEMMA TickStep == TimerInv /\ Tick => TimerInv'
<1> SUFFICES ASSUME TimerInv, Tick PROVE TimerInv'
  OBVIOUS
<1> USE TimerAssumption
<1> DEFINE ticks == Add(timer_ticks, 1)
<1>1. /\ Pending \subseteq Timer /\ timer_thread \in Threads
      /\ due \in [Timer -> Span] /\ time \in [Timer -> Ticks] /\ val \in [Threads -> Ticks]
      /\ timer_ticks \in Ticks /\ now \in Ticks
      /\ arg \in [Threads -> Timer \cup {NULL}] /\ asleep \in BOOLEAN
  BY ListFacts DEF TimerInv, TimerTypeOK, Threads, Span
<1>2. /\ UNCHANGED <<timer_list_empty, timer_wakeup_ticks, links, time, mutex, pc, arg, val,
                     now, cur>>
      /\ timer_ticks' = ticks /\ ~Overrun
      /\ asleep' = (asleep /\ ~WorkPending(ticks))
  BY DEF Tick
<1>3. Listed' = Listed /\ Pending' = Pending /\ Chain(links, Listed)'
  BY <1>2, SameList
<1>4. /\ ticks \in Ticks
      /\ \A a \in Ticks, d \in Span : After(a, timer_ticks, d) => After(a, ticks, d - 1)
      /\ \A n \in Ticks : Sub(timer_ticks, n) < MaxLate => Sub(ticks, n) <= MaxLate
  BY <1>1, AfterTick
<1> HIDE DEF ticks
<1>5. \A t \in Pending : Live(t) /\ t \in Timer
  BY <1>1, ListFacts DEF Live
<1>6. \A th \in Threads : arg[th] # NULL => Live(arg[th]) /\ arg[th] \in Timer
  BY <1>1 DEF Live
<1>7. \A t \in Timer : due[t] \in Int /\ due[t] >= -MaxLate - 1 /\ due[t] <= MaxDelay
  BY <1>1, SMTT(30) DEF Span
<1>8. \A t \in Timer : Live(t) /\ (~asleep \/ \E th \in Threads : arg[th] # NULL)
                         => due[t] > -MaxLate
  BY <1>2, <1>7, SMTT(30) DEF Overrun
<1>9. \A t \in Pending : due[t] >= -MaxLate
  <2>1. CASE asleep
    BY <2>1 DEF TimerInv, Lateness
  <2>2. CASE ~asleep
    BY <1>5, <1>7, <1>8, <2>2, SMTT(30)
  <2> QED BY <2>1, <2>2
<1>10. /\ due' \in [Timer -> Span]
       /\ \A t \in Timer : Live(t) /\ due[t] >= -MaxLate => due'[t] = due[t] - 1
  <2>1. due' = [t \in Timer |-> IF ~Live(t) THEN 0
                               ELSE IF due[t] < -MaxLate THEN due[t] ELSE due[t] - 1]
    BY DEF Tick
  <2> QED BY <1>7, <2>1, SMTT(30) DEF Span
<1>11. \A t \in Pending : due'[t] = due[t] - 1
  BY <1>5, <1>9, <1>10
<1>12. ASSUME NEW th \in Threads, arg[th] # NULL
       PROVE  due[arg[th]] > -MaxLate /\ due'[arg[th]] = due[arg[th]] - 1
  BY <1>6, <1>7, <1>8, <1>10, <1>12, SMTT(30)
<1>13. TimerTypeOK'
  <2>1. due' \in [Timer -> -MaxLate - 1 .. MaxDelay]
    BY <1>10 DEF Span
  <2>2. asleep' \in BOOLEAN
    BY <1>2
  <2> QED BY <1>2, <1>4, <2>1, <2>2 DEF TimerInv, TimerTypeOK
<1>14. Control'
  BY <1>2 DEF TimerInv, Control
<1>15. Callers'
  BY <1>2, <1>3 DEF TimerInv, Callers
<1>16. Times'
  <2>1. ASSUME NEW t \in Pending PROVE After(time[t], ticks, due'[t])
    <3>1. After(time[t], timer_ticks, due[t])
      BY DEF TimerInv, Times
    <3> QED BY <1>1, <1>4, <1>11, <3>1, SMTT(30)
  <2>2. ASSUME NEW th \in Threads, pc[th] = "s_insert"
        PROVE  After(val[th], ticks, due'[arg[th]])
    <3>1. After(val[th], timer_ticks, due[arg[th]]) /\ arg[th] # NULL
      BY <2>2 DEF TimerInv, Times, Control
    <3>2. due'[arg[th]] = due[arg[th]] - 1 /\ due[arg[th]] \in Span /\ val[th] \in Ticks
      BY <1>1, <1>6, <1>12, <3>1
    <3> QED BY <1>4, <3>1, <3>2
  <2> QED BY <1>2, <1>3, <2>1, <2>2 DEF Times
<1>17. ASSUME asleep', NEW t \in Pending PROVE due'[t] >= -MaxLate
  <2>1. asleep /\ ~WorkPending(ticks)
    BY <1>2, <1>17
  <2>2. due'[t] = due[t] - 1 /\ t \in Timer /\ Live(t) /\ due[t] \in Int
    BY <1>5, <1>7, <1>11
  <2>3. CASE \E th \in Threads : arg[th] # NULL
    BY <1>8, <2>2, <2>3, SMTT(30)
  <2>4. CASE ~ \E th \in Threads : arg[th] # NULL
    <3>1. /\ ~timer_list_empty
          /\ \E f \in Pending : timer_wakeup_ticks = time[f] /\ due[f] <= due[t]
      BY <1>1, <2>1, <2>2, <2>4 DEF TimerInv, Known, Control
    <3>2. PICK f \in Pending : timer_wakeup_ticks = time[f] /\ due[f] <= due[t]
      BY <3>1
    <3>3. ~TicksOccurred(time[f], ticks)
      BY <2>1, <3>1, <3>2 DEF WorkPending
    <3>4. time[f] \in Ticks /\ due'[f] \in Span /\ due'[f] = due[f] - 1 /\ due[f] \in Int
      BY <1>1, <1>7, <1>10, <1>11
    <3>5. After(time[f], ticks, due'[f])
      BY <1>2, <1>3, <1>16 DEF Times
    <3>6. ~(due'[f] <= 0)
      BY <1>4, <3>3, <3>4, <3>5, OccurredMeansDue
    <3> QED BY <2>2, <3>2, <3>4, <3>6, SMTT(30)
  <2> QED BY <2>3, <2>4
<1>18. Lateness'
  <2>1. \A th \in Threads : arg[th] # NULL => due'[arg[th]] >= -MaxLate
    BY <1>6, <1>7, <1>12, SMTT(30)
  <2>2. pc[timer_thread] \notin {"check", "p_publish"} => Sub(ticks, now) <= MaxLate
    <3>1. Sub(timer_ticks, now) \in Int
      BY <1>1, SMTT(30) DEF Sub, Ticks, Modulus
    <3> QED BY <1>1, <1>2, <1>4, <3>1, SMTT(30) DEF Overrun
  <2> QED BY <1>2, <1>3, <1>17, <2>1, <2>2 DEF Lateness
<1>19. Sorted'
  <2>1. \A i \in 1 .. Len(Listed) : Listed[i] \in Pending
    BY ListFacts
  <2>2. ASSUME NEW i \in 1 .. Len(Listed), NEW j \in 1 .. Len(Listed), i < j
        PROVE  due'[Listed[i]] <= due'[Listed[j]]
    <3>1. due[Listed[i]] <= due[Listed[j]]
      BY <2>2 DEF TimerInv, Sorted
    <3>2. /\ due'[Listed[i]] = due[Listed[i]] - 1 /\ due[Listed[i]] \in Int
          /\ due'[Listed[j]] = due[Listed[j]] - 1 /\ due[Listed[j]] \in Int
      BY <1>5, <1>7, <1>11, <2>1
    <3> QED BY <3>1, <3>2, SMTT(30)
  <2> QED BY <1>3, <2>2 DEF Sorted
<1>20. Known'
  BY <1>2, <1>3, <1>5, <1>7, <1>11, SMTT(30) DEF TimerInv, Known
<1>21. InterruptView'
  BY <1>2, <1>3 DEF TimerInv, InterruptView
<1> QED BY <1>3, <1>13, <1>14, <1>15, <1>16, <1>18, <1>19, <1>20, <1>21 DEF TimerInv

\* A thread is about to call timer_schedule.
LEMMA CallStep ==
  ASSUME NEW th \in Threads, NEW t \in Timer, NEW d \in 0 .. MaxDelay,
         TimerInv, ScheduleCall(th, t, d)
  PROVE  TimerInv'
<1> USE TimerAssumption
<1>1. /\ Pending \subseteq Timer /\ timer_thread \in Threads /\ NULL \notin Threads
      /\ due \in [Timer -> Span] /\ val \in [Threads -> Ticks] /\ timer_ticks \in Ticks
      /\ arg \in [Threads -> Timer \cup {NULL}]
  BY ListFacts DEF TimerInv, TimerTypeOK, Threads, Span
<1>2. /\ UNCHANGED <<timer_ticks, timer_list_empty, timer_wakeup_ticks, links, time, mutex,
                     asleep, now, cur>>
      /\ arg' = [arg EXCEPT ![th] = t]
      /\ val' = [val EXCEPT ![th] = Add(timer_ticks, d)]
      /\ due' = [due EXCEPT ![t] = d]
      /\ pc' = [pc EXCEPT ![th] = "s_insert"]
  BY DEF ScheduleCall, Goto
<1>3. \/ th \in Client /\ th # timer_thread /\ pc[th] = "idle"
      \/ th = timer_thread /\ pc[th] = "fire" /\ ~asleep
  BY DEF ScheduleCall, At
<1>4. t \notin Pending /\ t # NULL /\ \A u \in Threads : arg[u] # t
  BY ListFacts DEF ScheduleCall, Free
<1>5. Listed' = Listed /\ Pending' = Pending /\ Chain(links, Listed)'
  BY <1>2, SameList
<1>6. /\ pc' \in [Threads -> Labels] /\ pc'[th] = "s_insert"
      /\ \A u \in Threads : u # th => pc'[u] = pc[u]
      /\ arg'[th] = t /\ \A u \in Threads : u # th => arg'[u] = arg[u]
      /\ val'[th] = Add(timer_ticks, d) /\ \A u \in Threads : u # th => val'[u] = val[u]
      /\ due'[t] = d /\ \A q \in Timer : q # t => due'[q] = due[q]
  BY <1>1, <1>2 DEF TimerInv, Control, Labels
<1>7. Add(timer_ticks, d) \in Ticks /\ After(Add(timer_ticks, d), timer_ticks, d)
  BY <1>1, AfterDelay
<1>8. TimerTypeOK'
  <2>1. due' \in [Timer -> -MaxLate - 1 .. MaxDelay]
    BY <1>1, <1>2, SMTT(30) DEF Span
  <2>2. arg' \in [Threads -> Timer \cup {NULL}] /\ val' \in [Threads -> Ticks]
    BY <1>1, <1>2, <1>7
  <2> QED BY <1>2, <2>1, <2>2 DEF TimerInv, TimerTypeOK
<1>9. Control'
  BY <1>1, <1>2, <1>3, <1>4, <1>6 DEF TimerInv, Control, Threads
<1>10. Callers'
  <2>1. \A u, v \in Threads : arg'[u] # NULL /\ arg'[u] = arg'[v] => u = v
    BY <1>4, <1>6, SMTT(30) DEF TimerInv, Callers
  <2>2. \A u \in Threads : pc'[u] = "s_insert" => arg'[u] \notin Pending
    BY <1>4, <1>6 DEF TimerInv, Callers
  <2>3. \A u \in Threads : pc'[u] = "s_publish" => arg'[u] \in Pending
    BY <1>6 DEF TimerInv, Callers
  <2> QED BY <1>5, <2>1, <2>2, <2>3 DEF Callers
<1>11. \A q \in Pending : due'[q] = due[q]
  BY <1>1, <1>4, <1>6
<1>12. \A u \in Threads : u # th /\ arg[u] # NULL => due'[arg[u]] = due[arg[u]]
  BY <1>1, <1>4, <1>6, SMTT(30)
<1>13. Times'
  <2>1. \A q \in Pending : After(time[q], timer_ticks, due'[q])
    BY <1>11 DEF TimerInv, Times
  <2>2. ASSUME NEW u \in Threads, pc'[u] = "s_insert"
        PROVE  After(val'[u], timer_ticks, due'[arg'[u]])
    <3>1. CASE u = th
      BY <1>6, <1>7, <3>1
    <3>2. CASE u # th
      <4>1. pc[u] = "s_insert" /\ arg'[u] = arg[u] /\ val'[u] = val[u] /\ arg[u] # NULL
        BY <1>6, <2>2, <3>2 DEF TimerInv, Control
      <4> QED BY <1>12, <3>2, <4>1 DEF TimerInv, Times
    <3> QED BY <3>1, <3>2
  <2> QED BY <1>2, <1>5, <2>1, <2>2 DEF Times
<1>14. Lateness'
  <2>1. asleep => \A q \in Pending : due'[q] >= -MaxLate
    BY <1>11 DEF TimerInv, Lateness
  <2>2. ASSUME NEW u \in Threads, arg'[u] # NULL PROVE due'[arg'[u]] >= -MaxLate
    <3>1. CASE u = th
      BY <1>6, <3>1, SMTT(30)
    <3>2. CASE u # th
      BY <1>6, <1>12, <2>2, <3>2, SMTT(30) DEF TimerInv, Lateness
    <3> QED BY <3>1, <3>2
  <2>3. pc'[timer_thread] \notin {"check", "p_publish"} => Sub(timer_ticks, now) <= MaxLate
    BY <1>1, <1>3, <1>6 DEF TimerInv, Lateness
  <2> QED BY <1>2, <1>5, <2>1, <2>2, <2>3 DEF Lateness
<1>15. Sorted'
  <2>1. \A i \in 1 .. Len(Listed) : Listed[i] \in Pending
    BY ListFacts
  <2> QED BY <1>5, <1>11, <2>1 DEF TimerInv, Sorted
<1>16. Known'
  <2> SUFFICES ASSUME pc'[timer_thread] = "check", NEW q \in Pending
               PROVE  \/ \E u \in Threads : pc'[u] = "s_publish" /\ arg'[u] = q
                      \/ /\ ~timer_list_empty
                         /\ \E f \in Pending : timer_wakeup_ticks = time[f] /\ due'[f] <= due'[q]
    BY <1>2, <1>5 DEF Known
  <2>1. pc[timer_thread] = "check"
    BY <1>1, <1>6
  <2>2. CASE \E u \in Threads : pc[u] = "s_publish" /\ arg[u] = q
    <3>1. PICK u \in Threads : pc[u] = "s_publish" /\ arg[u] = q
      BY <2>2
    <3>2. u # th
      BY <1>3, <3>1
    <3> QED BY <1>6, <3>1, <3>2
  <2>3. CASE /\ ~timer_list_empty
             /\ \E f \in Pending : timer_wakeup_ticks = time[f] /\ due[f] <= due[q]
    BY <1>11, <2>3
  <2> QED BY <2>1, <2>2, <2>3 DEF TimerInv, Known
<1>17. InterruptView'
  BY <1>1, <1>2, <1>5, <1>6 DEF TimerInv, InterruptView
<1> QED BY <1>5, <1>8, <1>9, <1>10, <1>13, <1>14, <1>15, <1>16, <1>17 DEF TimerInv

\* The place that timer_schedule finds: after the timers that are due earlier,
\* before the others.
LEMMA PlaceFound ==
  ASSUME TimerInv, NEW t \in Timer, t \notin Pending, NEW v \in Ticks,
         After(v, timer_ticks, due[t]), NEW tm, tm = [time EXCEPT ![t] = v]
  PROVE  \E p \in 1 .. Len(Listed) + 1 :
           /\ InsertionPoint(tm, v) = Circle(timer_list, Listed, p)
           /\ \A i \in 1 .. Len(Listed) : IF i < p THEN due[Listed[i]] <= due[t]
                                                  ELSE due[t] <= due[Listed[i]]
<1> USE TimerAssumption
<1> DEFINE later == {i \in 1 .. Len(Listed) : ~TicksExpired(tm[Listed[i]], v)}
<1>1. /\ Pending \subseteq Timer /\ Len(Listed) \in Nat
      /\ \A i \in 1 .. Len(Listed) : Listed[i] \in Pending
      /\ due \in [Timer -> Span] /\ time \in [Timer -> Ticks] /\ timer_ticks \in Ticks
  BY ListFacts DEF TimerInv, TimerTypeOK, Span
<1>2. \A q \in Timer : due[q] \in Int
  BY <1>1, SMTT(30) DEF Span
<1>3. ASSUME NEW i \in 1 .. Len(Listed)
      PROVE  TicksExpired(tm[Listed[i]], v) <=> due[Listed[i]] < due[t]
  <2>1. Listed[i] \in Timer /\ Listed[i] # t /\ Listed[i] \in Pending
    BY <1>1
  <2>2. tm[Listed[i]] = time[Listed[i]] /\ time[Listed[i]] \in Ticks
    BY <1>1, <2>1
  <2>3. After(time[Listed[i]], timer_ticks, due[Listed[i]])
    BY <2>1 DEF TimerInv, Times
  <2>4. due[Listed[i]] \in Span /\ due[t] \in Span
    BY <1>1, <2>1
  <2> QED BY <1>1, <2>2, <2>3, <2>4, ExpiredMeansEarlier
<1>4. \A i \in 1 .. Len(Listed) : due[Listed[i]] \in Int /\ due[t] \in Int
  BY <1>1, <1>2
<1>5. \A i \in 1 .. Len(Listed) : i \in later <=> ~(due[Listed[i]] < due[t])
  BY <1>3
<1>6. later \in SUBSET Nat /\ later \subseteq 1 .. Len(Listed)
  BY <1>1, SMTT(30)
<1>7. InsertionPoint(tm, v) = IF later = {} THEN timer_list
                              ELSE Listed[CHOOSE i \in later : \A j \in later : i <= j]
  BY DEF InsertionPoint
<1> HIDE DEF later
<1>8. CASE later = {}
  <2> DEFINE p == Len(Listed) + 1
  <2>1. p \in 1 .. Len(Listed) + 1 /\ InsertionPoint(tm, v) = Circle(timer_list, Listed, p)
    BY <1>1, <1>7, <1>8, SMTT(30) DEF Circle
  <2>2. ASSUME NEW i \in 1 .. Len(Listed) PROVE i < p /\ due[Listed[i]] <= due[t]
    BY <1>1, <1>4, <1>5, <1>8, SMTT(30)
  <2> QED BY <2>1, <2>2
<1>9. CASE later # {}
  <2> DEFINE p == CHOOSE i \in later : \A j \in later : i <= j
  <2>1. p \in later /\ \A j \in later : p <= j
    BY <1>6, <1>9, LeastElement
  <2>2. InsertionPoint(tm, v) = Listed[p]
    BY <1>7, <1>9
  <2> HIDE DEF p
  <2>3. p \in 1 .. Len(Listed) /\ p \in 1 .. Len(Listed) + 1
    BY <1>1, <1>6, <2>1, SMTT(30)
  <2>4. InsertionPoint(tm, v) = Circle(timer_list, Listed, p)
    BY <1>1, <2>2, <2>3, SMTT(30) DEF Circle
  <2>5. ASSUME NEW i \in 1 .. Len(Listed), i < p PROVE due[Listed[i]] <= due[t]
    <3>1. i \notin later
      BY <2>1, <2>3, <2>5, SMTT(30)
    <3> QED BY <1>4, <1>5, <3>1, SMTT(30)
  <2>6. ASSUME NEW i \in 1 .. Len(Listed), ~(i < p) PROVE due[t] <= due[Listed[i]]
    <3>1. due[t] <= due[Listed[p]]
      BY <1>4, <1>5, <2>1, <2>3, SMTT(30)
    <3>2. CASE i = p
      BY <3>1, <3>2
    <3>3. CASE i # p
      <4>1. p < i
        BY <2>3, <2>6, <3>3, SMTT(30)
      <4>2. due[Listed[p]] <= due[Listed[i]]
        BY <2>3, <4>1 DEF TimerInv, Sorted
      <4> QED BY <1>4, <2>3, <3>1, <4>2, SMTT(30)
    <3> QED BY <3>2, <3>3
  <2> QED BY <2>3, <2>4, <2>5, <2>6
<1> QED BY <1>8, <1>9

\* timer_schedule inserts the timer.
LEMMA InsertStep ==
  ASSUME NEW th \in Threads, TimerInv, At(th, "s_insert"),
         ScheduleInsert(th, arg[th], val[th]), Goto(th, "s_publish"),
         UNCHANGED <<arg, val, due>>
  PROVE  TimerInv'
<1> USE TimerAssumption
<1> DEFINE t == arg[th]
           s == Listed
           r == Listed'
           tm == [time EXCEPT ![t] = val[th]]
<1>1. /\ Pending \subseteq Timer /\ timer_thread \in Threads /\ NULL \notin Threads
      /\ due \in [Timer -> Span] /\ time \in [Timer -> Ticks] /\ val \in [Threads -> Ticks]
      /\ timer_ticks \in Ticks /\ arg \in [Threads -> Timer \cup {NULL}]
      /\ links \in [next : [Node -> Node], prev : [Node -> Node]]
      /\ s \in Seq(Timer) /\ Len(s) \in Nat /\ Chain(links, s)
      /\ \A i \in 1 .. Len(s) : s[i] \in Pending
  BY ListFacts DEF TimerInv, TimerTypeOK, Threads, Span
<1>2. /\ pc[th] = "s_insert" /\ mutex = NULL /\ mutex' = th /\ time' = tm
      /\ links' = ListInsertBefore(links, InsertionPoint(tm, val[th]), t)
      /\ UNCHANGED <<timer_ticks, timer_list_empty, timer_wakeup_ticks, asleep, now, cur,
                     arg, val, due>>
  BY DEF At, ScheduleInsert
<1>3. /\ pc' \in [Threads -> Labels] /\ pc'[th] = "s_publish"
      /\ \A u \in Threads : u # th => pc'[u] = pc[u]
  BY DEF TimerInv, Control, Goto, Labels
<1>4. t \in Timer /\ t \notin Pending /\ After(val[th], timer_ticks, due[t]) /\ t # NULL
  BY <1>1, <1>2, SMTT(30) DEF TimerInv, Control, Callers, Times
<1>5. PICK p \in 1 .. Len(s) + 1 :
        /\ InsertionPoint(tm, val[th]) = Circle(timer_list, s, p)
        /\ \A i \in 1 .. Len(s) : IF i < p THEN due[s[i]] <= due[t] ELSE due[t] <= due[s[i]]
  <2> DEFINE v == val[th]
  <2>1. v \in Ticks /\ After(v, timer_ticks, due[t]) /\ tm = [time EXCEPT ![t] = v]
    BY <1>1, <1>4
  <2> HIDE DEF v, t, tm
  <2>2. \E p \in 1 .. Len(Listed) + 1 :
           /\ InsertionPoint(tm, v) = Circle(timer_list, Listed, p)
           /\ \A i \in 1 .. Len(Listed) : IF i < p THEN due[Listed[i]] <= due[t]
                                                  ELSE due[t] <= due[Listed[i]]
    BY <1>4, <2>1, PlaceFound
  <2> QED BY <2>2 DEF v
<1> DEFINE x == InsertionPoint(tm, val[th])
<1>6. /\ Chain(links', Inserted(s, p, t))
      /\ links' \in [next : [Node -> Node], prev : [Node -> Node]]
  <2>1. x = Circle(timer_list, s, p) /\ links' = ListInsertBefore(links, x, t)
    BY <1>2, <1>5
  <2>2. \A i \in 1 .. Len(s) : s[i] # t
    BY <1>1, <1>4
  <2> HIDE DEF x, s, t
  <2> QED BY <1>1, <1>4, <2>1, <2>2, InsertBefore
<1>7. r = Inserted(s, p, t)
  <2> HIDE DEF s, t
  <2>1. Walk(links') = Inserted(s, p, t)
    BY <1>6, WalkFindsList
  <2> QED BY <2>1 DEF Listed
<1>8. /\ Len(r) = Len(s) + 1
      /\ \A k \in 1 .. Len(s) + 1 :
           r[k] = IF k < p THEN s[k] ELSE IF k = p THEN t ELSE s[k - 1]
  <2> HIDE DEF r, s, t
  <2>1. r \in Seq(Timer)
    BY <1>6, <1>7 DEF Chain
  <2>2. DOMAIN r = 1 .. Len(s) + 1
    BY <1>7 DEF Inserted
  <2>3. Len(r) = Len(s) + 1
    BY <1>1, <2>1, <2>2, SMTT(30)
  <2> QED BY <1>7, <2>3 DEF Inserted
<1>9. Pending' = Pending \cup {t}
  <2>1. /\ Pending = {s[i] : i \in 1 .. Len(s)}
        /\ Pending' = {r[i] : i \in 1 .. Len(r)}
    BY DEF Pending
  <2>2. ASSUME NEW k \in 1 .. Len(r) PROVE r[k] \in Pending \cup {t}
    <3>1. k \in 1 .. Len(s) + 1 /\ k \in Int /\ p \in Int
      BY <1>1, <1>8, SMTT(30)
    <3>2. k < p => k \in 1 .. Len(s)
      BY <1>1, <3>1, SMTT(30)
    <3>3. k > p => k - 1 \in 1 .. Len(s)
      BY <1>1, <3>1, SMTT(30)
    <3> HIDE DEF r, s, t
    <3> QED BY <1>1, <1>8, <3>1, <3>2, <3>3, SMTT(30)
  <2>3. t \in Pending'
    <3>1. p \in 1 .. Len(r) /\ r[p] = t
      BY <1>1, <1>8, SMTT(30)
    <3> HIDE DEF r, s, t
    <3> QED BY <2>1, <3>1
  <2>4. ASSUME NEW i \in 1 .. Len(s) PROVE s[i] \in Pending'
    <3>1. CASE i < p
      <4>1. i \in 1 .. Len(r) /\ r[i] = s[i]
        BY <1>1, <1>8, <3>1, SMTT(30)
      <4> HIDE DEF r, s
      <4> QED BY <2>1, <4>1
    <3>2. CASE ~(i < p)
      <4>1. i + 1 \in 1 .. Len(s) + 1 /\ ~(i + 1 < p) /\ i + 1 # p /\ (i + 1) - 1 = i
        BY <1>1, <3>2, SMTT(30)
      <4>2. i + 1 \in 1 .. Len(r) /\ r[i + 1] = s[i]
        BY <1>8, <4>1, SMTT(30)
      <4> HIDE DEF r, s
      <4> QED BY <2>1, <4>2
    <3> QED BY <3>1, <3>2
  <2> HIDE DEF r, s, t
  <2> QED BY <2>1, <2>2, <2>3, <2>4
<1>10. TimerTypeOK'
  <2>1. time' \in [Timer -> Ticks]
    BY <1>1, <1>2, <1>4
  <2>2. mutex' \in Threads \cup {NULL}
    BY <1>2
  <2> QED BY <1>2, <1>6, <2>1, <2>2 DEF TimerInv, TimerTypeOK
<1>11. time'[t] = val[th] /\ \A q \in Pending : time'[q] = time[q] /\ q # t
  BY <1>1, <1>2, <1>4
<1>12. Chain(links, Listed)'
  BY <1>6, <1>7
<1>13. \A i, j \in 1 .. Len(r) : i < j => due[r[i]] <= due[r[j]]
  <2>1. \A q \in Timer : due[q] \in Int
    BY <1>1, SMTT(30) DEF Span
  <2>2. \A i \in 1 .. Len(s) : due[s[i]] \in Int
    BY <1>1, <2>1
  <2>3. due[t] \in Int
    BY <1>4, <2>1
  <2>4. \A i, j \in 1 .. Len(s) : i < j => due[s[i]] <= due[s[j]]
    BY DEF TimerInv, Sorted
  <2> HIDE DEF r, s, t
  <2> SUFFICES ASSUME NEW i \in 1 .. Len(s) + 1, NEW j \in 1 .. Len(s) + 1, i < j
               PROVE  due[r[i]] <= due[r[j]]
    BY <1>8
  <2>5. i \in Int /\ j \in Int /\ p \in Int
    BY <1>1, SMTT(30)
  <2>6. CASE j < p
    <3>1. i < p /\ i \in 1 .. Len(s) /\ j \in 1 .. Len(s)
      BY <1>1, <2>5, <2>6, SMTT(30)
    <3> QED BY <1>8, <2>4, <2>6, <3>1
  <2>7. CASE j = p
    <3>1. i < p /\ i \in 1 .. Len(s) /\ ~(j < p)
      BY <1>1, <2>5, <2>7, SMTT(30)
    <3>2. r[i] = s[i] /\ r[j] = t
      BY <1>8, <2>7, <3>1
    <3> QED BY <1>5, <3>1, <3>2
  <2>8. CASE j > p /\ i < p
    <3>1. i \in 1 .. Len(s) /\ j - 1 \in 1 .. Len(s) /\ i < j - 1 /\ ~(j < p) /\ j # p
      BY <1>1, <2>5, <2>8, SMTT(30)
    <3>2. r[i] = s[i] /\ r[j] = s[j - 1]
      BY <1>8, <2>8, <3>1
    <3> QED BY <2>4, <3>1, <3>2
  <2>9. CASE j > p /\ i = p
    <3>1. j - 1 \in 1 .. Len(s) /\ ~(j - 1 < p) /\ ~(j < p) /\ j # p /\ ~(i < p)
      BY <1>1, <2>5, <2>9, SMTT(30)
    <3>2. r[i] = t /\ r[j] = s[j - 1]
      BY <1>8, <2>9, <3>1
    <3> QED BY <1>5, <3>1, <3>2
  <2>10. CASE i > p
    <3>1. /\ i - 1 \in 1 .. Len(s) /\ j - 1 \in 1 .. Len(s) /\ i - 1 < j - 1
          /\ ~(i < p) /\ i # p /\ ~(j < p) /\ j # p
      BY <1>1, <2>5, <2>10, SMTT(30)
    <3>2. r[i] = s[i - 1] /\ r[j] = s[j - 1]
      BY <1>8, <3>1
    <3> QED BY <2>4, <3>1, <3>2
  <2> QED BY <2>5, <2>6, <2>7, <2>8, <2>9, <2>10, SMTT(30)
<1>14. Sorted'
  BY <1>2, <1>13 DEF Sorted
<1> HIDE DEF s, r, tm, x
<1>15. Control'
  <2>1. \A u \in Threads : pc[u] \notin {"s_publish", "p_publish"}
    BY <1>1, <1>2 DEF TimerInv, Control
  <2>2. \A u \in Threads : mutex' = u <=> pc'[u] \in {"s_publish", "p_publish"}
    BY <1>2, <1>3, <2>1
  <2>3. \A u \in Threads : arg[u] # NULL <=> pc'[u] \in {"s_insert", "s_publish"}
    BY <1>2, <1>3 DEF TimerInv, Control
  <2>4. \A u \in Client : pc'[u] \in {"idle", "s_insert", "s_publish"}
    BY <1>3 DEF TimerInv, Control, Threads
  <2>5. /\ pc'[timer_thread] # "idle"
        /\ asleep => pc'[timer_thread] = "check"
        /\ cur # NULL <=> pc'[timer_thread] \in {"fire", "s_insert", "s_publish"}
    BY <1>1, <1>2, <1>3 DEF TimerInv, Control
  <2> QED BY <1>2, <1>3, <2>2, <2>3, <2>4, <2>5 DEF Control
<1>16. Callers'
  <2>1. \A u \in Threads : u # th /\ arg[u] # NULL => arg[u] # t
    BY <1>4 DEF TimerInv, Callers
  <2>2. ASSUME NEW u \in Threads, pc'[u] = "s_insert" PROVE arg[u] \notin Pending'
    <3>1. u # th /\ pc[u] = "s_insert"
      BY <1>3, <2>2
    <3>2. arg[u] # NULL /\ arg[u] \notin Pending
      BY <3>1 DEF TimerInv, Control, Callers
    <3> QED BY <1>9, <2>1, <3>1, <3>2
  <2>3. ASSUME NEW u \in Threads, pc'[u] = "s_publish" PROVE arg[u] \in Pending'
    BY <1>3, <1>9, <2>3 DEF TimerInv, Callers
  <2>4. \A u, v \in Threads : arg[u] # NULL /\ arg[u] = arg[v] => u = v
    BY DEF TimerInv, Callers
  <2> QED BY <1>2, <2>2, <2>3, <2>4 DEF Callers
<1>17. Times'
  <2>1. ASSUME NEW q \in Pending' PROVE After(time'[q], timer_ticks, due[q])
    BY <1>4, <1>9, <1>11 DEF TimerInv, Times
  <2>2. ASSUME NEW u \in Threads, pc'[u] = "s_insert"
        PROVE  After(val[u], timer_ticks, due[arg[u]])
    BY <1>3, <2>2 DEF TimerInv, Times
  <2> QED BY <1>2, <2>1, <2>2 DEF Times
<1>18. Lateness'
  <2>1. due[t] >= -MaxLate
    BY <1>4 DEF TimerInv, Lateness
  <2>2. asleep => \A q \in Pending' : due[q] >= -MaxLate
    BY <1>9, <2>1 DEF TimerInv, Lateness
  <2>3. pc'[timer_thread] \notin {"check", "p_publish"} => Sub(timer_ticks, now) <= MaxLate
    BY <1>1, <1>2, <1>3 DEF TimerInv, Lateness
  <2> QED BY <1>2, <2>2, <2>3 DEF TimerInv, Lateness
<1>19. Known'
  <2> SUFFICES ASSUME pc'[timer_thread] = "check", NEW q \in Pending'
               PROVE  \/ \E u \in Threads : pc'[u] = "s_publish" /\ arg[u] = q
                      \/ /\ ~timer_list_empty
                         /\ \E f \in Pending' : timer_wakeup_ticks = time'[f] /\ due[f] <= due[q]
    BY <1>2 DEF Known
  <2>1. pc[timer_thread] = "check"
    BY <1>1, <1>3
  <2>2. CASE q = t
    BY <1>3, <2>2
  <2>3. CASE q \in Pending
    <3>1. \A u \in Threads : pc[u] # "s_publish"
      BY <1>1, <1>2 DEF TimerInv, Control
    <3>2. /\ ~timer_list_empty
          /\ \E f \in Pending : timer_wakeup_ticks = time[f] /\ due[f] <= due[q]
      BY <2>1, <2>3, <3>1 DEF TimerInv, Known
    <3> QED BY <1>9, <1>11, <3>2
  <2> QED BY <1>9, <2>2, <2>3
<1>20. InterruptView'
  BY <1>1, <1>2 DEF InterruptView
<1> QED BY <1>10, <1>12, <1>14, <1>15, <1>16, <1>17, <1>18, <1>19, <1>20 DEF TimerInv

\* The end of timer_schedule tells the interrupt handler of the first timer.
LEMMA ScheduledStep ==
  ASSUME NEW th \in Threads, TimerInv, At(th, "s_publish"), SchedulePublish(th),
         arg' = [arg EXCEPT ![th] = NULL], val' = [val EXCEPT ![th] = 0],
         Goto(th, IF th = timer_thread THEN "p_take" ELSE "idle"),
         cur' = (IF th = timer_thread THEN NULL ELSE cur), UNCHANGED due
  PROVE  TimerInv'
<1> USE TimerAssumption
<1>1. /\ Pending \subseteq Timer /\ timer_thread \in Threads /\ NULL \notin Threads
      /\ time \in [Timer -> Ticks] /\ val \in [Threads -> Ticks] /\ 0 \in Ticks
      /\ arg \in [Threads -> Timer \cup {NULL}]
  BY ListFacts, SMTT(30) DEF TimerInv, TimerTypeOK, Threads, Ticks, Modulus
<1>2. /\ pc[th] = "s_publish" /\ mutex = th /\ mutex' = NULL
      /\ UNCHANGED <<timer_ticks, links, time, asleep, now, due>>
  BY <1>1 DEF At, SchedulePublish, TimerInv, Control
<1>3. /\ pc' \in [Threads -> Labels]
      /\ pc'[th] = IF th = timer_thread THEN "p_take" ELSE "idle"
      /\ \A u \in Threads : u # th => pc'[u] = pc[u]
      /\ arg'[th] = NULL /\ \A u \in Threads : u # th => arg'[u] = arg[u]
      /\ \A u \in Threads : u # th => val'[u] = val[u]
  BY <1>1 DEF TimerInv, Control, Goto, Labels
<1>4. Listed' = Listed /\ Pending' = Pending /\ Chain(links, Listed)'
  BY <1>2, SameList
<1>5. arg[th] \in Pending
  BY <1>2 DEF TimerInv, Callers
<1>6. /\ Listed # <<>> /\ Listed[1] \in Pending /\ ListFirst(links, timer_list) = Listed[1]
      /\ \A t \in Pending : due[Listed[1]] <= due[t]
  BY <1>5, ListFacts
<1>7. ~timer_list_empty' /\ timer_list_empty' \in BOOLEAN /\ timer_wakeup_ticks' = time[Listed[1]]
  BY <1>6 DEF SchedulePublish
<1>8. TimerTypeOK'
  <2>1. timer_wakeup_ticks' \in Ticks
    BY <1>1, <1>6, <1>7
  <2>2. arg' \in [Threads -> Timer \cup {NULL}] /\ val' \in [Threads -> Ticks]
    BY <1>1
  <2>3. cur' \in Timer \cup {NULL} /\ mutex' \in Threads \cup {NULL}
    BY <1>2 DEF TimerInv, TimerTypeOK
  <2> QED BY <1>2, <1>7, <2>1, <2>2, <2>3 DEF TimerInv, TimerTypeOK
<1>9. Control'
  <2>1. \A u \in Threads : u # th => pc[u] \notin {"s_publish", "p_publish"}
    BY <1>1, <1>2 DEF TimerInv, Control
  <2>2. \A u \in Threads : mutex' = u <=> pc'[u] \in {"s_publish", "p_publish"}
    BY <1>1, <1>2, <1>3, <2>1
  <2>3. \A u \in Threads : arg'[u] # NULL <=> pc'[u] \in {"s_insert", "s_publish"}
    BY <1>3, SMTT(30) DEF TimerInv, Control
  <2>4. \A u \in Client : pc'[u] \in {"idle", "s_insert", "s_publish"}
    BY <1>3 DEF TimerInv, Control, Threads
  <2>5. /\ pc'[timer_thread] # "idle"
        /\ asleep => pc'[timer_thread] = "check"
        /\ cur' # NULL <=> pc'[timer_thread] \in {"fire", "s_insert", "s_publish"}
    BY <1>1, <1>2, <1>3 DEF TimerInv, Control
  <2> QED BY <1>2, <1>3, <2>2, <2>3, <2>4, <2>5 DEF Control
<1>10. Callers'
  <2>1. \A u, v \in Threads : arg'[u] # NULL /\ arg'[u] = arg'[v] => u = v
    BY <1>3, SMTT(30) DEF TimerInv, Callers
  <2>2. \A u \in Threads : pc'[u] = "s_insert" => arg'[u] \notin Pending
    BY <1>3 DEF TimerInv, Callers
  <2>3. \A u \in Threads : pc'[u] = "s_publish" => arg'[u] \in Pending
    BY <1>3 DEF TimerInv, Callers
  <2> QED BY <1>4, <2>1, <2>2, <2>3 DEF Callers
<1>11. Times'
  <2>1. ASSUME NEW u \in Threads, pc'[u] = "s_insert"
        PROVE  u # th /\ After(val'[u], timer_ticks, due[arg'[u]])
    <3>1. u # th
      BY <1>3, <2>1
    <3> QED BY <1>3, <2>1, <3>1 DEF TimerInv, Times
  <2> QED BY <1>2, <1>4, <2>1 DEF TimerInv, Times
<1>12. Lateness'
  <2>1. \A u \in Threads : arg'[u] # NULL => due[arg'[u]] >= -MaxLate
    BY <1>3 DEF TimerInv, Lateness
  <2>2. pc'[timer_thread] \notin {"check", "p_publish"} => Sub(timer_ticks, now) <= MaxLate
    BY <1>1, <1>2, <1>3 DEF TimerInv, Lateness
  <2> QED BY <1>2, <1>4, <2>1, <2>2 DEF TimerInv, Lateness
<1>13. Sorted'
  BY <1>2, <1>4 DEF TimerInv, Sorted
<1>14. Known' /\ InterruptView'
  BY <1>2, <1>4, <1>6, <1>7 DEF Known, InterruptView
<1> QED BY <1>4, <1>8, <1>9, <1>10, <1>11, <1>12, <1>13, <1>14 DEF TimerInv

\* Every step keeps the invariant, and takes a timer only when it is due.
LEMMA TimerStep ==
  TimerInv /\ [TimerNext]_timerVars
    => TimerInv' /\ [cur' # cur /\ cur' # NULL => due[cur'] <= 0]_timerVars
<1> SUFFICES ASSUME TimerInv, [TimerNext]_timerVars
             PROVE  TimerInv' /\ (cur' # cur /\ cur' # NULL => due[cur'] <= 0)
  OBVIOUS
<1>1. CASE TimerCheck
  BY <1>1, CheckStep DEF TimerCheck
<1>2. CASE TimerTake
  BY <1>2, TakeStep
<1>3. CASE TimerPublish
  BY <1>3, PublishStep DEF TimerPublish
<1>4. CASE FireReturn
  BY <1>4, ReturnStep DEF FireReturn
<1>5. CASE Tick
  BY <1>5, TickStep DEF Tick
<1>6. ASSUME NEW th \in Threads, ScheduleStep(th)
      PROVE  TimerInv' /\ (cur' # cur => cur' = NULL)
  <2>1. CASE /\ At(th, "s_insert") /\ ScheduleInsert(th, arg[th], val[th])
             /\ Goto(th, "s_publish") /\ UNCHANGED <<arg, val, due>>
    BY <2>1, InsertStep DEF ScheduleInsert
  <2>2. CASE /\ At(th, "s_publish") /\ SchedulePublish(th)
             /\ arg' = [arg EXCEPT ![th] = NULL] /\ val' = [val EXCEPT ![th] = 0]
             /\ Goto(th, IF th = timer_thread THEN "p_take" ELSE "idle")
             /\ cur' = (IF th = timer_thread THEN NULL ELSE cur)
             /\ UNCHANGED due
    BY <2>2, ScheduledStep
  <2> QED BY <1>6, <2>1, <2>2 DEF ScheduleStep
<1>7. ASSUME NEW th \in Threads, NEW t \in Timer, NEW d \in 0 .. MaxDelay,
             ScheduleCall(th, t, d)
      PROVE  TimerInv' /\ cur' = cur
  BY <1>7, CallStep DEF ScheduleCall
<1>8. CASE UNCHANGED timerVars
  <2>1. UNCHANGED links
    BY <1>8 DEF timerVars
  <2>2. Listed' = Listed /\ Pending' = Pending /\ Chain(links, Listed)'
    BY <2>1, SameList
  <2>3. TimerTypeOK' /\ Control' /\ Callers'
    BY <1>8, <2>2 DEF TimerInv, TimerTypeOK, Control, Callers, timerVars
  <2>4. Times' /\ Lateness' /\ Sorted'
    BY <1>8, <2>2 DEF TimerInv, Times, Lateness, Sorted, timerVars
  <2>5. Known' /\ InterruptView'
    BY <1>8, <2>2 DEF TimerInv, Known, InterruptView, timerVars
  <2>6. cur' = cur
    BY <1>8 DEF timerVars
  <2> QED BY <2>2, <2>3, <2>4, <2>5, <2>6 DEF TimerInv
<1> QED BY <1>1, <1>2, <1>3, <1>4, <1>5, <1>6, <1>7, <1>8 DEF TimerNext, TimerThread

LEMMA TimerInvariant == TimerSpec => []TimerInv
<1>1. TimerInv /\ [TimerNext]_timerVars => TimerInv'
  BY TimerStep
<1> QED BY <1>1, InitTimerInv, PTL DEF TimerSpec

-----------------------------------------------------------------------------
\* timer_schedule and timer_process_list keep the list well linked and sorted
\* by the time left, wherever the tick counter wraps around.
THEOREM ListStaysSorted == TimerSpec => []ListSorted
<1>1. TimerInv => ListSorted
  BY DEF TimerInv, Chain, Sorted, ListSorted
<1> QED BY <1>1, TimerInvariant, PTL

\* Whenever the timer thread waits and timer_mutex is free, the two variables
\* that timer_report_tick reads describe the first timer of the list.
THEOREM InterruptViewIsCurrent == TimerSpec => []InterruptView
<1>1. TimerInv => InterruptView
  BY DEF TimerInv
<1> QED BY <1>1, TimerInvariant, PTL

\* timer_process_list never takes a timer that is not due, although it compares
\* with a tick read earlier and the counter wraps around.
THEOREM NothingFiresEarly == TimerSpec => NeverEarly
<1>1. TimerInv /\ [TimerNext]_timerVars
        => [cur' # cur /\ cur' # NULL => due[cur'] <= 0]_timerVars
  BY TimerStep
<1> QED BY <1>1, TimerInvariant, PTL DEF TimerSpec, NeverEarly
=============================================================================
