---------------------------- MODULE ThreadProofs ----------------------------
(***************************************************************************)
(* Theorems about the scheduler of module Thread, for every finite set of  *)
(* threads, every number of priorities and every nesting of sections.      *)
(* Lemmas on the operators of the scheduler come first, then the steps of  *)
(* a running thread, then those that make other threads runnable, create   *)
(* them or destroy them.                                                   *)
(***************************************************************************)
EXTENDS ThreadInv, FiniteSetTheorems, Basics

\* Leaves that name no prover are for Zenon; the others need arithmetic,
\* sequences or function updates and name the SMT solver.
USE ZenonT(30)

-----------------------------------------------------------------------------
(* The run queue.                                                          *)

\* thread_list_enqueue puts one more thread on the run queue.
LEMMA EnqueueHolds ==
  ASSUME NEW ls, NEW S \in SUBSET Thread, NEW t \in Thread \ S, Holds(ls, S)
  PROVE  Holds(Enqueue(ls, t), S \cup {t})
<1> DEFINE p == Priority[t]
           r == Enqueue(ls, t)
<1>1. p \in Priorities /\ ls \in [Priorities -> Seq(Thread)]
  BY ThreadAssumption DEF Holds, Priorities
<1>2. r = [ls EXCEPT ![p] = Append(@, t)]
  BY DEF Enqueue, PriorityOf
<1>3. /\ r \in [Priorities -> Seq(Thread)]
      /\ \A q \in Priorities \ {p} : r[q] = ls[q]
      /\ Len(ls[p]) \in Nat
      /\ Len(r[p]) = Len(ls[p]) + 1
      /\ r[p][Len(ls[p]) + 1] = t
      /\ \A i \in 1 .. Len(ls[p]) : r[p][i] = ls[p][i]
  BY <1>1, <1>2, SMTT(30)
<1> HIDE DEF r
<1>4. \A q \in Priorities : \A i \in 1 .. Len(r[q]) :
        IF q = p /\ i = Len(ls[p]) + 1 THEN r[q][i] = t
        ELSE i \in 1 .. Len(ls[q]) /\ r[q][i] = ls[q][i]
  BY <1>1, <1>3, SMTT(30)
<1>5. ASSUME NEW q \in Priorities, NEW i \in 1 .. Len(r[q])
      PROVE  Priority[r[q][i]] = q /\ r[q][i] \in S \cup {t}
  BY <1>4, <1>5, SMTT(30) DEF Holds
<1>6. ASSUME NEW q \in Priorities, NEW i \in 1 .. Len(r[q]), NEW j \in 1 .. Len(r[q]),
             r[q][i] = r[q][j]
      PROVE  i = j
  BY <1>4, <1>6, SMTT(30) DEF Holds
<1>7. ASSUME NEW u \in S \cup {t}
      PROVE  \E i \in 1 .. Len(r[Priority[u]]) : r[Priority[u]][i] = u
  <2>1. CASE u = t
    BY <1>3, <2>1, SMTT(30)
  <2>2. CASE u # t
    <3>1. PICK i \in 1 .. Len(ls[Priority[u]]) : ls[Priority[u]][i] = u
      BY <2>2 DEF Holds
    <3>2. Priority[u] \in Priorities
      BY <2>2, ThreadAssumption DEF Priorities
    <3>3. CASE Priority[u] = p
      <4>1. i \in 1 .. Len(r[p]) /\ r[p][i] = u
        BY <1>3, <3>1, <3>3, SMTT(30)
      <4> QED BY <3>3, <4>1
    <3>4. CASE Priority[u] # p
      BY <1>3, <3>1, <3>2, <3>4
    <3> QED BY <3>3, <3>4
  <2> QED BY <2>1, <2>2
<1> QED BY <1>3, <1>5, <1>6, <1>7 DEF Holds, r

\* thread_runq_get_next takes a thread of the highest priority off the queue,
\* or gives the idle thread when there is none.
LEMMA GetNextHolds ==
  ASSUME NEW ls, NEW S \in SUBSET Thread, NEW n, Holds(ls, S),
         n = Cardinality(S), GetNext(ls, n)
  PROVE  /\ current' \in S \cup {idle}
         /\ Holds(lists', S \ {current'})
         /\ \A t \in S : Priority[t] <= PriorityOf(current')
<1> DEFINE h == Highest(ls)
<1>1. IsFiniteSet(S)
  BY ThreadAssumption, FS_Subset
<1>2. ls \in [Priorities -> Seq(Thread)] /\ Priority \in [Thread -> Priorities]
  BY ThreadAssumption DEF Holds, Priorities
<1>3. CASE S = {}
  <2>1. n = 0
    BY <1>3, FS_EmptySet
  <2>2. current' = idle /\ lists' = ls
    BY <2>1 DEF GetNext
  <2> QED BY <1>3, <2>2
<1>4. CASE S # {}
  <2>1. n # 0
    BY <1>1, <1>4, FS_EmptySet
  <2>2. \A t \in S : Priority[t] \in NonEmpty(ls)
    BY <1>2, SMTT(30) DEF Holds, NonEmpty
  <2>3. h \in NonEmpty(ls) /\ \A q \in NonEmpty(ls) : q <= h
    <3>1. NonEmpty(ls) # {}
      BY <1>4, <2>2
    <3>2. NonEmpty(ls) \in SUBSET (0 .. MaxPriority) /\ MaxPriority \in Nat
      BY ThreadAssumption, SMTT(30) DEF NonEmpty, Priorities
    <3>3. \E p \in NonEmpty(ls) : \A q \in NonEmpty(ls) : q <= p
      BY <3>1, <3>2, GreatestElement
    <3> QED BY <3>3 DEF Highest
  <2> HIDE DEF h
  <2>4. h \in Priorities /\ ls[h] \in Seq(Thread) /\ ls[h] # <<>>
    BY <1>2, <2>3 DEF NonEmpty
  <2>5. NonEmpty(ls) # {}
    BY <2>3
  <2>6. current' = Head(ls[h]) /\ lists' = [ls EXCEPT ![h] = Tail(@)]
    BY <2>1, <2>5 DEF GetNext, h
  <2>7. /\ Len(ls[h]) \in Nat \ {0}
        /\ Head(ls[h]) = ls[h][1]
        /\ Tail(ls[h]) \in Seq(Thread)
        /\ Len(Tail(ls[h])) = Len(ls[h]) - 1
        /\ \A i \in 1 .. Len(ls[h]) - 1 : Tail(ls[h])[i] = ls[h][i + 1]
    BY <2>4, SMTT(30)
  <2>8. 1 \in 1 .. Len(ls[h]) /\ current' = ls[h][1]
    BY <2>6, <2>7, SMTT(30)
  <2>9. current' \in S /\ Priority[current'] = h
    BY <2>4, <2>8 DEF Holds
  <2>10. \A t \in S : Priority[t] <= PriorityOf(current')
    BY <2>2, <2>3, <2>9 DEF PriorityOf
  <2>11. /\ lists' \in [Priorities -> Seq(Thread)]
         /\ \A q \in Priorities \ {h} : lists'[q] = ls[q]
         /\ Len(lists'[h]) = Len(ls[h]) - 1
         /\ \A i \in 1 .. Len(ls[h]) - 1 : lists'[h][i] = ls[h][i + 1]
    BY <1>2, <2>4, <2>6, <2>7
  <2>12. \A q \in Priorities : \A i \in 1 .. Len(lists'[q]) :
           IF q = h THEN i + 1 \in 1 .. Len(ls[h]) /\ lists'[q][i] = ls[h][i + 1]
           ELSE i \in 1 .. Len(ls[q]) /\ lists'[q][i] = ls[q][i]
    BY <2>4, <2>7, <2>11, SMTT(30)
  <2>13. ASSUME NEW q \in Priorities, NEW i \in 1 .. Len(lists'[q])
         PROVE  Priority[lists'[q][i]] = q /\ lists'[q][i] \in S \ {current'}
    <3>1. CASE q = h
      <4>1. i + 1 \in 1 .. Len(ls[h]) /\ lists'[q][i] = ls[h][i + 1] /\ i + 1 # 1
        BY <2>12, <3>1, SMTT(30)
      <4> QED BY <2>4, <2>8, <3>1, <4>1, SMTT(30) DEF Holds
    <3>2. CASE q # h
      <4>1. i \in 1 .. Len(ls[q]) /\ lists'[q][i] = ls[q][i]
        BY <2>12, <3>2
      <4>2. Priority[ls[q][i]] = q /\ ls[q][i] \in S
        BY <4>1 DEF Holds
      <4> QED BY <2>9, <3>2, <4>1, <4>2
    <3> QED BY <3>1, <3>2
  <2>14. ASSUME NEW q \in Priorities, NEW i \in 1 .. Len(lists'[q]),
                NEW j \in 1 .. Len(lists'[q]), lists'[q][i] = lists'[q][j]
         PROVE  i = j
    <3>1. CASE q = h
      <4>1. /\ i + 1 \in 1 .. Len(ls[h]) /\ j + 1 \in 1 .. Len(ls[h])
            /\ ls[h][i + 1] = ls[h][j + 1]
        BY <2>12, <2>14, <3>1
      <4>2. i + 1 = j + 1
        BY <2>4, <4>1 DEF Holds
      <4> QED BY <4>2, <2>4, <2>7, <2>11, <3>1, SMTT(30)
    <3>2. CASE q # h
      BY <2>12, <2>14, <3>2, SMTT(30) DEF Holds
    <3> QED BY <3>1, <3>2
  <2>15. ASSUME NEW u \in S \ {current'}
         PROVE  \E i \in 1 .. Len(lists'[Priority[u]]) : lists'[Priority[u]][i] = u
    <3>1. PICK i \in 1 .. Len(ls[Priority[u]]) : ls[Priority[u]][i] = u
      BY DEF Holds
    <3>2. Priority[u] \in Priorities
      BY <1>2
    <3>3. CASE Priority[u] = h
      <4>1. i # 1
        BY <2>8, <3>1, <3>3
      <4>2. i - 1 \in 1 .. Len(ls[h]) - 1 /\ (i - 1) + 1 = i
        BY <2>7, <3>1, <3>3, <4>1, SMTT(30)
      <4>3. lists'[h][i - 1] = u
        BY <2>11, <3>1, <3>3, <4>2
      <4> QED BY <2>11, <3>3, <4>2, <4>3
    <3>4. CASE Priority[u] # h
      BY <2>11, <3>1, <3>2, <3>4
    <3> QED BY <3>3, <3>4
  <2>16. Holds(lists', S \ {current'})
    BY <2>11, <2>13, <2>14, <2>15 DEF Holds
  <2> QED BY <2>9, <2>10, <2>16
<1> QED BY <1>3, <1>4

\* Who is being created does not change when no thread enters or leaves the
\* label c_save.
LEMMA SameBeingCreated ==
  ASSUME \A v \in Thread : (pc'[v] = "c_save") <=> (pc[v] = "c_save"),
         \A v \in Thread : pc[v] = "c_save" => arg'[v] = arg[v]
  PROVE  \A u : BeingCreated(u)' <=> BeingCreated(u)
BY DEF BeingCreated

\* Steps that do not concern the run queue.
LEMMA QuietQueues ==
  ASSUME Queues, UNCHANGED <<runqVars, state, yield>>,
         \A v \in Thread : (pc'[v] = "c_save") <=> (pc[v] = "c_save"),
         \A v \in Thread : pc[v] = "c_save" => arg'[v] = arg[v]
  PROVE  Queues'
<1>1. \A u : BeingCreated(u)' <=> BeingCreated(u)
  BY SameBeingCreated
<1>2. Runnable' = Runnable
  BY <1>1 DEF Runnable
<1>3. /\ current' = current /\ nr_threads' = nr_threads /\ lists' = lists
      /\ yield' = yield
  BY DEF runqVars
<1>4. Ready' = Ready /\ PriorityOf(current)' = PriorityOf(current)
  BY <1>2, <1>3 DEF Ready, PriorityOf
<1>5. Holds(lists, Ready)' = Holds(lists, Ready)
  BY <1>3, <1>4, SMTT(30) DEF Holds
<1> QED BY <1>2, <1>3, <1>4, <1>5 DEF Queues

-----------------------------------------------------------------------------
(* Steps of the current thread.                                            *)

\* The stack of v is the same after the step.
Same(v) ==
  /\ pc'[v] = pc[v] /\ preempt_level'[v] = preempt_level[v]
  /\ ret'[v] = ret[v] /\ arg'[v] = arg[v] /\ eflags'[v] = eflags[v]
  /\ section'[v] = section[v] /\ irq'[v] = irq[v]

\* What the current thread t has to respect: it changes no stack but its own,
\* wakes sleeping threads only, and ends a join only with its destruction.
LEMMA StepControl ==
  ASSUME IInv, Types', NEW t \in T, current = t,
         \A v \in Context \ {t} : Same(v),
         \A v \in Context \ {t} : \/ state'[v] = state[v]
                                  \/ v \in Thread /\ state[v] = "SLEEPING" /\ state'[v] = "RUNNING",
         ret[t] = "destroy" => ret'[t] = "destroy" /\ arg'[t] = arg[t],
         ret'[t] = "destroy" /\ ret[t] # "destroy" =>
           \A v \in Thread \ {t} : ret[v] = "destroy" => arg[v] # arg'[t],
         \A u \in Thread : \/ joiner'[u] = joiner[u]
                           \/ ret[t] = "destroy" /\ arg[t] = u /\ joiner'[u] = t,
         state'[t] # "FREE",
         state'[t] = "DEAD" => \A v \in Thread \ {t} : joiner[t] = v => state'[v] # "SLEEPING",
         Frame(t)', IntrOK', t = idle => IdleOK', t \in Thread => Alive(t)' /\ Call(t)'
  PROVE  Control'
<1>1. Types /\ Control /\ Queues /\ T = Context \ {dummy}
  BY ThreadAssumption, SMTT(30) DEF IInv, T, Context
<1>2. ASSUME NEW v \in T, v # t
      PROVE  Frame(v)' /\ (irq[v] \/ pc[v] \in SwitchedOut \/ pc[v] = "dead")
  <2>1. v \in Context \ {t} /\ Frame(v) /\ Same(v) /\ v # current
    BY <1>1, <1>2 DEF Control
  <2> QED BY <2>1, SMTT(30) DEF Frame, Same
<1>3. IdleOK'
  <2>1. CASE t # idle
    <3>1. idle \in Context \ {t} /\ dummy \in Context \ {t} /\ idle \notin Thread /\ dummy \notin Thread
      BY <1>1, <2>1, ThreadAssumption DEF Context
    <3> QED BY <1>1, <3>1 DEF Control, IdleOK, Same
  <2> QED BY <2>1
<1>4. t \in Thread => state[t] = "RUNNING"
  BY <1>1, ThreadAssumption DEF Queues, Runnable, T
<1>5. ASSUME NEW v \in Thread, v # t
      PROVE  pc'[v] = pc[v] /\ ret'[v] = ret[v] /\ arg'[v] = arg[v]
  BY <1>1, <1>5 DEF Same, Context
<1>6. ASSUME NEW v \in Thread, v # t
      PROVE  Alive(v)'
  BY <1>1, <1>5, <1>6, SMTT(30) DEF Control, Alive, Context
<1>7. ASSUME NEW v \in Thread, v # t
      PROVE  Call(v)'
  <2>1. v \in T /\ Frame(v) /\ Alive(v) /\ Call(v) /\ JoinerOK(v) /\ OneJoiner
    BY <1>1 DEF Control, T
  <2>2. pc[v] \notin {"c_save", "w_save", "j_save"}
    BY <1>2, <1>7, <2>1 DEF Frame, SwitchedOut
  <2>3. ASSUME ret[v] = "destroy"
        PROVE  /\ arg[v] \in Thread \ {v}
               /\ state'[arg[v]] # "FREE"
               /\ pc[v] # "j_switched" => state'[arg[v]] = "DEAD"
               /\ pc[v] = "j_switched" => joiner'[arg[v]] = v
               /\ pc[v] = "j_switched" /\ state'[v] = "SLEEPING" => state'[arg[v]] # "DEAD"
    <3>1. /\ arg[v] \in Thread \ {v} /\ arg[v] \in Context
          /\ state[arg[v]] # "FREE"
          /\ pc[v] # "j_switched" => state[arg[v]] = "DEAD"
          /\ pc[v] = "j_switched" => joiner[arg[v]] = v
          /\ pc[v] = "j_switched" /\ state[v] = "SLEEPING" => state[arg[v]] # "DEAD"
      BY <2>1, <2>2, <2>3 DEF Call, Context
    <3>2. CASE arg[v] = t
      <4>1. state[t] = "RUNNING" /\ pc[v] = "j_switched" /\ joiner[t] = v
        BY <1>4, <3>1, <3>2
      <4>2. joiner'[t] = v
        BY <1>7, <2>1, <2>3, <3>1, <3>2, <4>1, <1>1 DEF OneJoiner, Control
      <4> QED BY <1>7, <3>1, <3>2, <4>1, <4>2
    <3>3. CASE arg[v] # t
      <4>1. joiner'[arg[v]] = joiner[arg[v]]
        <5>1. CASE t \in Thread
          BY <1>7, <2>1, <2>3, <3>1, <5>1 DEF OneJoiner
        <5>2. CASE t = idle
          BY <1>1, <3>1, <5>2 DEF Control, IdleOK
        <5> QED BY <5>1, <5>2 DEF T
      <4>2. \/ state'[arg[v]] = state[arg[v]]
            \/ state[arg[v]] = "SLEEPING" /\ state'[arg[v]] = "RUNNING"
        BY <3>1, <3>3
      <4>3. state'[v] = "SLEEPING" => state[v] = "SLEEPING"
        BY <1>1, <1>7, <2>1 DEF Context
      <4> QED BY <3>1, <4>1, <4>2, <4>3
    <3> QED BY <3>2, <3>3
  <2> QED BY <1>5, <1>7, <2>2, <2>3, SMTT(30) DEF Call
<1>8. ASSUME NEW v \in Thread
      PROVE  JoinerOK(v)'
  <2>1. JoinerOK(v) /\ joiner'[v] \in Thread \cup {NULL}
    BY <1>1 DEF Control, Types, TypeOK, Context
  <2>2. CASE joiner'[v] = joiner[v]
    <3>1. CASE joiner[v] = t
      BY <2>1, <2>2, <3>1 DEF JoinerOK
    <3>2. CASE joiner[v] # t
      BY <1>5, <2>1, <2>2, <3>2, SMTT(30) DEF JoinerOK
    <3> QED BY <3>1, <3>2
  <2>3. CASE ret[t] = "destroy" /\ arg[t] = v /\ joiner'[v] = t
    BY <2>3 DEF JoinerOK
  <2> QED BY <2>2, <2>3
<1>9. OneJoiner'
  <2> SUFFICES ASSUME NEW v \in Thread, NEW w \in Thread, v # w,
                      ret'[v] = "destroy", ret'[w] = "destroy", arg'[v] = arg'[w]
               PROVE  FALSE
    BY DEF OneJoiner
  <2>1. OneJoiner
    BY <1>1 DEF Control
  <2>2. CASE v = t
    BY <1>5, <2>1, <2>2, SMTT(30) DEF OneJoiner
  <2>3. CASE w = t
    BY <1>5, <2>1, <2>3, SMTT(30) DEF OneJoiner
  <2>4. CASE v # t /\ w # t
    BY <1>5, <2>1, <2>4, SMTT(30) DEF OneJoiner
  <2> QED BY <2>2, <2>3, <2>4
<1> QED BY <1>2, <1>3, <1>6, <1>7, <1>8, <1>9 DEF Control

\* Steps that concern neither the run queue nor the states.
LEMMA QuietStep ==
  ASSUME IInv, Types', NEW t \in T, current = t,
         UNCHANGED <<runqVars, state, yield, joiner>>,
         \A v \in Context \ {t} : Same(v),
         pc[t] # "c_save", pc'[t] \notin {"c_save", "dead", "start"},
         ret[t] = "destroy" => ret'[t] = "destroy" /\ arg'[t] = arg[t],
         ret'[t] = "destroy" /\ ret[t] # "destroy" =>
           \A v \in Thread \ {t} : ret[v] = "destroy" => arg[v] # arg'[t],
         Frame(t)', IntrOK', t = idle => IdleOK', t \in Thread => Call(t)'
  PROVE  IInv'
<1>1. Types /\ Control /\ Queues
  BY DEF IInv
<1>2. state[t] = "RUNNING"
  BY <1>1, ThreadAssumption DEF Queues, Control, IdleOK, Runnable, T
<1>3. t \in Thread => Alive(t)'
  BY <1>2 DEF Alive
<1>4. Control'
  BY <1>1, <1>2, <1>3, StepControl
<1>5. Queues'
  <2>1. \A v \in Thread : v # t => pc'[v] = pc[v] /\ arg'[v] = arg[v]
    BY DEF Same, Context
  <2> QED BY <1>1, <2>1, QuietQueues
<1> QED BY <1>4, <1>5 DEF IInv

-----------------------------------------------------------------------------
(* Switching and waking up.                                                *)

\* What thread_runq_schedule does when R are the threads that can run.
Picked(R) ==
  /\ nr_threads' = Cardinality(R)
  /\ current' \in R \cup {idle}
  /\ Holds(lists', R \ {current'})
  /\ \A t \in R : Priority[t] <= PriorityOf(current')

\* thread_runq_schedule called by a thread that can go on running, or by idle.
LEMMA ScheduleRunning ==
  ASSUME NEW ls, NEW n, NEW S \in SUBSET Thread, NEW R, Holds(ls, S),
         current \in T, current \notin S, R = S \cup ({current} \cap Thread),
         n = Cardinality(R), Schedule(TRUE, ls, n)
  PROVE  Picked(R)
<1>1. CASE current = idle
  <2>1. R = S /\ nr_threads' = n /\ GetNext(ls, n)
    BY <1>1, ThreadAssumption DEF Schedule
  <2> QED BY <2>1, GetNextHolds DEF Picked
<1>2. CASE current # idle
  <2>1. current \in Thread \ S /\ R = S \cup {current}
    BY <1>2 DEF T
  <2>2. nr_threads' = n /\ GetNext(Enqueue(ls, current), n)
    BY <1>2 DEF Schedule
  <2>3. Holds(Enqueue(ls, current), R)
    BY <2>1, EnqueueHolds, SMTT(30)
  <2> QED BY <2>1, <2>2, <2>3, GetNextHolds DEF Picked
<1> QED BY <1>1, <1>2

\* thread_runq_schedule called by a thread that sleeps or is dead.
LEMMA ScheduleStopped ==
  ASSUME NEW ls, NEW n, NEW S \in SUBSET Thread, Holds(ls, S),
         n = Cardinality(S) + 1, Schedule(FALSE, ls, n)
  PROVE  Picked(S)
<1>1. Cardinality(S) \in Nat
  BY ThreadAssumption, FS_Subset, FS_CardinalityType
<1>2. n - 1 = Cardinality(S)
  BY <1>1, SMTT(30)
<1>3. nr_threads' = n - 1 /\ GetNext(ls, n - 1)
  BY DEF Schedule
<1> QED BY <1>2, <1>3, GetNextHolds DEF Picked

\* The thread that thread_wakeup puts on the run queue, if any.
Woken(st, w) == IF Wakes(st, w) THEN {w} ELSE {}

\* thread_wakeup counts and links the same thread.
LEMMA WokenHolds ==
  ASSUME Queues, NEW st, NEW w, Wakes(st, w) => w \in Thread /\ state[w] = "SLEEPING"
  PROVE  /\ Woken(st, w) \in SUBSET Thread
         /\ Woken(st, w) \cap Runnable = {} /\ current \notin Woken(st, w)
         /\ Holds(WokenLists(st, w), Ready \cup Woken(st, w))
         /\ WokenCount(st, w) = Cardinality(Runnable \cup Woken(st, w))
<1>1. CASE Wakes(st, w)
  <2>1. w \in Thread \ Ready /\ w \notin Runnable /\ w # current /\ Ready \in SUBSET Thread
    BY <1>1 DEF Ready, Runnable, Wakes
  <2>2. Woken(st, w) = {w} /\ WokenLists(st, w) = Enqueue(lists, w) /\ WokenCount(st, w) = nr_threads + 1
    BY <1>1 DEF Woken, WokenLists, WokenCount
  <2>3. Holds(Enqueue(lists, w), Ready \cup {w})
    BY <2>1, EnqueueHolds DEF Queues
  <2>4. Runnable \in SUBSET Thread
    BY DEF Runnable
  <2>5. IsFiniteSet(Runnable)
    BY <2>4, ThreadAssumption, FS_Subset
  <2>6. Cardinality(Runnable \cup {w}) = Cardinality(Runnable) + 1
    BY <2>1, <2>5, FS_AddElement
  <2> QED BY <2>1, <2>2, <2>3, <2>6 DEF Queues
<1>2. CASE ~Wakes(st, w)
  <2>1. Woken(st, w) = {} /\ WokenLists(st, w) = lists /\ WokenCount(st, w) = nr_threads
    BY <1>2 DEF Woken, WokenLists, WokenCount
  <2>2. Ready \cup {} = Ready /\ Runnable \cup {} = Runnable
    OBVIOUS
  <2> QED BY <2>1, <2>2 DEF Queues
<1> QED BY <1>1, <1>2

\* What the scheduler picks is a context, and the queue keeps its shape.
LEMMA PickedTypes ==
  ASSUME NEW R \in SUBSET Thread, Picked(R)
  PROVE  current' \in Context /\ nr_threads' \in Nat /\ lists' \in [Priorities -> Seq(Thread)]
<1>1. Cardinality(R) \in Nat
  BY ThreadAssumption, FS_Subset, FS_CardinalityType
<1> QED BY <1>1 DEF Picked, Holds, Context

\* After thread_runq_schedule the run queue is exact again.
LEMMA PickedQueues ==
  ASSUME NEW R \in SUBSET Thread, Picked(R), Runnable' = R
  PROVE  Queues'
<1>1. Ready' = R \ {current'}
  BY DEF Ready
<1>2. \A t \in R : ~(Priority[t] > PriorityOf(current'))
  BY ThreadAssumption, SMTT(30) DEF Picked, PriorityOf
<1> QED BY <1>1, <1>2 DEF Picked, Queues

\* The threads that can run after a step that creates none.
LEMMA RunnableAfter ==
  ASSUME NEW t \in T, \A v \in Context \ {t} : Same(v),
         pc[t] # "c_save", pc'[t] # "c_save"
  PROVE  Runnable' = {v \in Thread : state'[v] = "RUNNING" /\ ~BeingCreated(v)}
<1>1. \A v \in Thread : v # t => pc'[v] = pc[v] /\ arg'[v] = arg[v]
  BY DEF Same, Context
<1>2. \A u : BeingCreated(u)' <=> BeingCreated(u)
  BY <1>1, SameBeingCreated
<1> QED BY <1>2 DEF Runnable

\* A thread that is being created is neither asleep nor dead.
LEMMA CreatedIsRunning ==
  ASSUME IInv, NEW u, BeingCreated(u)
  PROVE  state[u] = "RUNNING" /\ u # current
<1>1. PICK t \in Thread : pc[t] = "c_save" /\ arg[t] = u
  BY DEF BeingCreated
<1>2. Call(t) /\ Frame(t)
  BY DEF IInv, Control, T
<1>3. t = current
  BY <1>1, <1>2 DEF Frame, SwitchedOut
<1> QED BY <1>1, <1>2, <1>3 DEF Call

\* Steps in which the current thread t calls thread_runq_schedule.
LEMMA SwitchStep ==
  ASSUME IInv, Types', NEW t \in T, current = t,
         NEW R \in SUBSET Thread, Picked(R), Runnable' = R,
         \A v \in Context \ {t} : Same(v),
         \A v \in Context \ {t} : \/ state'[v] = state[v]
                                  \/ v \in Thread /\ state[v] = "SLEEPING" /\ state'[v] = "RUNNING",
         ret'[t] = ret[t], arg'[t] = arg[t],
         \A u \in Thread : \/ joiner'[u] = joiner[u]
                           \/ ret[t] = "destroy" /\ arg[t] = u /\ joiner'[u] = t,
         state'[t] # "FREE",
         state'[t] = "DEAD" => \A v \in Thread \ {t} : joiner[t] = v => state'[v] # "SLEEPING",
         ~intr', irq'[t] \/ pc'[t] \in SwitchedOut \cup {"dead"},
         Frame(t)', t = idle => IdleOK', t \in Thread => Alive(t)' /\ Call(t)'
  PROVE  IInv'
<1>1. Queues'
  BY PickedQueues
<1>2. IntrOK'
  <2> DEFINE c == current'
  <2>1. c \in Runnable' \cup {idle}
    BY DEF Picked
  <2>2. c # dummy /\ c \in T
    BY <2>1, ThreadAssumption DEF Runnable, T
  <2>3. irq'[c] \/ pc'[c] \in SwitchedOut
    <3>1. CASE c = t
      <4>1. pc'[t] # "dead"
        <5>1. CASE t \in Thread
          BY <2>1, <3>1, <5>1, ThreadAssumption DEF Alive, Runnable
        <5>2. CASE t = idle
          BY <5>2 DEF IdleOK
        <5> QED BY <5>1, <5>2 DEF T
      <4> QED BY <3>1, <4>1
    <3>2. CASE c # t
      <4>1. c \in Context \ {t} /\ Frame(c) /\ Same(c) /\ c # current
        BY <2>2, <3>2 DEF IInv, Control, T, Context
      <4>2. pc[c] # "dead"
        <5>1. CASE c \in Thread
          <6>1. Alive(c) /\ state'[c] = "RUNNING"
            BY <2>1, <5>1, ThreadAssumption DEF IInv, Control, Runnable
          <6> QED BY <4>1, <6>1 DEF Alive
        <5>2. CASE c = idle
          BY <5>2 DEF IInv, Control, IdleOK
        <5> QED BY <2>2, <5>1, <5>2 DEF T
      <4> QED BY <4>1, <4>2 DEF Frame, Same
    <3> QED BY <3>1, <3>2
  <2> QED BY <2>2, <2>3 DEF IntrOK
<1>3. ret'[t] = "destroy" /\ ret[t] # "destroy" =>
        \A v \in Thread \ {t} : ret[v] = "destroy" => arg[v] # arg'[t]
  OBVIOUS
<1>4. Control'
  BY <1>2, <1>3, StepControl
<1> QED BY <1>1, <1>4 DEF IInv

\* The threads that can run are those on the run queue and the current one.
LEMMA ReadyAndCurrent ==
  ASSUME IInv, current \in T
  PROVE  /\ Ready \in SUBSET Thread /\ current \notin Ready /\ Runnable \in SUBSET Thread
         /\ Ready \cup ({current} \cap Thread) = Runnable
         /\ current \in Thread => current \in Runnable
<1>1. current \in Runnable \cup {idle} /\ idle \notin Thread
  BY ThreadAssumption DEF IInv, Queues, T
<1> QED BY <1>1 DEF Ready, Runnable

\* One of them leaves.
LEMMA OneLess ==
  ASSUME NEW S \in SUBSET Thread, NEW t \in Thread, t \notin S
  PROVE  Cardinality(S \cup {t}) = Cardinality(S) + 1
BY ThreadAssumption, FS_Subset, FS_AddElement

\* thread_runq_add keeps the run queue exact when u has just become runnable.
LEMMA AddQueues ==
  ASSUME Queues, NEW u \in Thread \ Runnable, u # current,
         Runnable' = Runnable \cup {u}, current' = current,
         lists' = Enqueue(lists, u), nr_threads' = nr_threads + 1,
         yield[current] => yield'[current],
         Priority[u] > PriorityOf(current) => yield'[current]
  PROVE  Queues'
<1>1. Ready' = Ready \cup {u} /\ Ready \in SUBSET Thread /\ u \notin Ready
  BY DEF Ready, Runnable
<1>2. Holds(lists', Ready')
  BY <1>1, EnqueueHolds DEF Queues
<1>3. nr_threads' = Cardinality(Runnable')
  <2>1. Runnable \in SUBSET Thread
    BY DEF Runnable
  <2> QED BY <2>1, OneLess DEF Queues
<1>4. PriorityOf(current)' = PriorityOf(current)
  BY DEF PriorityOf
<1>5. \A t \in Ready' : Priority[t] > PriorityOf(current)' => yield'[current']
  BY <1>1, <1>4 DEF Queues
<1>6. current' \in Runnable' \cup {idle, dummy}
  BY DEF Queues
<1> QED BY <1>2, <1>3, <1>5, <1>6 DEF Queues, Holds

\* The run queue stays exact when only the request to yield is raised.
LEMMA RaiseQueues ==
  ASSUME Queues, Runnable' = Runnable, UNCHANGED runqVars,
         yield[current] => yield'[current]
  PROVE  Queues'
<1>1. current' = current /\ nr_threads' = nr_threads /\ lists' = lists
  BY DEF runqVars
<1>2. Ready' = Ready /\ PriorityOf(current)' = PriorityOf(current)
  BY <1>1 DEF Ready, PriorityOf
<1>3. Holds(lists, Ready)' = Holds(lists, Ready)
  BY <1>1, <1>2, SMTT(30) DEF Holds
<1> QED BY <1>1, <1>2, <1>3 DEF Queues

\* The states and yield flags that thread_wakeup leaves.
LEMMA WokenTypes ==
  ASSUME Types, NEW w \in Thread \cup {NULL}, NEW yl \in [Context -> BOOLEAN],
         w # NULL => state[w] \in {"RUNNING", "SLEEPING"}
  PROVE  /\ WokenState(state, w) \in [Context -> {"FREE", "RUNNING", "SLEEPING", "DEAD"}]
         /\ WokenYield(state, yl, w) \in [Context -> BOOLEAN]
         /\ yl[current] => WokenYield(state, yl, w)[current]
         /\ WokenState(state, w)[current] = state[current]
         /\ Wakes(state, w) => w \in Thread /\ state[w] = "SLEEPING"
         /\ \A v \in Context : WokenState(state, w)[v] =
              IF v \in Woken(state, w) THEN "RUNNING" ELSE state[v]
<1>1. WokenYield(state, yl, w) \in [Context -> BOOLEAN]
  BY DEF Types, WokenYield, YieldAfterAdd
<1>2. yl[current] => WokenYield(state, yl, w)[current]
  BY DEF Types, WokenYield, YieldAfterAdd
<1>3. Wakes(state, w) => w \in Thread /\ state[w] = "SLEEPING" /\ w # current /\ w \in Context
  BY DEF Wakes, Context
<1>4. current \in Context /\ state \in [Context -> {"FREE", "RUNNING", "SLEEPING", "DEAD"}]
  BY DEF Types, TypeOK
<1>5. CASE Wakes(state, w)
  BY <1>1, <1>2, <1>3, <1>4, <1>5 DEF WokenState, Woken
<1>6. CASE ~Wakes(state, w)
  BY <1>1, <1>2, <1>3, <1>4, <1>6 DEF WokenState, Woken
<1> QED BY <1>5, <1>6

\* The threads that can run after a wake-up of w, who is being created being
\* the same.
LEMMA WokenRunnable ==
  ASSUME IInv, NEW w \in Thread \cup {NULL},
         w # NULL => state[w] \in {"RUNNING", "SLEEPING"},
         state' = WokenState(state, w),
         \A u : BeingCreated(u)' <=> BeingCreated(u)
  PROVE  Runnable' = Runnable \cup Woken(state, w)
<1>1. /\ Wakes(state, w) => w \in Thread /\ state[w] = "SLEEPING"
      /\ \A v \in Context : state'[v] = IF v \in Woken(state, w) THEN "RUNNING" ELSE state[v]
  BY WokenTypes DEF IInv, Types, TypeOK
<1>2. \A v \in Woken(state, w) : v \in Thread /\ ~BeingCreated(v)
  BY <1>1, CreatedIsRunning DEF Woken
<1>3. Runnable' = {v \in Thread : state'[v] = "RUNNING" /\ ~BeingCreated(v)}
  BY DEF Runnable
<1> QED BY <1>1, <1>2, <1>3 DEF Runnable, Context

\* thread_wakeup and the interrupt handlers keep the run queue exact.
LEMMA WokenQueues ==
  ASSUME IInv, NEW w \in Thread \cup {NULL}, NEW yl \in [Context -> BOOLEAN],
         w # NULL => state[w] \in {"RUNNING", "SLEEPING"},
         yield[current] => yl[current],
         current' = current, state' = WokenState(state, w),
         lists' = WokenLists(state, w), nr_threads' = WokenCount(state, w),
         yield' = WokenYield(state, yl, w),
         \A u : BeingCreated(u)' <=> BeingCreated(u)
  PROVE  Queues'
<1>1. Runnable' = Runnable \cup Woken(state, w) /\ Queues /\ Types
  BY WokenRunnable DEF IInv
<1>2. /\ yield[current] => yield'[current]
      /\ Wakes(state, w) => w \in Thread /\ state[w] = "SLEEPING"
  BY <1>1, WokenTypes
<1>3. CASE Wakes(state, w)
  <2>1. w \in Thread \ Runnable /\ w # current /\ Woken(state, w) = {w}
    BY <1>2, <1>3 DEF Runnable, Wakes, Woken
  <2>2. lists' = Enqueue(lists, w) /\ nr_threads' = nr_threads + 1
    BY <1>3 DEF WokenLists, WokenCount
  <2>3. Priority[w] > PriorityOf(current) => yield'[current]
    BY <1>1, <1>3, <2>1 DEF WokenYield, YieldAfterAdd, PriorityOf, Types
  <2> QED BY <1>1, <1>2, <2>1, <2>2, <2>3, AddQueues
<1>4. CASE ~Wakes(state, w)
  <2>1. Runnable' = Runnable /\ UNCHANGED runqVars
    BY <1>1, <1>4 DEF Woken, WokenLists, WokenCount, runqVars
  <2> QED BY <1>1, <1>2, <2>1, RaiseQueues
<1> QED BY <1>3, <1>4

\* No thread but the current one is inside thread_create.
LEMMA OnlyCurrentCreates ==
  ASSUME IInv, NEW v \in Thread, pc[v] = "c_save"
  PROVE  v = current
<1>1. Frame(v)
  BY DEF IInv, Control, T
<1> QED BY <1>1 DEF Frame, SwitchedOut

\* A free thread has the stack that thread_create gives it.
LEMMA FreeThread ==
  ASSUME IInv, NEW u \in Thread, state[u] = "FREE"
  PROVE  /\ u # current /\ pc[u] = "start" /\ ret[u] = "run"
         /\ section[u] = 0 /\ ~irq[u] /\ preempt_level[u] = 1
         /\ joiner[u] = NULL
         /\ \A v \in Thread : ret[v] = "destroy" => arg[v] # u
<1>1. /\ Types /\ Frame(u) /\ Alive(u) /\ JoinerOK(u) /\ u \in Context
      /\ \A v \in Thread : Call(v)
      /\ current \in Runnable \cup {idle, dummy}
  BY DEF IInv, Control, T, Queues, Context
<1>2. u # current
  BY <1>1, ThreadAssumption DEF Runnable
<1>3. pc[u] = "start" /\ ret[u] = "run" /\ section[u] = 0 /\ ~irq[u] /\ preempt_level[u] = 1
  BY <1>1, SMTT(30) DEF Alive, Frame, LabelLevel, Types, TypeOK
<1>4. \A v \in Thread : ret[v] = "destroy" => arg[v] # u
  BY <1>1, SMTT(30) DEF Call
<1>5. joiner[u] = NULL
  BY <1>1, <1>4 DEF JoinerOK, Types, TypeOK
<1> QED BY <1>2, <1>3, <1>4, <1>5

-----------------------------------------------------------------------------
(* The steps of the running thread.  First, those that leave the run queue *)
(* and the states alone.                                                   *)

\* thread_main enables interrupts for a new thread.
LEMMA StartInv ==
  ASSUME IInv, NEW t \in T, Start(t)
  PROVE  IInv'
<1>1. /\ t \in T /\ current = t /\ Types /\ Frame(t) /\ IntrOK
      /\ (t = idle => IdleOK) /\ (t \in Thread => Call(t))
  BY DEF IInv, Control, T, Start, At
<1>2. t \in Context /\ t # dummy
  BY <1>1, ThreadAssumption DEF T, Context
<1>3. Types'
  BY <1>1, <1>2, ThreadAssumption DEF Types, TypeOK, PC, Frame, Start, At, Goto, runqVars
<1>4. UNCHANGED <<runqVars, state, yield, joiner>>
  BY DEF Start
<1>5. \A v \in Context \ {t} : Same(v)
  BY <1>1 DEF Same, Types, TypeOK, Start, At, Goto, runqVars
<1>6. Frame(t)' /\ IntrOK'
  BY <1>1, <1>2 DEF Frame, Types, TypeOK, LabelLevel, SwitchedOut, PC, IntrOK, IdleOK,
     Start, At, Goto, runqVars
<1>7. /\ t = idle => IdleOK'
      /\ t \in Thread => Call(t)'
      /\ pc[t] # "c_save" /\ pc'[t] \notin {"c_save", "dead", "start"}
      /\ ret[t] = "destroy" => ret'[t] = "destroy" /\ arg'[t] = arg[t]
      /\ ret'[t] = "destroy" /\ ret[t] # "destroy" =>
           \A v \in Thread \ {t} : ret[v] = "destroy" => arg[v] # arg'[t]
  BY <1>1, <1>2, ThreadAssumption, SMTT(30) DEF IdleOK, Call, Types, TypeOK, Frame, PC, Start, At,
     Goto, runqVars
<1> QED BY <1>1, <1>3, <1>4, <1>5, <1>6, <1>7, QuietStep

\* The decrement in thread_unlock_scheduler.
LEMMA UnlockEnableInv ==
  ASSUME IInv, NEW t \in T, UnlockEnable(t)
  PROVE  IInv'
<1>1. /\ t \in T /\ current = t /\ Types /\ Frame(t) /\ IntrOK
      /\ (t = idle => IdleOK) /\ (t \in Thread => Call(t))
  BY DEF IInv, Control, T, UnlockEnable, At
<1>2. t \in Context /\ t # dummy
  BY <1>1, ThreadAssumption DEF T, Context
<1>3. preempt_level[t] - 1 \in Nat /\ preempt_level[t] \in Int
  <2>1. preempt_level[t] > 0
    BY <1>1, <1>2, SMTT(30) DEF Frame, LabelLevel, Types, TypeOK, UnlockEnable, At
  <2> QED BY <1>1, <1>2, <2>1, SMTT(30) DEF Types, TypeOK
<1>4. Types'
  BY <1>1, <1>2, <1>3, ThreadAssumption DEF Types, TypeOK, PC, Frame, UnlockEnable, At,
     Goto, PreemptEnableNoYield, runqVars, frameVars
<1>5. UNCHANGED <<runqVars, state, yield, joiner>>
  BY DEF UnlockEnable
<1>6. \A v \in Context \ {t} : Same(v)
  BY <1>1 DEF Same, Types, TypeOK, UnlockEnable, At, Goto, PreemptEnableNoYield, runqVars,
     frameVars
<1>7. Frame(t)' /\ IntrOK'
  BY <1>1, <1>2, <1>3, SMTT(30) DEF Frame, Types, TypeOK, LabelLevel, SwitchedOut, PC, IntrOK,
     IdleOK, UnlockEnable, At, Goto, PreemptEnableNoYield, runqVars, frameVars
<1>8. /\ t = idle => IdleOK'
      /\ t \in Thread => Call(t)'
      /\ pc[t] # "c_save" /\ pc'[t] \notin {"c_save", "dead", "start"}
      /\ ret[t] = "destroy" => ret'[t] = "destroy" /\ arg'[t] = arg[t]
      /\ ret'[t] = "destroy" /\ ret[t] # "destroy" =>
           \A v \in Thread \ {t} : ret[v] = "destroy" => arg[v] # arg'[t]
  BY <1>1, <1>2, ThreadAssumption, SMTT(30) DEF IdleOK, Call, Types, TypeOK, Frame, PC,
     UnlockEnable, At, Goto, PreemptEnableNoYield, runqVars, frameVars
<1> QED BY <1>1, <1>4, <1>5, <1>6, <1>7, <1>8, QuietStep

\* thread_yield_if_needed: yield, or return to the caller.
LEMMA YieldIfNeededInv ==
  ASSUME IInv, NEW t \in T, YieldIfNeeded(t)
  PROVE  IInv'
<1>1. /\ t \in T /\ current = t /\ Types /\ Frame(t) /\ IntrOK
      /\ (t = idle => IdleOK) /\ (t \in Thread => Call(t))
  BY DEF IInv, Control, T, YieldIfNeeded, At
<1>2. t \in Context /\ t # dummy
  BY <1>1, ThreadAssumption DEF T, Context
<1>3. Types'
  BY <1>1, <1>2, ThreadAssumption DEF Types, TypeOK, PC, Frame, YieldIfNeeded, At, Goto,
     runqVars, frameVars
<1>4. UNCHANGED <<runqVars, state, yield, joiner>>
  BY DEF YieldIfNeeded
<1>5. \A v \in Context \ {t} : Same(v)
  BY <1>1 DEF Same, Types, TypeOK, YieldIfNeeded, At, Goto, runqVars, frameVars
<1>6. Frame(t)' /\ IntrOK'
  BY <1>1, <1>2, SMTT(30) DEF Frame, Types, TypeOK, LabelLevel, SwitchedOut, PC, IntrOK, IdleOK,
     YieldIfNeeded, At, Goto, runqVars, frameVars
<1>7. /\ t = idle => IdleOK'
      /\ t \in Thread => Call(t)'
      /\ pc[t] # "c_save" /\ pc'[t] \notin {"c_save", "dead", "start"}
      /\ ret[t] = "destroy" => ret'[t] = "destroy" /\ arg'[t] = arg[t]
      /\ ret'[t] = "destroy" /\ ret[t] # "destroy" =>
           \A v \in Thread \ {t} : ret[v] = "destroy" => arg[v] # arg'[t]
  BY <1>1, <1>2, ThreadAssumption, SMTT(30) DEF IdleOK, Call, Types, TypeOK, Frame, PC,
     YieldIfNeeded, At, Goto, runqVars, frameVars
<1> QED BY <1>1, <1>3, <1>4, <1>5, <1>6, <1>7, QuietStep

\* thread_yield disables preemption.
LEMMA YieldLockInv ==
  ASSUME IInv, NEW t \in T, YieldLock(t)
  PROVE  IInv'
<1>1. /\ t \in T /\ current = t /\ Types /\ Frame(t) /\ IntrOK
      /\ (t = idle => IdleOK) /\ (t \in Thread => Call(t))
  BY DEF IInv, Control, T, YieldLock, At
<1>2. t \in Context /\ t # dummy
  BY <1>1, ThreadAssumption DEF T, Context
<1>3. Types'
  BY <1>1, <1>2, ThreadAssumption, SMTT(30) DEF Types, TypeOK, PC, Frame, YieldLock, At, Goto,
     PreemptDisable, runqVars, frameVars
<1>4. UNCHANGED <<runqVars, state, yield, joiner>>
  BY DEF YieldLock
<1>5. \A v \in Context \ {t} : Same(v)
  BY <1>1 DEF Same, Types, TypeOK, YieldLock, At, Goto, PreemptDisable, runqVars, frameVars
<1>6. Frame(t)' /\ IntrOK'
  BY <1>1, <1>2, SMTT(30) DEF Frame, Types, TypeOK, LabelLevel, SwitchedOut, PC, IntrOK, IdleOK,
     YieldLock, At, Goto, PreemptDisable, runqVars, frameVars
<1>7. /\ t = idle => IdleOK'
      /\ t \in Thread => Call(t)'
      /\ pc[t] # "c_save" /\ pc'[t] \notin {"c_save", "dead", "start"}
      /\ ret[t] = "destroy" => ret'[t] = "destroy" /\ arg'[t] = arg[t]
      /\ ret'[t] = "destroy" /\ ret[t] # "destroy" =>
           \A v \in Thread \ {t} : ret[v] = "destroy" => arg[v] # arg'[t]
  BY <1>1, <1>2, ThreadAssumption, SMTT(30) DEF IdleOK, Call, Types, TypeOK, Frame, PC, YieldLock,
     At, Goto, PreemptDisable, runqVars, frameVars
<1> QED BY <1>1, <1>3, <1>4, <1>5, <1>6, <1>7, QuietStep

\* Back from the switch, thread_yield restores the interrupt flag.
LEMMA YieldRestoreInv ==
  ASSUME IInv, NEW t \in T, YieldRestore(t)
  PROVE  IInv'
<1>1. /\ t \in T /\ current = t /\ Types /\ Frame(t) /\ IntrOK
      /\ (t = idle => IdleOK) /\ (t \in Thread => Call(t))
  BY DEF IInv, Control, T, YieldRestore, At
<1>2. t \in Context /\ t # dummy
  BY <1>1, ThreadAssumption DEF T, Context
<1>3. Types'
  BY <1>1, <1>2, ThreadAssumption DEF Types, TypeOK, PC, Frame, YieldRestore, At, Goto,
     runqVars
<1>4. UNCHANGED <<runqVars, state, yield, joiner>>
  BY DEF YieldRestore
<1>5. \A v \in Context \ {t} : Same(v)
  BY <1>1 DEF Same, Types, TypeOK, YieldRestore, At, Goto, runqVars
<1>6. Frame(t)' /\ IntrOK'
  BY <1>1, <1>2 DEF Frame, Types, TypeOK, LabelLevel, SwitchedOut, PC, IntrOK, IdleOK,
     YieldRestore, At, Goto, runqVars
<1>7. /\ t = idle => IdleOK'
      /\ t \in Thread => Call(t)'
      /\ pc[t] # "c_save" /\ pc'[t] \notin {"c_save", "dead", "start"}
      /\ ret[t] = "destroy" => ret'[t] = "destroy" /\ arg'[t] = arg[t]
      /\ ret'[t] = "destroy" /\ ret[t] # "destroy" =>
           \A v \in Thread \ {t} : ret[v] = "destroy" => arg[v] # arg'[t]
  BY <1>1, <1>2, ThreadAssumption, SMTT(30) DEF IdleOK, Call, Types, TypeOK, Frame, PC,
     YieldRestore, At, Goto, runqVars
<1> QED BY <1>1, <1>3, <1>4, <1>5, <1>6, <1>7, QuietStep

\* thread_yield returns to its caller.
LEMMA YieldEnableInv ==
  ASSUME IInv, NEW t \in T, YieldEnable(t)
  PROVE  IInv'
<1>1. /\ t \in T /\ current = t /\ Types /\ Frame(t) /\ IntrOK
      /\ (t = idle => IdleOK) /\ (t \in Thread => Call(t))
  BY DEF IInv, Control, T, YieldEnable, At
<1>2. t \in Context /\ t # dummy
  BY <1>1, ThreadAssumption DEF T, Context
<1>3. preempt_level[t] - 1 \in Nat /\ preempt_level[t] \in Int
  <2>1. preempt_level[t] > 0
    BY <1>1, <1>2, SMTT(30) DEF Frame, LabelLevel, Types, TypeOK, YieldEnable, At
  <2> QED BY <1>1, <1>2, <2>1, SMTT(30) DEF Types, TypeOK
<1>4. Types'
  BY <1>1, <1>2, <1>3, ThreadAssumption DEF Types, TypeOK, PC, Frame, YieldEnable, At,
     Goto, PreemptEnableNoYield, runqVars, frameVars
<1>5. UNCHANGED <<runqVars, state, yield, joiner>>
  BY DEF YieldEnable
<1>6. \A v \in Context \ {t} : Same(v)
  BY <1>1 DEF Same, Types, TypeOK, YieldEnable, At, Goto, PreemptEnableNoYield, runqVars,
     frameVars
<1>7. Frame(t)' /\ IntrOK'
  <2>1. CASE ret[t] = "run"
    BY <1>1, <1>2, <1>3, <2>1, SMTT(30) DEF Frame, Types, TypeOK, LabelLevel, SwitchedOut, PC,
       IntrOK, YieldEnable, At, Goto, PreemptEnableNoYield, runqVars, frameVars
  <2>2. CASE ret[t] = "destroy"
    BY <1>1, <1>2, <1>3, <2>2, SMTT(30) DEF Frame, Types, TypeOK, LabelLevel, SwitchedOut, PC,
       IntrOK, YieldEnable, At, Goto, PreemptEnableNoYield, runqVars, frameVars
  <2> QED BY <1>1, <1>2, <2>1, <2>2 DEF Types, TypeOK
<1>8. /\ t = idle => IdleOK'
      /\ t \in Thread => Call(t)'
      /\ pc[t] # "c_save" /\ pc'[t] \notin {"c_save", "dead", "start"}
      /\ ret[t] = "destroy" => ret'[t] = "destroy" /\ arg'[t] = arg[t]
      /\ ret'[t] = "destroy" /\ ret[t] # "destroy" =>
           \A v \in Thread \ {t} : ret[v] = "destroy" => arg[v] # arg'[t]
  BY <1>1, <1>2, ThreadAssumption, SMTT(30) DEF IdleOK, Call, Types, TypeOK, Frame, PC, YieldEnable,
     At, Goto, PreemptEnableNoYield, runqVars, frameVars
<1> QED BY <1>1, <1>4, <1>5, <1>6, <1>7, <1>8, QuietStep

\* thread_sleep returns to its caller.
LEMMA SleepReturnInv ==
  ASSUME IInv, NEW t \in T, SleepReturn(t)
  PROVE  IInv'
<1>1. /\ t \in T /\ current = t /\ Types /\ Frame(t) /\ IntrOK
      /\ (t = idle => IdleOK) /\ (t \in Thread => Call(t))
  BY DEF IInv, Control, T, SleepReturn, At
<1>2. t \in Context /\ t # dummy
  BY <1>1, ThreadAssumption DEF T, Context
<1>3. Types'
  BY <1>1, <1>2, ThreadAssumption DEF Types, TypeOK, PC, Frame, SleepReturn, At, Goto,
     runqVars
<1>4. UNCHANGED <<runqVars, state, yield, joiner>>
  BY DEF SleepReturn
<1>5. \A v \in Context \ {t} : Same(v)
  BY <1>1 DEF Same, Types, TypeOK, SleepReturn, At, Goto, runqVars
<1>6. Frame(t)' /\ IntrOK'
  BY <1>1, <1>2, SMTT(30) DEF Frame, Types, TypeOK, LabelLevel, SwitchedOut, PC, IntrOK, IdleOK,
     SleepReturn, At, Goto, runqVars
<1>7. /\ t = idle => IdleOK'
      /\ t \in Thread => Call(t)'
      /\ pc[t] # "c_save" /\ pc'[t] \notin {"c_save", "dead", "start"}
      /\ ret[t] = "destroy" => ret'[t] = "destroy" /\ arg'[t] = arg[t]
      /\ ret'[t] = "destroy" /\ ret[t] # "destroy" =>
           \A v \in Thread \ {t} : ret[v] = "destroy" => arg[v] # arg'[t]
  BY <1>1, <1>2, ThreadAssumption DEF IdleOK, Call, Types, TypeOK, Frame, PC, SleepReturn,
     At, Goto, runqVars
<1> QED BY <1>1, <1>3, <1>4, <1>5, <1>6, <1>7, QuietStep

\* A thread calls thread_yield.
LEMMA YieldCallInv ==
  ASSUME IInv, NEW t \in Thread, YieldCall(t)
  PROVE  IInv'
<1>1. /\ t \in T /\ current = t /\ Types /\ Frame(t) /\ IntrOK
      /\ (t = idle => IdleOK) /\ (t \in Thread => Call(t))
  BY DEF IInv, Control, T, YieldCall, At
<1>2. t \in Context /\ t # dummy
  BY <1>1, ThreadAssumption DEF T, Context
<1>3. Types'
  BY <1>1, <1>2, ThreadAssumption DEF Types, TypeOK, PC, Frame, YieldCall, At, Goto,
     runqVars
<1>4. UNCHANGED <<runqVars, state, yield, joiner>>
  BY DEF YieldCall
<1>5. \A v \in Context \ {t} : Same(v)
  BY <1>1 DEF Same, Types, TypeOK, YieldCall, At, Goto, runqVars
<1>6. Frame(t)' /\ IntrOK'
  BY <1>1, <1>2, SMTT(30) DEF Frame, Types, TypeOK, LabelLevel, SwitchedOut, PC, IntrOK, IdleOK,
     YieldCall, At, Goto, runqVars
<1>7. /\ t = idle => IdleOK'
      /\ t \in Thread => Call(t)'
      /\ pc[t] # "c_save" /\ pc'[t] \notin {"c_save", "dead", "start"}
      /\ ret[t] = "destroy" => ret'[t] = "destroy" /\ arg'[t] = arg[t]
      /\ ret'[t] = "destroy" /\ ret[t] # "destroy" =>
           \A v \in Thread \ {t} : ret[v] = "destroy" => arg[v] # arg'[t]
  BY <1>1, <1>2, ThreadAssumption, SMTT(30) DEF IdleOK, Call, Types, TypeOK, Frame, PC, YieldCall,
     At, Goto, runqVars
<1> QED BY <1>1, <1>3, <1>4, <1>5, <1>6, <1>7, QuietStep

\* thread_preempt_disable opens a section.
LEMMA SectionEnterInv ==
  ASSUME IInv, NEW t \in Thread, SectionEnter(t)
  PROVE  IInv'
<1>1. /\ t \in T /\ current = t /\ Types /\ Frame(t) /\ IntrOK
      /\ (t = idle => IdleOK) /\ (t \in Thread => Call(t))
  BY DEF IInv, Control, T, SectionEnter, At
<1>2. t \in Context /\ t # dummy
  BY <1>1, ThreadAssumption DEF T, Context
<1>3. Types'
  BY <1>1, <1>2, ThreadAssumption, SMTT(30) DEF Types, TypeOK, PC, Frame, SectionEnter, At,
     PreemptDisable, runqVars
<1>4. UNCHANGED <<runqVars, state, yield, joiner>>
  BY DEF SectionEnter
<1>5. \A v \in Context \ {t} : Same(v)
  BY <1>1 DEF Same, Types, TypeOK, SectionEnter, At, PreemptDisable, runqVars
<1>6. Frame(t)' /\ IntrOK'
  BY <1>1, <1>2, SMTT(30) DEF Frame, Types, TypeOK, LabelLevel, SwitchedOut, PC, IntrOK, IdleOK,
     SectionEnter, At, PreemptDisable, runqVars
<1>7. /\ t = idle => IdleOK'
      /\ t \in Thread => Call(t)'
      /\ pc[t] # "c_save" /\ pc'[t] \notin {"c_save", "dead", "start"}
      /\ ret[t] = "destroy" => ret'[t] = "destroy" /\ arg'[t] = arg[t]
      /\ ret'[t] = "destroy" /\ ret[t] # "destroy" =>
           \A v \in Thread \ {t} : ret[v] = "destroy" => arg[v] # arg'[t]
  BY <1>1, <1>2, ThreadAssumption DEF IdleOK, Call, Types, TypeOK, Frame, PC,
     SectionEnter, At, PreemptDisable, runqVars
<1> QED BY <1>1, <1>3, <1>4, <1>5, <1>6, <1>7, QuietStep

\* thread_preempt_enable closes a section.
LEMMA SectionExitInv ==
  ASSUME IInv, NEW t \in Thread, SectionExit(t)
  PROVE  IInv'
<1>1. /\ t \in T /\ current = t /\ Types /\ Frame(t) /\ IntrOK
      /\ (t = idle => IdleOK) /\ (t \in Thread => Call(t))
  BY DEF IInv, Control, T, SectionExit, At
<1>2. t \in Context /\ t # dummy
  BY <1>1, ThreadAssumption DEF T, Context
<1>3. preempt_level[t] - 1 \in Nat /\ preempt_level[t] \in Int
  <2>1. preempt_level[t] > 0
    BY <1>1, <1>2, SMTT(30) DEF Frame, LabelLevel, Types, TypeOK, SectionExit, At
  <2> QED BY <1>1, <1>2, <2>1, SMTT(30) DEF Types, TypeOK
<1>4. Types'
  BY <1>1, <1>2, <1>3, ThreadAssumption, SMTT(30) DEF Types, TypeOK, PC, Frame, SectionExit, At,
     Goto, PreemptEnableNoYield, runqVars
<1>5. UNCHANGED <<runqVars, state, yield, joiner>>
  BY DEF SectionExit
<1>6. \A v \in Context \ {t} : Same(v)
  BY <1>1 DEF Same, Types, TypeOK, SectionExit, At, Goto, PreemptEnableNoYield, runqVars
<1>7. Frame(t)' /\ IntrOK'
  BY <1>1, <1>2, <1>3, SMTT(30) DEF Frame, Types, TypeOK, LabelLevel, SwitchedOut, PC, IntrOK,
     IdleOK, SectionExit, At, Goto, PreemptEnableNoYield, runqVars
<1>8. /\ t = idle => IdleOK'
      /\ t \in Thread => Call(t)'
      /\ pc[t] # "c_save" /\ pc'[t] \notin {"c_save", "dead", "start"}
      /\ ret[t] = "destroy" => ret'[t] = "destroy" /\ arg'[t] = arg[t]
      /\ ret'[t] = "destroy" /\ ret[t] # "destroy" =>
           \A v \in Thread \ {t} : ret[v] = "destroy" => arg[v] # arg'[t]
  BY <1>1, <1>2, ThreadAssumption DEF IdleOK, Call, Types, TypeOK, Frame, PC, SectionExit,
     At, Goto, PreemptEnableNoYield, runqVars
<1> QED BY <1>1, <1>4, <1>5, <1>6, <1>7, <1>8, QuietStep

\* cpu_intr_save in a section.
LEMMA IntrSaveInv ==
  ASSUME IInv, NEW t \in Thread, IntrSave(t)
  PROVE  IInv'
<1>1. /\ t \in T /\ current = t /\ Types /\ Frame(t) /\ IntrOK
      /\ (t = idle => IdleOK) /\ (t \in Thread => Call(t))
  BY DEF IInv, Control, T, IntrSave, At
<1>2. t \in Context /\ t # dummy
  BY <1>1, ThreadAssumption DEF T, Context
<1>3. Types'
  BY <1>1, <1>2, ThreadAssumption DEF Types, TypeOK, PC, Frame, IntrSave, At, runqVars,
     frameVars
<1>4. UNCHANGED <<runqVars, state, yield, joiner>>
  BY DEF IntrSave
<1>5. \A v \in Context \ {t} : Same(v)
  BY <1>1 DEF Same, Types, TypeOK, IntrSave, At, runqVars, frameVars
<1>6. Frame(t)' /\ IntrOK'
  BY <1>1, <1>2, SMTT(30) DEF Frame, Types, TypeOK, LabelLevel, SwitchedOut, PC, IntrOK, IdleOK,
     IntrSave, At, runqVars, frameVars
<1>7. /\ t = idle => IdleOK'
      /\ t \in Thread => Call(t)'
      /\ pc[t] # "c_save" /\ pc'[t] \notin {"c_save", "dead", "start"}
      /\ ret[t] = "destroy" => ret'[t] = "destroy" /\ arg'[t] = arg[t]
      /\ ret'[t] = "destroy" /\ ret[t] # "destroy" =>
           \A v \in Thread \ {t} : ret[v] = "destroy" => arg[v] # arg'[t]
  BY <1>1, <1>2, ThreadAssumption DEF IdleOK, Call, Types, TypeOK, Frame, PC, IntrSave,
     At, runqVars, frameVars
<1> QED BY <1>1, <1>3, <1>4, <1>5, <1>6, <1>7, QuietStep

\* cpu_intr_restore in a section.
LEMMA IntrRestoreInv ==
  ASSUME IInv, NEW t \in Thread, IntrRestore(t)
  PROVE  IInv'
<1>1. /\ t \in T /\ current = t /\ Types /\ Frame(t) /\ IntrOK
      /\ (t = idle => IdleOK) /\ (t \in Thread => Call(t))
  BY DEF IInv, Control, T, IntrRestore, At
<1>2. t \in Context /\ t # dummy
  BY <1>1, ThreadAssumption DEF T, Context
<1>3. Types'
  BY <1>1, <1>2, ThreadAssumption DEF Types, TypeOK, PC, Frame, IntrRestore, At, runqVars,
     frameVars
<1>4. UNCHANGED <<runqVars, state, yield, joiner>>
  BY DEF IntrRestore
<1>5. \A v \in Context \ {t} : Same(v)
  BY <1>1 DEF Same, Types, TypeOK, IntrRestore, At, runqVars, frameVars
<1>6. Frame(t)' /\ IntrOK'
  BY <1>1, <1>2 DEF Frame, Types, TypeOK, LabelLevel, SwitchedOut, PC, IntrOK, IdleOK,
     IntrRestore, At, runqVars, frameVars
<1>7. /\ t = idle => IdleOK'
      /\ t \in Thread => Call(t)'
      /\ pc[t] # "c_save" /\ pc'[t] \notin {"c_save", "dead", "start"}
      /\ ret[t] = "destroy" => ret'[t] = "destroy" /\ arg'[t] = arg[t]
      /\ ret'[t] = "destroy" /\ ret[t] # "destroy" =>
           \A v \in Thread \ {t} : ret[v] = "destroy" => arg[v] # arg'[t]
  BY <1>1, <1>2, ThreadAssumption, SMTT(30) DEF IdleOK, Call, Types, TypeOK, Frame, PC, IntrRestore,
     At, runqVars, frameVars
<1> QED BY <1>1, <1>3, <1>4, <1>5, <1>6, <1>7, QuietStep

\* thread_exit disables preemption.
LEMMA ExitCallInv ==
  ASSUME IInv, NEW t \in Thread, ExitCall(t)
  PROVE  IInv'
<1>1. /\ t \in T /\ current = t /\ Types /\ Frame(t) /\ IntrOK
      /\ (t = idle => IdleOK) /\ (t \in Thread => Call(t))
  BY DEF IInv, Control, T, ExitCall, At
<1>2. t \in Context /\ t # dummy
  BY <1>1, ThreadAssumption DEF T, Context
<1>3. Types'
  BY <1>1, <1>2, ThreadAssumption, SMTT(30) DEF Types, TypeOK, PC, Frame, ExitCall, At, Goto,
     PreemptDisable, runqVars, frameVars
<1>4. UNCHANGED <<runqVars, state, yield, joiner>>
  BY DEF ExitCall
<1>5. \A v \in Context \ {t} : Same(v)
  BY <1>1 DEF Same, Types, TypeOK, ExitCall, At, Goto, PreemptDisable, runqVars, frameVars
<1>6. Frame(t)' /\ IntrOK'
  BY <1>1, <1>2, SMTT(30) DEF Frame, Types, TypeOK, LabelLevel, SwitchedOut, PC, IntrOK, IdleOK,
     ExitCall, At, Goto, PreemptDisable, runqVars, frameVars
<1>7. /\ t = idle => IdleOK'
      /\ t \in Thread => Call(t)'
      /\ pc[t] # "c_save" /\ pc'[t] \notin {"c_save", "dead", "start"}
      /\ ret[t] = "destroy" => ret'[t] = "destroy" /\ arg'[t] = arg[t]
      /\ ret'[t] = "destroy" /\ ret[t] # "destroy" =>
           \A v \in Thread \ {t} : ret[v] = "destroy" => arg[v] # arg'[t]
  BY <1>1, <1>2, ThreadAssumption DEF IdleOK, Call, Types, TypeOK, Frame, PC, ExitCall,
     At, Goto, PreemptDisable, runqVars, frameVars
<1> QED BY <1>1, <1>3, <1>4, <1>5, <1>6, <1>7, QuietStep

\* A thread calls thread_wakeup.
LEMMA WakeupCallInv ==
  ASSUME IInv, NEW t \in Thread, NEW u \in Thread, WakeupCall(t, u)
  PROVE  IInv'
<1>1. /\ t \in T /\ current = t /\ Types /\ Frame(t) /\ IntrOK
      /\ (t = idle => IdleOK) /\ (t \in Thread => Call(t))
  BY DEF IInv, Control, T, WakeupCall, At
<1>2. t \in Context /\ t # dummy
  BY <1>1, ThreadAssumption DEF T, Context
<1>3. Types'
  BY <1>1, <1>2, ThreadAssumption, SMTT(30) DEF Types, TypeOK, PC, Frame, WakeupCall, At, Goto,
     PreemptDisable, runqVars
<1>4. UNCHANGED <<runqVars, state, yield, joiner>>
  BY DEF WakeupCall
<1>5. \A v \in Context \ {t} : Same(v)
  BY <1>1 DEF Same, Types, TypeOK, WakeupCall, At, Goto, PreemptDisable, runqVars
<1>6. Frame(t)' /\ IntrOK'
  BY <1>1, <1>2, SMTT(30) DEF Frame, Types, TypeOK, LabelLevel, SwitchedOut, PC, IntrOK, IdleOK,
     WakeupCall, At, Goto, PreemptDisable, runqVars
<1>7. /\ t = idle => IdleOK'
      /\ t \in Thread => Call(t)'
      /\ pc[t] # "c_save" /\ pc'[t] \notin {"c_save", "dead", "start"}
      /\ ret[t] = "destroy" => ret'[t] = "destroy" /\ arg'[t] = arg[t]
      /\ ret'[t] = "destroy" /\ ret[t] # "destroy" =>
           \A v \in Thread \ {t} : ret[v] = "destroy" => arg[v] # arg'[t]
  BY <1>1, <1>2, ThreadAssumption, SMTT(30) DEF IdleOK, Call, Types, TypeOK, Frame, PC, WakeupCall,
     At, Goto, PreemptDisable, runqVars
<1> QED BY <1>1, <1>3, <1>4, <1>5, <1>6, <1>7, QuietStep

\* A thread calls thread_join on a thread that nobody else joins.
LEMMA JoinCallInv ==
  ASSUME IInv, NEW t \in Thread, NEW u \in Thread, JoinCall(t, u)
  PROVE  IInv'
<1>1. /\ t \in T /\ current = t /\ Types /\ Frame(t) /\ IntrOK
      /\ (t = idle => IdleOK) /\ (t \in Thread => Call(t))
  BY DEF IInv, Control, T, JoinCall, At
<1>2. t \in Context /\ t # dummy
  BY <1>1, ThreadAssumption DEF T, Context
<1>3. Types'
  BY <1>1, <1>2, ThreadAssumption, SMTT(30) DEF Types, TypeOK, PC, Frame, JoinCall, At, Goto,
     PreemptDisable, runqVars
<1>4. UNCHANGED <<runqVars, state, yield, joiner>>
  BY DEF JoinCall
<1>5. \A v \in Context \ {t} : Same(v)
  BY <1>1 DEF Same, Types, TypeOK, JoinCall, At, Goto, PreemptDisable, runqVars
<1>6. Frame(t)' /\ IntrOK'
  BY <1>1, <1>2, SMTT(30) DEF Frame, Types, TypeOK, LabelLevel, SwitchedOut, PC, IntrOK, IdleOK,
     JoinCall, At, Goto, PreemptDisable, runqVars
<1>7. /\ t = idle => IdleOK'
      /\ t \in Thread => Call(t)'
      /\ pc[t] # "c_save" /\ pc'[t] \notin {"c_save", "dead", "start"}
      /\ ret[t] = "destroy" => ret'[t] = "destroy" /\ arg'[t] = arg[t]
      /\ ret'[t] = "destroy" /\ ret[t] # "destroy" =>
           \A v \in Thread \ {t} : ret[v] = "destroy" => arg[v] # arg'[t]
  BY <1>1, <1>2, ThreadAssumption, SMTT(30) DEF IdleOK, Call, Types, TypeOK, Frame, PC, JoinCall,
     At, Goto, PreemptDisable, runqVars
<1> QED BY <1>1, <1>3, <1>4, <1>5, <1>6, <1>7, QuietStep

-----------------------------------------------------------------------------
(* Steps that switch.                                                      *)

\* thread_yield: the current thread goes to the tail of its list.
LEMMA YieldScheduleInv ==
  ASSUME IInv, NEW t \in T, YieldSchedule(t)
  PROVE  IInv'
<1>1. /\ current = t /\ Types /\ Frame(t) /\ IntrOK /\ (t = idle => IdleOK)
      /\ (t \in Thread => Call(t) /\ Alive(t) /\ state[t] = "RUNNING")
  BY ThreadAssumption DEF IInv, Control, Queues, Runnable, T, YieldSchedule, At
<1>2. t \in Context /\ t # dummy
  BY <1>1, ThreadAssumption DEF T, Context
<1>3. Picked(Runnable)
  <2>1. /\ Holds(lists, Ready) /\ nr_threads = Cardinality(Runnable)
        /\ Schedule(TRUE, lists, nr_threads)
    BY DEF IInv, Queues, YieldSchedule
  <2> QED BY <1>1, <2>1, ReadyAndCurrent, ScheduleRunning
<1>4. Types'
  <2>1. current' \in Context /\ nr_threads' \in Nat /\ lists' \in [Priorities -> Seq(Thread)]
    BY <1>3, PickedTypes DEF Runnable
  <2> QED BY <1>1, <1>2, <2>1 DEF Types, TypeOK, PC, YieldSchedule, Goto
<1>5. \A v \in Context \ {t} : Same(v)
  BY <1>1 DEF Same, Types, TypeOK, YieldSchedule, Goto
<1>6. state' = state /\ joiner' = joiner /\ ret' = ret /\ arg' = arg
  BY DEF YieldSchedule
<1>7. /\ pc[t] = "y_save" /\ pc'[t] = "y_switched" /\ ~intr'
      /\ Frame(t)' /\ (t = idle => IdleOK')
      /\ (t \in Thread => Alive(t)' /\ Call(t)')
  BY <1>1, <1>2, ThreadAssumption, SMTT(30)
     DEF Frame, IntrOK, IdleOK, Alive, Call, Types, TypeOK, LabelLevel, SwitchedOut,
         YieldSchedule, At, Goto
<1>8. Runnable' = Runnable
  BY <1>5, <1>6, <1>7, RunnableAfter DEF Runnable
<1>9. state[t] = "RUNNING"
  BY <1>1 DEF T, IdleOK
<1>10. Runnable \in SUBSET Thread /\ pc'[t] \in SwitchedOut \cup {"dead"}
  BY <1>7 DEF Runnable, SwitchedOut
<1> QED BY <1>1, <1>3, <1>4, <1>5, <1>6, <1>7, <1>8, <1>9, <1>10, SwitchStep

\* thread_sleep: the current thread leaves the run queue.
LEMMA SleepInv ==
  ASSUME IInv, NEW t \in Thread, Sleep(t)
  PROVE  IInv'
<1>1. /\ t \in T /\ current = t /\ Types /\ Frame(t) /\ IntrOK /\ t # idle
      /\ Call(t) /\ Alive(t) /\ state[t] = "RUNNING"
  BY ThreadAssumption DEF IInv, Control, Queues, Runnable, T, Sleep, At
<1>2. t \in Context /\ t # dummy
  BY ThreadAssumption DEF Context
<1>3. Ready \in SUBSET Thread /\ t \notin Ready /\ Runnable = Ready \cup {t}
  BY <1>1, ReadyAndCurrent
<1>4. Picked(Ready)
  <2>1. /\ Holds(lists, Ready) /\ nr_threads = Cardinality(Runnable)
        /\ Schedule(FALSE, lists, nr_threads)
    BY DEF IInv, Queues, Sleep
  <2>2. nr_threads = Cardinality(Ready) + 1
    BY <1>3, <2>1, OneLess
  <2> QED BY <1>3, <2>1, <2>2, ScheduleStopped
<1>5. Types'
  <2>1. current' \in Context /\ nr_threads' \in Nat /\ lists' \in [Priorities -> Seq(Thread)]
    BY <1>3, <1>4, PickedTypes
  <2> QED BY <1>1, <1>2, <2>1 DEF Types, TypeOK, PC, Sleep, Goto
<1>6. \A v \in Context \ {t} : Same(v) /\ state'[v] = state[v]
  BY <1>1 DEF Same, Types, TypeOK, Sleep, Goto
<1>7. state'[t] = "SLEEPING" /\ joiner' = joiner /\ ret' = ret /\ arg' = arg
  BY <1>1, <1>2 DEF Sleep, Types, TypeOK
<1>8. /\ pc[t] = "run" /\ pc'[t] = "s_switched" /\ ~intr'
      /\ Frame(t)' /\ Alive(t)' /\ Call(t)'
  BY <1>1, <1>2, SMTT(30) DEF Frame, IntrOK, Alive, Call, Types, TypeOK, LabelLevel, SwitchedOut,
     Sleep, At, Goto
<1>9. Runnable' = Ready
  <2>1. Runnable' = {v \in Thread : state'[v] = "RUNNING" /\ ~BeingCreated(v)}
    BY <1>1, <1>6, <1>8, RunnableAfter
  <2>2. \A v \in Thread \ {t} : state'[v] = state[v]
    BY <1>6 DEF Context
  <2> QED BY <1>1, <1>7, <2>1, <2>2 DEF Ready, Runnable
<1> QED BY <1>1, <1>3, <1>4, <1>5, <1>6, <1>7, <1>8, <1>9, SwitchStep DEF SwitchedOut

\* One turn of the loop of thread_join.
LEMMA JoinLoopInv ==
  ASSUME IInv, NEW t \in T, NEW saved \in BOOLEAN, saved,
         current = t, ~irq[t], pc[t] \in {"j_save", "j_switched"},
         joiner' = [joiner EXCEPT ![arg[t]] = t], JoinLoop(t, saved),
         UNCHANGED <<yield, preempt_level, ret, arg, section, irq>>
  PROVE  IInv'
<1>1. t \in Thread
  BY DEF IInv, Control, IdleOK, T
<1>2. /\ Types /\ Control /\ Queues /\ Frame(t) /\ IntrOK /\ t # idle
      /\ Call(t) /\ Alive(t) /\ state[t] = "RUNNING"
  BY <1>1, ThreadAssumption DEF IInv, Control, Queues, Runnable, T
<1>3. /\ t \in Context /\ t # dummy /\ ret[t] = "destroy" /\ section[t] = 0
      /\ arg[t] \in Thread \ {t} /\ arg[t] \in Context /\ state[arg[t]] # "FREE"
  BY <1>1, <1>2, ThreadAssumption DEF Context, Frame, Call
<1>4. /\ joiner' \in [Context -> Thread \cup {NULL}] /\ joiner'[arg[t]] = t
      /\ \A u \in Thread : joiner'[u] = joiner[u] \/ (arg[t] = u /\ joiner'[u] = t)
  <2>1. joiner \in [Context -> Thread \cup {NULL}]
    BY <1>2 DEF Types, TypeOK
  <2> QED BY <1>1, <1>3, <2>1 DEF Context
<1>5. CASE state[arg[t]] = "DEAD"
  <2>1. /\ intr' = TRUE /\ UNCHANGED <<runqVars, state>>
        /\ pc' = [pc EXCEPT ![t] = "u_enable"] /\ eflags' = [eflags EXCEPT ![t] = FALSE]
    BY <1>5 DEF JoinLoop, Goto
  <2>2. Types'
    BY <1>2, <1>3, <1>4, <2>1 DEF Types, TypeOK, PC, runqVars
  <2>3. \A v \in Context \ {t} : Same(v)
    BY <1>2, <2>1 DEF Same, Types, TypeOK
  <2>4. pc'[t] = "u_enable" /\ Frame(t)' /\ IntrOK' /\ Alive(t)' /\ Call(t)'
    BY <1>2, <1>3, <1>5, <2>1 DEF Frame, IntrOK, Alive, Call, Types, TypeOK, LabelLevel,
       SwitchedOut, runqVars
  <2>5. Control'
    BY <1>2, <1>3, <1>4, <2>1, <2>2, <2>3, <2>4, StepControl
  <2>6. Queues'
    <3>1. \A v \in Thread : v # t => pc'[v] = pc[v] /\ arg'[v] = arg[v]
      BY <2>3 DEF Same, Context
    <3> QED BY <1>2, <2>1, <2>4, <3>1, QuietQueues
  <2> QED BY <2>2, <2>5, <2>6 DEF IInv
<1>6. CASE state[arg[t]] # "DEAD"
  <2>1. /\ intr' = FALSE /\ state' = [state EXCEPT ![t] = "SLEEPING"]
        /\ pc' = [pc EXCEPT ![t] = "j_switched"] /\ eflags' = [eflags EXCEPT ![t] = saved]
        /\ Schedule(FALSE, lists, nr_threads)
    BY <1>6 DEF JoinLoop, Goto
  <2>2. Ready \in SUBSET Thread /\ t \notin Ready /\ Runnable = Ready \cup {t}
    BY <1>1, ReadyAndCurrent
  <2>3. Picked(Ready)
    <3>1. nr_threads = Cardinality(Ready) + 1 /\ Holds(lists, Ready)
      BY <1>1, <1>2, <2>2, OneLess DEF Queues
    <3> QED BY <2>1, <2>2, <3>1, ScheduleStopped
  <2>4. Types'
    <3>1. current' \in Context /\ nr_threads' \in Nat /\ lists' \in [Priorities -> Seq(Thread)]
      BY <2>2, <2>3, PickedTypes
    <3> QED BY <1>2, <1>3, <1>4, <2>1, <3>1 DEF Types, TypeOK, PC
  <2>5. \A v \in Context \ {t} : Same(v) /\ state'[v] = state[v]
    BY <1>2, <2>1 DEF Same, Types, TypeOK
  <2>6. /\ pc'[t] = "j_switched" /\ ~intr' /\ state'[t] = "SLEEPING"
        /\ Frame(t)' /\ Alive(t)' /\ Call(t)'
    BY <1>2, <1>3, <1>4, <1>6, <2>1 DEF Frame, Alive, Call, Types, TypeOK, LabelLevel,
       SwitchedOut
  <2>7. Runnable' = Ready
    <3>1. Runnable' = {v \in Thread : state'[v] = "RUNNING" /\ ~BeingCreated(v)}
      BY <2>5, <2>6, RunnableAfter
    <3>2. \A v \in Thread \ {t} : state'[v] = state[v]
      BY <2>5 DEF Context
    <3> QED BY <2>6, <3>1, <3>2 DEF Ready, Runnable
  <2>8. /\ ret'[t] = ret[t] /\ arg'[t] = arg[t] /\ t # idle /\ Ready \in SUBSET Thread
        /\ \A u \in Thread : \/ joiner'[u] = joiner[u]
                             \/ ret[t] = "destroy" /\ arg[t] = u /\ joiner'[u] = t
    BY <1>2, <1>3, <1>4, <2>2
  <2>9. state'[t] # "FREE" /\ state'[t] # "DEAD" /\ pc'[t] \in SwitchedOut \cup {"dead"}
    BY <2>6 DEF SwitchedOut
  <2> QED BY <1>2, <2>3, <2>4, <2>5, <2>6, <2>7, <2>8, <2>9, SwitchStep
<1> QED BY <1>5, <1>6

\* thread_join records the joiner and tests whether the thread is dead.
LEMMA JoinInv ==
  ASSUME IInv, NEW t \in T, Join(t)
  PROVE  IInv'
<1>1. /\ current = t /\ Frame(t) /\ IntrOK /\ t # dummy /\ pc[t] = "j_save" /\ ~irq[t]
  BY ThreadAssumption DEF IInv, Control, T, Join, At
<1>2. intr /\ intr \in BOOLEAN
  BY <1>1 DEF Frame, IntrOK, SwitchedOut, IInv, Types, TypeOK
<1> QED BY <1>1, <1>2, JoinLoopInv DEF Join

\* thread_join tests again after a wake-up.
LEMMA JoinWokenInv ==
  ASSUME IInv, NEW t \in T, JoinWoken(t)
  PROVE  IInv'
<1>1. current = t /\ Frame(t) /\ pc[t] = "j_switched" /\ ~irq[t] /\ t \in Thread
  BY DEF IInv, Control, IdleOK, T, JoinWoken, At
<1>2. eflags[t] /\ eflags[t] \in BOOLEAN
  BY <1>1 DEF Frame, IInv, Types, TypeOK, Context
<1>3. Call(t) /\ joiner \in [Context -> Thread \cup {NULL}]
  BY <1>1 DEF IInv, Control, Types, TypeOK
<1>4. joiner' = [joiner EXCEPT ![arg[t]] = t]
  BY <1>1, <1>3 DEF JoinWoken, Call, Frame, Context
<1> QED BY <1>1, <1>2, <1>4, JoinLoopInv DEF JoinWoken

\* thread_exit: the joiner, if it is known, sleeps or is awake already.
LEMMA ExitInv ==
  ASSUME IInv, NEW t \in T, Exit(t)
  PROVE  IInv'
<1> DEFINE dead == [state EXCEPT ![t] = "DEAD"]
           j    == joiner[t]
           W    == Woken(dead, j)
           R    == Ready \cup W
<1>1. t \in Thread /\ current = t /\ pc[t] = "x_save" /\ ~irq[t]
  BY DEF IInv, Control, IdleOK, T, Exit, At
<1>2. /\ Types /\ Control /\ Queues /\ Frame(t) /\ t # idle
      /\ Call(t) /\ Alive(t) /\ JoinerOK(t) /\ state[t] = "RUNNING"
  BY <1>1, ThreadAssumption DEF IInv, Control, Queues, Runnable, T
<1>3. t \in Context /\ t # dummy /\ ret[t] = "run" /\ section[t] = 0
  BY <1>1, <1>2, ThreadAssumption, SMTT(30) DEF Context, Frame, Types, TypeOK
<1>4. ASSUME j # NULL
      PROVE  j \in Thread \ {t} /\ state[j] \in {"RUNNING", "SLEEPING"}
  <2>1. j \in Thread /\ ret[j] = "destroy" /\ arg[j] = t
    BY <1>2, <1>3, <1>4 DEF JoinerOK, Types, TypeOK
  <2>2. Frame(j) /\ Call(j) /\ Alive(j) /\ state[j] \in {"FREE", "RUNNING", "SLEEPING", "DEAD"}
    BY <1>2, <2>1 DEF Control, T, Types, TypeOK, Context
  <2>3. j # t /\ pc[j] \in {"j_save", "j_switched"}
    BY <1>2, <2>1, <2>2 DEF Call
  <2> QED BY <2>1, <2>2, <2>3 DEF Alive
<1>5. Wakes(dead, j) => j \in Thread \ {t} /\ state[j] = "SLEEPING"
  BY <1>1, <1>2, <1>3, <1>4 DEF Wakes, Types, TypeOK, Context
<1>6. /\ W \in SUBSET Thread /\ W \cap Runnable = {} /\ t \notin W
      /\ Holds(WokenLists(dead, j), R)
      /\ WokenCount(dead, j) = Cardinality(Runnable \cup W)
  BY <1>1, <1>2, <1>5, WokenHolds
<1>7. Ready \in SUBSET Thread /\ t \notin Ready /\ Runnable = Ready \cup {t}
  BY <1>1, ReadyAndCurrent DEF T
<1>8. Picked(R)
  <2>1. R \in SUBSET Thread /\ t \notin R /\ Runnable \cup W = R \cup {t}
    BY <1>6, <1>7
  <2>2. WokenCount(dead, j) = Cardinality(R) + 1
    BY <1>1, <1>6, <2>1, OneLess
  <2>3. Schedule(FALSE, WokenLists(dead, j), WokenCount(dead, j))
    BY DEF Exit
  <2> HIDE DEF R
  <2> QED BY <1>6, <2>1, <2>2, <2>3, ScheduleStopped
<1>9. /\ state' \in [Context -> {"FREE", "RUNNING", "SLEEPING", "DEAD"}]
      /\ state'[t] = "DEAD"
      /\ \A v \in Context \ {t} : state'[v] = IF v \in W THEN "RUNNING" ELSE state[v]
      /\ \A v \in W : v = j /\ state[v] = "SLEEPING"
  <2>1. state' = IF Wakes(dead, j) THEN [dead EXCEPT ![j] = "RUNNING"] ELSE dead
    BY DEF Exit, WokenState
  <2>2. CASE Wakes(dead, j)
    <3>1. W = {j} /\ j \in Context \ {t} /\ state[j] = "SLEEPING"
      BY <1>5, <2>2 DEF Woken, Context
    <3> QED BY <1>2, <1>3, <2>1, <2>2, <3>1 DEF Types, TypeOK
  <2>3. CASE ~Wakes(dead, j)
    <3>1. W = {}
      BY <2>3 DEF Woken
    <3> QED BY <1>2, <1>3, <2>1, <2>3, <3>1 DEF Types, TypeOK
  <2> QED BY <2>2, <2>3
<1>10. /\ intr' = FALSE /\ pc' = [pc EXCEPT ![t] = "dead"] /\ joiner' = joiner
       /\ UNCHANGED <<preempt_level, frameVars>>
  BY DEF Exit, Goto
<1>11. Types'
  <2>1. yield' \in [Context -> BOOLEAN]
    <3>1. yield' = WokenYield(dead, yield, j)
      BY DEF Exit
    <3> QED BY <1>2, <3>1 DEF Types, TypeOK, WokenYield, YieldAfterAdd
  <2>2. current' \in Context /\ nr_threads' \in Nat /\ lists' \in [Priorities -> Seq(Thread)]
    BY <1>6, <1>7, <1>8, PickedTypes
  <2> QED BY <1>2, <1>3, <1>9, <1>10, <2>1, <2>2 DEF Types, TypeOK, PC, frameVars
<1>12. \A v \in Context \ {t} : Same(v)
  BY <1>2, <1>10 DEF Same, Types, TypeOK, frameVars
<1>13. pc'[t] = "dead" /\ Frame(t)' /\ Alive(t)' /\ Call(t)' /\ ret' = ret /\ arg' = arg
  BY <1>1, <1>2, <1>3, <1>9, <1>10 DEF Frame, Alive, Call, Types, TypeOK, LabelLevel,
     SwitchedOut, frameVars
<1>14. Runnable' = R
  <2>1. Runnable' = {v \in Thread : state'[v] = "RUNNING" /\ ~BeingCreated(v)}
    BY <1>1, <1>12, <1>13, RunnableAfter
  <2>2. \A v \in W : ~BeingCreated(v)
    BY <1>9, CreatedIsRunning
  <2>3. \A v \in Thread \ {t} : state'[v] = IF v \in W THEN "RUNNING" ELSE state[v]
    BY <1>9 DEF Context
  <2> HIDE DEF W
  <2> QED BY <1>1, <1>6, <1>9, <2>1, <2>2, <2>3 DEF Ready, Runnable
<1>15. \A v \in Thread \ {t} : j = v => state'[v] # "SLEEPING"
  <2> SUFFICES ASSUME j \in Thread \ {t}, j \notin W PROVE state[j] # "SLEEPING"
    BY <1>9 DEF Context
  <2>1. ~Wakes(dead, j)
    BY DEF Woken
  <2>2. dead[j] = "RUNNING" /\ dead[j] = state[j]
    BY <1>1, <1>2, <1>3, <2>1, ThreadAssumption DEF Wakes, Types, TypeOK, Context
  <2> QED BY <2>2
<1>16. R \in SUBSET Thread
  BY <1>6, <1>7
<1> HIDE DEF R, W, j, dead
<1>17. \A v \in Context \ {t} : \/ state'[v] = state[v]
                                \/ v \in Thread /\ state[v] = "SLEEPING" /\ state'[v] = "RUNNING"
  BY <1>6, <1>9
<1>18. /\ ret'[t] = ret[t] /\ arg'[t] = arg[t] /\ \A u \in Thread : joiner'[u] = joiner[u]
       /\ state'[t] # "FREE" /\ ~intr' /\ pc'[t] \in SwitchedOut \cup {"dead"}
  BY <1>9, <1>10, <1>13
<1>19. \A v \in Thread \ {t} : joiner[t] = v => state'[v] # "SLEEPING"
  BY <1>15 DEF j
<1> QED BY <1>1, <1>2, <1>8, <1>11, <1>12, <1>13, <1>14, <1>16, <1>17, <1>18, <1>19, SwitchStep

-----------------------------------------------------------------------------
(* Wake-ups and interrupts.                                                *)

\* thread_wakeup with interrupts off.
LEMMA WakeupInv ==
  ASSUME IInv, NEW t \in T, Wakeup(t)
  PROVE  IInv'
<1>1. t \in Thread /\ current = t /\ pc[t] = "w_save" /\ ~irq[t]
  BY DEF IInv, Control, IdleOK, T, Wakeup, At
<1>2. /\ Types /\ Frame(t) /\ IntrOK /\ t # idle /\ Call(t) /\ Alive(t)
      /\ state[t] = "RUNNING"
  BY <1>1, ThreadAssumption DEF IInv, Control, Queues, Runnable, T
<1>3. t \in Context /\ t # dummy /\ ret[t] = "run"
  BY <1>1, <1>2, ThreadAssumption DEF Context, Frame, Types, TypeOK
<1>4. /\ arg[t] \in Thread \ {t} /\ state[arg[t]] \in {"RUNNING", "SLEEPING"}
      /\ yield \in [Context -> BOOLEAN]
  BY <1>1, <1>2 DEF Call, Types, TypeOK
<1>5. /\ state' \in [Context -> {"FREE", "RUNNING", "SLEEPING", "DEAD"}]
      /\ yield' \in [Context -> BOOLEAN] /\ state'[t] = "RUNNING"
      /\ \A v \in Context : \/ state'[v] = state[v]
                            \/ v \in Thread /\ state[v] = "SLEEPING" /\ state'[v] = "RUNNING"
  <2>1. state' = WokenState(state, arg[t]) /\ yield' = WokenYield(state, yield, arg[t])
    BY DEF Wakeup
  <2> QED BY <1>1, <1>2, <1>3, <1>4, <2>1, WokenTypes, SMTT(30) DEF Woken
<1>6. \A v \in Context \ {t} : Same(v)
  BY <1>2 DEF Same, Types, TypeOK, Wakeup, Goto
<1>7. Queues'
  <2>1. \A v \in Thread : v # t => pc'[v] = pc[v] /\ arg'[v] = arg[v]
    BY <1>6 DEF Same, Context
  <2>2. pc'[t] = "u_enable"
    BY <1>2, <1>3 DEF Wakeup, Goto, Types, TypeOK
  <2>3. \A u : BeingCreated(u)' <=> BeingCreated(u)
    BY <1>1, <2>1, <2>2, SameBeingCreated
  <2> QED BY <1>4, <2>3, WokenQueues DEF Wakeup
<1>8. lists' \in [Priorities -> Seq(Thread)] /\ nr_threads' \in Nat
  <2>1. IsFiniteSet(Runnable')
    BY ThreadAssumption, FS_Subset DEF Runnable
  <2> QED BY <1>7, <2>1, FS_CardinalityType DEF Queues, Holds
<1>9. Types'
  BY <1>2, <1>3, <1>5, <1>8 DEF Types, TypeOK, PC, Wakeup, Goto
<1>10. Frame(t)' /\ IntrOK' /\ Alive(t)' /\ Call(t)'
  BY <1>1, <1>2, <1>3, <1>5 DEF Frame, IntrOK, Alive, Call, Types, TypeOK, LabelLevel,
     SwitchedOut,
     Wakeup, Goto
<1>11. ret' = ret /\ joiner' = joiner
  BY DEF Wakeup
<1>12. Control'
  BY <1>1, <1>2, <1>3, <1>5, <1>6, <1>9, <1>10, <1>11, StepControl, SMTT(30)
<1> QED BY <1>7, <1>9, <1>12 DEF IInv

\* An interrupt may wake a thread, and may preempt the current one.
LEMMA InterruptInv ==
  ASSUME IInv, NEW tick \in BOOLEAN, NEW w \in Thread \cup {NULL}, Interrupt(tick, w),
         NEW t, current = t
  PROVE  IInv'
<1> DEFINE ticked == IF tick THEN [yield EXCEPT ![t] = TRUE] ELSE yield
           yl     == WokenYield(state, ticked, w)
           W      == Woken(state, w)
           R      == Runnable \cup W
<1>1. t # dummy /\ Types /\ Control /\ Queues
  BY DEF IInv, Control, IntrOK, Interrupt
<1>2. t \in T /\ t \in Context /\ Frame(t) /\ IntrOK /\ IdleOK
  BY <1>1 DEF Types, Context, T, Control
<1>3. /\ ~irq[t] /\ pc[t] \notin SwitchedOut
      /\ state[t] = "RUNNING" /\ (t \in Thread => Alive(t) /\ Call(t))
  <2>1. ~irq[t] /\ pc[t] \notin SwitchedOut
    BY <1>1, <1>2 DEF IntrOK, Interrupt
  <2>2. state[t] = "RUNNING"
    BY <1>1, <1>2 DEF Queues, IdleOK, Runnable
  <2> QED BY <1>1, <2>1, <2>2 DEF Control
<1>4. /\ w # NULL => state[w] \in {"RUNNING", "SLEEPING"}
      /\ state' = WokenState(state, w)
      /\ UNCHANGED <<joiner, pc, ret, arg, eflags, section>>
  BY DEF Interrupt
<1>5. ticked \in [Context -> BOOLEAN] /\ (yield[t] => ticked[t])
  <2>1. yield \in [Context -> BOOLEAN]
    BY <1>1 DEF Types, TypeOK
  <2> QED BY <1>2, <2>1
<1>6. \A u : BeingCreated(u)' <=> BeingCreated(u)
  BY <1>4 DEF BeingCreated
<1>7. Runnable' = R
  BY <1>4, <1>6, WokenRunnable
<1> HIDE DEF ticked
<1>8. /\ state' \in [Context -> {"FREE", "RUNNING", "SLEEPING", "DEAD"}]
      /\ yl \in [Context -> BOOLEAN] /\ state'[t] = "RUNNING"
      /\ \A v \in Context : \/ state'[v] = state[v]
                            \/ v \in Thread /\ state[v] = "SLEEPING" /\ state'[v] = "RUNNING"
      /\ Wakes(state, w) => w \in Thread /\ state[w] = "SLEEPING"
  BY <1>1, <1>2, <1>3, <1>4, <1>5, WokenTypes, SMTT(30) DEF Woken
<1>9. t \in Thread => /\ Alive(t)'
                      /\ (current' = t => Call(t)')
                      /\ (pc[t] # "c_save" => Call(t)')
  BY <1>2, <1>3, <1>4, <1>8 DEF Alive, Call, Context
<1>10. t = idle => IdleOK'
  BY <1>2, <1>3, <1>4, <1>8, ThreadAssumption DEF IdleOK, Context
<1>11. CASE yl[t] /\ preempt_level[t] = 0
  <2>1. /\ preempt_level' = [preempt_level EXCEPT ![t] = @ + 1]
        /\ yield' = [yl EXCEPT ![t] = FALSE]
        /\ Schedule(TRUE, WokenLists(state, w), WokenCount(state, w))
        /\ irq' = [irq EXCEPT ![t] = TRUE] /\ intr' = FALSE
    BY <1>11 DEF Interrupt, PreemptDisable, ticked
  <2>2. Picked(R)
    <3>1. /\ W \in SUBSET Thread /\ W \cap Runnable = {} /\ t \notin W
          /\ Holds(WokenLists(state, w), Ready \cup W)
          /\ WokenCount(state, w) = Cardinality(R)
      BY <1>1, <1>8, WokenHolds
    <3>2. Ready \in SUBSET Thread /\ t \notin Ready /\ Ready \cup ({t} \cap Thread) = Runnable
      BY <1>2, ReadyAndCurrent
    <3>3. /\ Ready \cup W \in SUBSET Thread /\ t \notin Ready \cup W
          /\ R = (Ready \cup W) \cup ({t} \cap Thread)
      BY <3>1, <3>2
    <3> HIDE DEF W, R
    <3> QED BY <1>2, <2>1, <3>1, <3>3, ScheduleRunning
  <2>3. R \in SUBSET Thread
    BY <1>8 DEF Woken, Runnable
  <2> HIDE DEF R, yl
  <2>4. Types'
    <3>1. current' \in Context /\ nr_threads' \in Nat /\ lists' \in [Priorities -> Seq(Thread)]
      BY <2>2, <2>3, PickedTypes
    <3>2. yield' \in [Context -> BOOLEAN] /\ irq' \in [Context -> BOOLEAN] /\ intr' \in BOOLEAN
      <4>1. irq \in [Context -> BOOLEAN]
        BY <1>1 DEF Types, TypeOK
      <4> QED BY <1>8, <2>1, <4>1
    <3>3. preempt_level' \in [Context -> Nat]
      <4>1. preempt_level \in [Context -> Nat] /\ preempt_level[t] + 1 \in Nat
        BY <1>1, <1>2, SMTT(30) DEF Types, TypeOK
      <4> QED BY <2>1, <4>1
    <3> QED BY <1>1, <1>4, <1>8, <3>1, <3>2, <3>3 DEF Types, TypeOK
  <2>5. \A v \in Context \ {t} : Same(v)
    BY <1>1, <1>4, <2>1 DEF Same, Types, TypeOK
  <2>6. /\ section[t] = 0 /\ pc[t] \in {"run", "destroy", "u_check", "y_lock"}
    BY <1>1, <1>2, <1>3, <1>11, SMTT(30) DEF Frame, LabelLevel, Types, TypeOK, SwitchedOut
  <2>7. Frame(t)' /\ irq'[t] /\ ~intr'
    BY <1>1, <1>2, <1>3, <1>4, <2>1, <2>6, SMTT(30) DEF Frame, LabelLevel, Types, TypeOK, SwitchedOut
  <2> QED BY <1>2, <1>4, <1>7, <1>8, <1>9, <1>10, <2>2, <2>3, <2>4, <2>5, <2>6, <2>7,
     SwitchStep
<1>12. CASE ~(yl[t] /\ preempt_level[t] = 0)
  <2>1. /\ yield' = yl /\ lists' = WokenLists(state, w) /\ nr_threads' = WokenCount(state, w)
        /\ UNCHANGED <<current, preempt_level, irq, intr>>
    BY <1>12 DEF Interrupt, ticked
  <2>2. Queues'
    BY <1>4, <1>5, <1>6, <2>1, WokenQueues
  <2>3. lists' \in [Priorities -> Seq(Thread)] /\ nr_threads' \in Nat
    <3>1. IsFiniteSet(Runnable')
      BY ThreadAssumption, FS_Subset DEF Runnable
    <3> QED BY <2>2, <3>1, FS_CardinalityType DEF Queues, Holds
  <2> HIDE DEF yl
  <2>4. Types'
    BY <1>1, <1>4, <1>8, <2>1, <2>3 DEF Types, TypeOK
  <2>5. \A v \in Context : Same(v)
    BY <1>4, <2>1 DEF Same
  <2>6. Frame(t)' /\ IntrOK'
    BY <1>2, <1>4, <2>1 DEF Frame, IntrOK
  <2>7. Control'
    BY <1>2, <1>4, <1>8, <1>9, <1>10, <2>1, <2>4, <2>5, <2>6, StepControl
  <2> QED BY <2>2, <2>4, <2>7 DEF IInv
<1> QED BY <1>11, <1>12

\* A preempted thread leaves cpu_intr_main.
LEMMA InterruptReturnInv ==
  ASSUME IInv, InterruptReturn, NEW t, current = t
  PROVE  IInv'
<1>1. Types /\ Control /\ Queues
  BY DEF IInv
<1>2. irq[t] /\ t \in Context /\ UNCHANGED <<runqVars, state, yield, joiner, pc, ret, arg, eflags, section>>
  BY <1>1 DEF InterruptReturn, Types
<1>3. t \in T
  BY <1>1, <1>2 DEF Control, Context, T, IntrOK
<1>4. Frame(t) /\ IntrOK /\ (t = idle => IdleOK) /\ (t \in Thread => Call(t))
  BY <1>1, <1>3 DEF Control
<1>5. preempt_level[t] - 1 \in Nat /\ preempt_level[t] \in Int
  <2>1. preempt_level[t] > 0
    BY <1>1, <1>2, <1>4, SMTT(30) DEF Frame, LabelLevel, Types, TypeOK
  <2> QED BY <1>1, <1>2, <2>1, SMTT(30) DEF Types, TypeOK
<1>6. /\ preempt_level' = [preempt_level EXCEPT ![t] = @ - 1]
      /\ irq' = [irq EXCEPT ![t] = FALSE] /\ intr' = TRUE
  BY DEF InterruptReturn, PreemptEnableNoYield
<1>7. Types'
  BY <1>1, <1>2, <1>5, <1>6 DEF Types, TypeOK, runqVars
<1>8. \A v \in Context \ {t} : Same(v)
  BY <1>1, <1>2, <1>6 DEF Same, Types, TypeOK
<1>9. Frame(t)' /\ IntrOK' /\ (t = idle => IdleOK') /\ (t \in Thread => Call(t)')
  BY <1>1, <1>2, <1>4, <1>5, <1>6, SMTT(30) DEF Frame, IntrOK, IdleOK, Call, LabelLevel, SwitchedOut,
     Types, TypeOK, runqVars
<1>10. pc[t] \notin {"c_save", "dead", "start"}
  BY <1>2, <1>4 DEF Frame
<1> QED BY <1>2, <1>3, <1>7, <1>8, <1>9, <1>10, QuietStep

-----------------------------------------------------------------------------
(* Creation and destruction.                                               *)

\* thread_create gives a free thread its first state: the stacks, calls and
\* joiners of the others are not concerned.
LEMMA BootCreateInv ==
  ASSUME IInv, NEW u \in Thread, BootCreate(u)
  PROVE  IInv'
<1>1. /\ Types /\ Control /\ Queues /\ current = dummy /\ state[u] = "FREE"
      /\ u \in Context /\ u # dummy /\ u # idle /\ dummy \in Context
  BY ThreadAssumption DEF IInv, BootCreate, Context
<1>2. /\ pc[u] = "start" /\ ret[u] = "run" /\ section[u] = 0 /\ ~irq[u]
      /\ joiner[u] = NULL /\ \A v \in Thread : ret[v] = "destroy" => arg[v] # u
  BY <1>1, FreeThread
<1>3. /\ state' = [state EXCEPT ![u] = "RUNNING"] /\ joiner' = joiner
      /\ section' = section /\ irq' = irq
      /\ UNCHANGED <<current, preempt_level, intr, pc, ret, arg, eflags>>
  <2>1. /\ joiner' = [joiner EXCEPT ![u] = NULL]
        /\ section' = [section EXCEPT ![u] = 0] /\ irq' = [irq EXCEPT ![u] = FALSE]
        /\ state' = [state EXCEPT ![u] = "RUNNING"]
        /\ UNCHANGED <<current, preempt_level, intr, pc, ret, arg, eflags>>
    BY DEF BootCreate, ThreadInit
  <2>2. joiner' = joiner /\ section' = section
    BY <1>1, <1>2, <2>1 DEF Types, TypeOK
  <2>3. irq' = irq
    <3>1. irq \in [Context -> BOOLEAN]
      BY <1>1 DEF Types, TypeOK
    <3>2. irq[u] = FALSE
      BY <1>1, <1>2, <3>1
    <3> QED BY <1>1, <2>1, <3>1, <3>2
  <2> QED BY <2>1, <2>2, <2>3
<1>4. \A v \in Thread : pc[v] # "c_save"
  BY <1>1, OnlyCurrentCreates, ThreadAssumption
<1>5. Queues'
  <2>1. Runnable' = Runnable \cup {u} /\ u \notin Runnable
    BY <1>1, <1>3, <1>4, SMTT(30) DEF Runnable, BeingCreated, Types, TypeOK, Context
  <2>2. lists' = Enqueue(lists, u) /\ nr_threads' = nr_threads + 1
    BY DEF BootCreate
  <2>3. /\ yield[current] => yield'[current]
        /\ Priority[u] > PriorityOf(current) => yield'[current]
    BY <1>1 DEF BootCreate, YieldAfterAdd, PriorityOf, Types, TypeOK
  <2> QED BY <1>1, <1>3, <2>1, <2>2, <2>3, AddQueues
<1>6. Types'
  <2>1. lists' \in [Priorities -> Seq(Thread)] /\ nr_threads' \in Nat
    <3>1. IsFiniteSet(Runnable')
      BY ThreadAssumption, FS_Subset DEF Runnable
    <3> QED BY <1>5, <3>1, FS_CardinalityType DEF Queues, Holds
  <2>2. yield' \in [Context -> BOOLEAN]
    <3>1. yield \in [Context -> BOOLEAN] /\ current \in Context
      BY <1>1 DEF Types, TypeOK
    <3> QED BY <3>1 DEF BootCreate, YieldAfterAdd
  <2> QED BY <1>1, <1>3, <2>1, <2>2 DEF Types, TypeOK
<1>7. Control'
  <2>a. \A v \in T : Frame(v)'
    BY <1>1, <1>3 DEF Control, Frame
  <2>b. IntrOK'
    BY <1>1, <1>3 DEF Control, IntrOK
  <2>c. OneJoiner'
    BY <1>1, <1>3 DEF Control, OneJoiner
  <2>1. (\A v \in T : Frame(v)') /\ IntrOK' /\ OneJoiner'
    BY <2>a, <2>b, <2>c
  <2>2. IdleOK'
    BY <1>1, <1>3 DEF Control, IdleOK, Types, TypeOK, Context
  <2>3. ASSUME NEW v \in Thread
        PROVE  Alive(v)' /\ JoinerOK(v)' /\ Call(v)'
    <3>1. Alive(v) /\ JoinerOK(v) /\ Call(v) /\ v \in Context /\ pc[v] # "w_save"
      <4>1. Frame(v) /\ v # current
        BY <1>1, ThreadAssumption DEF Control, T
      <4> QED BY <1>1, <4>1 DEF Control, Context, Frame, SwitchedOut
    <3>2. Alive(v)' /\ JoinerOK(v)'
      BY <1>1, <1>2, <1>3, <3>1 DEF Alive, JoinerOK, Types, TypeOK
    <3>3. Call(v)'
      BY <1>1, <1>2, <1>3, <1>4, <3>1 DEF Call, Alive, Types, TypeOK, Context
    <3> QED BY <3>2, <3>3
  <2> QED BY <2>1, <2>2, <2>3 DEF Control
<1> QED BY <1>5, <1>6, <1>7 DEF IInv

\* thread_enable_scheduler leaves the boot context for good.
LEMMA EnableSchedulerInv ==
  ASSUME IInv, EnableScheduler
  PROVE  IInv'
<1>1. /\ Types /\ Control /\ Queues /\ current = dummy /\ GetNext(lists, nr_threads)
      /\ dummy \notin Thread /\ dummy # idle
      /\ UNCHANGED <<nr_threads, state, yield, preempt_level, joiner, intr, pc, frameVars>>
  BY ThreadAssumption DEF IInv, EnableScheduler
<1>2. Ready = Runnable /\ Runnable \in SUBSET Thread
  BY <1>1 DEF Ready, Runnable
<1>3. Picked(Runnable)
  <2>1. Holds(lists, Runnable) /\ nr_threads = Cardinality(Runnable)
    BY <1>1, <1>2 DEF Queues
  <2> QED BY <1>1, <1>2, <2>1, GetNextHolds DEF Picked
<1>4. Runnable' = Runnable
  BY <1>1 DEF Runnable, BeingCreated, frameVars
<1>5. Queues'
  BY <1>2, <1>3, <1>4, PickedQueues
<1>6. Types'
  <2>1. current' \in Context /\ nr_threads' \in Nat /\ lists' \in [Priorities -> Seq(Thread)]
    BY <1>2, <1>3, PickedTypes
  <2> QED BY <1>1, <2>1 DEF Types, TypeOK, frameVars
<1>7. \A v \in T : v # current /\ Frame(v)
  BY <1>1 DEF Control, T
<1>8. \A v \in T : Frame(v)'
  BY <1>1, <1>7 DEF Frame, frameVars
<1>9. IntrOK'
  <2>1. current' \in Runnable \cup {idle}
    BY <1>3 DEF Picked
  <2>2. current' # dummy /\ current' \in T
    BY <1>1, <2>1 DEF Runnable, T
  <2>3. pc[current'] # "dead"
    BY <1>1, <2>1 DEF Control, Alive, IdleOK, Runnable
  <2>4. irq[current'] \/ pc[current'] \in SwitchedOut
    BY <1>7, <2>2, <2>3 DEF Frame
  <2>5. ~intr
    BY <1>1 DEF Control, IntrOK
  <2> QED BY <1>1, <2>2, <2>4, <2>5 DEF IntrOK, frameVars
<1>10. IdleOK' /\ OneJoiner' /\ \A v \in Thread : Alive(v)' /\ Call(v)' /\ JoinerOK(v)'
  BY <1>1, SMTT(30) DEF Control, IdleOK, OneJoiner, Alive, Call, JoinerOK, frameVars
<1> QED BY <1>5, <1>6, <1>8, <1>9, <1>10, SMTT(30) DEF IInv, Control

\* thread_create: a free thread gets its first state, before it is runnable.
LEMMA CreateCallInv ==
  ASSUME IInv, NEW t \in Thread, NEW u \in Thread, CreateCall(t, u)
  PROVE  IInv'
<1>1. /\ Types /\ Control /\ Queues /\ current = t /\ pc[t] = "run" /\ ~irq[t]
      /\ section[t] = 0 /\ state[u] = "FREE"
      /\ t \in T /\ t \in Context /\ t # idle /\ t # dummy /\ Frame(t) /\ IntrOK
      /\ u \in Context /\ u # dummy /\ u # idle /\ u \in T
  BY ThreadAssumption DEF IInv, CreateCall, At, Context, Control, T
<1>2. /\ u # t /\ pc[u] = "start" /\ ret[u] = "run" /\ section[u] = 0 /\ ~irq[u]
      /\ preempt_level[u] = 1 /\ joiner[u] = NULL
      /\ \A v \in Thread : ret[v] = "destroy" => arg[v] # u
  BY <1>1, FreeThread
<1>3. ret[t] = "run" /\ preempt_level[t] = 0 /\ intr /\ state[t] = "RUNNING"
  BY <1>1, ThreadAssumption, SMTT(30) DEF Frame, LabelLevel, IntrOK, SwitchedOut, Types, TypeOK,
     Queues, Runnable
<1>4. /\ state' = [state EXCEPT ![u] = "RUNNING"] /\ joiner' = joiner
      /\ section' = section /\ irq' = irq
      /\ yield' = [yield EXCEPT ![u] = FALSE]
      /\ preempt_level' = [preempt_level EXCEPT ![t] = 1]
      /\ arg' = [arg EXCEPT ![t] = u] /\ ret' = ret /\ pc' = [pc EXCEPT ![t] = "c_save"]
      /\ UNCHANGED <<runqVars, intr, eflags>>
  <2>1. /\ joiner' = [joiner EXCEPT ![u] = NULL] /\ section' = [section EXCEPT ![u] = 0]
        /\ irq' = [irq EXCEPT ![u] = FALSE] /\ state' = [state EXCEPT ![u] = "RUNNING"]
        /\ yield' = [yield EXCEPT ![u] = FALSE]
        /\ preempt_level' = [preempt_level EXCEPT ![u] = 1, ![t] = @ + 1]
        /\ arg' = [arg EXCEPT ![t] = u] /\ ret' = [ret EXCEPT ![t] = "run"]
        /\ pc' = [pc EXCEPT ![u] = "start", ![t] = "c_save"]
        /\ UNCHANGED <<runqVars, intr, eflags>>
    BY DEF CreateCall, ThreadInit
  <2>2. joiner' = joiner /\ section' = section /\ ret' = ret
    BY <1>1, <1>2, <1>3, <2>1 DEF Types, TypeOK
  <2>3. preempt_level' = [preempt_level EXCEPT ![t] = 1]
    <3>1. preempt_level \in [Context -> Nat]
      BY <1>1 DEF Types, TypeOK
    <3>2. [preempt_level EXCEPT ![u] = 1] = preempt_level
      BY <1>1, <1>2, <3>1
    <3>3. preempt_level[t] + 1 = 1
      BY <1>3, SMTT(30)
    <3> QED BY <1>1, <1>2, <2>1, <3>1, <3>2, <3>3
  <2>4. pc' = [pc EXCEPT ![t] = "c_save"]
    BY <1>1, <1>2, <2>1 DEF Types, TypeOK
  <2>5. irq' = irq
    <3>1. irq \in [Context -> BOOLEAN]
      BY <1>1 DEF Types, TypeOK
    <3>2. irq[u] = FALSE
      BY <1>1, <1>2, <3>1
    <3> QED BY <1>1, <2>1, <3>1, <3>2
  <2> QED BY <2>1, <2>2, <2>3, <2>4, <2>5
<1>5. Types'
  <2>1. yield' \in [Context -> BOOLEAN]
    <3>1. yield \in [Context -> BOOLEAN]
      BY <1>1 DEF Types, TypeOK
    <3> QED BY <1>4, <3>1
  <2> QED BY <1>1, <1>4, <2>1 DEF Types, TypeOK, PC, runqVars
<1>6. /\ state'[u] = "RUNNING" /\ pc'[t] = "c_save" /\ arg'[t] = u /\ preempt_level'[t] = 1
      /\ \A v \in Context \ {u} : state'[v] = state[v]
      /\ \A v \in Context \ {t} : pc'[v] = pc[v] /\ arg'[v] = arg[v]
                                  /\ preempt_level'[v] = preempt_level[v]
      /\ UNCHANGED <<current, nr_threads, lists>>
  BY <1>1, <1>4 DEF Types, TypeOK, runqVars
<1>7. Queues'
  <2>1. \A v \in Thread : pc[v] # "c_save"
    BY <1>1, OnlyCurrentCreates
  <2>2. \A v : BeingCreated(v)' <=> v = u
    BY <2>1, <1>6 DEF BeingCreated, Context
  <2>3. Runnable' = Runnable
    BY <1>1, <1>6, <2>1, <2>2, SMTT(30) DEF Runnable, BeingCreated, Context
  <2>4. yield'[current] = yield[current]
    BY <1>1, <1>2, <1>4 DEF Types, TypeOK
  <2> QED BY <1>1, <1>4, <2>3, <2>4, RaiseQueues
<1>8. Control'
  <2>1. ASSUME NEW v \in T
        PROVE  Frame(v)'
    <3>1. Frame(v) /\ v \in Context
      BY <1>1 DEF Control, T, Context
    <3>2. CASE v = t
      BY <1>1, <1>3, <1>4, <1>6, <3>1, <3>2, SMTT(30) DEF Frame, LabelLevel, SwitchedOut
    <3>3. CASE v # t
      BY <1>1, <1>4, <1>6, <3>1, <3>3, SMTT(30) DEF Frame
    <3> QED BY <3>2, <3>3
  <2>2. IntrOK' /\ IdleOK' /\ OneJoiner'
    <3>1. IntrOK'
      BY <1>1, <1>3, <1>4, <1>6 DEF IntrOK, SwitchedOut
    <3>2. IdleOK'
      BY <1>1, <1>4, <1>6 DEF Control, IdleOK, Context
    <3>3. OneJoiner'
      BY <1>1, <1>3, <1>4, <1>6, SMTT(30) DEF Control, OneJoiner, Context
    <3> QED BY <3>1, <3>2, <3>3
  <2>3. ASSUME NEW v \in Thread
        PROVE  Alive(v)' /\ JoinerOK(v)' /\ Call(v)'
    <3>1. Alive(v) /\ JoinerOK(v) /\ Call(v) /\ Frame(v) /\ v \in Context
      BY <1>1 DEF Control, T, Context
    <3>2. Alive(v)'
      BY <1>1, <1>2, <1>3, <1>6, <3>1 DEF Alive
    <3>3. JoinerOK(v)'
      <4>1. joiner[v] \in Thread \cup {NULL}
        BY <1>1, <3>1 DEF Types, TypeOK
      <4> QED BY <1>3, <1>4, <1>6, <3>1, <4>1, SMTT(30) DEF JoinerOK, Context
    <3>4. ASSUME v = t PROVE Call(v)'
      BY <1>2, <1>3, <1>4, <1>6, <3>4, SMTT(30) DEF Call, Context
    <3>5. ASSUME v # t PROVE Call(v)'
      <4>1. pc[v] \notin {"c_save", "w_save"}
        BY <1>1, <3>1, <3>5 DEF Frame, SwitchedOut
      <4>2. CASE ret[v] = "destroy"
        <5>1. arg[v] \in Thread \ {v} /\ arg[v] # u /\ v # u /\ arg[v] \in Context
          BY <1>2, <3>1, <4>2, SMTT(30) DEF Call, Context
        <5>2. /\ pc'[v] = pc[v] /\ arg'[v] = arg[v] /\ ret'[v] = ret[v]
              /\ state'[v] = state[v] /\ state'[arg[v]] = state[arg[v]]
              /\ joiner'[arg[v]] = joiner[arg[v]]
          BY <1>4, <1>6, <3>1, <3>5, <5>1
        <5> QED BY <3>1, <4>1, <5>1, <5>2 DEF Call
      <4>3. CASE ret[v] # "destroy"
        BY <1>4, <1>6, <3>1, <3>5, <4>1, <4>3 DEF Call
      <4> QED BY <4>2, <4>3
    <3> QED BY <3>2, <3>3, <3>4, <3>5
  <2> QED BY <2>1, <2>2, <2>3 DEF Control
<1> QED BY <1>5, <1>7, <1>8 DEF IInv

\* thread_create: the new thread becomes runnable.
LEMMA CreateInv ==
  ASSUME IInv, NEW t \in T, Create(t)
  PROVE  IInv'
<1>1. t \in Thread /\ current = t /\ pc[t] = "c_save" /\ ~irq[t]
  BY DEF IInv, Control, IdleOK, T, Create, At
<1>2. /\ Types /\ Queues /\ Frame(t) /\ IntrOK /\ t # idle /\ Call(t) /\ Alive(t)
      /\ state[t] = "RUNNING"
  BY <1>1, ThreadAssumption DEF IInv, Control, Queues, Runnable, T
<1>3. /\ t \in Context /\ t # dummy /\ ret[t] = "run"
      /\ arg[t] \in Thread \ {t} /\ state[arg[t]] = "RUNNING"
  BY <1>1, <1>2, ThreadAssumption DEF Context, Frame, Call, Types, TypeOK
<1>4. \A v \in Context \ {t} : Same(v)
  BY <1>2 DEF Same, Types, TypeOK, Create, Goto
<1>5. /\ pc'[t] = "u_enable" /\ current' = current /\ state' = state
      /\ ret' = ret /\ joiner' = joiner
  BY <1>2, <1>3 DEF Create, Goto, Types, TypeOK
<1>6. Queues'
  <2>1. \A v \in Thread : pc[v] = "c_save" <=> v = t
    BY <1>1, OnlyCurrentCreates
  <2>2. \A v \in Thread : pc'[v] # "c_save"
    BY <1>4, <1>5, <2>1 DEF Same, Context
  <2>3. Runnable' = Runnable \cup {arg[t]} /\ arg[t] \notin Runnable
    BY <1>1, <1>3, <1>5, <2>1, <2>2 DEF Runnable, BeingCreated
  <2>4. lists' = Enqueue(lists, arg[t]) /\ nr_threads' = nr_threads + 1
    BY DEF Create
  <2>5. /\ yield[current] => yield'[current]
        /\ Priority[arg[t]] > PriorityOf(current) => yield'[current]
    BY <1>1, <1>2, <1>3 DEF Create, YieldAfterAdd, PriorityOf, Types, TypeOK
  <2> QED BY <1>1, <1>2, <1>3, <1>5, <2>3, <2>4, <2>5, AddQueues
<1>7. Types'
  <2>1. lists' \in [Priorities -> Seq(Thread)] /\ nr_threads' \in Nat
    <3>1. IsFiniteSet(Runnable')
      BY ThreadAssumption, FS_Subset DEF Runnable
    <3> QED BY <1>6, <3>1, FS_CardinalityType DEF Queues, Holds
  <2>2. yield' \in [Context -> BOOLEAN]
    <3>1. yield \in [Context -> BOOLEAN] /\ current \in Context
      BY <1>2 DEF Types, TypeOK
    <3> QED BY <3>1 DEF Create, YieldAfterAdd
  <2> QED BY <1>2, <1>3, <2>1, <2>2 DEF Types, TypeOK, PC, Create, Goto
<1>8. Frame(t)' /\ IntrOK' /\ Alive(t)' /\ Call(t)'
  BY <1>1, <1>2, <1>3, <1>5 DEF Frame, IntrOK, Alive, Call, Types, TypeOK, LabelLevel,
     SwitchedOut,
     Create, Goto
<1>9. Control'
  BY <1>1, <1>2, <1>3, <1>4, <1>5, <1>7, <1>8, StepControl
<1> QED BY <1>6, <1>7, <1>9 DEF IInv

\* thread_destroy frees a dead thread, which nobody else refers to.
LEMMA DestroyInv ==
  ASSUME IInv, NEW t \in T, Destroy(t)
  PROVE  IInv'
<1> DEFINE u == arg[t]
<1>1. t \in Thread /\ current = t /\ pc[t] = "destroy" /\ ~irq[t]
  BY DEF IInv, Control, IdleOK, T, Destroy, At
<1>2. /\ Types /\ Control /\ Queues /\ Frame(t) /\ IntrOK /\ t # idle /\ Call(t)
      /\ state[t] = "RUNNING" /\ ret[t] = "destroy"
  BY <1>1, ThreadAssumption, SMTT(30) DEF IInv, Control, Queues, Runnable, T, Frame
<1>3. /\ t \in Context /\ t # dummy
      /\ u \in Thread /\ u # t /\ u \in Context /\ u # idle /\ u # dummy /\ state[u] = "DEAD"
  BY <1>1, <1>2, ThreadAssumption DEF Context, Call
<1> HIDE DEF u
<1>4. Alive(u) /\ Frame(u) /\ Call(u) /\ pc[u] = "dead"
  BY <1>2, <1>3 DEF Control, Alive, T
<1>5. ret[u] = "run" /\ section[u] = 0 /\ ~irq[u] /\ preempt_level[u] = 1
  BY <1>2, <1>3, <1>4, SMTT(30) DEF Frame, LabelLevel, Types, TypeOK
<1>6. /\ state' = [state EXCEPT ![u] = "FREE"] /\ yield' = [yield EXCEPT ![u] = FALSE]
      /\ joiner' = [joiner EXCEPT ![u] = NULL]
      /\ pc' = [pc EXCEPT ![u] = "start", ![t] = "run"]
      /\ arg' = [arg EXCEPT ![t] = NULL] /\ ret' = [ret EXCEPT ![t] = "run"]
      /\ UNCHANGED <<runqVars, preempt_level, intr, eflags, section, irq>>
  BY DEF Destroy, u
<1>7. Types'
  BY <1>2, <1>3, <1>6 DEF Types, TypeOK, PC, runqVars
<1>8. /\ state'[u] = "FREE" /\ pc'[u] = "start" /\ joiner'[u] = NULL
      /\ pc'[t] = "run" /\ arg'[t] = NULL /\ ret'[t] = "run"
      /\ \A v \in Context \ {u} : state'[v] = state[v] /\ joiner'[v] = joiner[v]
      /\ \A v \in Context \ {t} : ret'[v] = ret[v] /\ arg'[v] = arg[v]
      /\ \A v \in Context \ {t, u} : pc'[v] = pc[v]
      /\ UNCHANGED <<current, nr_threads, lists>>
  BY <1>2, <1>3, <1>6 DEF Types, TypeOK, runqVars
<1>9. Queues'
  <2>1. \A v \in Thread : pc[v] # "c_save" /\ pc'[v] # "c_save"
    BY <1>1, <1>8, OnlyCurrentCreates DEF Context
  <2>2. Runnable' = Runnable
    BY <1>3, <1>8, <2>1 DEF Runnable, BeingCreated, Context
  <2>3. yield'[current] = yield[current]
    BY <1>1, <1>2, <1>3, <1>6 DEF Types, TypeOK
  <2> QED BY <1>2, <1>6, <2>2, <2>3, RaiseQueues
<1>10. Control'
  <2>1. ASSUME NEW v \in T
        PROVE  Frame(v)'
    <3>1. /\ Frame(v) /\ v \in Context /\ current' = t
          /\ preempt_level'[v] = preempt_level[v] /\ section'[v] = section[v]
          /\ irq'[v] = irq[v] /\ eflags'[v] = eflags[v]
      BY <1>1, <1>2, <1>6, <1>8 DEF Control, T, Context
    <3>2. CASE v = t
      <4>1. pc'[v] = "run" /\ ret'[v] = "run"
        BY <1>8, <3>2
      <4> QED BY <1>1, <3>1, <3>2, <4>1 DEF Frame, LabelLevel, SwitchedOut
    <3>3. CASE v = u
      <4>1. pc'[v] = "start" /\ ret'[v] = "run"
        BY <1>3, <1>5, <1>8, <3>3
      <4> QED BY <1>3, <1>5, <3>1, <3>3, <4>1, SMTT(30) DEF Frame, LabelLevel, SwitchedOut
    <3>4. CASE v # t /\ v # u
      <4>1. pc'[v] = pc[v] /\ ret'[v] = ret[v]
        BY <1>8, <3>1, <3>4
      <4> QED BY <1>1, <3>1, <4>1 DEF Frame
    <3> QED BY <3>2, <3>3, <3>4
  <2>2. IntrOK'
    BY <1>1, <1>2, <1>3, <1>6, <1>8 DEF IntrOK, SwitchedOut
  <2>3. IdleOK'
    BY <1>2, <1>3, <1>6, <1>8, ThreadAssumption DEF Control, IdleOK, Context
  <2>4. OneJoiner'
    BY <1>2, <1>8, SMTT(30) DEF Control, OneJoiner, Context
  <2>5. \A v \in Thread \ {t} : ret[v] = "destroy" => arg[v] # u
    BY <1>1, <1>2 DEF Control, OneJoiner, u
  <2>6. ASSUME NEW v \in Thread
        PROVE  Alive(v)' /\ JoinerOK(v)' /\ Call(v)'
    <3>1. Alive(v) /\ JoinerOK(v) /\ Call(v) /\ Frame(v) /\ v \in Context
      BY <1>2 DEF Control, T, Context
    <3>2. Alive(v)'
      BY <1>1, <1>2, <1>3, <1>8, <3>1 DEF Alive
    <3>3. JoinerOK(v)'
      <4>1. CASE v = u
        BY <1>8, <4>1 DEF JoinerOK
      <4>2. CASE v # u
        <5>1. joiner[v] \in Thread \cup {NULL} /\ joiner'[v] = joiner[v] /\ joiner[v] # t
          BY <1>1, <1>2, <1>8, <3>1, <4>2, ThreadAssumption, SMTT(30) DEF Types, TypeOK, JoinerOK, u
        <5> QED BY <1>8, <3>1, <5>1, SMTT(30) DEF JoinerOK, Context
      <4> QED BY <4>1, <4>2
    <3>4. ASSUME v = t PROVE Call(v)'
      BY <1>8, <3>4 DEF Call
    <3>5. ASSUME v = u PROVE Call(v)'
      BY <1>3, <1>5, <1>8, <3>5 DEF Call
    <3>6. ASSUME v # t, v # u PROVE Call(v)'
      <4>1. pc[v] \notin {"c_save", "w_save"}
        BY <1>1, <3>1, <3>6 DEF Frame, SwitchedOut
      <4>2. CASE ret[v] = "destroy"
        <5>1. arg[v] \in Thread \ {v} /\ arg[v] # u /\ arg[v] \in Context
          BY <2>5, <3>1, <3>6, <4>2 DEF Call, Context
        <5>2. /\ pc'[v] = pc[v] /\ arg'[v] = arg[v] /\ ret'[v] = ret[v]
              /\ state'[v] = state[v] /\ state'[arg[v]] = state[arg[v]]
              /\ joiner'[arg[v]] = joiner[arg[v]]
          BY <1>8, <3>1, <3>6, <5>1
        <5> QED BY <3>1, <4>1, <5>1, <5>2 DEF Call
      <4>3. CASE ret[v] # "destroy"
        BY <1>8, <3>1, <3>6, <4>1, <4>3 DEF Call
      <4> QED BY <4>2, <4>3
    <3> QED BY <3>2, <3>3, <3>4, <3>5, <3>6
  <2> QED BY <2>1, <2>2, <2>3, <2>4, <2>6 DEF Control
<1> QED BY <1>7, <1>9, <1>10 DEF IInv

-----------------------------------------------------------------------------
(* The invariant, and what follows from it.                                *)

\* The boot state.
LEMMA InitInv ==
  ASSUME Init
  PROVE  IInv
<1>1. TypeOK
  <2>1. <<>> \in Seq(Thread)
    BY SMTT(30)
  <2>2. MaxNesting \in Nat
    BY ThreadAssumption
  <2>3. current \in Context /\ nr_threads \in Nat /\ lists \in [Priorities -> Seq(Thread)]
    BY <2>1 DEF Init, Context
  <2>4. /\ preempt_level \in [Context -> Nat] /\ section \in [Context -> 0 .. MaxNesting]
        /\ state \in [Context -> {"FREE", "RUNNING", "SLEEPING", "DEAD"}]
        /\ pc \in [Context -> PC] /\ ret \in [Context -> {"run", "destroy"}]
        /\ joiner \in [Context -> Thread \cup {NULL}]
        /\ arg \in [Context -> Thread \cup {NULL}]
    BY <2>2, SMTT(30) DEF Init, PC
  <2>5. /\ yield \in [Context -> BOOLEAN] /\ eflags \in [Context -> BOOLEAN]
        /\ irq \in [Context -> BOOLEAN] /\ intr \in BOOLEAN
    BY DEF Init
  <2> QED BY <2>3, <2>4, <2>5 DEF TypeOK
<1>2. Types /\ current = dummy /\ dummy \notin Thread /\ idle \notin Thread /\ idle # dummy
  BY <1>1, ThreadAssumption DEF Types, Init, Context
<1>3. \A t \in Context : /\ state[t] = IF t \in Thread THEN "FREE" ELSE "RUNNING"
                         /\ preempt_level[t] = 1 /\ joiner[t] = NULL /\ pc[t] = "start"
                         /\ ret[t] = "run" /\ section[t] = 0 /\ ~irq[t]
  BY DEF Init
<1>4. T \in SUBSET Context /\ Thread \in SUBSET Context /\ idle \in Context /\ dummy \in Context
  BY DEF T, Context
<1>5. Control
  <2>1. \A t \in T : Frame(t)
    BY <1>2, <1>3, <1>4, SMTT(30) DEF Frame, LabelLevel, SwitchedOut
  <2>2. IntrOK /\ IdleOK
    BY <1>2, <1>3, <1>4 DEF IntrOK, IdleOK, Init
  <2>3. (\A t \in Thread : Alive(t) /\ Call(t) /\ JoinerOK(t)) /\ OneJoiner
    BY <1>3, <1>4 DEF Alive, Call, JoinerOK, OneJoiner
  <2> QED BY <2>1, <2>2, <2>3 DEF Control
<1>6. Queues
  <2>1. Runnable = {} /\ Ready = {}
    BY <1>3, <1>4 DEF Runnable, Ready
  <2>2. lists = [p \in Priorities |-> <<>>] /\ nr_threads = 0
    BY DEF Init
  <2>3. lists \in [Priorities -> Seq(Thread)] /\ \A p \in Priorities : Len(lists[p]) = 0
    BY <2>2, SMTT(30)
  <2>4. Holds(lists, {})
    BY <2>3, SMTT(30) DEF Holds
  <2>5. Cardinality({}) = 0
    BY FS_EmptySet
  <2> QED BY <1>2, <2>1, <2>2, <2>4, <2>5 DEF Queues
<1> QED BY <1>2, <1>5, <1>6 DEF IInv

\* Steps of other components.
LEMMA StutterInv ==
  ASSUME IInv, UNCHANGED vars
  PROVE  IInv'
<1>1. UNCHANGED <<current, nr_threads, lists, state, yield, preempt_level, joiner,
                  intr, pc, ret, arg, eflags, section, irq>>
  BY DEF vars
<1>2. Types'
  BY <1>1 DEF IInv, Types, TypeOK
<1>3. Control'
  <2>1. Control
    BY DEF IInv
  <2>2. ASSUME NEW t \in T PROVE Frame(t)'
    BY <1>1, <2>1 DEF Control, Frame
  <2>3. IntrOK' /\ IdleOK' /\ OneJoiner'
    BY <1>1, <2>1 DEF Control, IntrOK, IdleOK, OneJoiner
  <2>4. ASSUME NEW t \in Thread PROVE Alive(t)' /\ Call(t)' /\ JoinerOK(t)'
    BY <1>1, <2>1 DEF Control, Alive, Call, JoinerOK
  <2> QED BY <2>2, <2>3, <2>4 DEF Control
<1>4. Queues'
  BY <1>1, QuietQueues DEF IInv, runqVars
<1> QED BY <1>2, <1>3, <1>4 DEF IInv

\* Every step keeps the invariant.
LEMMA NextInv ==
  ASSUME IInv, [Next]_vars
  PROVE  IInv'
<1>1. ASSUME NEW u \in Thread, BootCreate(u) PROVE IInv'
  BY <1>1, BootCreateInv
<1>2. CASE EnableScheduler
  BY <1>2, EnableSchedulerInv
<1>3. ASSUME NEW t \in T, Kernel(t) PROVE IInv'
  <2>1. CASE Start(t)
    BY <2>1, StartInv
  <2>2. CASE UnlockEnable(t)
    BY <2>2, UnlockEnableInv
  <2>3. CASE YieldIfNeeded(t)
    BY <2>3, YieldIfNeededInv
  <2>4. CASE YieldLock(t)
    BY <2>4, YieldLockInv
  <2>5. CASE YieldSchedule(t)
    BY <2>5, YieldScheduleInv
  <2>6. CASE YieldRestore(t)
    BY <2>6, YieldRestoreInv
  <2>7. CASE YieldEnable(t)
    BY <2>7, YieldEnableInv
  <2>8. CASE SleepReturn(t)
    BY <2>8, SleepReturnInv
  <2>9. CASE Wakeup(t)
    BY <2>9, WakeupInv
  <2>10. CASE Create(t)
    BY <2>10, CreateInv
  <2>11. CASE Exit(t)
    BY <2>11, ExitInv
  <2>12. CASE Join(t)
    BY <2>12, JoinInv
  <2>13. CASE JoinWoken(t)
    BY <2>13, JoinWokenInv
  <2>14. CASE Destroy(t)
    BY <2>14, DestroyInv
  <2> QED BY <1>3, <2>1, <2>2, <2>3, <2>4, <2>5, <2>6, <2>7, <2>8, <2>9, <2>10, <2>11,
             <2>12, <2>13, <2>14 DEF Kernel
<1>4. ASSUME NEW t \in Thread, Client(t) PROVE IInv'
  <2>1. CASE YieldCall(t)
    BY <2>1, YieldCallInv
  <2>2. CASE SectionEnter(t)
    BY <2>2, SectionEnterInv
  <2>3. CASE SectionExit(t)
    BY <2>3, SectionExitInv
  <2>4. CASE IntrSave(t)
    BY <2>4, IntrSaveInv
  <2>5. CASE IntrRestore(t)
    BY <2>5, IntrRestoreInv
  <2>6. CASE Sleep(t)
    BY <2>6, SleepInv
  <2>7. CASE ExitCall(t)
    BY <2>7, ExitCallInv
  <2>8. ASSUME NEW u \in Thread, WakeupCall(t, u) PROVE IInv'
    BY <2>8, WakeupCallInv
  <2>9. ASSUME NEW u \in Thread, CreateCall(t, u) PROVE IInv'
    BY <2>9, CreateCallInv
  <2>10. ASSUME NEW u \in Thread, JoinCall(t, u) PROVE IInv'
    BY <2>10, JoinCallInv
  <2>11. CASE \E u \in Thread : WakeupCall(t, u) \/ CreateCall(t, u) \/ JoinCall(t, u)
    BY <2>8, <2>9, <2>10, <2>11
  <2> QED BY <1>4, <2>1, <2>2, <2>3, <2>4, <2>5, <2>6, <2>7, <2>11 DEF Client
<1>5. ASSUME NEW tick \in BOOLEAN, NEW w \in Thread \cup {NULL}, Interrupt(tick, w) PROVE IInv'
  <2>1. PICK t : current = t
    OBVIOUS
  <2> QED BY <1>5, <2>1, InterruptInv
<1>6. CASE InterruptReturn
  <2>1. PICK t : current = t
    OBVIOUS
  <2> QED BY <1>6, <2>1, InterruptReturnInv
<1>7. CASE UNCHANGED vars
  BY <1>7, StutterInv
<1> QED BY <1>1, <1>2, <1>3, <1>4, <1>5, <1>6, <1>7 DEF Next, Tick, T

\* The inductive invariant holds in every reachable state of the scheduler.
THEOREM Invariance == Spec => []IInv
<1>1. Init => IInv
  BY InitInv
<1>2. IInv /\ [Next]_vars => IInv'
  BY NextInv
<1> QED BY <1>1, <1>2, PTL DEF Spec

\* On the lists stand the threads that are ready.
LEMMA QueuedIsReady ==
  ASSUME IInv
  PROVE  \A t \in Thread : Queued(t) <=> t \in Ready
<1>1. Holds(lists, Ready) /\ Priority \in [Thread -> Priorities]
  BY ThreadAssumption DEF IInv, Queues, Priorities
<1>2. ASSUME NEW t \in Ready PROVE Queued(t)
  BY <1>1, <1>2 DEF Holds, Queued, Ready, Runnable
<1>3. ASSUME NEW t \in Thread, Queued(t) PROVE t \in Ready
  BY <1>1, <1>3, SMTT(30) DEF Holds, Queued
<1> QED BY <1>2, <1>3

\* The run queue is exact, and higher priorities have asked for the processor.
LEMMA InvRunq ==
  ASSUME IInv
  PROVE  RunqConsistent /\ PreemptionRequested
<1>1. Holds(lists, Ready) /\ Queues
  BY DEF IInv, Queues
<1>2. ListsWellFormed
  BY <1>1 DEF Holds, ListsWellFormed
<1>3. \A t \in Thread : Queued(t) <=> t \in Runnable /\ t # current
  BY QueuedIsReady DEF Ready
<1>4. PreemptionRequested
  BY <1>1, QueuedIsReady DEF Queues, PreemptionRequested
<1> QED BY <1>1, <1>2, <1>3, <1>4 DEF RunqConsistent, Queues

\* The current context is running.
LEMMA InvCurrent ==
  ASSUME IInv
  PROVE  CurrentIsAlive
BY ThreadAssumption DEF IInv, Queues, Control, IdleOK, Runnable, CurrentIsAlive

\* Preemption levels and interrupt flags.
LEMMA InvLevels ==
  ASSUME IInv
  PROVE  ScheduleAtLevelOne /\ CallerStateRestored
<1>1. Types /\ IntrOK /\ \A t \in T : Frame(t) /\ t # dummy /\ t \in Context
  BY ThreadAssumption DEF IInv, Control, T, Context
<1>2. ScheduleAtLevelOne
  <2> SUFFICES ASSUME NEW t \in T, ~irq[t],
                      \/ pc[t] \in {"y_save", "x_save", "j_save", "j_switched"}
                      \/ pc[t] = "run" /\ section[t] = 1
               PROVE  preempt_level[t] = 1
    BY DEF ScheduleAtLevelOne, At, T
  <2>1. Frame(t) /\ section[t] \in Nat
    BY <1>1, SMTT(30) DEF Types, TypeOK
  <2>2. CASE pc[t] = "run" /\ section[t] = 1
    BY <2>1, <2>2, SMTT(30) DEF Frame, LabelLevel
  <2>3. CASE pc[t] \in {"y_save", "x_save", "j_save", "j_switched"}
    BY <2>1, <2>3, SMTT(30) DEF Frame, LabelLevel
  <2> QED BY <2>2, <2>3
<1>3. CallerStateRestored
  BY <1>1, SMTT(30) DEF CallerStateRestored, At, Frame, LabelLevel, IntrOK, SwitchedOut, T
<1> QED BY <1>2, <1>3

\* A joiner sleeps for a living thread; a thread being destroyed is dead.
LEMMA InvJoin ==
  ASSUME IInv
  PROVE  JoinWakeupNotLost /\ DestroyOnlyDead
<1>1. Types /\ \A t \in Thread : Call(t) /\ Frame(t)
  BY DEF IInv, Control, T
<1>2. ASSUME NEW t \in Thread, pc[t] = "j_switched", state[t] = "SLEEPING"
      PROVE  state[arg[t]] \in {"RUNNING", "SLEEPING"} /\ joiner[arg[t]] = t
  <2>1. ret[t] = "destroy"
    BY <1>1, <1>2 DEF Frame
  <2>2. /\ arg[t] \in Context /\ state[arg[t]] \notin {"FREE", "DEAD"} /\ joiner[arg[t]] = t
    BY <1>1, <1>2, <2>1 DEF Call, Context
  <2> QED BY <1>1, <2>2 DEF Types, TypeOK
<1>3. ASSUME NEW t \in Thread, pc[t] = "destroy"
      PROVE  state[arg[t]] = "DEAD" /\ arg[t] # current /\ ~Queued(arg[t])
  <2>1. arg[t] \in Thread /\ state[arg[t]] = "DEAD"
    BY <1>1, <1>3 DEF Frame, Call
  <2>2. arg[t] # current
    BY <2>1, InvCurrent DEF CurrentIsAlive
  <2>3. ~Queued(arg[t])
    BY <2>1, QueuedIsReady DEF Ready, Runnable
  <2> QED BY <2>1, <2>2, <2>3
<1> QED BY <1>2, <1>3 DEF JoinWakeupNotLost, DestroyOnlyDead

\* TypeOK: the run queue never hands out anything but a context.
THEOREM TypeCorrect == Spec => []TypeOK
<1>1. IInv => TypeOK
  BY DEF IInv, Types
<1> QED BY <1>1, Invariance, PTL

\* The run queue is exact, whatever creations, wake-ups, exits and interrupts
\* of whatever number of threads: thread_runq_get_next never misses a runnable
\* thread, and never picks one that sleeps, died or was freed.
THEOREM RunQueueExact == Spec => []RunqConsistent
<1>1. IInv => RunqConsistent
  BY InvRunq
<1> QED BY <1>1, Invariance, PTL

\* The executing thread is never a dead or freed one.
THEOREM CurrentAlive == Spec => []CurrentIsAlive
<1>1. IInv => CurrentIsAlive
  BY InvCurrent
<1> QED BY <1>1, Invariance, PTL

\* A thread of higher priority on the run queue always finds the request to
\* yield of the current thread set.
THEOREM HigherPriorityAsks == Spec => []PreemptionRequested
<1>1. IInv => PreemptionRequested
  BY InvRunq
<1> QED BY <1>1, Invariance, PTL

\* The assertion on the preemption level in thread_runq_schedule never fails.
THEOREM LevelAssertion == Spec => []ScheduleAtLevelOne
<1>1. IInv => ScheduleAtLevelOne
  BY InvLevels
<1> QED BY <1>1, Invariance, PTL

\* The scheduler gives its callers their interrupt flag and preemption level
\* back.
THEOREM CallersRestored == Spec => []CallerStateRestored
<1>1. IInv => CallerStateRestored
  BY InvLevels, SMTT(30)
<1> QED BY <1>1, Invariance, PTL

\* The wake-up of a joiner is never lost.
THEOREM JoinNotLost == Spec => []JoinWakeupNotLost
<1>1. IInv => JoinWakeupNotLost
  BY InvJoin
<1> QED BY <1>1, Invariance, PTL

\* thread_destroy only ever frees a dead thread, off the run queue and not
\* the one that executes.
THEOREM DestroyedIsDead == Spec => []DestroyOnlyDead
<1>1. IInv => DestroyOnlyDead
  BY InvJoin
<1> QED BY <1>1, Invariance, PTL

\* In a section a thread loses the processor only by its own thread_sleep.
THEOREM SectionAtomicity == Spec => SectionsAreAtomic
<1>1. ASSUME IInv, [Next]_vars, current' # current
      PROVE  current = dummy \/ section[current] = 0 \/ state'[current] = "SLEEPING"
  <2>1. Types /\ Control
    BY <1>1 DEF IInv
  <2>2. CASE EnableScheduler
    BY <2>2 DEF EnableScheduler
  <2>3. ASSUME NEW t \in T, Kernel(t) PROVE section[current] = 0
    <3>1. Frame(t)
      BY <2>1 DEF Control
    <3>2. YieldSchedule(t) \/ Exit(t) \/ Join(t) \/ JoinWoken(t)
      BY <1>1, <2>3 DEF Kernel, Start, UnlockEnable, YieldIfNeeded, YieldLock, YieldRestore,
         YieldEnable, SleepReturn, Wakeup, Create, Destroy, runqVars
    <3>3. current = t /\ pc[t] \in {"y_save", "x_save", "j_save", "j_switched"}
      BY <3>2 DEF YieldSchedule, Exit, Join, JoinWoken, At
    <3>4. section[t] \in Nat
      BY <2>1, <3>3, ThreadAssumption, SMTT(30) DEF Types, TypeOK
    <3> QED BY <3>1, <3>3, <3>4, SMTT(30) DEF Frame
  <2>4. ASSUME NEW t \in Thread, Client(t) PROVE state'[current] = "SLEEPING"
    <3>1. Sleep(t)
      BY <1>1, <2>4 DEF Client, YieldCall, SectionEnter, SectionExit, IntrSave, IntrRestore,
         ExitCall, WakeupCall, CreateCall, JoinCall, runqVars
    <3> QED BY <2>1, <3>1 DEF Sleep, At, Types, TypeOK
  <2>5. ASSUME NEW tick, NEW w, Interrupt(tick, w), current # dummy PROVE section[current] = 0
    <3>1. preempt_level[current] = 0
      BY <1>1, <2>5 DEF Interrupt
    <3>2. Frame(current) /\ section[current] \in Nat
      BY <2>1, <2>5, SMTT(30) DEF Control, T, Types, TypeOK, Context
    <3> QED BY <3>1, <3>2, SMTT(30) DEF Frame, LabelLevel
  <2>6. ASSUME NEW u \in Thread, BootCreate(u) PROVE FALSE
    BY <1>1, <2>6 DEF BootCreate
  <2>7. ASSUME InterruptReturn \/ UNCHANGED vars PROVE FALSE
    BY <1>1, <2>7 DEF InterruptReturn, runqVars, vars
  <2> QED BY <1>1, <2>2, <2>3, <2>4, <2>5, <2>6, <2>7 DEF Next, Tick, T
<1>2. IInv /\ [Next]_vars =>
        [current' # current =>
           current = dummy \/ section[current] = 0 \/ state'[current] = "SLEEPING"]_vars
  BY <1>1
<1> QED BY <1>2, Invariance, PTL DEF Spec, SectionsAreAtomic
=============================================================================
