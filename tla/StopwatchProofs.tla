--------------------------- MODULE StopwatchProofs --------------------------
(***************************************************************************)
(* Proofs about the stopwatch (Stopwatch), for any range of the tick       *)
(* counter.  sw_resume may schedule sw_timer while it is on the list,      *)
(* which breaks the links of the list; the theorems hold all the same.     *)
(***************************************************************************)
EXTENDS Stopwatch, FiniteSetTheorems, TLAPS

SwLabels == {"idle", "check", "p_take", "p_publish", "fire", "s_insert", "s_publish",
             "sw_get_time", "sw_unlock", "w_wait"}

\* The labels of a thread that holds sw_mutex.
Holding == {"sw_get_time", "s_insert", "s_publish", "sw_unlock"}

\* The head of the list is linked to itself, or to sw_timer both ways.
HeadLinks(h) ==
  /\ h \in [next : [Node -> Node], prev : [Node -> Node]]
  /\ \/ h.next[timer_list] = timer_list /\ h.prev[timer_list] = timer_list
     \/ h.next[timer_list] = sw_timer /\ h.prev[timer_list] = sw_timer

\* The stopwatch is on the list, or about to run.
Ready == links.next[timer_list] = sw_timer \/ pc[timer_thread] = "fire"

RunInv ==
  /\ HeadLinks(links)
  /\ pc \in [Threads -> SwLabels] /\ arg \in [Threads -> {sw_timer, NULL}]
  /\ \A th \in Threads : sw_mutex = th <=> pc[th] \in Holding
  /\ \A th \in Threads : pc[th] = "s_insert" => arg[th] = sw_timer
  /\ \A th \in Threads : pc[th] \in {"s_publish", "sw_unlock"} => Ready
  /\ sw_timer_scheduled /\ sw_mutex = NULL => Ready

\* The request of a shell that waits is on record and ahead of the count.
WaitInv ==
  /\ sw_ticks \in Ticks /\ sw_wait_ticks \in Ticks
  /\ sw_shell_waiting \in BOOLEAN /\ sw_timer_scheduled \in BOOLEAN
  /\ sw_cv = "waiting" => /\ pc[shell] = "w_wait"
                          /\ sw_shell_waiting /\ sw_timer_scheduled
                          /\ Sub(sw_wait_ticks, sw_ticks) <= MaxWait
  /\ sw_shell_waiting => sw_cv = "waiting"

-----------------------------------------------------------------------------
(* The list, which has at most one timer.                                  *)

LEMMA Nodes ==
  /\ Node = {sw_timer, timer_list} /\ sw_timer # timer_list /\ sw_timer # NULL
  /\ Threads = {shell, timer_thread} /\ shell # timer_thread /\ NULL \notin Threads
BY TimerAssumption, StopwatchAssumption DEF Node, Threads

\* The walk of the model finds sw_timer when the head is linked to it.
LEMMA WalkOne ==
  ASSUME NEW h, HeadLinks(h)
  PROVE  /\ h.next[timer_list] = timer_list => Walk(h) = <<>>
         /\ h.next[timer_list] = sw_timer => Walk(h) = <<sw_timer>>
<1> DEFINE N == Cardinality(Timer)
           End(r) == IF r = <<>> THEN timer_list ELSE r[Len(r)]
           Step(r) == IF h.next[End(r)] = timer_list
                           \/ \E i \in 1 .. Len(r) : r[i] = h.next[End(r)]
                      THEN r ELSE Append(r, h.next[End(r)])
           Turn(g) == [k \in 0 .. N |-> IF k = 0 THEN <<>> ELSE Step(g[k - 1])]
           f == [k \in 0 .. N |-> IF k = 0 THEN <<>> ELSE Step(<<>>)]
           w == CHOOSE g : g = Turn(g)
<1>1. N = 1
  BY StopwatchAssumption, FS_Singleton
<1>2. /\ h.next[timer_list] = timer_list => Step(<<>>) = <<>>
      /\ h.next[timer_list] = sw_timer => Step(<<>>) = <<sw_timer>>
  BY Nodes
<1>3. Walk(h) = w[N]
  BY DEF Walk
<1> HIDE DEF Step, N
<1>4. f = Turn(f)
  <2>1. ASSUME NEW k \in 0 .. N PROVE f[k] = Turn(f)[k]
    <3>1. CASE k = 0
      BY <3>1
    <3>2. CASE k # 0
      <4>1. k - 1 = 0 /\ 0 \in 0 .. N
        BY <1>1, <3>2
      <4>2. f[k - 1] = <<>>
        BY <4>1
      <4> QED BY <3>2, <4>2
    <3> QED BY <3>1, <3>2
  <2> QED BY <2>1
<1>5. w = Turn(w)
  BY <1>4
<1> HIDE DEF w
<1>6. w[0] = <<>>
  BY <1>1, <1>5
<1>7. w[1] = Step(w[0])
  BY <1>1, <1>5
<1> QED BY <1>1, <1>2, <1>3, <1>6, <1>7

\* list_insert_before of sw_timer, even when it is on the list already.
LEMMA HeadInsert ==
  ASSUME NEW h, HeadLinks(h), NEW x \in Node, x = sw_timer => h.next[timer_list] = sw_timer,
         NEW e, e = ListInsertBefore(h, x, sw_timer)
  PROVE  HeadLinks(e) /\ e.next[timer_list] = sw_timer
<1>1. /\ h \in [next : [Node -> Node], prev : [Node -> Node]]
      /\ sw_timer \in Node /\ timer_list \in Node /\ sw_timer # timer_list
  BY Nodes DEF HeadLinks
<1>2. h.prev[x] \in Node
  BY <1>1
<1>3. /\ e.next = [h.next EXCEPT ![sw_timer] = x, ![h.prev[x]] = sw_timer]
      /\ e.prev = [h.prev EXCEPT ![x] = sw_timer, ![sw_timer] = h.prev[x]]
      /\ e \in [next : [Node -> Node], prev : [Node -> Node]]
  BY <1>1, <1>2 DEF ListInsertBefore, ListAdd
<1>4. CASE x = timer_list
  <2>1. e.prev[timer_list] = sw_timer
    BY <1>1, <1>3, <1>4
  <2>2. e.next[timer_list] = sw_timer
    BY <1>1, <1>3, <1>4 DEF HeadLinks
  <2> QED BY <1>3, <2>1, <2>2 DEF HeadLinks
<1>5. CASE x = sw_timer
  <2>1. h.next[timer_list] = sw_timer /\ h.prev[timer_list] = sw_timer
    BY <1>1, <1>5 DEF HeadLinks
  <2>2. e.prev[timer_list] = sw_timer
    BY <1>1, <1>3, <1>5, <2>1
  <2>3. e.next[timer_list] = sw_timer
    BY <1>1, <1>2, <1>3, <1>5, <2>1
  <2> QED BY <1>3, <2>2, <2>3 DEF HeadLinks
<1> QED BY <1>4, <1>5, Nodes

\* list_remove of the first timer.
LEMMA HeadRemove ==
  ASSUME NEW h, HeadLinks(h), h.next[timer_list] # timer_list,
         NEW e, e = ListRemove(h, h.next[timer_list])
  PROVE  HeadLinks(e)
<1>1. /\ h \in [next : [Node -> Node], prev : [Node -> Node]]
      /\ sw_timer \in Node /\ timer_list \in Node /\ sw_timer # timer_list
      /\ h.next[timer_list] = sw_timer /\ h.prev[timer_list] = sw_timer
  BY Nodes DEF HeadLinks
<1>2. h.next[sw_timer] \in {sw_timer, timer_list} /\ h.prev[sw_timer] \in {sw_timer, timer_list}
  BY <1>1, Nodes
<1>3. /\ e.next = [h.next EXCEPT ![h.prev[sw_timer]] = h.next[sw_timer]]
      /\ e.prev = [h.prev EXCEPT ![h.next[sw_timer]] = h.prev[sw_timer]]
      /\ e \in [next : [Node -> Node], prev : [Node -> Node]]
  BY <1>1, <1>2, Nodes DEF ListRemove
<1> QED BY <1>1, <1>2, <1>3 DEF HeadLinks

-----------------------------------------------------------------------------
(* The stopwatch is not forgotten.                                         *)

\* timer_schedule puts sw_timer on the list.
LEMMA InsertLinks ==
  ASSUME NEW th \in Threads, RunInv, pc[th] = "s_insert", ScheduleInsert(th, arg[th], val[th])
  PROVE  HeadLinks(links') /\ links'.next[timer_list] = sw_timer
<1> DEFINE tm == [time EXCEPT ![arg[th]] = val[th]]
           x == InsertionPoint(tm, val[th])
           later == {i \in 1 .. Len(Listed) : ~TicksExpired(tm[Listed[i]], val[th])}
           m == CHOOSE i \in later : \A j \in later : i <= j
<1>1. HeadLinks(links) /\ arg[th] = sw_timer
  BY DEF RunInv
<1>2. links' = ListInsertBefore(links, x, sw_timer)
  BY <1>1 DEF ScheduleInsert
<1>3. x = IF later = {} THEN timer_list ELSE Listed[m]
  BY DEF InsertionPoint
<1>4. x \in Node /\ (x = sw_timer => links.next[timer_list] = sw_timer)
  <2>1. CASE links.next[timer_list] = timer_list
    <3>1. Listed = <<>>
      BY <1>1, <2>1, WalkOne DEF Listed
    <3>2. later = {}
      BY <3>1
    <3> HIDE DEF later
    <3> QED BY <1>3, <3>2, Nodes
  <2>2. CASE links.next[timer_list] = sw_timer
    <3>1. Listed = <<sw_timer>>
      BY <1>1, <2>2, WalkOne DEF Listed
    <3>2. later \subseteq {1}
      BY <3>1
    <3>3. later # {} => m = 1
      <4> SUFFICES ASSUME later # {} PROVE m = 1
        OBVIOUS
      <4>1. later = {1}
        BY <3>2
      <4> HIDE DEF later
      <4>2. m \in later
        BY <4>1
      <4> HIDE DEF m
      <4> QED BY <4>1, <4>2
    <3> HIDE DEF later, m
    <3> QED BY <1>3, <2>2, <3>1, <3>3, Nodes
  <2> QED BY <1>1, <2>1, <2>2 DEF HeadLinks
<1> HIDE DEF x
<1> QED BY <1>1, <1>2, <1>4, HeadInsert

LEMMA InitRunInv == Init => RunInv
<1> SUFFICES ASSUME Init PROVE RunInv
  OBVIOUS
<1>1. HeadLinks(links)
  BY Nodes DEF Init, TimerInit, HeadLinks
<1>2. pc \in [Threads -> SwLabels] /\ \A th \in Threads : pc[th] \in {"check", "idle"}
  BY DEF Init, TimerInit, SwLabels
<1>3. sw_mutex = NULL /\ ~sw_timer_scheduled
  BY Zenon DEF Init
<1>4. arg \in [Threads -> {sw_timer, NULL}]
  BY DEF Init, TimerInit
<1> QED BY <1>1, <1>2, <1>3, <1>4, Nodes DEF RunInv, Holding

\* The timer thread looks for work, takes a timer, or ends its loop.
LEMMA TimerRun ==
  ASSUME RunInv, TimerCheck \/ TimerTake \/ TimerPublish, UNCHANGED swVars
  PROVE  RunInv'
<1>1. /\ HeadLinks(links) /\ pc \in [Threads -> SwLabels]
      /\ timer_thread \in Threads /\ NULL \notin Threads
      /\ UNCHANGED <<sw_mutex, sw_timer_scheduled>>
  BY Nodes DEF RunInv, swVars
<1>2. /\ pc[timer_thread] \in {"check", "p_take", "p_publish"} /\ arg' = arg
      /\ \/ UNCHANGED links /\ (pc' = pc \/ \E l \in {"p_take", "p_publish", "check"} :
                                              pc' = [pc EXCEPT ![timer_thread] = l])
         \/ /\ links' = ListRemove(links, links.next[timer_list])
            /\ links.next[timer_list] # timer_list
            /\ pc' = [pc EXCEPT ![timer_thread] = "fire"]
  <2>1. CASE TimerCheck
    BY <2>1 DEF TimerCheck, At, Goto
  <2>2. CASE TimerTake
    BY <2>2 DEF TimerTake, At, Goto, ListEmpty, ListFirst
  <2>3. CASE TimerPublish
    BY <2>3 DEF TimerPublish, At, Goto
  <2> QED BY <2>1, <2>2, <2>3
<1>3. \A th \in Threads : pc[th] \in {"s_publish", "sw_unlock"} => Ready
  BY DEF RunInv
<1>4. HeadLinks(links')
  BY <1>1, <1>2, HeadRemove
<1>5. /\ pc' \in [Threads -> SwLabels]
      /\ \A th \in Threads : th # timer_thread => pc'[th] = pc[th]
      /\ pc'[timer_thread] \in {"check", "p_take", "p_publish", "fire"}
  BY <1>1, <1>2 DEF SwLabels
<1>6. Ready => Ready'
  BY <1>1, <1>2, <1>5 DEF Ready
<1>7. \A th \in Threads : /\ pc'[th] \in Holding <=> pc[th] \in Holding
                          /\ pc'[th] = "s_insert" => pc[th] = "s_insert"
                          /\ pc'[th] \in {"s_publish", "sw_unlock"} => pc[th] = pc'[th]
  BY <1>2, <1>5 DEF Holding
<1> QED BY <1>1, <1>2, <1>4, <1>5, <1>6, <1>7 DEF RunInv

\* timer_schedule and the release of sw_mutex.
LEMMA ScheduleRun ==
  ASSUME NEW th \in Threads, RunInv, Schedule(th)
  PROVE  RunInv'
<1>1. /\ HeadLinks(links) /\ pc \in [Threads -> SwLabels]
      /\ timer_thread \in Threads /\ NULL \notin Threads
      /\ \A u \in Threads : sw_mutex = u <=> pc[u] \in Holding
      /\ \A u \in Threads : pc[u] = "s_insert" => arg[u] = sw_timer
      /\ \A u \in Threads : pc[u] \in {"s_publish", "sw_unlock"} => Ready
      /\ arg \in [Threads -> {sw_timer, NULL}]
  BY Nodes DEF RunInv
<1>2. CASE /\ At(th, "s_insert")
           /\ ScheduleInsert(th, arg[th], val[th])
           /\ Goto(th, "s_publish")
           /\ UNCHANGED <<arg, val, due, swVars>>
  <2>1. HeadLinks(links') /\ links'.next[timer_list] = sw_timer /\ pc[th] = "s_insert"
    BY <1>2, InsertLinks DEF At
  <2>2. /\ pc' = [pc EXCEPT ![th] = "s_publish"]
        /\ UNCHANGED <<arg, sw_mutex, sw_timer_scheduled>>
    BY <1>2 DEF Goto, swVars
  <2>3. Ready'
    BY <2>1 DEF Ready
  <2>4. /\ pc' \in [Threads -> SwLabels] /\ pc'[th] = "s_publish"
        /\ \A u \in Threads : u # th => pc'[u] = pc[u]
    BY <1>1, <2>2 DEF SwLabels
  <2> QED BY <1>1, <2>1, <2>2, <2>3, <2>4 DEF RunInv, Holding
<1>3. CASE /\ At(th, "s_publish")
           /\ SchedulePublish(th)
           /\ arg' = [arg EXCEPT ![th] = NULL]
           /\ val' = [val EXCEPT ![th] = 0]
           /\ Goto(th, "sw_unlock")
           /\ UNCHANGED <<cur, due, swVars>>
  <2>1. /\ pc[th] = "s_publish" /\ pc' = [pc EXCEPT ![th] = "sw_unlock"]
        /\ UNCHANGED <<links, sw_mutex, sw_timer_scheduled>>
        /\ arg' = [arg EXCEPT ![th] = NULL]
    BY <1>3 DEF At, SchedulePublish, Goto, swVars
  <2>2. /\ pc' \in [Threads -> SwLabels] /\ pc'[th] = "sw_unlock"
        /\ \A u \in Threads : u # th => pc'[u] = pc[u]
    BY <1>1, <2>1 DEF SwLabels
  <2>3. Ready'
    <3>1. Ready
      BY <1>1, <2>1
    <3>2. pc[timer_thread] = "fire" => pc'[timer_thread] = "fire"
      BY <1>1, <2>1, <2>2
    <3> QED BY <2>1, <3>1, <3>2 DEF Ready
  <2>4. \A u \in Threads : pc'[u] = "s_insert" => arg'[u] = sw_timer
    <3>1. ASSUME NEW u \in Threads, pc'[u] = "s_insert" PROVE arg'[u] = sw_timer
      <4>1. u # th /\ arg[u] = sw_timer
        BY <1>1, <2>2, <3>1
      <4> QED BY <2>1, <4>1
    <3> QED BY <3>1
  <2>5. arg' \in [Threads -> {sw_timer, NULL}]
    BY <1>1, <2>1
  <2> QED BY <1>1, <2>1, <2>2, <2>3, <2>4, <2>5 DEF RunInv, Holding
<1>4. CASE /\ At(th, "sw_unlock")
           /\ sw_mutex' = NULL
           /\ Goto(th, IF th = timer_thread THEN "p_take" ELSE "idle")
           /\ cur' = (IF th = timer_thread THEN NULL ELSE cur)
           /\ UNCHANGED <<queueVars, arg, val, due, sw_ticks, sw_timer_scheduled,
                          sw_shell_waiting, sw_wait_ticks, sw_cv>>
  <2>1. /\ pc[th] = "sw_unlock" /\ sw_mutex = th /\ sw_mutex' = NULL
        /\ pc' = [pc EXCEPT ![th] = IF th = timer_thread THEN "p_take" ELSE "idle"]
        /\ UNCHANGED <<links, arg, sw_timer_scheduled>>
    BY <1>1, <1>4 DEF At, Goto, queueVars, Holding
  <2>2. /\ pc' \in [Threads -> SwLabels] /\ pc'[th] \in {"p_take", "idle"}
        /\ \A u \in Threads : u # th => pc'[u] = pc[u]
    BY <1>1, <2>1 DEF SwLabels
  <2>3. Ready'
    <3>1. Ready
      BY <1>1, <2>1
    <3>2. pc[timer_thread] = "fire" => pc'[timer_thread] = "fire"
      BY <1>1, <2>1, <2>2
    <3> QED BY <2>1, <3>1, <3>2 DEF Ready
  <2> QED BY <1>1, <2>1, <2>2, <2>3 DEF RunInv, Holding
<1> QED BY <1>2, <1>3, <1>4 DEF Schedule

\* A thread takes sw_mutex and prepares a call of timer_schedule, or goes
\* from one such label to another.
LEMMA CallRun ==
  ASSUME NEW th \in Threads, RunInv, UNCHANGED links,
         sw_mutex \in {NULL, th}, sw_mutex' = th,
         NEW l \in {"sw_get_time", "s_insert"}, pc' = [pc EXCEPT ![th] = l],
         \/ l = "sw_get_time" /\ arg' = arg
         \/ l = "s_insert" /\ arg' = [arg EXCEPT ![th] = sw_timer],
         th # timer_thread \/ pc[timer_thread] \in {"fire", "sw_get_time"}
  PROVE  RunInv'
<1>1. /\ HeadLinks(links') /\ pc' \in [Threads -> SwLabels]
      /\ timer_thread \in Threads /\ NULL \notin Threads
      /\ pc'[th] = l /\ \A u \in Threads : u # th => pc'[u] = pc[u]
      /\ \A u \in Threads : sw_mutex = u <=> pc[u] \in Holding
      /\ arg' \in [Threads -> {sw_timer, NULL}]
      /\ l = "s_insert" => arg'[th] = sw_timer
  BY Nodes DEF RunInv, SwLabels
<1>2. \A u \in Threads : u # th => pc'[u] \notin Holding
  BY <1>1
<1>3. \A u \in Threads : sw_mutex' = u <=> pc'[u] \in Holding
  BY <1>1, <1>2 DEF Holding
<1>4. \A u \in Threads : pc'[u] \notin {"s_publish", "sw_unlock"}
  BY <1>1, <1>2 DEF Holding
<1>5. \A u \in Threads : pc'[u] = "s_insert" => arg'[u] = sw_timer
  BY <1>1, <1>2 DEF Holding
<1>6. sw_mutex' # NULL
  BY <1>1
<1> QED BY <1>1, <1>3, <1>4, <1>5, <1>6 DEF RunInv

\* A step that leaves the list alone and moves the shell, or brings the timer
\* thread back from a stopwatch that is stopped.
LEMMA MoveRun ==
  ASSUME NEW th \in Threads, RunInv, UNCHANGED <<links, arg, sw_mutex>>, sw_mutex = NULL,
         pc' = pc \/ \E l \in {"idle", "w_wait", "p_take"} : pc' = [pc EXCEPT ![th] = l],
         \/ ~sw_timer_scheduled'
         \/ sw_timer_scheduled /\ th # timer_thread
  PROVE  RunInv'
<1>1. /\ HeadLinks(links') /\ pc' \in [Threads -> SwLabels]
      /\ timer_thread \in Threads /\ NULL \notin Threads
      /\ \A u \in Threads : u # th => pc'[u] = pc[u]
      /\ pc'[th] \in {"idle", "w_wait", "p_take"} \/ pc'[th] = pc[th]
      /\ \A u \in Threads : sw_mutex = u <=> pc[u] \in Holding
  BY Nodes DEF RunInv, SwLabels
<1>2. \A u \in Threads : pc[u] \notin Holding
  BY <1>1
<1>3. \A u \in Threads : pc'[u] \notin Holding
  BY <1>1, <1>2 DEF Holding
<1>4. sw_timer_scheduled' => Ready'
  <2> SUFFICES ASSUME sw_timer_scheduled' PROVE Ready'
    OBVIOUS
  <2>1. sw_timer_scheduled /\ th # timer_thread
    OBVIOUS
  <2>2. Ready
    BY <2>1 DEF RunInv
  <2>3. pc'[timer_thread] = pc[timer_thread]
    BY <1>1, <2>1
  <2> QED BY <2>2, <2>3 DEF Ready
<1> QED BY <1>1, <1>3, <1>4 DEF RunInv, Holding

\* Every step keeps RunInv.
LEMMA RunStep == RunInv /\ [Next]_vars => RunInv'
<1> SUFFICES ASSUME RunInv, [Next]_vars PROVE RunInv'
  OBVIOUS
<1>1. shell \in Threads /\ timer_thread \in Threads /\ shell # timer_thread /\ NULL \notin Threads
  BY Nodes
<1>2. ASSUME NEW th \in Threads, NEW v, NEW left, CallSchedule(th, v, left), sw_mutex' = th,
             sw_mutex \in {NULL, th}, th # timer_thread \/ pc[timer_thread] = "sw_get_time"
      PROVE  RunInv'
  <2> DEFINE l == "s_insert"
  <2>1. /\ UNCHANGED links /\ pc' = [pc EXCEPT ![th] = l]
        /\ arg' = [arg EXCEPT ![th] = sw_timer]
    BY <1>2 DEF CallSchedule, Goto, queueVars
  <2>2. l \in {"sw_get_time", "s_insert"} /\ l = "s_insert"
    OBVIOUS
  <2> HIDE DEF l
  <2> QED BY <1>2, <2>1, <2>2, CallRun
<1>3. CASE (TimerCheck \/ TimerTake \/ TimerPublish) /\ UNCHANGED swVars
  BY <1>3, TimerRun
<1>4. CASE SwTimerRun
  <2>1. /\ pc[timer_thread] = "fire" /\ sw_mutex = NULL /\ UNCHANGED <<links, arg>>
    BY <1>4 DEF SwTimerRun, At, queueVars
  <2>2. CASE ~sw_timer_scheduled
    <3>1. /\ pc' = [pc EXCEPT ![timer_thread] = "p_take"]
          /\ UNCHANGED <<sw_mutex, sw_timer_scheduled>>
      BY <1>4, <2>2 DEF SwTimerRun, Goto, swVars
    <3>2. \E l \in {"idle", "w_wait", "p_take"} : pc' = [pc EXCEPT ![timer_thread] = l]
      BY <3>1
    <3>3. ~sw_timer_scheduled'
      BY <2>2, <3>1
    <3> QED BY <1>1, <2>1, <3>1, <3>2, <3>3, MoveRun
  <2>3. CASE sw_timer_scheduled
    <3> DEFINE l == "sw_get_time"
    <3>1. pc' = [pc EXCEPT ![timer_thread] = l] /\ sw_mutex' = timer_thread
      BY <1>4, <2>3 DEF SwTimerRun, Goto
    <3>2. l \in {"sw_get_time", "s_insert"} /\ l = "sw_get_time"
      OBVIOUS
    <3>3. pc[timer_thread] \in {"fire", "sw_get_time"} /\ sw_mutex \in {NULL, timer_thread}
      BY <2>1
    <3> HIDE DEF l
    <3> QED BY <1>1, <2>1, <3>1, <3>2, <3>3, CallRun
  <2> QED BY <2>2, <2>3
<1>5. CASE SwReschedule
  <2>1. pc[timer_thread] = "sw_get_time" /\ UNCHANGED sw_mutex
    BY <1>5 DEF SwReschedule, At, swVars
  <2>2. sw_mutex = timer_thread
    BY <1>1, <2>1 DEF RunInv, Holding
  <2>3. CallSchedule(timer_thread, Add(time[sw_timer], 1), due[sw_timer] + 1)
    BY <1>5 DEF SwReschedule
  <2> QED BY <1>1, <1>2, <2>1, <2>2, <2>3
<1>6. CASE Schedule(timer_thread) \/ Schedule(shell)
  BY <1>1, <1>6, ScheduleRun
<1>7. CASE TickStep
  <2>1. UNCHANGED <<links, pc, arg, sw_mutex, sw_timer_scheduled>>
    BY <1>7 DEF TickStep, Tick, swVars
  <2> QED BY <2>1 DEF RunInv, HeadLinks, Ready
<1>8. CASE SwStart \/ SwResume
  <2>1. sw_mutex = NULL /\ sw_mutex' = shell
    BY <1>8 DEF SwStart, SwResume, Command
  <2>2. CallSchedule(shell, Add(timer_ticks, 1), 1)
    BY <1>8 DEF SwStart, SwResume
  <2> QED BY <1>1, <1>2, <2>1, <2>2
<1>9. CASE SwStop
  <2>1. sw_mutex = NULL /\ UNCHANGED <<links, arg, sw_mutex, pc>>
    BY <1>9 DEF SwStop, Command, timerVars
  <2>2. ~sw_timer_scheduled'
    BY <1>9, Zenon DEF SwStop
  <2> QED BY <1>1, <2>1, <2>2, MoveRun
<1>10. ASSUME NEW d \in 0 .. MaxWait, SwWait(d) PROVE RunInv'
  <2>1. /\ sw_mutex = NULL /\ sw_timer_scheduled
        /\ UNCHANGED <<links, arg, sw_mutex, sw_timer_scheduled>>
        /\ pc' = [pc EXCEPT ![shell] = "w_wait"]
    BY <1>10 DEF SwWait, Command, Goto, queueVars
  <2>2. \E l \in {"idle", "w_wait", "p_take"} : pc' = [pc EXCEPT ![shell] = l]
    BY <2>1
  <2> QED BY <1>1, <2>1, <2>2, MoveRun
<1>11. CASE SwWaitReturn
  <2>1. /\ sw_mutex = NULL /\ UNCHANGED <<links, arg, sw_mutex, sw_timer_scheduled>>
        /\ pc' = pc \/ pc' = [pc EXCEPT ![shell] = "idle"]
    BY <1>11 DEF SwWaitReturn, Goto, queueVars
  <2>2. pc' = pc \/ \E l \in {"idle", "w_wait", "p_take"} : pc' = [pc EXCEPT ![shell] = l]
    BY <2>1
  <2>3. ~sw_timer_scheduled' \/ (sw_timer_scheduled /\ shell # timer_thread)
    BY <1>1, <2>1
  <2> QED BY <1>1, <2>1, <2>2, <2>3, MoveRun
<1>12. CASE UNCHANGED vars
  <2>1. UNCHANGED <<links, pc, arg, sw_mutex, sw_timer_scheduled>>
    BY <1>12 DEF vars, timerVars, swVars
  <2> QED BY <2>1 DEF RunInv, HeadLinks, Ready
<1> QED
  BY <1>3, <1>4, <1>5, <1>6, <1>7, <1>8, <1>9, <1>10, <1>11, <1>12 DEF Next, TimerStep

\* Whatever the order of sw_start, sw_stop and sw_resume, and although
\* sw_resume may schedule a timer that is on the list, the timer of a running
\* stopwatch is on the list or its function is about to be called whenever
\* nobody holds sw_mutex.
THEOREM StopwatchKeepsRunning == Spec => []RunningHasTimer
<1>1. RunInv => RunningHasTimer
  <2> SUFFICES ASSUME RunInv, sw_timer_scheduled, sw_mutex = NULL,
                      pc[timer_thread] # "fire"
               PROVE  InList(sw_timer)
    BY DEF RunningHasTimer
  <2>1. HeadLinks(links) /\ links.next[timer_list] = sw_timer
    BY DEF RunInv, Ready
  <2>2. Listed = <<sw_timer>>
    BY <2>1, WalkOne DEF Listed
  <2> QED BY <2>2 DEF InList
<1> QED BY <1>1, InitRunInv, RunStep, PTL DEF Spec

-----------------------------------------------------------------------------
(* The signal is not missed.                                               *)

\* The count goes up by one: the time to wait for has come, or is nearer.
LEMMA WaitTick ==
  ASSUME NEW a \in Ticks, NEW T \in Ticks
  PROVE  /\ Add(T, 1) \in Ticks
         /\ Sub(a, T) <= MaxWait /\ ~TicksOccurred(a, Add(T, 1)) => Sub(a, Add(T, 1)) <= MaxWait
         /\ Sub(a, T) <= MaxWait => ~TicksExpired(a, T)
BY TimerAssumption, StopwatchAssumption, SMTT(30)
   DEF Ticks, Modulus, Add, Sub, TicksOccurred, TicksExpired

LEMMA WaitFrom ==
  ASSUME NEW T \in Ticks, NEW d \in 0 .. MaxWait
  PROVE  Add(T, d) \in Ticks /\ Sub(Add(T, d), T) <= MaxWait /\ 0 \in Ticks
BY TimerAssumption, StopwatchAssumption, SMTT(30) DEF Ticks, Modulus, Add, Sub

\* Every step keeps WaitInv.
LEMMA WaitStep == RunInv /\ WaitInv /\ [Next]_vars => WaitInv'
<1> SUFFICES ASSUME RunInv, WaitInv, [Next]_vars PROVE WaitInv'
  OBVIOUS
<1>1. /\ shell \in Threads /\ timer_thread \in Threads /\ shell # timer_thread
      /\ pc \in [Threads -> SwLabels]
      /\ sw_ticks \in Ticks /\ sw_wait_ticks \in Ticks /\ 0 \in Ticks
      /\ sw_shell_waiting \in BOOLEAN /\ sw_timer_scheduled \in BOOLEAN
  <2>1. 0 \in 0 .. MaxWait
    BY StopwatchAssumption
  <2>2. sw_ticks \in Ticks
    BY DEF WaitInv
  <2>3. 0 \in Ticks
    BY <2>1, <2>2, WaitFrom
  <2> QED BY <2>3, Nodes DEF RunInv, WaitInv
<1>2. ASSUME UNCHANGED swVars, pc[shell] = "w_wait" => pc'[shell] = "w_wait"
      PROVE  WaitInv'
  BY <1>2 DEF WaitInv, swVars
<1>3. CASE (TimerCheck \/ TimerTake \/ TimerPublish) /\ UNCHANGED swVars
  <2>1. pc'[shell] = pc[shell]
    <3>1. pc' = pc \/ \E l \in {"p_take", "p_publish", "check", "fire"} :
                        pc' = [pc EXCEPT ![timer_thread] = l]
      BY <1>3 DEF TimerCheck, TimerTake, TimerPublish, Goto
    <3> QED BY <1>1, <3>1
  <2> QED BY <1>2, <1>3, <2>1
<1>4. CASE SwTimerRun
  <2>1. pc'[shell] = pc[shell]
    BY <1>1, <1>4 DEF SwTimerRun, Goto
  <2>2. CASE ~sw_timer_scheduled
    BY <1>2, <1>4, <2>1, <2>2 DEF SwTimerRun
  <2>3. CASE sw_timer_scheduled
    <3> DEFINE ticks == Add(sw_ticks, 1)
               done == sw_shell_waiting /\ TicksOccurred(sw_wait_ticks, ticks)
    <3>1. /\ sw_ticks' = ticks /\ UNCHANGED <<sw_timer_scheduled, sw_wait_ticks>>
          /\ sw_shell_waiting' = (sw_shell_waiting /\ ~done)
          /\ sw_cv' = IF done /\ sw_cv = "waiting" THEN "signalled" ELSE sw_cv
      BY <1>4, <2>3 DEF SwTimerRun
    <3>2. ticks \in Ticks /\ (Sub(sw_wait_ticks, sw_ticks) <= MaxWait
                               /\ ~TicksOccurred(sw_wait_ticks, ticks)
                                => Sub(sw_wait_ticks, ticks) <= MaxWait)
      BY <1>1, WaitTick
    <3>3. CASE done
      <4>1. sw_shell_waiting' = FALSE
        BY <3>1, <3>3
      <4>2. sw_cv' # "waiting"
        BY <3>1, <3>3
      <4> HIDE DEF ticks, done
      <4> QED BY <1>1, <3>1, <3>2, <4>1, <4>2 DEF WaitInv
    <3>4. CASE ~done
      <4>1. sw_shell_waiting' = sw_shell_waiting
        BY <1>1, <3>1, <3>4
      <4>2. sw_cv' = sw_cv
        BY <3>1, <3>4
      <4>3. sw_cv = "waiting" => Sub(sw_wait_ticks, ticks) <= MaxWait
        BY <3>2, <3>4 DEF WaitInv
      <4> HIDE DEF ticks, done
      <4> QED BY <1>1, <2>1, <3>1, <3>2, <4>1, <4>2, <4>3 DEF WaitInv
    <3> QED BY <3>3, <3>4
  <2> QED BY <2>2, <2>3
<1>5. CASE SwReschedule
  <2>1. UNCHANGED swVars /\ pc' = [pc EXCEPT ![timer_thread] = "s_insert"]
    BY <1>5 DEF SwReschedule, CallSchedule, Goto
  <2>2. pc'[shell] = pc[shell]
    BY <1>1, <2>1
  <2> QED BY <1>2, <2>1, <2>2
<1>6. ASSUME NEW th \in Threads, Schedule(th) PROVE WaitInv'
  <2>1. /\ UNCHANGED <<sw_ticks, sw_timer_scheduled, sw_shell_waiting, sw_wait_ticks, sw_cv>>
        /\ pc[th] \in {"s_insert", "s_publish", "sw_unlock"}
        /\ \E l \in {"s_publish", "sw_unlock", "p_take", "idle"} : pc' = [pc EXCEPT ![th] = l]
    BY <1>6 DEF Schedule, At, Goto, swVars
  <2>2. pc[shell] = "w_wait" => pc'[shell] = "w_wait"
    BY <1>1, <2>1
  <2> QED BY <2>1, <2>2 DEF WaitInv
<1>7. CASE TickStep
  BY <1>2, <1>7 DEF TickStep, Tick
<1>8. CASE SwStart \/ SwResume \/ SwStop
  <2>1. /\ pc[shell] = "idle" /\ UNCHANGED <<sw_shell_waiting, sw_wait_ticks, sw_cv>>
        /\ sw_ticks' \in {0, sw_ticks}
    BY <1>8 DEF SwStart, SwResume, SwStop, Command, At
  <2>2. sw_timer_scheduled' \in BOOLEAN
    BY <1>8, Zenon DEF SwStart, SwResume, SwStop
  <2>3. sw_cv # "waiting"
    BY <2>1 DEF WaitInv
  <2> QED BY <1>1, <2>1, <2>2, <2>3 DEF WaitInv
<1>9. ASSUME NEW d \in 0 .. MaxWait, SwWait(d) PROVE WaitInv'
  <2>1. /\ sw_timer_scheduled /\ sw_wait_ticks' = Add(sw_ticks, d) /\ sw_cv' = "waiting"
        /\ pc' = [pc EXCEPT ![shell] = "w_wait"]
        /\ UNCHANGED <<sw_ticks, sw_timer_scheduled>>
    BY <1>9 DEF SwWait, Goto
  <2>2. sw_shell_waiting'
    BY <1>9, Zenon DEF SwWait
  <2>3. sw_shell_waiting' \in BOOLEAN
    BY <1>9, Zenon DEF SwWait
  <2>4. Add(sw_ticks, d) \in Ticks /\ Sub(Add(sw_ticks, d), sw_ticks) <= MaxWait
    BY <1>1, WaitFrom
  <2>5. pc'[shell] = "w_wait"
    BY <1>1, <2>1
  <2> QED BY <1>1, <2>1, <2>2, <2>3, <2>4, <2>5 DEF WaitInv
<1>10. CASE SwWaitReturn
  <2>1. /\ sw_cv = "signalled" /\ UNCHANGED <<sw_ticks, sw_timer_scheduled, sw_shell_waiting>>
        /\ ~sw_shell_waiting => sw_cv' = "none" /\ sw_wait_ticks' = 0
    BY <1>10 DEF SwWaitReturn
  <2>2. ~sw_shell_waiting
    BY <2>1 DEF WaitInv
  <2> QED BY <1>1, <2>1, <2>2 DEF WaitInv
<1>11. CASE UNCHANGED vars
  BY <1>2, <1>11 DEF vars, timerVars
<1> QED
  BY <1>1, <1>3, <1>4, <1>5, <1>6, <1>7, <1>8, <1>9, <1>10, <1>11 DEF Next, TimerStep

\* While the shell is in sw_wait and has not been signalled, its request is
\* on record, the stopwatch runs, and sw_ticks has not passed the time to wait
\* for, across the wrap-around of sw_ticks.
THEOREM SignalNotMissed == Spec => []WaitNotMissed
<1>1. Init => WaitInv
  <2> SUFFICES ASSUME Init PROVE WaitInv
    OBVIOUS
  <2>1. sw_ticks = 0 /\ sw_wait_ticks = 0 /\ sw_cv = "none"
    BY DEF Init
  <2>2. sw_shell_waiting = FALSE /\ sw_timer_scheduled = FALSE
    BY Zenon DEF Init
  <2>3. 0 \in Ticks
    BY TimerAssumption DEF Ticks, Modulus
  <2> QED BY <2>1, <2>2, <2>3 DEF WaitInv
<1>2. WaitInv => WaitNotMissed
  <2> SUFFICES ASSUME WaitInv, sw_cv = "waiting"
               PROVE  /\ sw_shell_waiting /\ sw_timer_scheduled
                      /\ ~TicksExpired(sw_wait_ticks, sw_ticks)
    BY DEF WaitNotMissed
  <2>1. sw_wait_ticks \in Ticks /\ sw_ticks \in Ticks /\ Sub(sw_wait_ticks, sw_ticks) <= MaxWait
    BY DEF WaitInv
  <2>2. ~TicksExpired(sw_wait_ticks, sw_ticks)
    BY <2>1, WaitTick
  <2> QED BY <2>2 DEF WaitInv
<1>3. RunInv /\ [Next]_vars => RunInv'
  BY RunStep
<1>4. RunInv /\ WaitInv /\ [Next]_vars => WaitInv'
  BY WaitStep
<1> QED BY <1>1, <1>2, <1>3, <1>4, InitRunInv, PTL DEF Spec
=============================================================================
