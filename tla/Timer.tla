-------------------------------- MODULE Timer --------------------------------
(***************************************************************************)
(* The timers of src/src/timer.c: the tick counter and its wrap-around,    *)
(* the sorted list, the two variables that the timer interrupt reads, and  *)
(* the timer thread.                                                       *)
(*                                                                         *)
(* A step is the code between two points at which the interrupt or another *)
(* thread can be observed.  timer_mutex is a lock with an owner (Sync shows *)
(* that mutex.c implements one), so a critical section during which        *)
(* nothing it publishes changes is one step.                               *)
(***************************************************************************)
EXTENDS Integers, Sequences, FiniteSets, List

CONSTANTS
  Timer,         \* struct timer objects; their node is their first member
  timer_list,    \* the head of the list
  timer_thread,
  Client,        \* the other threads that call timer_schedule
  NULL,
  HalfRange,     \* 2^31: ticks are counted modulo 2 * HalfRange
  MaxDelay,      \* bound on how far ahead a timer is scheduled
  MaxLate        \* bound on how late a timer is when it is processed

ASSUME TimerAssumption ==
  /\ IsFiniteSet(Timer) /\ timer_list \notin Timer /\ NULL \notin Timer
  /\ timer_thread \notin Client /\ NULL \notin Client \cup {timer_thread}
  /\ HalfRange \in Nat /\ MaxDelay \in Nat /\ MaxLate \in Nat
  /\ MaxDelay + MaxLate + 1 < HalfRange

VARIABLES
  timer_ticks,
  timer_list_empty,    \* what the interrupt handler believes
  timer_wakeup_ticks,  \* what the interrupt handler believes
  links,               \* the node members of the timers and of the list head
  time,                \* timer->ticks
  mutex,               \* the owner of timer_mutex, or NULL
  asleep,              \* is the timer thread in thread_sleep?
  pc,
  arg,                 \* the arguments of a call of timer_schedule: the timer
  val,                 \* and its time
  now,                 \* the local of timer_run
  cur,                 \* the local of timer_process_list
  due                  \* ticks left before a timer is due (not in the code)

timerVars == <<timer_ticks, timer_list_empty, timer_wakeup_ticks, links, time,
               mutex, asleep, pc, arg, val, now, cur, due>>

Modulus == 2 * HalfRange
Ticks   == 0 .. Modulus - 1
Node    == Timer \cup {timer_list}
Threads == Client \cup {timer_thread}

-----------------------------------------------------------------------------
(* Time.                                                                   *)

Sub(a, b) == IF a >= b THEN a - b ELSE a - b + Modulus

Add(a, b) == IF a + b < Modulus THEN a + b ELSE a + b - Modulus

\* Faulty variant: times compared as plain numbers.
TicksExpiredPlain(ticks, ref) == ticks < ref

\* TIMER_THRESHOLD is HalfRange - 1.
TicksExpired(ticks, ref)  == Sub(ticks, ref) > HalfRange - 1

\* Faulty variant: only the very tick counts.
TicksOccurredExactly(ticks, ref) == ticks = ref

TicksOccurred(ticks, ref) == ticks = ref \/ TicksExpired(ticks, ref)

WorkPending(ticks) == ~timer_list_empty /\ TicksOccurred(timer_wakeup_ticks, ticks)

-----------------------------------------------------------------------------
(* The list, from its head.                                                *)

\* The timers met when following the next members of h from the head, for as
\* long as each is met for the first time.
Walk(h) ==
  LET walk[k \in 0 .. Cardinality(Timer)] ==
        IF k = 0 THEN <<>>
        ELSE LET s == walk[k - 1]
                 n == h.next[IF s = <<>> THEN timer_list ELSE s[Len(s)]]
             IN  IF n = timer_list \/ \E i \in 1 .. Len(s) : s[i] = n
                 THEN s ELSE Append(s, n)
  IN  walk[Cardinality(Timer)]

Listed == Walk(links)

InList(t) == \E i \in 1 .. Len(Listed) : Listed[i] = t

\* Faulty variant: times compared as plain numbers.
InsertionPointPlain(tm, ticks) ==
  LET later == {i \in 1 .. Len(Listed) : tm[Listed[i]] >= ticks}
  IN  IF later = {} THEN timer_list
      ELSE Listed[CHOOSE i \in later : \A j \in later : i <= j]

\* Where timer_schedule(t, ticks) inserts: before the first timer that is not
\* earlier than ticks, or before the head, at the end.  tm holds the new time
\* of t already.
InsertionPoint(tm, ticks) ==
  LET later == {i \in 1 .. Len(Listed) : ~TicksExpired(tm[Listed[i]], ticks)}
  IN  IF later = {} THEN timer_list
      ELSE Listed[CHOOSE i \in later : \A j \in later : i <= j]

-----------------------------------------------------------------------------
TimerInit ==
  /\ timer_ticks \in Ticks
  /\ timer_list_empty = TRUE
  /\ timer_wakeup_ticks = 0
  /\ links = [next |-> [n \in Node |-> n], prev |-> [n \in Node |-> n]]
  /\ time = [t \in Timer |-> 0]
  /\ mutex = NULL
  /\ asleep = FALSE
  /\ pc = [th \in Threads |-> IF th = timer_thread THEN "check" ELSE "idle"]
  /\ arg = [th \in Threads |-> NULL]
  /\ val = [th \in Threads |-> 0]
  /\ now = 0
  /\ cur = NULL
  /\ due = [t \in Timer |-> 0]

At(th, l) == pc[th] = l /\ ~(th = timer_thread /\ asleep)

Goto(th, l) == pc' = [pc EXCEPT ![th] = l]

\* One turn of the inner loop of timer_run, with interrupts off.
TimerCheck ==
  /\ At(timer_thread, "check")
  /\ IF WorkPending(timer_ticks)
     THEN /\ now' = timer_ticks
          /\ Goto(timer_thread, "p_take")
          /\ UNCHANGED asleep
     ELSE /\ asleep' = TRUE
          /\ UNCHANGED <<now, pc>>
  /\ UNCHANGED <<timer_ticks, timer_list_empty, timer_wakeup_ticks, links, time,
                 mutex, arg, val, cur, due>>

\* timer_process_list, from a mutex_lock to the next unlock: either the first
\* timer has occurred and is taken off the list, or the loop ends with the
\* mutex locked.
TimerTake ==
  LET first == ListFirst(links, timer_list)
  IN  /\ At(timer_thread, "p_take")
      /\ mutex = NULL
      /\ IF ~ListEmpty(links, timer_list) /\ TicksOccurred(time[first], now)
         THEN /\ links' = ListRemove(links, first)
              /\ cur' = first
              /\ Goto(timer_thread, "fire")
              /\ UNCHANGED <<mutex, now>>
         ELSE /\ mutex' = timer_thread
              /\ now' = 0
              /\ Goto(timer_thread, "p_publish")
              /\ UNCHANGED <<links, cur>>
      /\ UNCHANGED <<timer_ticks, timer_list_empty, timer_wakeup_ticks, time,
                     asleep, arg, val, due>>

\* Faulty variant: the time of the next wake-up is not brought up to date.
TimerPublishStale ==
  /\ At(timer_thread, "p_publish")
  /\ timer_list_empty' = ListEmpty(links, timer_list)
  /\ mutex' = NULL
  /\ Goto(timer_thread, "check")
  /\ UNCHANGED <<timer_wakeup_ticks, timer_ticks, links, time, asleep, arg, val,
                 now, cur, due>>

\* The end of timer_process_list: what the interrupt handler reads is brought
\* up to date with interrupts off, and the mutex is unlocked.
TimerPublish ==
  LET empty == ListEmpty(links, timer_list)
  IN  /\ At(timer_thread, "p_publish")
      /\ timer_list_empty' = empty
      /\ timer_wakeup_ticks' =
           IF empty THEN timer_wakeup_ticks ELSE time[ListFirst(links, timer_list)]
      /\ mutex' = NULL
      /\ Goto(timer_thread, "check")
      /\ UNCHANGED <<timer_ticks, links, time, asleep, arg, val, now, cur, due>>

\* timer_schedule by th: the mutex is locked, the time stored, the timer
\* inserted.  ticks is the second argument, due' what it means.
ScheduleInsert(th, t, ticks) ==
  LET tm == [time EXCEPT ![t] = ticks]
  IN  /\ mutex = NULL
      /\ mutex' = th
      /\ time' = tm
      /\ links' = ListInsertBefore(links, InsertionPoint(tm, ticks), t)
      /\ UNCHANGED <<timer_ticks, timer_list_empty, timer_wakeup_ticks, asleep, now, cur>>

\* Faulty variant: the interrupt handler is not told that the list has a timer.
SchedulePublishSilent(th) ==
  /\ timer_wakeup_ticks' = time[ListFirst(links, timer_list)]
  /\ mutex' = NULL
  /\ UNCHANGED <<timer_list_empty, timer_ticks, links, time, asleep, now>>

\* The rest of timer_schedule.
SchedulePublish(th) ==
  /\ timer_list_empty' = FALSE
  /\ timer_wakeup_ticks' = time[ListFirst(links, timer_list)]
  /\ mutex' = NULL
  /\ UNCHANGED <<timer_ticks, links, time, asleep, now>>

\* A timer whose time is still of interest.
Live(t) == InList(t) \/ cur = t \/ \E th \in Threads : arg[th] = t

\* A timer is MaxLate ticks late, or a run of timer_process_list lasts for
\* MaxLate ticks, while a thread is awake that has yet to deal with it.
Overrun ==
  \/ /\ \E t \in Timer : Live(t) /\ due[t] <= -MaxLate
     /\ ~asleep \/ \E th \in Threads : arg[th] # NULL
  \/ pc[timer_thread] \notin {"check", "p_publish"} /\ Sub(timer_ticks, now) >= MaxLate

\* The timer interrupt: timer_report_tick.
Tick ==
  LET ticks == Add(timer_ticks, 1)
  IN  /\ ~Overrun
      /\ timer_ticks' = ticks
      /\ asleep' = (asleep /\ ~WorkPending(ticks))
      /\ due' = [t \in Timer |-> IF ~Live(t) THEN 0
                                ELSE IF due[t] < -MaxLate THEN due[t] ELSE due[t] - 1]
      /\ UNCHANGED <<timer_list_empty, timer_wakeup_ticks, links, time, mutex, pc,
                     arg, val, now, cur>>

-----------------------------------------------------------------------------
(* Callers.  A thread schedules a timer that is not pending, a delay ahead *)
(* of timer_now(); the function of a timer does so too, or does nothing.   *)

Free(t) == ~InList(t) /\ \A th \in Threads : arg[th] # t

\* timer_now() and the call of timer_schedule; the mutex is not locked yet.
ScheduleCall(th, t, delay) ==
  /\ \/ th \in Client /\ At(th, "idle")
     \/ th = timer_thread /\ At(th, "fire")
  /\ Free(t)
  /\ arg' = [arg EXCEPT ![th] = t]
  /\ val' = [val EXCEPT ![th] = Add(timer_ticks, delay)]
  /\ due' = [due EXCEPT ![t] = delay]
  /\ Goto(th, "s_insert")
  /\ UNCHANGED <<timer_ticks, timer_list_empty, timer_wakeup_ticks, links, time,
                 mutex, asleep, now, cur>>

ScheduleStep(th) ==
  \/ /\ At(th, "s_insert")
     /\ ScheduleInsert(th, arg[th], val[th])
     /\ Goto(th, "s_publish")
     /\ UNCHANGED <<arg, val, due>>
  \/ /\ At(th, "s_publish")
     /\ SchedulePublish(th)
     /\ arg' = [arg EXCEPT ![th] = NULL]
     /\ val' = [val EXCEPT ![th] = 0]
     /\ Goto(th, IF th = timer_thread THEN "p_take" ELSE "idle")
     /\ cur' = IF th = timer_thread THEN NULL ELSE cur
     /\ UNCHANGED due

\* The function of the timer returns without scheduling anything.
FireReturn ==
  /\ At(timer_thread, "fire")
  /\ Goto(timer_thread, "p_take")
  /\ cur' = NULL
  /\ UNCHANGED <<timer_ticks, timer_list_empty, timer_wakeup_ticks, links, time,
                 mutex, asleep, arg, val, now, due>>

TimerThread == TimerCheck \/ TimerTake \/ TimerPublish \/ FireReturn

TimerNext ==
  \/ TimerThread
  \/ Tick
  \/ \E th \in Threads : \/ ScheduleStep(th)
                         \/ \E t \in Timer, d \in 0 .. MaxDelay : ScheduleCall(th, t, d)

TimerSpec ==
  /\ TimerInit /\ [][TimerNext]_timerVars
  /\ WF_timerVars(Tick)
  /\ WF_timerVars(TimerThread)
  /\ \A th \in Threads : WF_timerVars(ScheduleStep(th))

-----------------------------------------------------------------------------
TimerTypeOK ==
  /\ timer_ticks \in Ticks /\ timer_wakeup_ticks \in Ticks /\ now \in Ticks
  /\ timer_list_empty \in BOOLEAN /\ asleep \in BOOLEAN
  /\ links \in [next : [Node -> Node], prev : [Node -> Node]]
  /\ time \in [Timer -> Ticks]
  /\ mutex \in Threads \cup {NULL}
  /\ cur \in Timer \cup {NULL}
  /\ arg \in [Threads -> Timer \cup {NULL}]
  /\ val \in [Threads -> Ticks]
  /\ due \in [Timer -> -MaxLate - 1 .. MaxDelay]

\* The list is well linked and sorted by the time left, across the
\* wrap-around of the tick counter.
ListSorted ==
  /\ Represents(links, timer_list, Listed)
  /\ \A i, j \in 1 .. Len(Listed) : i < j => due[Listed[i]] <= due[Listed[j]]

\* The function of a timer is never called before the timer is due, even when
\* its time and the tick counter lie on different sides of the wrap-around.
NeverEarly ==
  [][cur' # cur /\ cur' # NULL => due[cur'] <= 0]_timerVars

\* list.h says of list_remove "Remove a node from a list. After completion,
\* the node is stale": a timer taken by timer_process_list is off the list
\* when its function is called.
TakenIsRemoved ==
  [][pc[timer_thread] = "p_take" /\ pc'[timer_thread] = "fire" => ~InList(cur)']_timerVars

\* Once the timer thread is back in its wait loop and nobody is inside the
\* critical section, the interrupt handler knows the first timer.
InterruptView ==
  mutex = NULL /\ pc[timer_thread] = "check" =>
    /\ timer_list_empty <=> Listed = <<>>
    /\ ~timer_list_empty => timer_wakeup_ticks = time[Listed[1]]

\* Every timer that is scheduled is processed.
TimersFire ==
  \A t \in Timer : InList(t) ~> (pc[timer_thread] = "fire" /\ cur = t)
=============================================================================
