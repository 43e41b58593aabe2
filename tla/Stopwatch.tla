------------------------------ MODULE Stopwatch ------------------------------
(***************************************************************************)
(* The stopwatch of src/src/sw.c on top of the timers: the shell thread,   *)
(* which runs the sw_ commands one after the other, the function of        *)
(* sw_timer, which the timer thread calls, sw_mutex and sw_cv.             *)
(*                                                                         *)
(* The mutex and the condition variable behave as AbstractMonitor says.    *)
(* Priorities are left out: any thread that can take a step may take it.   *)
(***************************************************************************)
EXTENDS Timer

CONSTANTS
  sw_timer,
  shell,
  MaxWait      \* bound on the ticks sw_wait waits for (SW_MAX_WAIT seconds)

ASSUME StopwatchAssumption ==
  /\ Timer = {sw_timer} /\ Client = {shell}
  /\ MaxWait \in Nat /\ MaxWait < HalfRange /\ MaxDelay >= 1

VARIABLES
  sw_mutex,             \* its owner, or NULL
  sw_ticks,
  sw_timer_scheduled,
  sw_shell_waiting,
  sw_wait_ticks,
  sw_cv                 \* the shell: "none", "waiting" or "signalled"

swVars == <<sw_mutex, sw_ticks, sw_timer_scheduled, sw_shell_waiting,
            sw_wait_ticks, sw_cv>>
vars == <<timerVars, swVars>>

\* The variables of Timer that the steps of sw.c itself never change.
queueVars == <<timer_ticks, timer_list_empty, timer_wakeup_ticks, links, time,
               mutex, asleep, now>>

Init ==
  /\ TimerInit
  /\ sw_mutex = NULL
  /\ sw_ticks = 0
  /\ sw_timer_scheduled = FALSE
  /\ sw_shell_waiting = FALSE
  /\ sw_wait_ticks = 0
  /\ sw_cv = "none"

-----------------------------------------------------------------------------
\* Prepare the call timer_schedule(&sw_timer, ticks) of th; left is the time
\* left before it is due.
CallSchedule(th, ticks, left) ==
  /\ arg' = [arg EXCEPT ![th] = sw_timer]
  /\ val' = [val EXCEPT ![th] = ticks]
  /\ due' = [due EXCEPT ![sw_timer] = left]
  /\ Goto(th, "s_insert")
  /\ UNCHANGED <<queueVars, cur>>

\* timer_schedule, and the mutex_unlock(&sw_mutex) that follows every call.
Schedule(th) ==
  \/ /\ At(th, "s_insert")
     /\ ScheduleInsert(th, arg[th], val[th])
     /\ Goto(th, "s_publish")
     /\ UNCHANGED <<arg, val, due, swVars>>
  \/ /\ At(th, "s_publish")
     /\ SchedulePublish(th)
     /\ arg' = [arg EXCEPT ![th] = NULL]
     /\ val' = [val EXCEPT ![th] = 0]
     /\ Goto(th, "sw_unlock")
     /\ UNCHANGED <<cur, due, swVars>>
  \/ /\ At(th, "sw_unlock")
     /\ sw_mutex' = NULL
     /\ Goto(th, IF th = timer_thread THEN "p_take" ELSE "idle")
     /\ cur' = IF th = timer_thread THEN NULL ELSE cur
     /\ UNCHANGED <<queueVars, arg, val, due, sw_ticks, sw_timer_scheduled,
                    sw_shell_waiting, sw_wait_ticks, sw_cv>>

\* sw_timer_run up to timer_get_time.
SwTimerRun ==
  /\ At(timer_thread, "fire")
  /\ sw_mutex = NULL
  /\ IF ~sw_timer_scheduled
     THEN /\ Goto(timer_thread, "p_take")
          /\ cur' = NULL
          /\ UNCHANGED swVars
     ELSE LET ticks == Add(sw_ticks, 1)
              done  == sw_shell_waiting /\ TicksOccurred(sw_wait_ticks, ticks)
          IN  /\ sw_mutex' = timer_thread
              /\ sw_ticks' = ticks
              /\ sw_shell_waiting' = (sw_shell_waiting /\ ~done)
              /\ sw_cv' = IF done /\ sw_cv = "waiting" THEN "signalled" ELSE sw_cv
              /\ Goto(timer_thread, "sw_get_time")
              /\ UNCHANGED <<sw_timer_scheduled, sw_wait_ticks, cur>>
  /\ UNCHANGED <<queueVars, arg, val, due>>

\* Faulty variant: the timer is not scheduled again.
SwRescheduleLost ==
  /\ At(timer_thread, "sw_get_time")
  /\ mutex = NULL
  /\ Goto(timer_thread, "sw_unlock")
  /\ UNCHANGED <<queueVars, arg, val, due, cur, swVars>>

\* timer_get_time, under timer_mutex, and the call of timer_schedule.
SwReschedule ==
  /\ At(timer_thread, "sw_get_time")
  /\ mutex = NULL
  /\ CallSchedule(timer_thread, Add(time[sw_timer], 1), due[sw_timer] + 1)
  /\ UNCHANGED swVars

-----------------------------------------------------------------------------
(* The commands of the shell.  sw_start does nothing when the stopwatch    *)
(* runs, sw_wait does nothing when it does not, sw_read never changes      *)
(* anything.                                                               *)

Command == At(shell, "idle") /\ sw_mutex = NULL

SwStart ==
  /\ Command
  /\ ~sw_timer_scheduled
  /\ sw_mutex' = shell
  /\ sw_ticks' = 0
  /\ sw_timer_scheduled' = TRUE
  /\ CallSchedule(shell, Add(timer_ticks, 1), 1)
  /\ UNCHANGED <<sw_shell_waiting, sw_wait_ticks, sw_cv>>

SwStop ==
  /\ Command
  /\ sw_timer_scheduled' = FALSE
  /\ UNCHANGED <<timerVars, sw_mutex, sw_ticks, sw_shell_waiting, sw_wait_ticks, sw_cv>>

SwResume ==
  /\ Command
  /\ sw_mutex' = shell
  /\ sw_timer_scheduled' = TRUE
  /\ CallSchedule(shell, Add(timer_ticks, 1), 1)
  /\ UNCHANGED <<sw_ticks, sw_shell_waiting, sw_wait_ticks, sw_cv>>

\* sw_shell_wait up to the point where condvar_wait has released sw_mutex.
SwWait(ticks) ==
  /\ Command
  /\ sw_timer_scheduled
  /\ sw_shell_waiting' = TRUE
  /\ sw_wait_ticks' = Add(sw_ticks, ticks)
  /\ sw_cv' = "waiting"
  /\ Goto(shell, "w_wait")
  /\ UNCHANGED <<queueVars, arg, val, cur, due, sw_mutex, sw_ticks, sw_timer_scheduled>>

\* condvar_wait has locked sw_mutex again: wait once more, or unlock it. (The
\* next sw_wait sets sw_wait_ticks before it is read again.)
SwWaitReturn ==
  /\ At(shell, "w_wait")
  /\ sw_cv = "signalled"
  /\ sw_mutex = NULL
  /\ IF sw_shell_waiting
     THEN sw_cv' = "waiting" /\ UNCHANGED pc
     ELSE sw_cv' = "none" /\ Goto(shell, "idle")
  /\ sw_wait_ticks' = IF sw_shell_waiting THEN sw_wait_ticks ELSE 0
  /\ UNCHANGED <<queueVars, arg, val, cur, due, sw_mutex, sw_ticks,
                 sw_timer_scheduled, sw_shell_waiting>>

-----------------------------------------------------------------------------
TimerStep ==
  \/ (TimerCheck \/ TimerTake \/ TimerPublish) /\ UNCHANGED swVars
  \/ SwTimerRun \/ SwReschedule \/ Schedule(timer_thread)

TickStep == Tick /\ UNCHANGED swVars

Next ==
  \/ TimerStep \/ TickStep
  \/ Schedule(shell) \/ SwWaitReturn
  \/ SwStart \/ SwStop \/ SwResume \/ \E d \in 0 .. MaxWait : SwWait(d)

\* The timer thread and the interrupt keep going.  The timer thread sleeps
\* between ticks, and the processor is the shell's then, so the shell gets
\* the mutexes it asks for (strong fairness).
Spec ==
  /\ Init /\ [][Next]_vars
  /\ WF_vars(TimerStep)
  /\ WF_vars(TickStep)
  /\ SF_vars(Schedule(shell) \/ SwWaitReturn)

-----------------------------------------------------------------------------
TypeOK ==
  /\ TimerTypeOK
  /\ sw_mutex \in Threads \cup {NULL}
  /\ sw_ticks \in Ticks /\ sw_wait_ticks \in Ticks
  /\ sw_timer_scheduled \in BOOLEAN /\ sw_shell_waiting \in BOOLEAN
  /\ sw_cv \in {"none", "waiting", "signalled"}

\* A running stopwatch is never forgotten: when nobody holds sw_mutex, its
\* timer is on the list or its function is about to be called, whatever order
\* sw_start, sw_stop and sw_resume came in.
RunningHasTimer ==
  sw_timer_scheduled /\ sw_mutex = NULL =>
    InList(sw_timer) \/ pc[timer_thread] = "fire"

\* The signal for sw_wait is not missed: as long as the shell waits without
\* having been signalled, its request is on record, the stopwatch runs, and
\* the count has not passed the time to wait for.
WaitNotMissed ==
  sw_cv = "waiting" =>
    /\ sw_shell_waiting /\ sw_timer_scheduled
    /\ ~TicksExpired(sw_wait_ticks, sw_ticks)

\* sw_wait returns.
WaitReturns == pc[shell] = "w_wait" ~> pc[shell] = "idle"
=============================================================================
