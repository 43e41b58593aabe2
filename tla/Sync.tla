-------------------------------- MODULE Sync --------------------------------
(***************************************************************************)
(* One mutex (src/src/mutex.c) and one condition variable                  *)
(* (src/src/condvar.c) shared by a set of threads.                         *)
(*                                                                         *)
(* Both are implemented by disabling preemption, so the code between two   *)
(* calls to thread_sleep, or up to thread_preempt_enable, is one step:     *)
(* Thread!SectionsAreAtomic says that nothing else runs in between.  Any   *)
(* thread in the RUNNING state may take the next step.                     *)
(***************************************************************************)
EXTENDS Integers, Sequences, Functions, List

CONSTANTS Thread, NULL

ASSUME SyncAssumption == NULL \notin Thread

VARIABLES
  state,      \* thread->state
  pc,         \* where each thread is
  locked,     \* mutex->locked
  owner,      \* mutex->owner
  mwaiters,   \* mutex->waiters: the threads of the queued waiters
  cwaiters,   \* condvar->waiters: the threads of the queued waiters
  awaken      \* the awaken member of the condvar waiter of each thread

vars == <<state, pc, locked, owner, mwaiters, cwaiters, awaken>>

\* "out" and "in": outside of and inside the critical section; "m_sleep" and
\* "c_sleep": in the loops around thread_sleep of mutex_lock and condvar_wait;
\* "relock": condvar_wait about to lock the mutex again.
PC == {"out", "in", "m_sleep", "c_sleep", "relock"}

TypeOK ==
  /\ state \in [Thread -> {"RUNNING", "SLEEPING"}]
  /\ pc \in [Thread -> PC]
  /\ locked \in BOOLEAN
  /\ owner \in Thread \cup {NULL}
  /\ mwaiters \in Seq(Thread)
  /\ cwaiters \in Seq(Thread)
  /\ awaken \in [Thread -> BOOLEAN]

Init ==
  /\ state = [t \in Thread |-> "RUNNING"]
  /\ pc = [t \in Thread |-> "out"]
  /\ locked = FALSE
  /\ owner = NULL
  /\ mwaiters = <<>>
  /\ cwaiters = <<>>
  /\ awaken = [t \in Thread |-> FALSE]

-----------------------------------------------------------------------------
At(t, l) == state[t] = "RUNNING" /\ pc[t] = l

Goto(t, l) == pc' = [pc EXCEPT ![t] = l]

SetOwner(t) == owner' = t /\ locked' = TRUE
ClearOwner  == owner' = NULL /\ locked' = FALSE

\* Faulty variant: the last waiter is woken up.
LastWaiterWoken ==
  IF mwaiters = <<>> THEN state
  ELSE [state EXCEPT ![mwaiters[Len(mwaiters)]] = "RUNNING"]

\* The state of the threads once the first waiter of the mutex was woken up.
FirstWaiterWoken ==
  IF mwaiters = <<>> THEN state ELSE [state EXCEPT ![Head(mwaiters)] = "RUNNING"]

\* mutex_lock up to the first thread_sleep, or to its end.
MutexLock(t) ==
  /\ \E l \in {"out", "relock"} : At(t, l)
  /\ IF locked
     THEN /\ mwaiters' = Append(mwaiters, t)
          /\ state' = [state EXCEPT ![t] = "SLEEPING"]
          /\ Goto(t, "m_sleep")
          /\ UNCHANGED <<locked, owner>>
     ELSE /\ SetOwner(t)
          /\ Goto(t, "in")
          /\ UNCHANGED <<mwaiters, state>>
  /\ UNCHANGED <<cwaiters, awaken>>

\* Faulty variant: "if" instead of "while" around the sleep of mutex_lock.
MutexWokenOnce(t) ==
  /\ At(t, "m_sleep")
  /\ mwaiters' = Unlink(mwaiters, t)
  /\ SetOwner(t)
  /\ Goto(t, "in")
  /\ UNCHANGED <<state, cwaiters, awaken>>

\* One turn of the loop of mutex_lock, after thread_sleep returned.
MutexWoken(t) ==
  /\ At(t, "m_sleep")
  /\ IF locked
     THEN /\ state' = [state EXCEPT ![t] = "SLEEPING"]
          /\ UNCHANGED <<mwaiters, locked, owner, pc>>
     ELSE /\ mwaiters' = Unlink(mwaiters, t)
          /\ SetOwner(t)
          /\ Goto(t, "in")
          /\ UNCHANGED state
  /\ UNCHANGED <<cwaiters, awaken>>

\* mutex_trylock; it changes nothing when the mutex is locked (ERROR_BUSY).
MutexTrylock(t) ==
  /\ At(t, "out")
  /\ ~locked
  /\ SetOwner(t)
  /\ Goto(t, "in")
  /\ UNCHANGED <<state, mwaiters, cwaiters, awaken>>

\* Faulty variant: the ownership is handed over to the first waiter.
MutexUnlockHandsOver(t) ==
  /\ At(t, "in")
  /\ IF mwaiters = <<>> THEN ClearOwner ELSE SetOwner(Head(mwaiters))
  /\ state' = FirstWaiterWoken
  /\ Goto(t, "out")
  /\ UNCHANGED <<mwaiters, cwaiters, awaken>>

\* mutex_unlock.  The waiter that is woken up stays on the list.
MutexUnlock(t) ==
  /\ At(t, "in")
  /\ ClearOwner
  /\ state' = FirstWaiterWoken
  /\ Goto(t, "out")
  /\ UNCHANGED <<mwaiters, cwaiters, awaken>>

\* condvar_wait up to its first thread_sleep, the mutex_unlock included.
CondvarWait(t) ==
  /\ At(t, "in")
  /\ ClearOwner
  /\ cwaiters' = Append(cwaiters, t)
  /\ awaken' = [awaken EXCEPT ![t] = FALSE]
  /\ state' = [FirstWaiterWoken EXCEPT ![t] = "SLEEPING"]
  /\ Goto(t, "c_sleep")
  /\ UNCHANGED mwaiters

\* One turn of the loop of condvar_wait, after thread_sleep returned.
CondvarWoken(t) ==
  /\ At(t, "c_sleep")
  /\ IF awaken[t]
     THEN /\ cwaiters' = Unlink(cwaiters, t)
          /\ Goto(t, "relock")
          /\ UNCHANGED state
     ELSE /\ state' = [state EXCEPT ![t] = "SLEEPING"]
          /\ UNCHANGED <<cwaiters, pc>>
  /\ UNCHANGED <<locked, owner, mwaiters, awaken>>

Asleep == {i \in 1 .. Len(cwaiters) : ~awaken[cwaiters[i]]}

\* Faulty variant: the first waiter, awaken before or not.
CondvarSignalAgain(t) ==
  /\ \E l \in {"out", "in"} : At(t, l)
  /\ Asleep # {}
  /\ awaken' = [awaken EXCEPT ![Head(cwaiters)] = TRUE]
  /\ state' = [state EXCEPT ![Head(cwaiters)] = "RUNNING"]
  /\ UNCHANGED <<pc, locked, owner, mwaiters, cwaiters>>

\* condvar_signal by t: the first waiter that was not awaken before.
CondvarSignal(t) ==
  /\ \E l \in {"out", "in"} : At(t, l)
  /\ Asleep # {}
  /\ LET w == cwaiters[CHOOSE i \in Asleep : \A j \in Asleep : i <= j]
     IN  /\ awaken' = [awaken EXCEPT ![w] = TRUE]
         /\ state' = [state EXCEPT ![w] = "RUNNING"]
  /\ UNCHANGED <<pc, locked, owner, mwaiters, cwaiters>>

CondvarBroadcast(t) ==
  /\ \E l \in {"out", "in"} : At(t, l)
  /\ Asleep # {}
  /\ LET ws == {cwaiters[i] : i \in Asleep}
     IN  /\ awaken' = [u \in Thread |-> awaken[u] \/ u \in ws]
         /\ state' = [u \in Thread |-> IF u \in ws THEN "RUNNING" ELSE state[u]]
  /\ UNCHANGED <<pc, locked, owner, mwaiters, cwaiters>>

\* A wake-up meant for something else: timer_report_tick wakes the timer
\* thread whatever it sleeps on.
SpuriousWakeup(t) ==
  /\ state[t] = "SLEEPING"
  /\ state' = [state EXCEPT ![t] = "RUNNING"]
  /\ UNCHANGED <<pc, locked, owner, mwaiters, cwaiters, awaken>>

Next ==
  \E t \in Thread :
    \/ MutexLock(t) \/ MutexWoken(t) \/ MutexTrylock(t) \/ MutexUnlock(t)
    \/ CondvarWait(t) \/ CondvarWoken(t)
    \/ CondvarSignal(t) \/ CondvarBroadcast(t) \/ SpuriousWakeup(t)

Spec == Init /\ [][Next]_vars

-----------------------------------------------------------------------------
\* mutex.h: at most one thread is inside the critical section, and it is the
\* recorded owner; the assertions of mutex_set_owner and mutex_clear_owner
\* hold, in particular in a thread that took the mutex from a woken waiter.
MutualExclusion ==
  /\ \A t \in Thread : pc[t] = "in" <=> owner = t
  /\ locked <=> owner # NULL

\* When the mutex is free and threads wait for it, the first waiter is
\* awake: no interleaving of barging threads, of threads unlocking through
\* condvar_wait and of spurious wake-ups strands the waiters.
WaitersNotStranded ==
  ~locked /\ mwaiters # <<>> => state[Head(mwaiters)] = "RUNNING"

\* The lists hold exactly the threads in the two waiting loops, once each:
\* a waiter lives on the stack of its thread and is gone when the call is.
WaitersExact ==
  /\ IsInjective(mwaiters) /\ IsInjective(cwaiters)
  /\ \A t \in Thread : Linked(mwaiters, t) <=> pc[t] = "m_sleep"
  /\ \A t \in Thread : Linked(cwaiters, t) <=> pc[t] = "c_sleep"

Asleeping == {t \in Thread : pc[t] = "c_sleep" /\ ~awaken[t]}

Monitor == INSTANCE AbstractMonitor WITH holder <- owner, waiting <- Asleeping

\* The mutex and the condition variable implement the abstract monitor.
ImplementsMonitor == Monitor!Spec
=============================================================================
