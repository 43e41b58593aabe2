--------------------------- MODULE AbstractMonitor ---------------------------
(***************************************************************************)
(* What mutex.h and condvar.h promise together, without queues or sleeping *)
(* threads: a mutex has at most one holder, waiting releases the mutex and *)
(* starts waiting in one step, a signal releases at least one of the       *)
(* waiting threads if there are any, and a thread that was released takes  *)
(* the mutex again before its wait is over.                                *)
(***************************************************************************)
CONSTANTS Thread, NULL

VARIABLES
  holder,    \* the thread that holds the mutex, or NULL
  waiting    \* the threads waiting for a signal

vars == <<holder, waiting>>

Init == holder = NULL /\ waiting = {}

Acquire(t) == holder = NULL /\ t \notin waiting /\ holder' = t /\ UNCHANGED waiting
Release(t) == holder = t /\ holder' = NULL /\ UNCHANGED waiting
Wait(t)    == holder = t /\ holder' = NULL /\ waiting' = waiting \cup {t}

Signal ==
  \E w \in SUBSET waiting : w # {} /\ waiting' = waiting \ w /\ UNCHANGED holder

Next ==
  \/ \E t \in Thread : Acquire(t) \/ Release(t) \/ Wait(t)
  \/ Signal

Spec == Init /\ [][Next]_vars
=============================================================================
