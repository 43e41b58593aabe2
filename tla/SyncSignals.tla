----------------------------- MODULE SyncSignals ----------------------------
(***************************************************************************)
(* The mutex and the condition variable of Sync with a history variable    *)
(* that counts the calls of condvar_signal and condvar_broadcast.  A call  *)
(* that marks a waiter a second time changes nothing else, and could not   *)
(* be told from no call at all.                                            *)
(***************************************************************************)
EXTENDS Sync

VARIABLE due   \* how many of the threads on cwaiters a signal was given for

signalvars == <<vars, due>>

SignalsInit == Init /\ due = 0

\* A signal is for one waiter and a broadcast for all of them; a thread that
\* leaves condvar_wait has used one.
SignalsNext ==
  \E t \in Thread :
    \/ /\ \/ MutexLock(t) \/ MutexWoken(t) \/ MutexTrylock(t) \/ MutexUnlock(t)
          \/ CondvarWait(t) \/ SpuriousWakeup(t)
       /\ UNCHANGED due
    \/ CondvarSignal(t) /\ due' = due + 1
    \/ CondvarBroadcast(t) /\ due' = Len(cwaiters)
    \/ CondvarWoken(t) /\ due' = IF awaken[t] THEN due - 1 ELSE due

SignalsSpec == SignalsInit /\ [][SignalsNext]_signalvars

\* Every signal releases a waiter of its own, in the order in which they wait:
\* after n signals the first n waiters are marked and awake, although
\* condvar_signal leaves them on the list until they run, and no other is.
SignalsReachWaiters ==
  /\ due \in 0 .. Len(cwaiters)
  /\ \A i \in 1 .. Len(cwaiters) : awaken[cwaiters[i]] <=> i <= due
  /\ \A i \in 1 .. due : state[cwaiters[i]] = "RUNNING"
=============================================================================
