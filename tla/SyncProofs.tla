----------------------------- MODULE SyncProofs -----------------------------
(***************************************************************************)
(* Proofs about the mutex and the condition variable of modules Sync and   *)
(* SyncSignals, for any set of threads.                                    *)
(***************************************************************************)
EXTENDS SyncSignals, Basics

-----------------------------------------------------------------------------
\* Appending a new element to a sequence without duplicates adds just it.
LEMMA AppendNew ==
  ASSUME NEW s \in Seq(Thread), IsInjective(s), NEW t \in Thread, ~Linked(s, t)
  PROVE  /\ Append(s, t) \in Seq(Thread)
         /\ IsInjective(Append(s, t))
         /\ \A u : Linked(Append(s, t), u) <=> Linked(s, u) \/ u = t
BY DEF IsInjective, Linked

\* The first waiter is one of the waiters.
LEMMA HeadContained ==
  ASSUME NEW s \in Seq(Thread), s # <<>>
  PROVE  Head(s) \in Thread /\ Linked(s, Head(s))
BY DEF Linked

-----------------------------------------------------------------------------
\* Only the two waiting loops sleep.
SleepersWait ==
  \A t \in Thread : state[t] = "SLEEPING" => pc[t] \in {"m_sleep", "c_sleep"}

\* A waiter of the condition variable that was signalled is awake.
SignalledIsAwake ==
  \A t \in Thread : pc[t] = "c_sleep" /\ awaken[t] => state[t] = "RUNNING"

\* The inductive invariant.  Each conjunct needs others: WaitersExact says that
\* the node list_remove unlinks is on its list, and that the thread going to
\* sleep is not the first waiter for the mutex; SleepersWait that the one
\* taking it is awake.
IInv ==
  /\ TypeOK
  /\ MutualExclusion
  /\ WaitersExact
  /\ SignalledIsAwake
  /\ SleepersWait
  /\ WaitersNotStranded

\* The fresh mutex and condition variable satisfy the invariant.
LEMMA InitIInv == Init => IInv
<1> SUFFICES ASSUME Init PROVE IInv
  OBVIOUS
<1> USE DEF Init
<1>1. TypeOK
  <2>1. awaken \in [Thread -> BOOLEAN] /\ locked \in BOOLEAN
    BY Zenon
  <2>2. /\ state \in [Thread -> {"RUNNING", "SLEEPING"}]
        /\ pc \in [Thread -> PC]
        /\ owner \in Thread \cup {NULL}
        /\ mwaiters \in Seq(Thread) /\ cwaiters \in Seq(Thread)
    BY DEF PC
  <2> QED BY <2>1, <2>2 DEF TypeOK
<1>2. MutualExclusion
  BY SyncAssumption DEF MutualExclusion
<1>3. WaitersExact
  BY DEF WaitersExact, IsInjective, Linked
<1>4. SignalledIsAwake /\ SleepersWait /\ WaitersNotStranded
  BY DEF SignalledIsAwake, SleepersWait, WaitersNotStranded
<1> QED BY <1>1, <1>2, <1>3, <1>4 DEF IInv

\* The state of the threads after mutex_unlock woke the first waiter up.
LEMMA FirstWaiterWokenType ==
  ASSUME TypeOK
  PROVE  /\ FirstWaiterWoken \in [Thread -> {"RUNNING", "SLEEPING"}]
         /\ \A t \in Thread : \/ FirstWaiterWoken[t] = state[t]
                              \/ FirstWaiterWoken[t] = "RUNNING"
         /\ mwaiters # <<>> => FirstWaiterWoken[Head(mwaiters)] = "RUNNING"
<1>1. CASE mwaiters = <<>>
  BY <1>1 DEF FirstWaiterWoken, TypeOK
<1>2. CASE mwaiters # <<>>
  <2>1. Head(mwaiters) \in Thread
    BY <1>2, HeadContained DEF TypeOK
  <2> QED BY <1>2, <2>1 DEF FirstWaiterWoken, TypeOK
<1> QED BY <1>1, <1>2

\* Locking preserves the invariant.
LEMMA LockIInv ==
  ASSUME IInv, NEW t \in Thread, MutexLock(t)
  PROVE  IInv'
<1> USE DEF IInv, At
<1>0. TypeOK /\ state[t] = "RUNNING" /\ pc[t] \in {"out", "relock"}
  BY DEF MutexLock
<1>1. CASE locked
  <2>1. /\ mwaiters' = Append(mwaiters, t)
        /\ state' = [state EXCEPT ![t] = "SLEEPING"]
        /\ pc' = [pc EXCEPT ![t] = "m_sleep"]
        /\ UNCHANGED <<locked, owner, cwaiters, awaken>>
    BY <1>1 DEF MutexLock, Goto
  <2>2. ~Linked(mwaiters, t)
    BY <1>0 DEF WaitersExact
  <2>3. /\ mwaiters' \in Seq(Thread)
        /\ IsInjective(mwaiters')
        /\ \A u : Linked(mwaiters', u) <=> Linked(mwaiters, u) \/ u = t
    BY <1>0, <2>1, <2>2, AppendNew DEF WaitersExact, TypeOK
  <2>4. TypeOK'
    BY <1>0, <2>1, <2>3 DEF TypeOK, PC
  <2>5. MutualExclusion'
    BY <1>0, <2>1 DEF MutualExclusion, TypeOK
  <2>6. WaitersExact'
    BY <1>0, <2>1, <2>3 DEF WaitersExact, TypeOK
  <2>7. SignalledIsAwake' /\ SleepersWait' /\ WaitersNotStranded'
    BY <1>0, <1>1, <2>1 DEF SignalledIsAwake, SleepersWait, WaitersNotStranded, TypeOK
  <2> QED BY <2>4, <2>5, <2>6, <2>7
<1>2. CASE ~locked
  <2>1. /\ owner' = t /\ locked' = TRUE
        /\ pc' = [pc EXCEPT ![t] = "in"]
        /\ UNCHANGED <<mwaiters, state, cwaiters, awaken>>
    BY <1>2 DEF MutexLock, Goto, SetOwner
  <2>2. TypeOK'
    BY <1>0, <2>1 DEF TypeOK, PC
  <2>3. MutualExclusion'
    BY <1>0, <1>2, <2>1, SyncAssumption DEF MutualExclusion, TypeOK
  <2>4. WaitersExact'
    BY <1>0, <2>1 DEF WaitersExact, TypeOK
  <2>5. SignalledIsAwake' /\ SleepersWait' /\ WaitersNotStranded'
    BY <1>0, <2>1 DEF SignalledIsAwake, SleepersWait, WaitersNotStranded, TypeOK
  <2> QED BY <2>2, <2>3, <2>4, <2>5
<1> QED BY <1>1, <1>2

\* The loop of mutex_lock preserves the invariant.
LEMMA WokenIInv ==
  ASSUME IInv, NEW t \in Thread, MutexWoken(t)
  PROVE  IInv'
<1> USE DEF IInv, At
<1>0. TypeOK /\ state[t] = "RUNNING" /\ pc[t] = "m_sleep"
  BY DEF MutexWoken
<1>1. CASE locked
  <2>1. /\ state' = [state EXCEPT ![t] = "SLEEPING"]
        /\ UNCHANGED <<mwaiters, pc, locked, owner, cwaiters, awaken>>
    BY <1>1 DEF MutexWoken
  <2>2. TypeOK'
    BY <1>0, <2>1 DEF TypeOK
  <2>3. MutualExclusion' /\ WaitersExact'
    BY <2>1 DEF MutualExclusion, WaitersExact
  <2>4. SignalledIsAwake' /\ SleepersWait' /\ WaitersNotStranded'
    BY <1>0, <1>1, <2>1 DEF SignalledIsAwake, SleepersWait, WaitersNotStranded, TypeOK
  <2> QED BY <2>2, <2>3, <2>4
<1>2. CASE ~locked
  <2>1. /\ mwaiters' = Unlink(mwaiters, t)
        /\ owner' = t /\ locked' = TRUE
        /\ pc' = [pc EXCEPT ![t] = "in"]
        /\ UNCHANGED <<state, cwaiters, awaken>>
    BY <1>2 DEF MutexWoken, Goto, SetOwner
  <2>2. Linked(mwaiters, t)
    BY <1>0 DEF WaitersExact
  <2>3. /\ mwaiters' \in Seq(Thread)
        /\ IsInjective(mwaiters')
        /\ \A u : Linked(mwaiters', u) <=> Linked(mwaiters, u) /\ u # t
    BY <1>0, <2>1, <2>2, UnlinkProperties DEF WaitersExact, TypeOK
  <2>4. TypeOK'
    BY <1>0, <2>1, <2>3 DEF TypeOK, PC
  <2>5. MutualExclusion'
    BY <1>0, <1>2, <2>1, SyncAssumption DEF MutualExclusion, TypeOK
  <2>6. WaitersExact'
    BY <1>0, <2>1, <2>3 DEF WaitersExact, TypeOK
  <2>7. SignalledIsAwake' /\ SleepersWait' /\ WaitersNotStranded'
    BY <1>0, <2>1 DEF SignalledIsAwake, SleepersWait, WaitersNotStranded, TypeOK
  <2> QED BY <2>4, <2>5, <2>6, <2>7
<1> QED BY <1>1, <1>2

\* mutex_trylock preserves the invariant.
LEMMA TrylockIInv ==
  ASSUME IInv, NEW t \in Thread, MutexTrylock(t)
  PROVE  IInv'
<1> USE DEF IInv
<1>1. /\ TypeOK /\ state[t] = "RUNNING" /\ pc[t] = "out" /\ ~locked
      /\ owner' = t /\ locked' = TRUE
      /\ pc' = [pc EXCEPT ![t] = "in"]
      /\ UNCHANGED <<mwaiters, state, cwaiters, awaken>>
  BY DEF MutexTrylock, At, Goto, SetOwner
<1>2. TypeOK'
  BY <1>1 DEF TypeOK, PC
<1>3. MutualExclusion'
  BY <1>1, SyncAssumption DEF MutualExclusion, TypeOK
<1>4. WaitersExact'
  BY <1>1 DEF WaitersExact, TypeOK
<1>5. SignalledIsAwake' /\ SleepersWait' /\ WaitersNotStranded'
  BY <1>1 DEF SignalledIsAwake, SleepersWait, WaitersNotStranded, TypeOK
<1> QED BY <1>2, <1>3, <1>4, <1>5

\* mutex_unlock preserves the invariant.
LEMMA UnlockIInv ==
  ASSUME IInv, NEW t \in Thread, MutexUnlock(t)
  PROVE  IInv'
<1> USE DEF IInv
<1>1. /\ TypeOK /\ state[t] = "RUNNING" /\ pc[t] = "in"
      /\ owner' = NULL /\ locked' = FALSE
      /\ state' = FirstWaiterWoken
      /\ pc' = [pc EXCEPT ![t] = "out"]
      /\ UNCHANGED <<mwaiters, cwaiters, awaken>>
  BY DEF MutexUnlock, At, Goto, ClearOwner
<1>2. /\ state' \in [Thread -> {"RUNNING", "SLEEPING"}]
      /\ \A u \in Thread : state'[u] = state[u] \/ state'[u] = "RUNNING"
      /\ mwaiters # <<>> => state'[Head(mwaiters)] = "RUNNING"
  BY <1>1, FirstWaiterWokenType
<1>3. TypeOK'
  BY <1>1, <1>2 DEF TypeOK, PC
<1>4. MutualExclusion'
  BY <1>1, SyncAssumption DEF MutualExclusion, TypeOK
<1>5. WaitersExact'
  BY <1>1 DEF WaitersExact, TypeOK
<1>6. SignalledIsAwake' /\ SleepersWait'
  BY <1>1, <1>2 DEF SignalledIsAwake, SleepersWait, TypeOK
<1>7. WaitersNotStranded'
  BY <1>1, <1>2 DEF WaitersNotStranded
<1> QED BY <1>3, <1>4, <1>5, <1>6, <1>7

\* Starting to wait on the condition variable preserves the invariant: the
\* thread that sleeps is not the one woken up by unlocking.
LEMMA WaitIInv ==
  ASSUME IInv, NEW t \in Thread, CondvarWait(t)
  PROVE  IInv'
<1> USE DEF IInv
<1>1. /\ TypeOK /\ state[t] = "RUNNING" /\ pc[t] = "in"
      /\ owner' = NULL /\ locked' = FALSE
      /\ cwaiters' = Append(cwaiters, t)
      /\ awaken' = [awaken EXCEPT ![t] = FALSE]
      /\ state' = [FirstWaiterWoken EXCEPT ![t] = "SLEEPING"]
      /\ pc' = [pc EXCEPT ![t] = "c_sleep"]
      /\ mwaiters' = mwaiters
  BY DEF CondvarWait, At, Goto, ClearOwner
<1>2. /\ ~Linked(cwaiters, t) /\ ~Linked(mwaiters, t)
  BY <1>1 DEF WaitersExact
<1>3. /\ cwaiters' \in Seq(Thread)
      /\ IsInjective(cwaiters')
      /\ \A u : Linked(cwaiters', u) <=> Linked(cwaiters, u) \/ u = t
  BY <1>1, <1>2, AppendNew DEF WaitersExact, TypeOK
<1>4. /\ state' \in [Thread -> {"RUNNING", "SLEEPING"}]
      /\ state'[t] = "SLEEPING"
      /\ \A u \in Thread \ {t} : state'[u] = state[u] \/ state'[u] = "RUNNING"
  BY <1>1, FirstWaiterWokenType
<1>5. TypeOK'
  <2>1. awaken' \in [Thread -> BOOLEAN]
    BY <1>1, Zenon DEF TypeOK
  <2> QED BY <1>1, <1>3, <1>4, <2>1 DEF TypeOK, PC
<1>6. MutualExclusion'
  BY <1>1, SyncAssumption DEF MutualExclusion, TypeOK
<1>7. WaitersExact'
  BY <1>1, <1>3 DEF WaitersExact, TypeOK
<1>8. SignalledIsAwake'
  <2>1. \A u \in Thread \ {t} : pc'[u] = pc[u] /\ awaken'[u] = awaken[u]
    BY <1>1 DEF TypeOK
  <2>2. ~awaken'[t]
    BY <1>1 DEF TypeOK
  <2> QED BY <1>4, <2>1, <2>2 DEF SignalledIsAwake
<1>9. SleepersWait'
  BY <1>1, <1>4 DEF SleepersWait, TypeOK
<1>10. WaitersNotStranded'
  <2> SUFFICES ASSUME mwaiters # <<>> PROVE state'[Head(mwaiters)] = "RUNNING"
    BY <1>1 DEF WaitersNotStranded
  <2>1. Head(mwaiters) \in Thread /\ Head(mwaiters) # t
    BY <1>1, <1>2, HeadContained DEF TypeOK
  <2> QED BY <1>1, <2>1, FirstWaiterWokenType DEF TypeOK
<1> QED BY <1>5, <1>6, <1>7, <1>8, <1>9, <1>10

\* The loop of condvar_wait preserves the invariant.
LEMMA CondvarWokenIInv ==
  ASSUME IInv, NEW t \in Thread, CondvarWoken(t)
  PROVE  IInv'
<1> USE DEF IInv, At
<1>0. TypeOK /\ state[t] = "RUNNING" /\ pc[t] = "c_sleep"
  BY DEF CondvarWoken
<1>1. CASE awaken[t]
  <2>1. /\ cwaiters' = Unlink(cwaiters, t)
        /\ pc' = [pc EXCEPT ![t] = "relock"]
        /\ UNCHANGED <<state, locked, owner, mwaiters, awaken>>
    BY <1>1 DEF CondvarWoken, Goto
  <2>2. Linked(cwaiters, t)
    BY <1>0 DEF WaitersExact
  <2>3. /\ cwaiters' \in Seq(Thread)
        /\ IsInjective(cwaiters')
        /\ \A u : Linked(cwaiters', u) <=> Linked(cwaiters, u) /\ u # t
    BY <1>0, <2>1, <2>2, UnlinkProperties DEF WaitersExact, TypeOK
  <2>4. TypeOK'
    BY <1>0, <2>1, <2>3 DEF TypeOK, PC
  <2>5. MutualExclusion'
    BY <1>0, <2>1 DEF MutualExclusion, TypeOK
  <2>6. WaitersExact'
    BY <1>0, <2>1, <2>3 DEF WaitersExact, TypeOK
  <2>7. SignalledIsAwake' /\ SleepersWait' /\ WaitersNotStranded'
    BY <1>0, <2>1 DEF SignalledIsAwake, SleepersWait, WaitersNotStranded, TypeOK
  <2> QED BY <2>4, <2>5, <2>6, <2>7
<1>2. CASE ~awaken[t]
  <2>1. /\ state' = [state EXCEPT ![t] = "SLEEPING"]
        /\ UNCHANGED <<pc, mwaiters, locked, owner, cwaiters, awaken>>
    BY <1>2 DEF CondvarWoken
  <2>2. TypeOK'
    BY <1>0, <2>1 DEF TypeOK
  <2>3. MutualExclusion' /\ WaitersExact'
    BY <2>1 DEF MutualExclusion, WaitersExact
  <2>4. SignalledIsAwake' /\ SleepersWait'
    BY <1>0, <1>2, <2>1 DEF SignalledIsAwake, SleepersWait, TypeOK
  <2>5. WaitersNotStranded'
    <3> SUFFICES ASSUME ~locked, mwaiters # <<>>
                 PROVE  state'[Head(mwaiters)] = "RUNNING"
      BY <2>1 DEF WaitersNotStranded
    <3>1. Head(mwaiters) \in Thread /\ Linked(mwaiters, Head(mwaiters))
      BY <1>0, HeadContained DEF TypeOK
    <3>2. Head(mwaiters) # t
      BY <1>0, <3>1 DEF WaitersExact
    <3> QED BY <1>0, <2>1, <3>1, <3>2 DEF WaitersNotStranded, TypeOK
  <2> QED BY <2>2, <2>3, <2>4, <2>5
<1> QED BY <1>1, <1>2

\* The thread that condvar_signal selects: the first that was not signalled.
FirstAsleep == cwaiters[CHOOSE i \in Asleep : \A j \in Asleep : i <= j]

\* It is a waiter that was not signalled yet.
LEMMA FirstAsleepWaits ==
  ASSUME IInv, Asleep # {}
  PROVE  FirstAsleep \in Thread /\ FirstAsleep \in Asleeping
<1>1. cwaiters \in Seq(Thread) /\ Len(cwaiters) \in Nat
  BY DEF IInv, TypeOK
<1>2. Asleep \in SUBSET Nat
  BY <1>1 DEF Asleep
<1>3. \E m \in Asleep : \A j \in Asleep : m <= j
  BY <1>2, LeastElement
<1> DEFINE k == CHOOSE i \in Asleep : \A j \in Asleep : i <= j
<1>4. k \in Asleep
  BY <1>3
<1>5. FirstAsleep = cwaiters[k]
  BY DEF FirstAsleep
<1> HIDE DEF k
<1>6. k \in 1 .. Len(cwaiters) /\ ~awaken[cwaiters[k]]
  BY <1>4 DEF Asleep
<1>7. cwaiters[k] \in Thread /\ Linked(cwaiters, cwaiters[k])
  BY <1>1, <1>6 DEF Linked
<1> QED BY <1>5, <1>6, <1>7 DEF IInv, WaitersExact, Asleeping

\* A wake-up that releases a set of waiting threads preserves the invariant.
LEMMA ReleaseIInv ==
  ASSUME IInv, NEW ws \in SUBSET Thread,
         awaken' \in [Thread -> BOOLEAN],
         \A u \in Thread : awaken'[u] <=> awaken[u] \/ u \in ws,
         state' = [u \in Thread |-> IF u \in ws THEN "RUNNING" ELSE state[u]],
         UNCHANGED <<pc, locked, owner, mwaiters, cwaiters>>
  PROVE  IInv'
<1>1. TypeOK'
  BY DEF IInv, TypeOK
<1>2. MutualExclusion' /\ WaitersExact'
  BY DEF IInv, MutualExclusion, WaitersExact
<1>3. SignalledIsAwake' /\ SleepersWait'
  BY DEF IInv, TypeOK, SignalledIsAwake, SleepersWait
<1>4. WaitersNotStranded'
  <2> SUFFICES ASSUME ~locked, mwaiters # <<>>
               PROVE  state'[Head(mwaiters)] = "RUNNING"
    BY DEF WaitersNotStranded
  <2>1. Head(mwaiters) \in Thread
    BY HeadContained DEF IInv, TypeOK
  <2> QED BY <2>1 DEF IInv, WaitersNotStranded
<1> QED BY <1>1, <1>2, <1>3, <1>4 DEF IInv

\* condvar_signal preserves the invariant.
LEMMA SignalIInv ==
  ASSUME IInv, NEW t \in Thread, CondvarSignal(t)
  PROVE  IInv'
<1>1. /\ Asleep # {}
      /\ awaken' = [awaken EXCEPT ![FirstAsleep] = TRUE]
      /\ state' = [state EXCEPT ![FirstAsleep] = "RUNNING"]
      /\ UNCHANGED <<pc, locked, owner, mwaiters, cwaiters>>
  BY DEF CondvarSignal, FirstAsleep
<1> DEFINE ws == {FirstAsleep}
<1>2. FirstAsleep \in Thread
  BY <1>1, FirstAsleepWaits
<1>3. awaken' \in [Thread -> BOOLEAN]
  BY <1>1, <1>2, Zenon DEF IInv, TypeOK
<1>4. \A u \in Thread : awaken'[u] <=> awaken[u] \/ u \in ws
  BY <1>1, <1>2 DEF IInv, TypeOK
<1>5. state' = [u \in Thread |-> IF u \in ws THEN "RUNNING" ELSE state[u]]
  BY <1>1, <1>2 DEF IInv, TypeOK
<1>6. ws \in SUBSET Thread
  BY <1>2
<1> HIDE DEF ws
<1> QED BY <1>1, <1>3, <1>4, <1>5, <1>6, ReleaseIInv

\* condvar_broadcast preserves the invariant.
LEMMA BroadcastIInv ==
  ASSUME IInv, NEW t \in Thread, CondvarBroadcast(t)
  PROVE  IInv'
<1> DEFINE ws == {cwaiters[i] : i \in Asleep}
<1>1. /\ awaken' = [u \in Thread |-> awaken[u] \/ u \in ws]
      /\ state' = [u \in Thread |-> IF u \in ws THEN "RUNNING" ELSE state[u]]
      /\ UNCHANGED <<pc, locked, owner, mwaiters, cwaiters>>
  BY DEF CondvarBroadcast
<1>2. ws \in SUBSET Thread
  BY DEF IInv, TypeOK, Asleep
<1> HIDE DEF ws
<1>3. awaken' \in [Thread -> BOOLEAN]
  BY <1>1, Zenon DEF IInv, TypeOK
<1>4. \A u \in Thread : awaken'[u] <=> awaken[u] \/ u \in ws
  BY <1>1, Zenon
<1> QED BY <1>1, <1>2, <1>3, <1>4, ReleaseIInv

\* A wake-up meant for something else preserves the invariant.
LEMMA SpuriousIInv ==
  ASSUME IInv, NEW t \in Thread, SpuriousWakeup(t)
  PROVE  IInv'
<1>1. /\ TypeOK
      /\ state' = [state EXCEPT ![t] = "RUNNING"]
      /\ UNCHANGED <<pc, locked, owner, mwaiters, cwaiters, awaken>>
  BY DEF IInv, SpuriousWakeup
<1>2. TypeOK'
  BY <1>1 DEF TypeOK
<1>3. MutualExclusion' /\ WaitersExact'
  BY <1>1 DEF IInv, MutualExclusion, WaitersExact
<1>4. SignalledIsAwake' /\ SleepersWait'
  BY <1>1 DEF IInv, TypeOK, SignalledIsAwake, SleepersWait
<1>5. WaitersNotStranded'
  <2> SUFFICES ASSUME ~locked, mwaiters # <<>>
               PROVE  state'[Head(mwaiters)] = "RUNNING"
    BY <1>1 DEF WaitersNotStranded
  <2>1. Head(mwaiters) \in Thread
    BY HeadContained DEF IInv, TypeOK
  <2> QED BY <1>1, <2>1 DEF IInv, WaitersNotStranded, TypeOK
<1> QED BY <1>2, <1>3, <1>4, <1>5 DEF IInv

\* Every step preserves the invariant.
LEMMA NextIInv == IInv /\ [Next]_vars => IInv'
<1> SUFFICES ASSUME IInv, [Next]_vars PROVE IInv'
  OBVIOUS
<1>1. ASSUME NEW t \in Thread, MutexLock(t) PROVE IInv'
  BY <1>1, LockIInv
<1>2. ASSUME NEW t \in Thread, MutexWoken(t) PROVE IInv'
  BY <1>2, WokenIInv
<1>3. ASSUME NEW t \in Thread, MutexTrylock(t) PROVE IInv'
  BY <1>3, TrylockIInv
<1>4. ASSUME NEW t \in Thread, MutexUnlock(t) PROVE IInv'
  BY <1>4, UnlockIInv
<1>5. ASSUME NEW t \in Thread, CondvarWait(t) PROVE IInv'
  BY <1>5, WaitIInv
<1>6. ASSUME NEW t \in Thread, CondvarWoken(t) PROVE IInv'
  BY <1>6, CondvarWokenIInv
<1>7. ASSUME NEW t \in Thread, CondvarSignal(t) PROVE IInv'
  BY <1>7, SignalIInv
<1>8. ASSUME NEW t \in Thread, CondvarBroadcast(t) PROVE IInv'
  BY <1>8, BroadcastIInv
<1>9. ASSUME NEW t \in Thread, SpuriousWakeup(t) PROVE IInv'
  BY <1>9, SpuriousIInv
<1>10. CASE UNCHANGED vars
  BY <1>10 DEF vars, IInv, TypeOK, MutualExclusion, WaitersExact, SignalledIsAwake,
               SleepersWait, WaitersNotStranded
<1> QED
  BY <1>1, <1>2, <1>3, <1>4, <1>5, <1>6, <1>7, <1>8, <1>9, <1>10 DEF Next

\* The invariant holds in every reachable state.
LEMMA Invariance == Spec => []IInv
BY InitIInv, NextIInv, PTL DEF Spec

-----------------------------------------------------------------------------
\* mutex.h, for any number of threads: the mutex excludes, and the owner
\* recorded by mutex_set_owner is the thread in the critical section.
THEOREM MutexExcludes == Spec => [](TypeOK /\ MutualExclusion)
<1>1. IInv => TypeOK /\ MutualExclusion
  BY DEF IInv
<1> QED BY <1>1, Invariance, PTL

\* For any number of threads, no schedule strands the waiters of a free mutex:
\* the wake-up that mutex_unlock sends to the first of them is never lost.
THEOREM NoStrandedWaiters == Spec => [](WaitersNotStranded /\ WaitersExact)
<1>1. IInv => WaitersNotStranded /\ WaitersExact
  BY DEF IInv
<1> QED BY <1>1, Invariance, PTL

\* A step of Sync is a step of the abstract monitor, or changes neither the
\* holder of the mutex nor the set of threads waiting for a signal.
LEMMA NextRefines ==
  ASSUME IInv, IInv', [Next]_vars
  PROVE  [Monitor!Next]_<<owner, Asleeping>>
<1> DEFINE Same == owner' = owner /\ Asleeping' = Asleeping
<1> USE DEF At, Goto, SetOwner, ClearOwner
<1>t. TypeOK /\ MutualExclusion
  BY DEF IInv
<1>1. ASSUME NEW t \in Thread, MutexLock(t)
      PROVE  Monitor!Acquire(t) \/ Same
  BY <1>1, <1>t DEF MutexLock, Monitor!Acquire, Asleeping, TypeOK, MutualExclusion
<1>2. ASSUME NEW t \in Thread, MutexWoken(t)
      PROVE  Monitor!Acquire(t) \/ Same
  BY <1>2, <1>t DEF MutexWoken, Monitor!Acquire, Asleeping, TypeOK, MutualExclusion
<1>3. ASSUME NEW t \in Thread, MutexTrylock(t)
      PROVE  Monitor!Acquire(t)
  BY <1>3, <1>t DEF MutexTrylock, Monitor!Acquire, Asleeping, TypeOK, MutualExclusion
<1>4. ASSUME NEW t \in Thread, MutexUnlock(t)
      PROVE  Monitor!Release(t)
  BY <1>4, <1>t DEF MutexUnlock, Monitor!Release, Asleeping, TypeOK, MutualExclusion
<1>5. ASSUME NEW t \in Thread, CondvarWait(t)
      PROVE  Monitor!Wait(t)
  <2>1. /\ owner = t /\ owner' = NULL
        /\ pc' = [pc EXCEPT ![t] = "c_sleep"]
        /\ awaken' = [awaken EXCEPT ![t] = FALSE]
    BY <1>5, <1>t DEF CondvarWait, MutualExclusion
  <2>2. pc'[t] = "c_sleep" /\ ~awaken'[t]
    BY <1>t, <2>1 DEF TypeOK
  <2>3. \A u \in Thread \ {t} : pc'[u] = pc[u] /\ awaken'[u] = awaken[u]
    BY <1>t, <2>1 DEF TypeOK
  <2>4. Asleeping' = Asleeping \cup {t}
    BY <2>2, <2>3 DEF Asleeping
  <2> QED BY <2>1, <2>4 DEF Monitor!Wait
<1>6. ASSUME NEW t \in Thread, CondvarWoken(t)
      PROVE  Same
  BY <1>6, <1>t DEF CondvarWoken, Asleeping, TypeOK
<1>7. ASSUME NEW t \in Thread, CondvarSignal(t)
      PROVE  Monitor!Signal
  <2>1. /\ Asleep # {} /\ owner' = owner /\ pc' = pc
        /\ awaken' = [awaken EXCEPT ![FirstAsleep] = TRUE]
    BY <1>7 DEF CondvarSignal, FirstAsleep
  <2>2. FirstAsleep \in Thread /\ FirstAsleep \in Asleeping
    BY <2>1, FirstAsleepWaits
  <2>3. Asleeping' = Asleeping \ {FirstAsleep}
    BY <1>t, <2>1, <2>2 DEF Asleeping, TypeOK
  <2> QED BY <2>1, <2>2, <2>3 DEF Monitor!Signal
<1>8. ASSUME NEW t \in Thread, CondvarBroadcast(t)
      PROVE  Monitor!Signal
  <2> DEFINE ws == {cwaiters[i] : i \in Asleep}
  <2>1. /\ Asleep # {} /\ owner' = owner /\ pc' = pc
        /\ awaken' = [u \in Thread |-> awaken[u] \/ u \in ws]
    BY <1>8 DEF CondvarBroadcast
  <2>2. ws # {} /\ ws \subseteq Asleeping
    <3>1. ASSUME NEW i \in Asleep PROVE cwaiters[i] \in Asleeping
      <4>1. /\ i \in 1 .. Len(cwaiters) /\ ~awaken[cwaiters[i]]
            /\ cwaiters[i] \in Thread
        BY <1>t DEF Asleep, TypeOK
      <4>2. pc[cwaiters[i]] = "c_sleep"
        BY <4>1 DEF IInv, WaitersExact, Linked
      <4> QED BY <4>1, <4>2 DEF Asleeping
    <3> QED BY <2>1, <3>1
  <2> HIDE DEF ws
  <2>3. \A u \in Thread : awaken'[u] <=> awaken[u] \/ u \in ws
    BY <2>1, Zenon
  <2>4. Asleeping' = Asleeping \ ws
    BY <2>1, <2>3 DEF Asleeping
  <2> QED BY <2>1, <2>2, <2>4 DEF Monitor!Signal
<1>9. ASSUME NEW t \in Thread, SpuriousWakeup(t)
      PROVE  Same
  BY <1>9 DEF SpuriousWakeup, Asleeping
<1>10. CASE UNCHANGED vars
  BY <1>10 DEF vars, Asleeping
<1> QED
  BY <1>1, <1>2, <1>3, <1>4, <1>5, <1>6, <1>7, <1>8, <1>9, <1>10 DEF Next, Monitor!Next

\* For any number of threads, mutex.c and condvar.c implement the abstract
\* monitor: every behaviour of Sync, seen through the owner of the mutex and
\* the set of waiters that were not signalled, is one of the monitor.
THEOREM Implements == Spec => ImplementsMonitor
<1>1. Init => Monitor!Init
  BY DEF Init, Monitor!Init, Asleeping
<1>2. IInv /\ IInv' /\ [Next]_vars => [Monitor!Next]_<<owner, Asleeping>>
  BY NextRefines
<1> QED
  BY <1>1, <1>2, Invariance, PTL DEF Spec, ImplementsMonitor, Monitor!Spec, Monitor!vars

-----------------------------------------------------------------------------
(* The signals and the waiters they reach.                                 *)

\* The waiters that were marked are the first ones on the list q.
Marked(q, a, n) ==
  /\ n \in 0 .. Len(q)
  /\ \A i \in 1 .. Len(q) : a[q[i]] <=> i <= n

\* What condvar_wait and list_remove do to a list.
LEMMA AppendMarked ==
  ASSUME NEW q \in Seq(Thread), NEW a, NEW b, NEW n, Marked(q, a, n),
         NEW t \in Thread, ~Linked(q, t), ~b[t],
         \A u \in Thread \ {t} : b[u] <=> a[u]
  PROVE  Marked(Append(q, t), b, n)
<1> DEFINE r == Append(q, t)
<1>1. /\ Len(q) \in Nat /\ Len(r) = Len(q) + 1 /\ r[Len(q) + 1] = t
      /\ \A i \in 1 .. Len(q) : r[i] = q[i] /\ q[i] \in Thread
  OBVIOUS
<1> HIDE DEF r
<1>2. n \in 0 .. Len(r) /\ ~(Len(q) + 1 <= n)
  BY <1>1 DEF Marked
<1>3. ASSUME NEW i \in 1 .. Len(r) PROVE b[r[i]] <=> i <= n
  <2>1. CASE i = Len(q) + 1
    BY <1>1, <1>2, <2>1, Zenon
  <2>2. CASE i # Len(q) + 1
    <3>1. i \in 1 .. Len(q)
      BY <1>1, <2>2
    <3>2. q[i] # t
      BY <3>1, Zenon DEF Linked
    <3> QED BY <1>1, <3>1, <3>2, Zenon DEF Marked
  <2> QED BY <2>1, <2>2
<1> QED BY <1>2, <1>3, Zenon DEF Marked, r

LEMMA UnlinkMarked ==
  ASSUME NEW q \in Seq(Thread), IsInjective(q), NEW a, NEW n, Marked(q, a, n),
         NEW t \in Thread, Linked(q, t), a[t]
  PROVE  Marked(Unlink(q, t), a, n - 1)
<1> DEFINE r == Unlink(q, t)
<1>1. PICK k \in 1 .. Len(q) : q[k] = t /\ Without(q, k, r)
  BY UnlinkElements, Zenon
<1>2. /\ Len(r) = Len(q) - 1
      /\ \A i \in 1 .. Len(q) - 1 : r[i] = IF i < k THEN q[i] ELSE q[i + 1]
  BY <1>1, Zenon DEF Without
<1> HIDE DEF r
<1>3. k <= n
  BY <1>1, Zenon DEF Marked
<1>4. Len(q) \in Nat /\ n \in Nat /\ n <= Len(q)
  BY DEF Marked
<1>5. n - 1 \in 0 .. Len(r)
  BY <1>2, <1>3, <1>4
<1>6. ASSUME NEW i \in 1 .. Len(r) PROVE a[r[i]] <=> i <= n - 1
  <2>1. CASE i < k
    <3>1. i \in 1 .. Len(q) /\ i \in 1 .. Len(q) - 1 /\ i <= n /\ i <= n - 1
      BY <1>2, <1>3, <1>4, <2>1
    <3> QED BY <1>2, <2>1, <3>1, Zenon DEF Marked
  <2>2. CASE ~(i < k)
    <3>1. i + 1 \in 1 .. Len(q) /\ i \in 1 .. Len(q) - 1 /\ (i + 1 <= n <=> i <= n - 1)
      BY <1>2, <1>3, <1>4, <2>2
    <3> QED BY <1>2, <2>2, <3>1, Zenon DEF Marked
  <2> QED BY <2>1, <2>2
<1> QED BY <1>5, <1>6, Zenon DEF Marked, r

\* The first waiter that is not marked is the one after those that are.
LEMMA FirstAsleepIsNext ==
  ASSUME IInv, Marked(cwaiters, awaken, due), Asleep # {}
  PROVE  due + 1 \in 1 .. Len(cwaiters) /\ FirstAsleep = cwaiters[due + 1]
<1> DEFINE k == CHOOSE i \in Asleep : \A j \in Asleep : i <= j
<1>1. cwaiters \in Seq(Thread) /\ Len(cwaiters) \in Nat /\ due \in Nat
  BY DEF IInv, TypeOK, Marked
<1>2. \A i : i \in Asleep <=> i \in 1 .. Len(cwaiters) /\ ~(i <= due)
  BY Zenon DEF Asleep, Marked
<1>3. due + 1 \in Asleep /\ due + 1 \in 1 .. Len(cwaiters) /\ \A j \in Asleep : due + 1 <= j
  BY <1>1, <1>2
<1>4. k \in Asleep /\ \A j \in Asleep : k <= j
  BY <1>3, Zenon
<1> HIDE DEF k
<1>5. k = due + 1
  BY <1>1, <1>2, <1>3, <1>4
<1>6. FirstAsleep = cwaiters[k]
  BY DEF FirstAsleep, k
<1> QED BY <1>3, <1>5, <1>6

\* The next step keeps the marked waiters in front, and as many as are due.
LEMMA SignalsStep ==
  ASSUME IInv, Marked(cwaiters, awaken, due), [SignalsNext]_signalvars
  PROVE  Marked(cwaiters, awaken, due)'
<1>0. TypeOK /\ WaitersExact /\ cwaiters \in Seq(Thread) /\ Len(cwaiters) \in Nat /\ due \in Nat
  BY DEF IInv, TypeOK, Marked
<1>1. CASE UNCHANGED <<cwaiters, awaken, due>>
  BY <1>1 DEF Marked
<1>2. ASSUME NEW t \in Thread, CondvarWait(t), UNCHANGED due
      PROVE  Marked(cwaiters, awaken, due)'
  <2>1. cwaiters' = Append(cwaiters, t) /\ awaken' = [awaken EXCEPT ![t] = FALSE] /\ pc[t] = "in"
    BY <1>2 DEF CondvarWait, At
  <2>2. ~Linked(cwaiters, t)
    BY <1>0, <2>1 DEF WaitersExact
  <2>3. ~awaken'[t] /\ \A u \in Thread \ {t} : awaken'[u] <=> awaken[u]
    BY <1>0, <2>1, Zenon DEF TypeOK
  <2>4. Marked(Append(cwaiters, t), awaken', due)
    BY <1>0, <2>2, <2>3, AppendMarked, Zenon
  <2> QED BY <1>2, <2>1, <2>4, Zenon DEF Marked
<1>3. ASSUME NEW t \in Thread, CondvarWoken(t), due' = IF awaken[t] THEN due - 1 ELSE due
      PROVE  Marked(cwaiters, awaken, due)'
  <2>1. CASE awaken[t]
    <3>1. cwaiters' = Unlink(cwaiters, t) /\ awaken' = awaken /\ pc[t] = "c_sleep"
      BY <1>3, <2>1 DEF CondvarWoken, At
    <3>2. Linked(cwaiters, t) /\ IsInjective(cwaiters)
      BY <1>0, <3>1 DEF WaitersExact
    <3>3. Marked(Unlink(cwaiters, t), awaken, due - 1)
      BY <1>0, <2>1, <3>2, UnlinkMarked, Zenon
    <3> QED BY <1>3, <2>1, <3>1, <3>3, Zenon DEF Marked
  <2>2. CASE ~awaken[t]
    BY <1>1, <1>3, <2>2, Zenon DEF CondvarWoken
  <2> QED BY <2>1, <2>2
<1>4. ASSUME NEW t \in Thread, CondvarSignal(t), due' = due + 1
      PROVE  Marked(cwaiters, awaken, due)'
  <2> DEFINE m == due + 1
  <2>1. /\ Asleep # {} /\ cwaiters' = cwaiters
        /\ awaken' = [awaken EXCEPT ![FirstAsleep] = TRUE]
    BY <1>4 DEF CondvarSignal, FirstAsleep
  <2>2. m \in 1 .. Len(cwaiters) /\ FirstAsleep = cwaiters[m]
    BY <2>1, FirstAsleepIsNext
  <2>3. m \in 0 .. Len(cwaiters) /\ \A i \in 1 .. Len(cwaiters) : i <= m <=> i <= due \/ i = m
    BY <1>0, <2>2
  <2>4. \A i \in 1 .. Len(cwaiters) : cwaiters[i] \in Thread
    BY <1>0
  <2> HIDE DEF m
  <2>5. \A i \in 1 .. Len(cwaiters) : cwaiters[i] = cwaiters[m] => i = m
    BY <1>0, <2>2 DEF WaitersExact, IsInjective
  <2>6. ASSUME NEW i \in 1 .. Len(cwaiters) PROVE awaken'[cwaiters[i]] <=> i <= m
    <3>1. awaken'[cwaiters[i]] <=> awaken[cwaiters[i]] \/ cwaiters[i] = cwaiters[m]
      BY <1>0, <2>1, <2>2, <2>4, Zenon DEF TypeOK
    <3> QED BY <2>3, <2>5, <3>1, Zenon DEF Marked
  <2> QED BY <1>4, <2>1, <2>3, <2>6, Zenon DEF Marked, m
<1>5. ASSUME NEW t \in Thread, CondvarBroadcast(t), due' = Len(cwaiters)
      PROVE  Marked(cwaiters, awaken, due)'
  <2> DEFINE ws == {cwaiters[i] : i \in Asleep}
  <2>1. cwaiters' = cwaiters /\ awaken' = [u \in Thread |-> awaken[u] \/ u \in ws]
    BY <1>5 DEF CondvarBroadcast
  <2>2. \A i \in 1 .. Len(cwaiters) : cwaiters[i] \in Thread /\ i <= Len(cwaiters)
    BY <1>0
  <2>3. ASSUME NEW i \in 1 .. Len(cwaiters) PROVE awaken'[cwaiters[i]]
    BY <2>1, <2>2, Zenon DEF Asleep
  <2>4. Len(cwaiters) \in 0 .. Len(cwaiters)
    BY <1>0
  <2> QED BY <1>5, <2>1, <2>2, <2>3, <2>4, Zenon DEF Marked
<1>6. ASSUME NEW t \in Thread, UNCHANGED due,
             \/ MutexLock(t) \/ MutexWoken(t) \/ MutexTrylock(t) \/ MutexUnlock(t)
             \/ SpuriousWakeup(t)
      PROVE  UNCHANGED <<cwaiters, awaken, due>>
  BY <1>6, Zenon DEF MutexLock, MutexWoken, MutexTrylock, MutexUnlock, SpuriousWakeup
<1>7. CASE UNCHANGED signalvars
  BY <1>1, <1>7, Zenon DEF signalvars, vars
<1> QED BY <1>1, <1>2, <1>3, <1>4, <1>5, <1>6, <1>7, Zenon DEF SignalsNext

\* Every behaviour with the history variable is one of Sync.
LEMMA SignalsBehaveAsSync == SignalsSpec => Spec
<1>1. SignalsInit => Init
  BY DEF SignalsInit
<1>2. [SignalsNext]_signalvars => [Next]_vars
  BY Zenon DEF SignalsNext, Next, signalvars
<1> QED BY <1>1, <1>2, PTL DEF SignalsSpec, Spec

\* For any number of threads, condvar_signal skips the waiters that were
\* signalled before and still have to run, and reaches the next one: n signals
\* mark and wake up the first n waiters, and no others.
THEOREM SignalsServed == SignalsSpec => []SignalsReachWaiters
<1>1. SignalsInit => Marked(cwaiters, awaken, due)
  BY DEF SignalsInit, Init, Marked
<1>2. IInv /\ Marked(cwaiters, awaken, due) /\ [SignalsNext]_signalvars
        => Marked(cwaiters, awaken, due)'
  BY SignalsStep
<1>3. IInv /\ Marked(cwaiters, awaken, due) => SignalsReachWaiters
  <2> SUFFICES ASSUME IInv, Marked(cwaiters, awaken, due) PROVE SignalsReachWaiters
    OBVIOUS
  <2>1. ASSUME NEW i \in 1 .. due PROVE state[cwaiters[i]] = "RUNNING"
    <3>1. i \in 1 .. Len(cwaiters) /\ i <= due /\ cwaiters[i] \in Thread
      BY DEF IInv, TypeOK, Marked
    <3>2. awaken[cwaiters[i]] /\ Linked(cwaiters, cwaiters[i])
      BY <3>1, Zenon DEF Marked, Linked
    <3> QED BY <3>1, <3>2, Zenon DEF IInv, WaitersExact, SignalledIsAwake
  <2> QED BY <2>1, Zenon DEF SignalsReachWaiters, Marked
<1> QED BY <1>1, <1>2, <1>3, SignalsBehaveAsSync, Invariance, PTL DEF SignalsSpec
=============================================================================
