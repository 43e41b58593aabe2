------------------------------- MODULE Thread -------------------------------
(***************************************************************************)
(* The scheduler of the kernel (src/src/thread.c) together with the        *)
(* interrupt entry and exit path of src/src/cpu.c.                         *)
(*                                                                         *)
(* The machine has one processor.  Only the current thread takes steps,    *)
(* and a step stands for the code between two points at which an           *)
(* interrupt may be taken or the context switched.  Code that runs with    *)
(* interrupts off is therefore one step, up to a context switch.           *)
(*                                                                         *)
(* pc[t] is where t stands inside the scheduler's own code; "run" is any   *)
(* code outside of it.  Callers may nest sections in which preemption is   *)
(* disabled (mutex.c, condvar.c, timer.c, uart.c and printf.c all do).     *)
(***************************************************************************)
EXTENDS Integers, Sequences, FiniteSets

CONSTANTS
  Thread,        \* addresses that thread_create can return
  idle,          \* runq->idle
  dummy,         \* thread_dummy, the boot context
  NULL,
  MaxPriority,   \* THREAD_MAX_PRIORITY
  Priority,      \* the priority each thread is created with
  MaxNesting     \* bound on nested preemption-disabled sections of a caller

ASSUME ThreadAssumption ==
  /\ IsFiniteSet(Thread)
  /\ idle \notin Thread /\ dummy \notin Thread /\ NULL \notin Thread
  /\ idle # dummy /\ idle # NULL /\ dummy # NULL
  /\ MaxPriority \in Nat \ {0}
  /\ Priority \in [Thread -> 1 .. MaxPriority]
  /\ MaxNesting \in Nat \ {0}

VARIABLES
  current,        \* runq->current
  nr_threads,     \* runq->nr_threads
  lists,          \* runq->lists, one FIFO per priority
  state,          \* thread->state, or "FREE" when the memory is not allocated
  yield,          \* thread->yield
  preempt_level,  \* thread->preempt_level
  joiner,         \* thread->joiner
  intr,           \* EFLAGS.IF of the processor
  pc,             \* position of each thread in the scheduler's code
  ret,            \* what follows the call in progress: "run" or "destroy"
  arg,            \* the thread the call in progress is about
  eflags,         \* the EFLAGS.IF it saved (a local is reset when dead)
  section,        \* nesting of the preemption-disabled sections of the caller
  irq             \* was the thread switched out inside cpu_intr_main?

runqVars  == <<current, nr_threads, lists>>
frameVars == <<ret, arg, eflags, section, irq>>
vars == <<current, nr_threads, lists, state, yield, preempt_level, joiner,
          intr, pc, ret, arg, eflags, section, irq>>

Context    == Thread \cup {idle, dummy}
Priorities == 1 .. MaxPriority

\* thread_get_priority; the idle thread and the boot context have priority 0.
PriorityOf(t) == IF t \in Thread THEN Priority[t] ELSE 0

PC == {"run", "start", "dead", "destroy", "y_lock", "y_save", "y_switched",
       "y_enable", "w_save", "c_save", "x_save", "j_save", "j_switched",
       "s_switched", "u_enable", "u_check"}

TypeOK ==
  /\ current \in Context \cup {NULL}
  /\ nr_threads \in Nat
  /\ lists \in [Priorities -> Seq(Thread)]
  /\ state \in [Context -> {"FREE", "RUNNING", "SLEEPING", "DEAD"}]
  /\ yield \in [Context -> BOOLEAN]
  /\ preempt_level \in [Context -> Nat]
  /\ joiner \in [Context -> Thread \cup {NULL}]
  /\ intr \in BOOLEAN
  /\ pc \in [Context -> PC]
  /\ ret \in [Context -> {"run", "destroy"}]
  /\ arg \in [Context -> Thread \cup {NULL}]
  /\ eflags \in [Context -> BOOLEAN]
  /\ section \in [Context -> 0 .. MaxNesting]
  /\ irq \in [Context -> BOOLEAN]

-----------------------------------------------------------------------------
(* Run queue.                                                              *)

\* Faulty variant: insertion at the head of the list.
EnqueueAtHead(ls, t) == [ls EXCEPT ![PriorityOf(t)] = <<t>> \o @]

\* thread_list_enqueue on the list of the thread's own priority.
Enqueue(ls, t) == [ls EXCEPT ![PriorityOf(t)] = Append(@, t)]

NonEmpty(ls) == {p \in Priorities : ls[p] # <<>>}

Highest(ls) == CHOOSE p \in NonEmpty(ls) : \A q \in NonEmpty(ls) : q <= p

\* thread_runq_get_next.  Dequeuing from a run queue whose lists are all empty
\* does not yield a thread.
GetNext(ls, n) ==
  /\ current' = IF n = 0 THEN idle
                ELSE IF NonEmpty(ls) = {} THEN NULL ELSE Head(ls[Highest(ls)])
  /\ lists' = IF n = 0 \/ NonEmpty(ls) = {} THEN ls
              ELSE [ls EXCEPT ![Highest(ls)] = Tail(@)]

\* thread_runq_schedule, called by the current thread.  put_prev links the
\* thread at the tail of its list; for a thread that is no longer running,
\* thread_runq_remove unlinks it at once and takes it off the count.
Schedule(running, ls, n) ==
  LET m == IF running THEN n ELSE n - 1
  IN  /\ nr_threads' = m
      /\ GetNext(IF running /\ current # idle THEN Enqueue(ls, current) ELSE ls, m)

\* Faulty variant: thread_runq_add that does not compare priorities.
YieldAfterAddNever(yl, t) == yl

\* thread_runq_add: what it does to the lists and to the yield flags.
YieldAfterAdd(yl, t) ==
  IF PriorityOf(t) > PriorityOf(current) THEN [yl EXCEPT ![current] = TRUE] ELSE yl

\* thread_wakeup(t) does nothing for NULL, for the caller itself and for a
\* running thread.
Wakes(st, t) == t \notin {NULL, current} /\ st[t] # "RUNNING"
WokenState(st, t) == IF Wakes(st, t) THEN [st EXCEPT ![t] = "RUNNING"] ELSE st
WokenLists(st, t) == IF Wakes(st, t) THEN Enqueue(lists, t) ELSE lists

\* Faulty variant: the woken thread is linked but not counted.
WokenCountLost(st, t) == nr_threads

WokenCount(st, t) == IF Wakes(st, t) THEN nr_threads + 1 ELSE nr_threads
WokenYield(st, yl, t) == IF Wakes(st, t) THEN YieldAfterAdd(yl, t) ELSE yl

-----------------------------------------------------------------------------
(* Boot: main() creates its threads with interrupts off and preemption     *)
(* disabled, then hands the processor over and never returns.              *)

Init ==
  /\ current = dummy
  /\ nr_threads = 0
  /\ lists = [p \in Priorities |-> <<>>]
  /\ state = [t \in Context |-> IF t \in Thread THEN "FREE" ELSE "RUNNING"]
  /\ yield = [t \in Context |-> FALSE]
  /\ preempt_level = [t \in Context |-> 1]
  /\ joiner = [t \in Context |-> NULL]
  /\ intr = FALSE
  /\ pc = [t \in Context |-> "start"]
  /\ ret = [t \in Context |-> "run"]
  /\ arg = [t \in Context |-> NULL]
  /\ eflags = [t \in Context |-> FALSE]
  /\ section = [t \in Context |-> 0]
  /\ irq = [t \in Context |-> FALSE]

\* thread_init on freshly allocated memory.
ThreadInit(u) ==
  /\ state' = [state EXCEPT ![u] = "RUNNING"]
  /\ joiner' = [joiner EXCEPT ![u] = NULL]
  /\ section' = [section EXCEPT ![u] = 0]
  /\ irq' = [irq EXCEPT ![u] = FALSE]

\* thread_create called from main().
BootCreate(u) ==
  /\ current = dummy
  /\ state[u] = "FREE"
  /\ ThreadInit(u)
  /\ lists' = Enqueue(lists, u)
  /\ nr_threads' = nr_threads + 1
  /\ yield' = YieldAfterAdd([yield EXCEPT ![u] = FALSE], u)
  /\ UNCHANGED <<current, preempt_level, intr, pc, ret, arg, eflags>>

\* thread_enable_scheduler.
EnableScheduler ==
  /\ current = dummy
  /\ GetNext(lists, nr_threads)
  /\ UNCHANGED <<nr_threads, state, yield, preempt_level, joiner, intr, pc, frameVars>>

-----------------------------------------------------------------------------
(* Steps of the current thread.                                            *)

\* The current thread t stands at the label l, outside of cpu_intr_main.
At(t, l) == current = t /\ pc[t] = l /\ ~irq[t]

Goto(t, l) == pc' = [pc EXCEPT ![t] = l]

\* Faulty variant: the increment is forgotten.
PreemptDisableLost(t) == UNCHANGED preempt_level

PreemptDisable(t) == preempt_level' = [preempt_level EXCEPT ![t] = @ + 1]
PreemptEnableNoYield(t) == preempt_level' = [preempt_level EXCEPT ![t] = @ - 1]

\* thread_main: the first thing a new thread does, and the preempt_enable
\* that follows.
Start(t) ==
  /\ At(t, "start") /\ t # dummy
  /\ intr' = TRUE
  /\ ret' = [ret EXCEPT ![t] = "run"]
  /\ Goto(t, "u_enable")
  /\ UNCHANGED <<runqVars, state, yield, preempt_level, joiner, arg, eflags, section, irq>>

\* Second half of thread_unlock_scheduler(eflags, true): the decrement of
\* thread_preempt_enable, after interrupts were restored.
UnlockEnable(t) ==
  /\ At(t, "u_enable")
  /\ PreemptEnableNoYield(t)
  /\ Goto(t, "u_check")
  /\ UNCHANGED <<runqVars, state, yield, joiner, intr, frameVars>>

\* thread_yield_if_needed, with the test that thread_yield starts with.
YieldIfNeeded(t) ==
  /\ At(t, "u_check")
  /\ Goto(t, IF yield[t] /\ preempt_level[t] = 0 THEN "y_lock" ELSE ret[t])
  /\ UNCHANGED <<runqVars, state, yield, preempt_level, joiner, intr, frameVars>>

\* thread_yield called by a thread; it returns at once in a section.
YieldCall(t) ==
  /\ At(t, "run")
  /\ preempt_level[t] = 0
  /\ ret' = [ret EXCEPT ![t] = "run"]
  /\ Goto(t, "y_lock")
  /\ UNCHANGED <<runqVars, state, yield, preempt_level, joiner, intr, arg, eflags, section, irq>>

YieldLock(t) ==
  /\ At(t, "y_lock")
  /\ PreemptDisable(t)
  /\ Goto(t, "y_save")
  /\ UNCHANGED <<runqVars, state, yield, joiner, intr, frameVars>>

YieldSchedule(t) ==
  /\ At(t, "y_save")
  /\ eflags' = [eflags EXCEPT ![t] = intr]
  /\ intr' = FALSE
  /\ yield' = [yield EXCEPT ![t] = FALSE]
  /\ Schedule(TRUE, lists, nr_threads)
  /\ Goto(t, "y_switched")
  /\ UNCHANGED <<state, preempt_level, joiner, ret, arg, section, irq>>

\* Faulty variant: thread_yield returns with interrupts off.
YieldRestoreLost(t) ==
  /\ At(t, "y_switched")
  /\ eflags' = [eflags EXCEPT ![t] = FALSE]
  /\ Goto(t, "y_enable")
  /\ UNCHANGED <<runqVars, state, yield, preempt_level, joiner, intr, ret, arg, section, irq>>

\* thread_unlock_scheduler(eflags, false): interrupts come back first ...
YieldRestore(t) ==
  /\ At(t, "y_switched")
  /\ intr' = eflags[t]
  /\ eflags' = [eflags EXCEPT ![t] = FALSE]
  /\ Goto(t, "y_enable")
  /\ UNCHANGED <<runqVars, state, yield, preempt_level, joiner, ret, arg, section, irq>>

\* ... and preemption second, without looking at the yield flag.
YieldEnable(t) ==
  /\ At(t, "y_enable")
  /\ PreemptEnableNoYield(t)
  /\ Goto(t, ret[t])
  /\ UNCHANGED <<runqVars, state, yield, joiner, intr, frameVars>>

-----------------------------------------------------------------------------
(* Sections, sleeping and waking up.                                       *)

\* Faulty variant: a section that does not disable preemption.
SectionEnterPreemptible(t) ==
  /\ At(t, "run")
  /\ section[t] < MaxNesting
  /\ section' = [section EXCEPT ![t] = @ + 1]
  /\ UNCHANGED <<runqVars, state, yield, preempt_level, joiner, intr, pc, ret, arg, eflags, irq>>

\* thread_preempt_disable called outside of the scheduler.
SectionEnter(t) ==
  /\ At(t, "run")
  /\ section[t] < MaxNesting
  /\ section' = [section EXCEPT ![t] = @ + 1]
  /\ PreemptDisable(t)
  /\ UNCHANGED <<runqVars, state, yield, joiner, intr, pc, ret, arg, eflags, irq>>

\* thread_preempt_enable called outside of the scheduler.  The outermost
\* section is left with interrupts on (timer.c, uart.c and printf.c restore
\* them first).
SectionExit(t) ==
  /\ At(t, "run")
  /\ section[t] > 0
  /\ section[t] = 1 => intr
  /\ section' = [section EXCEPT ![t] = @ - 1]
  /\ PreemptEnableNoYield(t)
  /\ ret' = [ret EXCEPT ![t] = "run"]
  /\ Goto(t, "u_check")
  /\ UNCHANGED <<runqVars, state, yield, joiner, intr, arg, eflags, irq>>

\* cpu_intr_save and cpu_intr_restore inside a section.
IntrSave(t) ==
  /\ At(t, "run")
  /\ section[t] > 0 /\ intr
  /\ intr' = FALSE
  /\ UNCHANGED <<runqVars, state, yield, preempt_level, joiner, pc, frameVars>>

IntrRestore(t) ==
  /\ At(t, "run")
  /\ section[t] > 0 /\ ~intr
  /\ intr' = TRUE
  /\ UNCHANGED <<runqVars, state, yield, preempt_level, joiner, pc, frameVars>>

\* thread_sleep.  Every caller is in exactly one section.
Sleep(t) ==
  /\ At(t, "run")
  /\ section[t] = 1
  /\ eflags' = [eflags EXCEPT ![t] = intr]
  /\ intr' = FALSE
  /\ state' = [state EXCEPT ![t] = "SLEEPING"]
  /\ Schedule(FALSE, lists, nr_threads)
  /\ Goto(t, "s_switched")
  /\ UNCHANGED <<yield, preempt_level, joiner, ret, arg, section, irq>>

SleepReturn(t) ==
  /\ At(t, "s_switched")
  /\ intr' = eflags[t]
  /\ eflags' = [eflags EXCEPT ![t] = FALSE]
  /\ Goto(t, "run")
  /\ UNCHANGED <<runqVars, state, yield, preempt_level, joiner, ret, arg, section, irq>>

\* thread_wakeup(u).  Every caller is in a section, and u is a thread that
\* waits for something, hence alive.
WakeupCall(t, u) ==
  /\ At(t, "run")
  /\ section[t] > 0
  /\ u # t /\ state[u] \in {"RUNNING", "SLEEPING"}
  /\ arg' = [arg EXCEPT ![t] = u]
  /\ ret' = [ret EXCEPT ![t] = "run"]
  /\ PreemptDisable(t)
  /\ Goto(t, "w_save")
  /\ UNCHANGED <<runqVars, state, yield, joiner, intr, eflags, section, irq>>

\* The part of thread_wakeup that runs with interrupts off.
Wakeup(t) ==
  /\ At(t, "w_save")
  /\ state' = WokenState(state, arg[t])
  /\ lists' = WokenLists(state, arg[t])
  /\ nr_threads' = WokenCount(state, arg[t])
  /\ yield' = WokenYield(state, yield, arg[t])
  /\ arg' = [arg EXCEPT ![t] = NULL]
  /\ Goto(t, "u_enable")
  /\ UNCHANGED <<current, preempt_level, joiner, intr, ret, eflags, section, irq>>

-----------------------------------------------------------------------------
(* Creation, termination and joining.                                      *)

\* thread_create up to thread_lock_scheduler.  Nobody else knows u yet.
CreateCall(t, u) ==
  /\ At(t, "run")
  /\ section[t] = 0
  /\ state[u] = "FREE"
  /\ ThreadInit(u)
  /\ yield' = [yield EXCEPT ![u] = FALSE]
  /\ preempt_level' = [preempt_level EXCEPT ![u] = 1, ![t] = @ + 1]
  /\ arg' = [arg EXCEPT ![t] = u]
  /\ ret' = [ret EXCEPT ![t] = "run"]
  /\ pc' = [pc EXCEPT ![u] = "start", ![t] = "c_save"]
  /\ UNCHANGED <<runqVars, intr, eflags>>

\* thread_runq_add with interrupts off.
Create(t) ==
  /\ At(t, "c_save")
  /\ lists' = Enqueue(lists, arg[t])
  /\ nr_threads' = nr_threads + 1
  /\ yield' = YieldAfterAdd(yield, arg[t])
  /\ arg' = [arg EXCEPT ![t] = NULL]
  /\ Goto(t, "u_enable")
  /\ UNCHANGED <<current, state, preempt_level, joiner, intr, ret, eflags, section, irq>>

ExitCall(t) ==
  /\ At(t, "run")
  /\ section[t] = 0
  /\ PreemptDisable(t)
  /\ Goto(t, "x_save")
  /\ UNCHANGED <<runqVars, state, yield, joiner, intr, frameVars>>

\* thread_exit with interrupts off: die, wake the joiner, schedule.  The
\* thread_preempt_enable inside the wake-up sees a level above zero.
Exit(t) ==
  LET dead == [state EXCEPT ![t] = "DEAD"]
      j    == joiner[t]
  IN  /\ At(t, "x_save")
      /\ intr' = FALSE
      /\ state' = WokenState(dead, j)
      /\ yield' = WokenYield(dead, yield, j)
      /\ Schedule(FALSE, WokenLists(dead, j), WokenCount(dead, j))
      /\ Goto(t, "dead")
      /\ UNCHANGED <<preempt_level, joiner, frameVars>>

\* thread_join(u) up to the point where interrupts are off.  A thread is
\* joined once, by a thread other than itself.
JoinCall(t, u) ==
  /\ At(t, "run")
  /\ section[t] = 0
  /\ u # t /\ state[u] # "FREE"
  /\ \A v \in Thread : ~(arg[v] = u /\ (ret[v] = "destroy" \/ pc[v] = "c_save"))
  /\ arg' = [arg EXCEPT ![t] = u]
  /\ ret' = [ret EXCEPT ![t] = "destroy"]
  /\ PreemptDisable(t)
  /\ Goto(t, "j_save")
  /\ UNCHANGED <<runqVars, state, yield, joiner, intr, eflags, section, irq>>

\* One evaluation of the loop condition of thread_join: leave the scheduler
\* when the thread is dead, otherwise sleep.
JoinLoop(t, saved) ==
  IF state[arg[t]] = "DEAD"
  THEN /\ intr' = saved
       /\ eflags' = [eflags EXCEPT ![t] = FALSE]
       /\ Goto(t, "u_enable")
       /\ UNCHANGED <<runqVars, state>>
  ELSE /\ intr' = FALSE
       /\ eflags' = [eflags EXCEPT ![t] = saved]
       /\ state' = [state EXCEPT ![t] = "SLEEPING"]
       /\ Schedule(FALSE, lists, nr_threads)
       /\ Goto(t, "j_switched")

\* Faulty variant: thread_join does not record the joiner.
JoinAnonymous(t) ==
  /\ At(t, "j_save")
  /\ JoinLoop(t, intr)
  /\ UNCHANGED <<yield, preempt_level, joiner, ret, arg, section, irq>>

Join(t) ==
  /\ At(t, "j_save")
  /\ joiner' = [joiner EXCEPT ![arg[t]] = t]
  /\ JoinLoop(t, intr)
  /\ UNCHANGED <<yield, preempt_level, ret, arg, section, irq>>

JoinWoken(t) ==
  /\ At(t, "j_switched")
  /\ JoinLoop(t, eflags[t])
  /\ UNCHANGED <<yield, preempt_level, joiner, ret, arg, section, irq>>

\* thread_destroy: the thread and its stack go back to the allocator (the
\* members of a free thread have no meaning; they take their initial values).
Destroy(t) ==
  /\ At(t, "destroy")
  /\ state' = [state EXCEPT ![arg[t]] = "FREE"]
  /\ yield' = [yield EXCEPT ![arg[t]] = FALSE]
  /\ joiner' = [joiner EXCEPT ![arg[t]] = NULL]
  /\ pc' = [pc EXCEPT ![arg[t]] = "start", ![t] = "run"]
  /\ arg' = [arg EXCEPT ![t] = NULL]
  /\ ret' = [ret EXCEPT ![t] = "run"]
  /\ UNCHANGED <<runqVars, preempt_level, intr, eflags, section, irq>>

-----------------------------------------------------------------------------
(* Interrupts.                                                             *)

\* An interrupt taken by the current thread: cpu_intr_main with its handler.
\* The timer interrupt (tick) sets the yield flag of the current thread; any
\* handler may wake a sleeping thread w (the timer thread, the uart waiter),
\* or none.  The final thread_preempt_enable yields when the interrupted code
\* was preemptible.
Interrupt(tick, w) ==
  LET ticked == IF tick THEN [yield EXCEPT ![current] = TRUE] ELSE yield
      yl     == WokenYield(state, ticked, w)
  IN  /\ intr
      /\ w # NULL => state[w] = "SLEEPING"
      /\ state' = WokenState(state, w)
      /\ IF yl[current] /\ preempt_level[current] = 0
         THEN /\ PreemptDisable(current)
              /\ yield' = [yl EXCEPT ![current] = FALSE]
              /\ Schedule(TRUE, WokenLists(state, w), WokenCount(state, w))
              /\ irq' = [irq EXCEPT ![current] = TRUE]
              /\ intr' = FALSE
         ELSE /\ yield' = yl
              /\ lists' = WokenLists(state, w)
              /\ nr_threads' = WokenCount(state, w)
              /\ UNCHANGED <<current, preempt_level, irq, intr>>
      /\ UNCHANGED <<joiner, pc, ret, arg, eflags, section>>

\* The end of cpu_intr_main of a thread that was preempted in it, and iret.
InterruptReturn ==
  /\ current # NULL /\ irq[current]
  /\ PreemptEnableNoYield(current)
  /\ irq' = [irq EXCEPT ![current] = FALSE]
  /\ intr' = TRUE
  /\ UNCHANGED <<runqVars, state, yield, joiner, pc, ret, arg, eflags, section>>

-----------------------------------------------------------------------------
Tick == \E w \in Thread \cup {NULL} : Interrupt(TRUE, w)

\* The code of the scheduler itself.
Kernel(t) ==
  \/ Start(t) \/ UnlockEnable(t) \/ YieldIfNeeded(t)
  \/ YieldLock(t) \/ YieldSchedule(t) \/ YieldRestore(t) \/ YieldEnable(t)
  \/ SleepReturn(t) \/ Wakeup(t) \/ Create(t) \/ Exit(t)
  \/ Join(t) \/ JoinWoken(t) \/ Destroy(t)

\* The calls threads make.
Client(t) ==
  \/ YieldCall(t) \/ SectionEnter(t) \/ SectionExit(t) \/ IntrSave(t)
  \/ IntrRestore(t) \/ Sleep(t) \/ ExitCall(t)
  \/ \E u \in Thread : WakeupCall(t, u) \/ CreateCall(t, u) \/ JoinCall(t, u)

Next ==
  \/ \E u \in Thread : BootCreate(u)
  \/ EnableScheduler
  \/ \E t \in Thread \cup {idle} : Kernel(t)
  \/ \E t \in Thread : Client(t)
  \/ Tick
  \/ \E w \in Thread \cup {NULL} : Interrupt(FALSE, w)
  \/ InterruptReturn

Spec == Init /\ [][Next]_vars

\* Fairness.  The processor keeps executing the scheduler's code and leaves
\* interrupt handlers; the i8254 keeps ticking; and every section in the
\* sources is finite: its caller restores interrupts and leaves it.
Fairness ==
  /\ WF_vars(EnableScheduler)
  /\ WF_vars(InterruptReturn)
  /\ SF_vars(Tick)
  /\ \A t \in Thread \cup {idle} : WF_vars(Kernel(t))
  /\ \A t \in Thread : /\ SF_vars(IntrRestore(t))
                        /\ SF_vars(SectionExit(t) /\ section[t] = 1)

FairSpec == Spec /\ Fairness

-----------------------------------------------------------------------------
(* Properties.                                                             *)

Queued(t) == \E p \in Priorities : \E i \in 1 .. Len(lists[p]) : lists[p][i] = t

\* Initialised by thread_create but not on the run queue yet.
BeingCreated(u) == \E t \in Thread : pc[t] = "c_save" /\ arg[t] = u

Runnable == {t \in Thread : state[t] = "RUNNING" /\ ~BeingCreated(t)}

\* Every list holds threads of its own priority, each at most once.
ListsWellFormed ==
  \A p \in Priorities :
    /\ \A i \in 1 .. Len(lists[p]) : Priority[lists[p][i]] = p
    /\ \A i, j \in 1 .. Len(lists[p]) : lists[p][i] = lists[p][j] => i = j

\* The run queue is exact: the threads on the lists are the runnable threads
\* other than the current one, so no runnable thread is lost and no sleeping,
\* dead or freed thread can be picked; nr_threads, on which
\* thread_runq_get_next relies, counts the runnable threads.
RunqConsistent ==
  /\ ListsWellFormed
  /\ \A t \in Thread : Queued(t) <=> t \in Runnable /\ t # current
  /\ nr_threads = Cardinality(Runnable)

\* The thread that executes is in the RUNNING state: thread_exit's
\* "dead thread walking" panic is never reached, the memory of the executing
\* thread has not been freed by thread_join, and thread_runq_get_next never
\* dequeued from an empty run queue.
CurrentIsAlive == current # NULL /\ state[current] = "RUNNING"

\* When a thread of higher priority than the current one is on the run queue,
\* the current thread has been asked to yield.
PreemptionRequested ==
  \A t \in Thread : Queued(t) /\ Priority[t] > PriorityOf(current) => yield[current]

\* thread_runq_schedule asserts that the preemption level of its caller is 1.
ScheduleAtLevelOne ==
  \A t \in Thread \cup {idle} :
    (\/ \E l \in {"y_save", "x_save", "j_save", "j_switched"} : At(t, l)
     \/ At(t, "run") /\ section[t] = 1) => preempt_level[t] = 1

\* A thread outside of any section executes with interrupts on and preemption
\* enabled: no path through the scheduler, whatever interrupts or switches it
\* met, leaves the EFLAGS or the preemption level of its caller changed.
CallerStateRestored ==
  \A t \in Thread \cup {idle} :
    At(t, "run") /\ section[t] = 0 => intr /\ preempt_level[t] = 0

\* A thread sleeping in thread_join waits for a thread that is not dead yet
\* and that knows it as its joiner: the wake-up in thread_exit is not lost.
JoinWakeupNotLost ==
  \A t \in Thread : pc[t] = "j_switched" /\ state[t] = "SLEEPING" =>
    state[arg[t]] \in {"RUNNING", "SLEEPING"} /\ joiner[arg[t]] = t

\* thread_destroy asserts that the thread it frees is dead; it also has left
\* its stack for good.
DestroyOnlyDead ==
  \A t \in Thread : pc[t] = "destroy" =>
    state[arg[t]] = "DEAD" /\ arg[t] # current /\ ~Queued(arg[t])

\* A thread in a preemption-disabled section is only switched out by its own
\* call to thread_sleep.
SectionsAreAtomic ==
  [][current' # current =>
       current = dummy \/ section[current] = 0 \/ state'[current] = "SLEEPING"]_vars

\* A ready thread than which no runnable thread has a higher priority.
TopReady(t) ==
  /\ Queued(t)
  /\ \A u \in Runnable : Priority[u] <= Priority[t]

\* A ready thread of the highest priority eventually runs: neither lower nor
\* equal priorities can keep the processor, even though thread_yield may drop
\* a request to yield that arrives between the two halves of its unlock.
TopReadyRuns == \A t \in Thread : TopReady(t) ~> (current = t \/ ~TopReady(t))
=============================================================================
