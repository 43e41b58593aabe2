----------------------------- MODULE ThreadInv ------------------------------
(***************************************************************************)
(* The inductive invariant of the scheduler: what is true of the stacks,   *)
(* of the calls in progress and of the run queue at every step.            *)
(***************************************************************************)
EXTENDS Thread

\* The contexts that the scheduler switches between.
T == Thread \cup {idle}

Types == TypeOK /\ current \in Context

\* What the scheduler's own code adds to the preemption level at a label.
LabelLevel(l) == IF l \in {"run", "destroy", "u_check", "y_lock", "s_switched"} THEN 0 ELSE 1

\* Where a thread stands after a context switch away from it.
SwitchedOut == {"start", "y_switched", "j_switched", "s_switched"}

\* The stack of a thread: the level is that of the sections, labels and
\* handlers it is in, and a thread that does not run stands at a switch.
Frame(t) ==
  /\ preempt_level[t] = section[t] + LabelLevel(pc[t]) + (IF irq[t] THEN 1 ELSE 0)
  /\ irq[t] => pc[t] \in {"run", "destroy", "u_check", "y_lock"} /\ section[t] = 0
  /\ section[t] > 0 => pc[t] \in {"run", "u_enable", "u_check", "w_save", "s_switched"}
  /\ pc[t] = "s_switched" => section[t] > 0
  /\ pc[t] \in {"y_switched", "j_switched"} => eflags[t]
  /\ t # current => irq[t] \/ pc[t] \in SwitchedOut \/ pc[t] = "dead"
  /\ ret[t] = "destroy" =>
       /\ pc[t] \in {"j_save", "j_switched", "u_enable", "u_check", "destroy",
                     "y_lock", "y_save", "y_switched", "y_enable"}
       /\ section[t] = 0
  /\ pc[t] \in {"j_save", "j_switched", "destroy"} => ret[t] = "destroy"

\* Interrupts are off right after a switch, and on outside of the sections.
IntrOK ==
  /\ current = dummy => ~intr /\ ~irq[dummy]
  /\ current # dummy =>
       IF irq[current] \/ pc[current] \in SwitchedOut THEN ~intr
       ELSE section[current] = 0 => intr

\* States and labels agree.
Alive(t) ==
  /\ state[t] = "SLEEPING" => pc[t] \in {"s_switched", "j_switched"}
  /\ state[t] = "DEAD" <=> pc[t] = "dead"
  /\ state[t] = "FREE" => pc[t] = "start"

\* The thread that a call in progress is about.
Call(t) ==
  /\ pc[t] = "c_save" => /\ arg[t] \in Thread \ {t}
                         /\ state[arg[t]] = "RUNNING" /\ pc[arg[t]] = "start"
  /\ pc[t] = "w_save" => /\ arg[t] \in Thread \ {t}
                         /\ state[arg[t]] \in {"RUNNING", "SLEEPING"}
  /\ ret[t] = "destroy" =>
       /\ arg[t] \in Thread \ {t}
       /\ state[arg[t]] # "FREE"
       /\ pc[t] \notin {"j_save", "j_switched"} => state[arg[t]] = "DEAD"
       /\ pc[t] = "j_switched" => joiner[arg[t]] = t
       /\ pc[t] = "j_switched" /\ state[t] = "SLEEPING" => state[arg[t]] # "DEAD"

\* A recorded joiner is in thread_join, for this thread and no other.
JoinerOK(t) == joiner[t] # NULL => ret[joiner[t]] = "destroy" /\ arg[joiner[t]] = t

OneJoiner ==
  \A t, v \in Thread : ret[t] = "destroy" /\ ret[v] = "destroy" /\ arg[t] = arg[v] => t = v

IdleOK ==
  /\ state[idle] = "RUNNING" /\ state[dummy] = "RUNNING"
  /\ ret[idle] = "run" /\ section[idle] = 0
  /\ pc[idle] \in {"start", "u_enable", "u_check", "run", "y_lock", "y_save",
                   "y_switched", "y_enable"}

Control ==
  /\ \A t \in T : Frame(t)
  /\ IntrOK
  /\ IdleOK
  /\ \A t \in Thread : Alive(t) /\ Call(t) /\ JoinerOK(t)
  /\ OneJoiner

\* The lists ls hold the threads of S, each once, on the list of its priority.
Holds(ls, S) ==
  /\ ls \in [Priorities -> Seq(Thread)]
  /\ \A p \in Priorities : \A i \in 1 .. Len(ls[p]) : Priority[ls[p][i]] = p /\ ls[p][i] \in S
  /\ \A p \in Priorities : \A i, j \in 1 .. Len(ls[p]) : ls[p][i] = ls[p][j] => i = j
  /\ \A t \in S : \E i \in 1 .. Len(ls[Priority[t]]) : ls[Priority[t]][i] = t

Ready == Runnable \ {current}

Queues ==
  /\ current \in Runnable \cup {idle, dummy}
  /\ Holds(lists, Ready)
  /\ nr_threads = Cardinality(Runnable)
  /\ \A t \in Ready : Priority[t] > PriorityOf(current) => yield[current]

\* The inductive invariant of the scheduler. Every stack is balanced: a
\* thread's preemption level is exactly what the sections, the interrupt and
\* the scheduler code it is in have added, so thread_preempt_enable never
\* underflows, and a thread that is switched out stands at a call of
\* thread_switch_context or under an interrupt. Interrupts are off right
\* after a switch and on outside the sections that save them; a call in
\* progress (create, wakeup, join, destroy) is about a thread in the state it
\* expects; and the run queue holds exactly the runnable threads but the
\* current one, with a yield request whenever a higher priority waits.
IInv == Types /\ Control /\ Queues
=============================================================================
