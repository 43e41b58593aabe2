--------------------------------- MODULE Pic --------------------------------
(***************************************************************************)
(* External interrupts: the two cascaded 8259 controllers, their driver    *)
(* (src/src/i8259.c), and the processor's table of handlers and dispatch   *)
(* (src/src/cpu.c).                                                        *)
(*                                                                         *)
(* The chips are not part of the program: irr, isr and mask are their      *)
(* registers, each a set of logical IRQs, and Raise, Acknowledge, Vanish   *)
(* and Eoi are what they do.  Requests are latched on a rising edge, the   *)
(* lowest number has the highest priority, and a request waits while one   *)
(* of its own or of a higher priority is in service.  The devices raise    *)
(* their lines while the processor is anywhere in the code.                *)
(***************************************************************************)
EXTENDS Integers, FiniteSets, FiniteSetsExt

CONSTANTS
  Lines,      \* the IRQs whose devices may raise an interrupt
  Drivers,    \* the IRQs registered besides the system timer's and the UART's
  Unsteady    \* the IRQs whose line may drop before it is acknowledged

NrIrqs  == 8     \* I8259_NR_IRQS
Cascade == 2     \* I8259_IRQ_CASCADE

TimerIrq == 0    \* I8254_IRQ
UartIrq  == 4    \* UART_IRQ

Irq    == 0 .. 2 * NrIrqs - 1
Master == 0 .. NrIrqs - 1
Slave  == Irq \ Master

ASSUME PicAssumption ==
  /\ Lines \subseteq Irq \ {Cascade} /\ Drivers \subseteq Irq \ {Cascade, TimerIrq, UartIrq}
  /\ Unsteady \subseteq Lines \ {UartIrq}

VARIABLES
  irr, isr, mask,  \* the registers of both chips
  imr,             \* i8259_pics[].imr, the cached masks
  handlers,        \* the IRQs whose cpu_irq_handlers[].fn is set
  cpu,             \* what the processor does; interrupts are enabled when "on"
  vector           \* the IRQ that cpu_intr_main is handling

picvars == <<irr, isr, mask, imr, handlers, cpu, vector>>

\* The steps of main, then thread code, then those of cpu_intr_main.
Phase == {"reset", "pic", "timer", "uart", "drivers", "on", "entry", "slave", "handler"}

PicTypeOK ==
  /\ irr \subseteq Irq /\ isr \subseteq Irq /\ mask \subseteq Irq /\ imr \subseteq Irq
  /\ handlers \subseteq Irq /\ cpu \in Phase /\ vector \in Irq

PicInit ==
  /\ irr = {} /\ isr = {} /\ mask \in {{}, Irq}
  /\ imr = Irq
  /\ handlers = {}   \* cpu_setup_idt
  /\ cpu = "reset" /\ vector = 0

-----------------------------------------------------------------------------
\* The controllers.

\* A request of the slave reaches the processor with the priority of the
\* master's cascade line.
Rank(irq) == IF irq \in Master THEN NrIrqs * irq ELSE NrIrqs * Cascade + irq - NrIrqs

\* The requests that nothing in service holds back.
Deliverable ==
  {p \in irr \ mask :
     /\ \A q \in isr \cap Master : (IF p \in Slave THEN Cascade ELSE p) < q
     /\ p \in Slave => Cascade \notin mask /\ \A q \in isr \cap Slave : p < q}

Foremost(p) == p \in Deliverable /\ \A q \in Deliverable : Rank(p) <= Rank(q)

\* The line of a device rises.
Raise(irq) == irr' = irr \cup {irq} /\ UNCHANGED <<isr, mask, imr, handlers, cpu, vector>>

InService(irq) == IF irq \in Slave THEN {irq, Cascade} ELSE {irq}

\* The processor accepts the foremost request.
Acknowledge(irq) ==
  /\ cpu = "on" /\ Foremost(irq)
  /\ irr' = irr \ {irq}
  /\ isr' = isr \cup InService(irq)
  /\ cpu' = "entry" /\ vector' = irq
  /\ UNCHANGED <<mask, imr, handlers>>

\* The line drops as the request is accepted: the chip that raised it answers
\* with its lowest priority, 7 or 15, and has nothing in service.
Vanish(irq) ==
  /\ cpu = "on" /\ Foremost(irq) /\ irq \in Unsteady
  /\ irr' = irr \ {irq}
  /\ isr' = IF irq \in Slave THEN isr \cup {Cascade} ELSE isr
  /\ cpu' = "entry" /\ vector' = Max(IF irq \in Slave THEN Slave ELSE Master)
  /\ UNCHANGED <<mask, imr, handlers>>

\* A non-specific end of interrupt ends what is foremost in service on a chip.
Ended(chip) == IF isr \cap chip = {} THEN isr ELSE isr \ {Min(isr \cap chip)}

-----------------------------------------------------------------------------
\* The driver.

\* Faulty variant: the mask is only changed in memory.
IrqEnableCached(irq) == imr' = imr \ {irq} /\ UNCHANGED mask

\* i8259_irq_enable: the cached mask changes and is written to the chip.
IrqEnable(irq) ==
  /\ imr' = imr \ {irq}
  /\ mask' = LET chip == IF irq \in Master THEN Master ELSE Slave
             IN  (mask \ chip) \cup (imr' \cap chip)

\* Faulty variant: the mask of the slave is not written.
I8259SetupMaster ==
  /\ cpu = "reset" /\ cpu' = "pic"
  /\ imr' = imr \ {Cascade} /\ mask' = imr' \cap Master
  /\ irr' = {} /\ isr' = {}
  /\ UNCHANGED <<handlers, vector>>

\* i8259_setup: the initialisation words reset the chips, then both masks are
\* written.
I8259Setup ==
  /\ cpu = "reset" /\ cpu' = "pic"
  /\ imr' = imr \ {Cascade} /\ mask' = imr'
  /\ irr' = {} /\ isr' = {}
  /\ UNCHANGED <<handlers, vector>>

\* cpu_irq_register, from one step of main to the next.
Register(irq, from, to) ==
  /\ cpu = from /\ cpu' = to
  /\ irq \notin handlers
  /\ handlers' = handlers \cup {irq}
  /\ IrqEnable(irq)
  /\ UNCHANGED <<irr, isr, vector>>

\* i8254_setup
I8254Setup == Register(TimerIrq, "pic", "timer")

\* The setup of another driver, if any, once the UART's is done.
DriverSetup(irq) == irq \in Drivers /\ Register(irq, "drivers", "drivers")

\* thread_enable_scheduler loads the first thread, with interrupts enabled.
EnableScheduler ==
  /\ cpu = "drivers" /\ cpu' = "on"
  /\ UNCHANGED <<irr, isr, mask, imr, handlers, vector>>

-----------------------------------------------------------------------------
\* cpu_intr_main: i8259_irq_eoi, first to the master, whose IRQ it is or to
\* which the slave is connected.
EoiMaster ==
  /\ cpu = "entry"
  /\ isr' = Ended(Master)
  /\ cpu' = IF vector \in Master THEN "handler" ELSE "slave"
  /\ UNCHANGED <<irr, mask, imr, handlers, vector>>

\* Faulty variant: the slave is not told.
EoiSlaveForgotten ==
  /\ cpu = "slave" /\ cpu' = "handler"
  /\ UNCHANGED <<irr, isr, mask, imr, handlers, vector>>

EoiSlave ==
  /\ cpu = "slave" /\ cpu' = "handler"
  /\ isr' = Ended(Slave)
  /\ UNCHANGED <<irr, mask, imr, handlers, vector>>

\* The handler if there is one (else an error is printed), the end of
\* cpu_intr_main, which may switch to another thread, and the return from
\* interrupt, to that thread or to this one.
Return ==
  /\ cpu = "handler" /\ cpu' = "on"
  /\ UNCHANGED <<irr, isr, mask, imr, handlers, vector>>

-----------------------------------------------------------------------------
\* Non-specific EOIs, sent before the handler runs, end exactly the interrupt
\* being handled: when handlers run and when thread code runs, nothing is in
\* service that would hold other interrupts back, even after an interrupt
\* that was not there (IRQ 7 or 15).  Between the two messages only the slave
\* still serves.
ServiceEnded ==
  /\ cpu \in {"on", "handler"} => isr = {}
  /\ cpu = "slave" => isr \subseteq {vector}

\* Only the lines of registered handlers are let through, so that an interrupt
\* without a handler is one that was not there: i8259_irq_enable changes one
\* line of the masks in memory, and what the two chips mask is what it
\* remembers there.
OnlyHandledInterrupts ==
  cpu = "handler" => vector \in handlers \cup {Max(Master), Max(Slave)}
=============================================================================
