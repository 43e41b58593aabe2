--------------------------------- MODULE Irq --------------------------------
(***************************************************************************)
(* From the serial line to the thread that reads it: the UART raises its   *)
(* line, the controllers and cpu_intr_main (Pic) run the driver's handler, *)
(* and threads call uart_read (Uart), while the system timer and other     *)
(* devices interrupt too.  The setup of src/src/main.c comes first, with   *)
(* interrupts disabled and the devices already alive.                      *)
(***************************************************************************)
EXTENDS Pic, Uart

CONSTANTS MaxBytes,    \* bound on the bytes received
          MaxRaised    \* bound on the interrupts of the other devices

VARIABLES
  dat, ready,   \* the UART's data register, and whether its byte is unread
  ier,          \* UART_IER_DATA is set: the UART raises interrupts
  received, raised

devicevars == <<dat, ready, ier, received, raised>>
vars == <<picvars, uartvars, devicevars>>

TypeOK ==
  /\ PicTypeOK /\ UartTypeOK
  /\ dat \in Byte /\ ready \in BOOLEAN /\ ier \in BOOLEAN
  /\ received \in 0 .. MaxBytes /\ raised \in 0 .. MaxRaised

Init ==
  /\ PicInit /\ UartInit
  /\ dat \in Byte /\ ready = FALSE /\ ier = FALSE
  /\ received = 0 /\ raised = 0

\* A byte arrives; one that was not read yet is overwritten.  The line of the
\* UART is up while there is a byte to read.
ByteArrives(byte) ==
  /\ received < MaxBytes /\ received' = received + 1
  /\ dat' = byte /\ ready' = TRUE
  /\ IF ier /\ ~ready THEN Raise(UartIrq) ELSE UNCHANGED picvars
  /\ UNCHANGED <<uartvars, ier, raised>>

OtherDevice(irq) ==
  /\ irq \in Lines \ {UartIrq}
  /\ raised < MaxRaised /\ raised' = raised + 1
  /\ Raise(irq)
  /\ UNCHANGED <<uartvars, dat, ready, ier, received>>

\* uart_setup up to the registration of the handler, then its write of IER.
UartSetup == Register(UartIrq, "timer", "uart") /\ UNCHANGED <<uartvars, devicevars>>

UartEnable ==
  /\ cpu = "uart" /\ cpu' = "drivers"
  /\ ier' = TRUE
  /\ irr' = IF ready THEN irr \cup {UartIrq} ELSE irr
  /\ UNCHANGED <<isr, mask, imr, handlers, vector, uartvars, dat, ready, received, raised>>

Boot ==
  \/ /\ I8259Setup \/ I8254Setup \/ (\E irq \in Irq : DriverSetup(irq)) \/ EnableScheduler
     /\ UNCHANGED <<uartvars, devicevars>>
  \/ UartSetup
  \/ UartEnable

\* What cpu_intr_main does besides calling a handler.
Interrupt ==
  /\ EoiMaster \/ EoiSlave
  /\ UNCHANGED <<uartvars, devicevars>>

\* The call of the handler; only the UART's is modelled.
Handler ==
  /\ Return
  /\ IF vector = UartIrq /\ vector \in handlers
     THEN UartIrqHandler(dat) /\ ready' = FALSE
     ELSE UNCHANGED <<uartvars, ready>>
  /\ UNCHANGED <<dat, ier, received, raised>>

Accept == (\E irq \in Irq : Acknowledge(irq)) /\ UNCHANGED <<uartvars, devicevars>>
Lose   == (\E irq \in Irq : Vanish(irq)) /\ UNCHANGED <<uartvars, devicevars>>

\* Thread code, between interrupts.
Run(step) == cpu = "on" /\ step /\ UNCHANGED <<picvars, devicevars>>
Woken(t) == Run(UartReadWoken(t))

Next ==
  \/ \E byte \in Byte : ByteArrives(byte)
  \/ \E irq \in Irq : OtherDevice(irq)
  \/ Boot \/ Accept \/ Lose \/ Interrupt \/ Handler
  \/ \E t \in Thread : Run(UartRead(t)) \/ Woken(t) \/ Run(SpuriousWakeup(t))

\* The processor goes on with what it does, it accepts requests while
\* interrupts are enabled, and a thread that is woken up runs eventually.
Spec ==
  /\ Init /\ [][Next]_vars
  /\ WF_vars(Boot) /\ WF_vars(Accept) /\ WF_vars(Interrupt) /\ WF_vars(Handler)
  /\ \A t \in Thread : WF_vars(Woken(t))

-----------------------------------------------------------------------------
\* No byte is left in the UART: the edge of its line is never missed, whether
\* it comes before the driver is set up, while the UART's or another interrupt
\* is handled, or while interrupts are disabled.
BytesAreTaken == ready ~> ~ready
=============================================================================
