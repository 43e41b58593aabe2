------------------------------ MODULE IrqProofs -----------------------------
(***************************************************************************)
(* Proofs about Irq, for any set of devices, drivers, readers and bytes,   *)
(* any size of the buffer and any width of its indexes: the interrupt      *)
(* controllers and the reader of the UART first, then the bytes, which go  *)
(* through the circular buffer in order although its indexes overflow.     *)
(***************************************************************************)
EXTENDS Irq, CbufClient, Basics, SequenceTheorems

\* Leaves that name no prover are for Zenon; the others need arithmetic,
\* sequences or function updates and name the SMT solver.
USE ZenonT(30)

\* Where the interrupt being handled comes from, and what is in service.
Real     == vector \in handlers /\ isr = InService(vector)
Spurious == \/ vector = 7 /\ isr = {}
            \/ vector = 15 /\ isr = {Cascade}

\* The masks say which handlers are registered; nothing is in service but
\* between the acceptance of an interrupt and its EOIs.
PicInv ==
  /\ PicTypeOK
  /\ Cascade \notin irr /\ Cascade \notin handlers
  /\ cpu = "reset" => imr = Irq /\ handlers = {}
  /\ cpu # "reset" => imr = Irq \ (handlers \cup {Cascade}) /\ mask = imr
  /\ cpu \notin {"entry", "slave"} => isr = {}
  /\ cpu = "entry" => Real \/ Spurious
  /\ cpu = "slave" => vector \in Slave /\ isr \subseteq {vector}
  /\ cpu \in {"slave", "handler"} => vector \in handlers \cup {7, 15}

\* The reader in the loop of uart_read is the waiter, and a thread sleeps
\* there only.
ReaderInv ==
  /\ uart_waiter \in Thread \cup {NULL}
  /\ state \in [Thread -> {"RUNNING", "SLEEPING"}]
  /\ pc \in [Thread -> {"out", "sleep"}]
  /\ OneReader
  /\ \A t \in Thread : state[t] = "SLEEPING" => pc[t] = "sleep"
  /\ SleepsOnlyWhenEmpty

IrqInv == PicInv /\ ReaderInv

LEMMA MinOne == \A x \in Int : Min({x}) = x
BY SMTT(30) DEF Min

LEMMA LastIrqs == Max(Master) = 7 /\ Max(Slave) = 15
<1>1. Max(Master) = 7
  <2>1. 7 \in Master /\ \A y \in Master : 7 >= y
    BY SMTT(30) DEF Master, NrIrqs
  <2>2. \A x \in Master : (\A y \in Master : x >= y) => x = 7
    BY SMTT(30) DEF Master, NrIrqs
  <2> QED BY <2>1, <2>2 DEF Max
<1>2. Max(Slave) = 15
  <2>1. 15 \in Slave /\ \A y \in Slave : 15 >= y
    BY SMTT(30) DEF Slave, Irq, Master, NrIrqs
  <2>2. \A x \in Slave : (\A y \in Slave : x >= y) => x = 15
    BY SMTT(30) DEF Slave, Irq, Master, NrIrqs
  <2> QED BY <2>1, <2>2 DEF Max
<1> QED BY <1>1, <1>2

\* The EOI to the master ends the service of a real interrupt on the master,
\* or of the cascade; after an interrupt that was not there it ends nothing
\* else.
LEMMA MasterEnds ==
  ASSUME PicInv, cpu = "entry"
  PROVE  IF vector \in Master THEN Ended(Master) = {}
                              ELSE Ended(Master) \subseteq {vector}
<1>1. CASE Real
  <2>1. CASE vector \in Master
    <3>1. isr \cap Master = {vector} /\ isr = {vector}
      BY <1>1, <2>1 DEF Real, InService, Slave
    <3> QED BY <2>1, <3>1, MinOne, SMTT(30) DEF Ended, Master, NrIrqs
  <2>2. CASE vector \notin Master
    <3>1. vector \in Slave
      BY <2>2 DEF PicInv, PicTypeOK, Slave
    <3>2. isr = {vector, Cascade} /\ isr \cap Master = {Cascade}
      BY <1>1, <2>2, <3>1, SMTT(30) DEF Real, InService, Master, NrIrqs, Cascade
    <3> QED BY <2>2, <3>2, MinOne, SMTT(30) DEF Ended, Cascade
  <2> QED BY <2>1, <2>2
<1>2. CASE Spurious
  <2>1. CASE vector = 7 /\ isr = {}
    BY <2>1 DEF Ended, Master, NrIrqs
  <2>2. CASE vector = 15 /\ isr = {Cascade}
    <3>1. isr \cap Master = {Cascade} /\ vector \notin Master
      BY <2>2, SMTT(30) DEF Master, NrIrqs, Cascade
    <3> QED BY <2>2, <3>1, MinOne, SMTT(30) DEF Ended, Cascade
  <2> QED BY <1>2, <2>1, <2>2 DEF Spurious
<1> QED BY <1>1, <1>2 DEF PicInv

LEMMA SlaveEnds ==
  ASSUME PicInv, cpu = "slave"
  PROVE  Ended(Slave) = {}
<1>1. CASE isr = {}
  BY <1>1 DEF Ended
<1>2. CASE isr = {vector}
  <2>1. isr \cap Slave = {vector} /\ vector \in Int
    BY <1>2, SMTT(30) DEF PicInv, Slave, Irq, NrIrqs
  <2> QED BY <1>2, <2>1, MinOne DEF Ended
<1> QED BY <1>1, <1>2 DEF PicInv

-----------------------------------------------------------------------------
\* The controllers, the masks and the handlers.

LEMMA PicInitially == PicInit => PicInv
BY SMTT(30) DEF PicInit, PicInv, PicTypeOK, Irq, NrIrqs, Phase

LEMMA RaiseKeeps ==
  ASSUME PicInv, NEW irq \in Irq \ {Cascade}, Raise(irq)
  PROVE  PicInv'
BY DEF PicInv, PicTypeOK, Raise, Real, Spurious, InService

LEMMA RegisterKeeps ==
  ASSUME PicInv, NEW irq \in Irq \ {Cascade}, NEW from, NEW to,
         from \notin {"reset", "entry", "slave", "handler"},
         to \in Phase \ {"reset", "entry", "slave", "handler"},
         Register(irq, from, to)
  PROVE  PicInv'
<1>1. cpu # "reset" /\ mask = imr /\ imr = Irq \ (handlers \cup {Cascade})
  BY DEF PicInv, Register
<1>2. imr' = Irq \ (handlers' \cup {Cascade})
  BY <1>1 DEF Register, IrqEnable
<1>3. mask' = imr'
  BY <1>1 DEF Register, IrqEnable, Slave
<1>4. irr' \subseteq Irq /\ isr' = {} /\ vector' \in Irq /\ handlers' \subseteq Irq
      /\ Cascade \notin irr' /\ Cascade \notin handlers'
  BY DEF PicInv, PicTypeOK, Register
<1>5. cpu' \in Phase \ {"reset", "entry", "slave", "handler"}
  BY DEF Register
<1> QED BY <1>2, <1>3, <1>4, <1>5 DEF PicInv, PicTypeOK

LEMMA SetupKeeps ==
  ASSUME PicInv, I8259Setup
  PROVE  PicInv'
<1>1. imr' = Irq \ (handlers' \cup {Cascade}) /\ mask' = imr'
  BY DEF PicInv, I8259Setup
<1> QED BY <1>1 DEF PicInv, PicTypeOK, I8259Setup, Phase

LEMMA EnableKeeps ==
  ASSUME PicInv, EnableScheduler
  PROVE  PicInv'
BY DEF PicInv, PicTypeOK, EnableScheduler, Phase

\* An accepted request has a handler: its line is not masked.
LEMMA AcceptedIsHandled ==
  ASSUME PicInv, cpu = "on", NEW irq \in Irq, Foremost(irq)
  PROVE  irq \in handlers
BY DEF PicInv, Foremost, Deliverable

LEMMA AcknowledgeKeeps ==
  ASSUME PicInv, NEW irq \in Irq, Acknowledge(irq)
  PROVE  PicInv'
<1>1. irq \in handlers
  BY AcceptedIsHandled DEF Acknowledge
<1>2. isr' = InService(irq) /\ isr' \subseteq Irq
  BY SMTT(30) DEF Acknowledge, PicInv, InService, Irq, NrIrqs, Cascade
<1>3. Real'
  BY <1>1, <1>2 DEF Acknowledge, Real, InService
<1> QED BY <1>2, <1>3 DEF PicInv, PicTypeOK, Acknowledge, Phase

LEMMA VanishKeeps ==
  ASSUME PicInv, NEW irq \in Irq, Vanish(irq)
  PROVE  PicInv'
<1>1. Spurious'
  BY LastIrqs DEF Vanish, PicInv, Spurious
<1>2. isr' \subseteq Irq /\ vector' \in Irq
  BY LastIrqs, SMTT(30) DEF Vanish, PicInv, Irq, NrIrqs, Cascade
<1> QED BY <1>1, <1>2 DEF PicInv, PicTypeOK, Vanish, Phase

LEMMA EoiMasterKeeps ==
  ASSUME PicInv, EoiMaster
  PROVE  PicInv'
<1>1. isr' = Ended(Master) /\ cpu = "entry" /\ vector' = vector
  BY DEF EoiMaster
<1>2. vector \in handlers \cup {7, 15}
  BY <1>1 DEF PicInv, Real, Spurious
<1>3. CASE vector \in Master
  <2>1. isr' = {} /\ cpu' = "handler"
    BY <1>1, <1>3, MasterEnds DEF EoiMaster
  <2> QED BY <1>2, <2>1 DEF PicInv, PicTypeOK, EoiMaster, Phase
<1>4. CASE vector \notin Master
  <2>1. isr' \subseteq {vector} /\ cpu' = "slave" /\ vector \in Slave
    BY <1>1, <1>4, MasterEnds DEF EoiMaster, PicInv, PicTypeOK, Slave
  <2> QED BY <1>2, <2>1 DEF PicInv, PicTypeOK, EoiMaster, Phase
<1> QED BY <1>3, <1>4

LEMMA EoiSlaveKeeps ==
  ASSUME PicInv, EoiSlave
  PROVE  PicInv'
<1>1. isr' = {}
  BY SlaveEnds DEF EoiSlave
<1> QED BY <1>1 DEF PicInv, PicTypeOK, EoiSlave, Phase

LEMMA ReturnKeeps ==
  ASSUME PicInv, Return
  PROVE  PicInv'
BY DEF PicInv, PicTypeOK, Return, Phase

LEMMA PicUnchanged ==
  ASSUME PicInv, UNCHANGED picvars
  PROVE  PicInv'
BY DEF PicInv, PicTypeOK, picvars, Real, Spurious, InService

LEMMA PicStep ==
  ASSUME PicInv, [Next]_vars
  PROVE  PicInv'
<1>1. ASSUME NEW byte \in Byte, ByteArrives(byte)
      PROVE  PicInv'
  <2>1. CASE Raise(UartIrq)
    BY <2>1, RaiseKeeps, SMTT(30) DEF UartIrq, Irq, NrIrqs, Cascade
  <2> QED BY <1>1, <2>1, PicUnchanged DEF ByteArrives
<1>2. ASSUME NEW irq \in Irq, OtherDevice(irq)
      PROVE  PicInv'
  BY <1>2, RaiseKeeps, PicAssumption DEF OtherDevice
<1>3. CASE Boot
  <2>1. CASE I8254Setup
    BY <2>1, RegisterKeeps, SMTT(30) DEF I8254Setup, TimerIrq, Irq, NrIrqs, Cascade, Phase
  <2>2. ASSUME NEW irq \in Irq, DriverSetup(irq)
        PROVE  PicInv'
    BY <2>2, RegisterKeeps, PicAssumption DEF DriverSetup, Phase
  <2>3. CASE UartSetup
    BY <2>3, RegisterKeeps, SMTT(30) DEF UartSetup, UartIrq, Irq, NrIrqs, Cascade, Phase
  <2>4. CASE UartEnable
    BY <2>4, SMTT(30) DEF UartEnable, PicInv, PicTypeOK, UartIrq, Irq, NrIrqs, Cascade, Phase
  <2> QED BY <1>3, <2>1, <2>2, <2>3, <2>4, SetupKeeps, EnableKeeps DEF Boot
<1>4. CASE Accept
  BY <1>4, AcknowledgeKeeps DEF Accept
<1>5. CASE Lose
  BY <1>5, VanishKeeps DEF Lose
<1>6. CASE Interrupt
  BY <1>6, EoiMasterKeeps, EoiSlaveKeeps DEF Interrupt
<1>7. CASE Handler
  BY <1>7, ReturnKeeps DEF Handler
<1>8. CASE UNCHANGED picvars
  BY <1>8, PicUnchanged
<1> QED
  BY <1>1, <1>2, <1>3, <1>4, <1>5, <1>6, <1>7, <1>8 DEF Next, vars, Run, Woken

-----------------------------------------------------------------------------
\* The readers.

LEMMA ReaderInitially == UartInit => ReaderInv
BY UartAssumption DEF UartInit, ReaderInv, OneReader, SleepsOnlyWhenEmpty

\* The handler wakes up whoever sleeps.
LEMMA HandlerKeeps ==
  ASSUME ReaderInv, NEW byte, UartIrqHandler(byte)
  PROVE  ReaderInv'
<1>1. CASE UNCHANGED <<uart_cbuf, state>>
  BY <1>1 DEF UartIrqHandler, ReaderInv, OneReader, SleepsOnlyWhenEmpty
<1>2. CASE state' = WaiterWoken
  <2>1. \A t \in Thread : state'[t] = "RUNNING"
    BY <1>2, UartAssumption DEF WaiterWoken, ReaderInv, OneReader
  <2>2. state' \in [Thread -> {"RUNNING", "SLEEPING"}]
    BY <1>2 DEF WaiterWoken, ReaderInv
  <2> QED BY <2>1, <2>2 DEF UartIrqHandler, ReaderInv, OneReader, SleepsOnlyWhenEmpty
<1> QED BY <1>1, <1>2 DEF UartIrqHandler

\* A turn of the loop, by a thread that no other is in the loop with.
LEMMA ReadTurnKeeps ==
  ASSUME ReaderInv, NEW t \in Thread, state[t] = "RUNNING", uart_waiter \in {t, NULL},
         ReadTurn(t)
  PROVE  ReaderInv'
<1>1. \A u \in Thread \ {t} : pc[u] = "out" /\ state[u] = "RUNNING"
  BY UartAssumption DEF ReaderInv, OneReader
<1>2. CASE CbufSize(uart_cbuf) = 0
  <2>1. CbufSize(uart_cbuf)' = 0
    BY <1>2 DEF ReadTurn
  <2> QED BY <1>1, <1>2, <2>1, UartAssumption
      DEF ReadTurn, ReaderInv, OneReader, SleepsOnlyWhenEmpty
<1>3. CASE CbufSize(uart_cbuf) # 0
  BY <1>1, <1>3, UartAssumption DEF ReadTurn, ReaderInv, OneReader, SleepsOnlyWhenEmpty
<1> QED BY <1>2, <1>3

LEMMA ReaderUnchanged ==
  ASSUME ReaderInv, UNCHANGED uartvars
  PROVE  ReaderInv'
BY DEF ReaderInv, uartvars, OneReader, SleepsOnlyWhenEmpty

LEMMA ReaderStep ==
  ASSUME ReaderInv, [Next]_vars
  PROVE  ReaderInv'
<1>1. CASE Handler
  BY <1>1, HandlerKeeps, ReaderUnchanged DEF Handler, uartvars
<1>2. ASSUME NEW t \in Thread, Run(UartRead(t))
      PROVE  ReaderInv'
  BY <1>2, ReadTurnKeeps DEF Run, UartRead
<1>3. ASSUME NEW t \in Thread, Woken(t)
      PROVE  ReaderInv'
  BY <1>3, ReadTurnKeeps DEF Woken, Run, UartReadWoken, ReaderInv, OneReader
<1>4. ASSUME NEW t \in Thread, Run(SpuriousWakeup(t))
      PROVE  ReaderInv'
  BY <1>4 DEF Run, SpuriousWakeup, ReaderInv, OneReader, SleepsOnlyWhenEmpty
<1>5. CASE UNCHANGED uartvars
  BY <1>5, ReaderUnchanged
<1> QED
  BY <1>1, <1>2, <1>3, <1>4, <1>5
  DEF Next, vars, ByteArrives, OtherDevice, Boot, UartSetup, UartEnable, Accept, Lose,
      Interrupt

-----------------------------------------------------------------------------
LEMMA IrqInvariance == Spec => []IrqInv
<1>1. Init => IrqInv
  BY PicInitially, ReaderInitially DEF Init, IrqInv
<1>2. IrqInv /\ [Next]_vars => IrqInv'
  BY PicStep, ReaderStep DEF IrqInv
<1> QED BY <1>1, <1>2, PTL DEF Spec

\* Whatever devices interrupt and whichever lines drop, the two EOIs of
\* i8259_irq_eoi leave nothing in service when cpu_intr_main calls a handler
\* and when thread code runs.
THEOREM EoiEndsService == Spec => []ServiceEnded
<1>1. IrqInv => ServiceEnded
  BY DEF IrqInv, PicInv, ServiceEnded
<1> QED BY <1>1, IrqInvariance, PTL

\* cpu_intr_main finds no handler only for IRQ 7 and 15, for any set of
\* drivers that main registers.
THEOREM DispatchFindsHandler == Spec => []OnlyHandledInterrupts
<1>1. IrqInv => OnlyHandledInterrupts
  BY LastIrqs DEF IrqInv, PicInv, OnlyHandledInterrupts
<1> QED BY <1>1, IrqInvariance, PTL

\* No wake-up of uart_read is lost, for any number of readers and any buffer.
THEOREM UartWakeupNotLost == Spec => []SleepsOnlyWhenEmpty
<1>1. IrqInv => SleepsOnlyWhenEmpty
  BY DEF IrqInv, ReaderInv
<1> QED BY <1>1, IrqInvariance, PTL

-----------------------------------------------------------------------------
(* The bytes.                                                              *)

\* Indexes.

LEMMA Ranges ==
  /\ Capacity \in Nat \ {0} /\ IndexRange \in Nat \ {0} /\ Capacity < IndexRange
  /\ \E q \in Int : IndexRange = Capacity * q
<1>1. Capacity \in Nat \ {0} /\ IndexRange \in Nat \ {0} /\ Capacity < IndexRange
      /\ IndexRange % Capacity = 0
  BY CbufAssumption, SMTT(30)
<1>2. IndexRange \div Capacity \in Int
      /\ IndexRange = Capacity * (IndexRange \div Capacity) + (IndexRange % Capacity)
  BY <1>1, DivMod, SMTT(30)
<1>3. IndexRange = Capacity * (IndexRange \div Capacity)
  BY <1>1, <1>2, SMTT(30)
<1> QED BY <1>1, <1>2, <1>3

\* The overflow of an index does not change the position it stands for.
LEMMA WrapKeepsPosition ==
  ASSUME NEW a \in Int
  PROVE  CbufIndex(a - IndexRange) = CbufIndex(a)
<1>1. PICK q \in Int : IndexRange = Capacity * q
  BY Ranges
<1>2. PICK k \in Int : a = Capacity * k + (a % Capacity)
  BY Ranges, DivMod
<1>3. a % Capacity \in 0 .. Capacity - 1 /\ Capacity \in Nat \ {0}
  BY Ranges, DivMod
<1>4. Capacity * (k - q) = Capacity * k - Capacity * q
  BY <1>3, Distribute, SMTT(30)
<1>5. Capacity * k \in Int /\ Capacity * q \in Int /\ k - q \in Int
  BY <1>3, SMTT(30)
<1>6. a - IndexRange = Capacity * (k - q) + (a % Capacity)
  BY <1>1, <1>2, <1>3, <1>4, <1>5, SMTT(30)
<1>7. a - IndexRange \in Int
  BY Ranges, SMTT(30)
<1> QED BY <1>3, <1>5, <1>6, <1>7, Residue DEF CbufIndex

LEMMA AddOne ==
  ASSUME NEW a \in Index
  PROVE  Add(a, 1) \in Index /\ Add(a, 1) = IF a + 1 = IndexRange THEN 0 ELSE a + 1
<1>1. IndexRange \in Nat \ {0} /\ a \in Nat /\ a < IndexRange
  BY Ranges, SMTT(30) DEF Index
<1>2. CASE a + 1 = IndexRange
  <2>1. a + 1 = IndexRange * 1 + 0
    BY <1>1, <1>2, SMTT(30)
  <2>2. (a + 1) % IndexRange = 0
    BY <1>1, <2>1, Residue, SMTT(30)
  <2> QED BY <1>1, <1>2, <2>2, SMTT(30) DEF Add, Index
<1>3. CASE a + 1 # IndexRange
  <2>1. a + 1 = IndexRange * 0 + (a + 1) /\ a + 1 \in 0 .. IndexRange - 1
    BY <1>1, <1>3, SMTT(30)
  <2>2. (a + 1) % IndexRange = a + 1
    BY <1>1, <2>1, Residue, SMTT(30)
  <2> QED BY <1>1, <1>3, <2>2, SMTT(30) DEF Add, Index
<1> QED BY <1>2, <1>3

LEMMA Difference ==
  ASSUME NEW a \in Index, NEW b \in Index
  PROVE  Sub(a, b) = IF a >= b THEN a - b ELSE a - b + IndexRange
<1>1. IndexRange \in Nat \ {0} /\ a \in Nat /\ a < IndexRange /\ b \in Nat /\ b < IndexRange
  BY Ranges, SMTT(30) DEF Index
<1>2. CASE a >= b
  <2>1. a - b = IndexRange * 0 + (a - b) /\ a - b \in 0 .. IndexRange - 1
    BY <1>1, <1>2, SMTT(30)
  <2> QED BY <1>1, <1>2, <2>1, Residue, SMTT(30) DEF Sub
<1>3. CASE a < b
  <2>1. a - b = IndexRange * (-1) + (a - b + IndexRange)
        /\ a - b + IndexRange \in 0 .. IndexRange - 1
    BY <1>1, <1>3, SMTT(30)
  <2> QED BY <1>1, <1>3, <2>1, Residue, SMTT(30) DEF Sub
<1> QED BY <1>1, <1>2, <1>3, SMTT(30)

-----------------------------------------------------------------------------
\* The buffer.

LEMMA SizeValue ==
  ASSUME NEW c \in CbufType
  PROVE  CbufSize(c) = IF c.end >= c.start THEN c.end - c.start
                                           ELSE c.end - c.start + IndexRange
<1>1. c.end \in Index /\ c.start \in Index
  BY DEF CbufType
<1> QED BY <1>1, Difference DEF CbufSize

LEMMA SizeIsNat ==
  ASSUME NEW c \in CbufType
  PROVE  CbufSize(c) \in 0 .. IndexRange - 1
<1>1. c.end \in Index /\ c.start \in Index
  BY DEF CbufType
<1> QED BY <1>1, SizeValue, Ranges, SMTT(30) DEF Index

LEMMA PositionsExist ==
  ASSUME NEW a \in Int
  PROVE  CbufIndex(a) \in 0 .. Capacity - 1
BY Ranges, DivMod DEF CbufIndex

LEMMA ContentsAreBytes ==
  ASSUME NEW c \in CbufType
  PROVE  /\ Contents(c) \in Seq(Byte)
         /\ Len(Contents(c)) = CbufSize(c)
         /\ \A i \in 1 .. CbufSize(c) : Contents(c)[i] = c.buf[CbufIndex(c.start + i - 1)]
<1>1. CbufSize(c) \in Nat
  BY SizeIsNat, Ranges, SMTT(30)
<1>2. \A i \in 1 .. CbufSize(c) : c.buf[CbufIndex(c.start + i - 1)] \in Byte
  <2> TAKE i \in 1 .. CbufSize(c)
  <2>1. c.start + i - 1 \in Int /\ c.buf \in [0 .. Capacity - 1 -> Byte]
    BY <1>1, Ranges, SMTT(30) DEF CbufType, Index
  <2> QED BY <2>1, PositionsExist
<1>3. Contents(c) \in [1 .. CbufSize(c) -> Byte]
  BY <1>2 DEF Contents
<1>4. Contents(c) \in Seq(Byte)
  BY <1>1, <1>3, SeqDef
<1>5. Len(Contents(c)) = CbufSize(c)
  BY <1>1, <1>3, <1>4, LenProperties, SMTT(30)
<1> QED BY <1>4, <1>5 DEF Contents

LEMMA EndPosition ==
  ASSUME NEW c \in CbufType
  PROVE  CbufIndex(c.end) = CbufIndex(c.start + CbufSize(c))
<1>1. c.end \in Int /\ c.start \in Int /\ IndexRange \in Nat /\ CbufSize(c) \in Nat
  BY Ranges, SizeIsNat, SMTT(30) DEF CbufType, Index
<1>2. c.end = c.start + CbufSize(c) \/ c.end = c.start + CbufSize(c) - IndexRange
  BY <1>1, SizeValue, SMTT(30)
<1> QED BY <1>1, <1>2, WrapKeepsPosition, SMTT(30)

\* The position that cbuf_pushb writes to holds none of the contents, unless
\* the buffer is full.
LEMMA EndIsFree ==
  ASSUME NEW c \in CbufType, CbufSize(c) < Capacity, NEW i \in 1 .. CbufSize(c)
  PROVE  CbufIndex(c.start + i - 1) # CbufIndex(c.end)
<1>1. c.start \in Int /\ Capacity \in Nat \ {0} /\ CbufSize(c) \in Nat
  BY Ranges, SizeIsNat, SMTT(30) DEF CbufType, Index
<1> DEFINE a == c.start + i - 1
           d == CbufSize(c) - i + 1
<1>4. a \in Int /\ d \in 1 .. Capacity - 1 /\ a + d = c.start + CbufSize(c)
  BY <1>1, SMTT(30)
<1>5. CbufIndex(a + d) # CbufIndex(a)
  <2> HIDE DEF a, d
  <2> QED BY <1>1, <1>4, NearbyDiffer DEF CbufIndex
<1> QED BY <1>4, <1>5, EndPosition

LEMMA PushbGrows ==
  ASSUME NEW c \in CbufType, CbufSize(c) < Capacity, NEW byte \in Byte
  PROVE  /\ Pushb(c, byte) \in CbufType
         /\ CbufSize(Pushb(c, byte)) = CbufSize(c) + 1
         /\ Pushb(c, byte).start = c.start
         /\ Pushb(c, byte).buf = [c.buf EXCEPT ![CbufIndex(c.end)] = byte]
<1> DEFINE p == [c EXCEPT !.buf[CbufIndex(c.end)] = byte, !.end = Add(@, 1)]
<1>1. c.end \in Index /\ c.start \in Index /\ c.buf \in [0 .. Capacity - 1 -> Byte]
  BY DEF CbufType
<1>0. c.end \in 0 .. IndexRange - 1 /\ c.start \in 0 .. IndexRange - 1 /\ c.end \in Int
      /\ IndexRange \in Nat /\ Capacity \in Nat /\ Capacity < IndexRange
  BY <1>1, Ranges, SMTT(30) DEF Index
<1>2. /\ p.start = c.start
      /\ p.end = Add(c.end, 1)
      /\ p.buf = [c.buf EXCEPT ![CbufIndex(c.end)] = byte]
      /\ p \in CbufType
  <2>1. Add(c.end, 1) \in Index
    BY <1>1, AddOne
  <2>2. CbufIndex(c.end) \in 0 .. Capacity - 1
    BY <1>0, PositionsExist
  <2> QED BY <1>1, <2>1, <2>2 DEF CbufType
<1>3. CbufSize(p) = CbufSize(c) + 1
  <2>1. CbufSize(c) = IF c.end >= c.start THEN c.end - c.start
                                          ELSE c.end - c.start + IndexRange
    BY SizeValue
  <2>2. CbufSize(p) = IF p.end >= c.start THEN p.end - c.start
                                          ELSE p.end - c.start + IndexRange
    BY <1>2, SizeValue
  <2>3. p.end = IF c.end + 1 = IndexRange THEN 0 ELSE c.end + 1
    BY <1>1, <1>2, AddOne
  <2> HIDE DEF p
  <2> QED BY <1>0, <2>1, <2>2, <2>3, SMTT(30)
<1>4. Pushb(c, byte) = p
  <2>1. Pushb(c, byte) = UpdateStart(p)
    BY DEF Pushb
  <2>2. ~(CbufSize(p) > Capacity)
    BY <1>3, SizeIsNat, Ranges, SMTT(30)
  <2> HIDE DEF p
  <2> QED BY <2>1, <2>2 DEF UpdateStart
<1> HIDE DEF p
<1> QED BY <1>2, <1>3, <1>4

LEMMA PushbAppends ==
  ASSUME NEW c \in CbufType, CbufSize(c) < Capacity, NEW byte \in Byte
  PROVE  Contents(Pushb(c, byte)) = Append(Contents(c), byte)
<1> DEFINE p == Pushb(c, byte)
           n == CbufSize(c)
<1>1. /\ p \in CbufType /\ CbufSize(p) = n + 1 /\ p.start = c.start
      /\ p.buf = [c.buf EXCEPT ![CbufIndex(c.end)] = byte]
  BY PushbGrows
<1>2. n \in Nat /\ c.start \in Int /\ c.end \in Int /\ IndexRange \in Nat
      /\ c.buf \in [0 .. Capacity - 1 -> Byte]
  BY SizeIsNat, Ranges, SMTT(30) DEF CbufType, Index
<1>3. Append(Contents(c), byte) \in Seq(Byte) /\ Len(Append(Contents(c), byte)) = n + 1
      /\ \A i \in 1 .. n + 1 :
           Append(Contents(c), byte)[i] = IF i <= n THEN Contents(c)[i] ELSE byte
  BY <1>2, ContentsAreBytes, SMTT(30)
<1>4. ASSUME NEW i \in 1 .. n + 1
      PROVE  Contents(p)[i] = Append(Contents(c), byte)[i]
  <2>1. Contents(p)[i] = p.buf[CbufIndex(c.start + i - 1)]
    BY <1>1, ContentsAreBytes
  <2>0. c.start + i - 1 \in Int /\ i \in Int
    BY <1>2, SMTT(30)
  <2> HIDE DEF p
  <2>2. CASE i <= n
    <3>1. CbufIndex(c.start + i - 1) # CbufIndex(c.end)
      BY <1>2, <2>2, EndIsFree, SMTT(30)
    <3>2. p.buf[CbufIndex(c.start + i - 1)] = c.buf[CbufIndex(c.start + i - 1)]
      BY <1>1, <1>2, <2>0, <3>1, PositionsExist
    <3>3. Contents(c)[i] = c.buf[CbufIndex(c.start + i - 1)]
      BY <1>2, <2>2, ContentsAreBytes, SMTT(30)
    <3> QED BY <1>3, <2>1, <2>2, <3>2, <3>3
  <2>3. CASE i = n + 1
    <3>1. c.start + i - 1 = c.start + n
      <4> HIDE DEF n
      <4> QED BY <1>2, <2>0, <2>3, SMTT(30)
    <3>2. CbufIndex(c.start + i - 1) = CbufIndex(c.end)
      BY <3>1, EndPosition
    <3>3. p.buf[CbufIndex(c.end)] = byte
      BY <1>1, <1>2, PositionsExist
    <3> QED BY <1>2, <1>3, <2>1, <2>3, <3>2, <3>3, SMTT(30)
  <2>4. i <= n \/ i = n + 1
    <3> HIDE DEF n
    <3> QED BY <1>2, <2>0, SMTT(30)
  <2> QED BY <2>2, <2>3, <2>4
<1>5. Contents(p) \in Seq(Byte) /\ Len(Contents(p)) = n + 1
  BY <1>1, ContentsAreBytes
<1> QED BY <1>3, <1>4, <1>5, SeqEqual

LEMMA PopbShrinks ==
  ASSUME NEW c \in CbufType, CbufSize(c) # 0
  PROVE  /\ Popb(c) \in CbufType
         /\ CbufSize(Popb(c)) = CbufSize(c) - 1
         /\ Popb(c).buf = c.buf
         /\ Popb(c).start = Add(c.start, 1)
<1> DEFINE p == Popb(c)
<1>1. c.end \in Index /\ c.start \in Index /\ Add(c.start, 1) \in Index
  BY AddOne DEF CbufType
<1>2. /\ p.start = Add(c.start, 1) /\ p.end = c.end /\ p.buf = c.buf
      /\ p \in CbufType
  BY <1>1 DEF Popb, CbufType
<1>3. CbufSize(c) = IF c.end >= c.start THEN c.end - c.start
                                        ELSE c.end - c.start + IndexRange
  BY SizeValue
<1>4. CbufSize(p) = IF c.end >= p.start THEN c.end - p.start
                                        ELSE c.end - p.start + IndexRange
  BY <1>2, SizeValue
<1>5. p.start = IF c.start + 1 = IndexRange THEN 0 ELSE c.start + 1
  BY <1>1, <1>2, AddOne
<1>6. c.end \in 0 .. IndexRange - 1 /\ c.start \in 0 .. IndexRange - 1 /\ IndexRange \in Nat
  BY <1>1, Ranges DEF Index
<1>7. CbufSize(p) = CbufSize(c) - 1
  <2> HIDE DEF p
  <2> QED BY <1>3, <1>4, <1>5, <1>6, SMTT(30)
<1> QED BY <1>2, <1>7

LEMMA PopbTakesFirst ==
  ASSUME NEW c \in CbufType, CbufSize(c) # 0
  PROVE  PopbByte(c) \in Byte /\ Contents(c) = <<PopbByte(c)>> \o Contents(Popb(c))
<1> DEFINE p == Popb(c)
           b == PopbByte(c)
           n == CbufSize(c)
<1>1. p \in CbufType /\ CbufSize(p) = n - 1 /\ p.buf = c.buf /\ p.start = Add(c.start, 1)
  BY PopbShrinks
<1>2. n \in Nat \ {0} /\ c.start \in Index /\ c.start \in Int /\ IndexRange \in Nat
      /\ c.buf \in [0 .. Capacity - 1 -> Byte]
  BY SizeIsNat, Ranges, SMTT(30) DEF CbufType, Index
<1>3. b = c.buf[CbufIndex(c.start)] /\ b \in Byte
  BY <1>2, PositionsExist DEF PopbByte
<1>4. /\ Contents(c) \in Seq(Byte) /\ Len(Contents(c)) = n
      /\ \A i \in 1 .. n : Contents(c)[i] = c.buf[CbufIndex(c.start + i - 1)]
  BY ContentsAreBytes
<1>5. /\ Contents(p) \in Seq(Byte) /\ Len(Contents(p)) = n - 1
      /\ \A i \in 1 .. n - 1 : Contents(p)[i] = c.buf[CbufIndex(p.start + i - 1)]
  BY <1>1, ContentsAreBytes
<1>6. p.start = c.start + 1 \/ p.start = c.start + 1 - IndexRange
  BY <1>1, <1>2, AddOne, SMTT(30)
<1> HIDE DEF p, b, n
<1>7. /\ <<b>> \o Contents(p) \in Seq(Byte) /\ Len(<<b>> \o Contents(p)) = n
      /\ \A i \in 1 .. n :
           (<<b>> \o Contents(p))[i] = IF i = 1 THEN b ELSE Contents(p)[i - 1]
  BY <1>2, <1>3, <1>5, SMTT(30)
<1>8. ASSUME NEW i \in 1 .. n
      PROVE  Contents(c)[i] = (<<b>> \o Contents(p))[i]
  <2>0. i \in Int
    BY <1>2, SMTT(30)
  <2>1. Contents(c)[i] = c.buf[CbufIndex(c.start + i - 1)]
    BY <1>4, Zenon
  <2>2. CASE i = 1
    <3>1. c.start + i - 1 = c.start
      BY <1>2, <2>2, SMTT(30)
    <3> QED BY <1>3, <1>7, <2>1, <2>2, <3>1
  <2>3. CASE i # 1
    <3>1. i - 1 \in 1 .. n - 1
      BY <1>2, <2>0, <2>3, SMTT(30)
    <3>2. Contents(p)[i - 1] = c.buf[CbufIndex(p.start + (i - 1) - 1)]
      BY <1>5, <3>1
    <3> DEFINE a == c.start + i - 1
    <3>3. a \in Int
      BY <1>2, <2>0, SMTT(30)
    <3>4. p.start + (i - 1) - 1 = a \/ p.start + (i - 1) - 1 = a - IndexRange
      BY <1>2, <1>6, <2>0, SMTT(30)
    <3>5. CbufIndex(a - IndexRange) = CbufIndex(a)
      BY <3>3, WrapKeepsPosition
    <3>6. CbufIndex(p.start + (i - 1) - 1) = CbufIndex(a)
      <4> HIDE DEF a
      <4> QED BY <3>4, <3>5
    <3> QED BY <1>7, <2>1, <2>3, <3>2, <3>6
  <2> QED BY <2>2, <2>3
<1>9. Contents(c) = <<b>> \o Contents(p)
  BY <1>4, <1>7, <1>8, SeqEqual
<1> QED BY <1>3, <1>9 DEF p, b

-----------------------------------------------------------------------------
\* The driver.

StreamInv ==
  /\ uart_cbuf \in CbufType /\ CbufSize(uart_cbuf) <= Capacity
  /\ accepted \in Seq(Byte) /\ delivered \in Seq(Byte)
  /\ dat \in Byte
  /\ StreamPreserved

LEMMA StreamInitially == Init => StreamInv
<1> SUFFICES ASSUME Init PROVE StreamInv
  OBVIOUS
<1>1. PICK b \in Byte : uart_cbuf = CbufInit([j \in 0 .. Capacity - 1 |-> b])
  BY DEF Init, UartInit
<1>2. uart_cbuf \in CbufType /\ uart_cbuf.end = InitIndex /\ uart_cbuf.start = InitIndex
      /\ InitIndex \in Int /\ Capacity \in Nat
  BY <1>1, CbufAssumption, SMTT(30) DEF CbufInit, CbufType, Index
<1>3. CbufSize(uart_cbuf) = 0
  BY <1>2, SizeValue, SMTT(30)
<1>4. Contents(uart_cbuf) = <<>>
  BY <1>2, <1>3, ContentsAreBytes, EmptySeq
<1>5. accepted = <<>> /\ delivered = <<>> /\ dat \in Byte
  BY DEF Init, UartInit
<1>6. StreamPreserved
  BY <1>4, <1>5, SMTT(30) DEF StreamPreserved
<1> QED BY <1>2, <1>3, <1>5, <1>6, SMTT(30) DEF StreamInv

LEMMA HandlerStream ==
  ASSUME StreamInv, UartIrqHandler(dat), UNCHANGED dat
  PROVE  StreamInv'
<1>1. CASE FreeSize(uart_cbuf) = 0
  BY <1>1 DEF UartIrqHandler, StreamInv, StreamPreserved
<1>2. CASE FreeSize(uart_cbuf) # 0
  <2>1. CbufSize(uart_cbuf) \in Nat /\ Capacity \in Nat
    BY SizeIsNat, Ranges, SMTT(30) DEF StreamInv
  <2>2. CbufSize(uart_cbuf) < Capacity
    BY <1>2, <2>1, SMTT(30) DEF StreamInv, FreeSize
  <2>3. uart_cbuf' \in CbufType /\ CbufSize(uart_cbuf)' = CbufSize(uart_cbuf) + 1
        /\ Contents(uart_cbuf)' = Append(Contents(uart_cbuf), dat)
    BY <1>2, <2>2, PushbGrows, PushbAppends DEF UartIrqHandler, StreamInv
  <2>4. accepted' = Append(accepted, dat) /\ delivered' = delivered
    BY <1>2 DEF UartIrqHandler
  <2>5. Contents(uart_cbuf) \in Seq(Byte)
    BY ContentsAreBytes DEF StreamInv
  <2>6. delivered \o Append(Contents(uart_cbuf), dat)
          = Append(delivered \o Contents(uart_cbuf), dat)
    BY <2>5, SMTT(30) DEF StreamInv
  <2>7. StreamPreserved'
    BY <2>3, <2>4, <2>6 DEF StreamInv, StreamPreserved
  <2>8. accepted' \in Seq(Byte) /\ delivered' \in Seq(Byte) /\ dat' \in Byte
    BY <2>4, SMTT(30) DEF StreamInv
  <2>9. CbufSize(uart_cbuf)' <= Capacity
    BY <2>1, <2>2, <2>3, SMTT(30)
  <2> QED BY <2>3, <2>7, <2>8, <2>9 DEF StreamInv
<1> QED BY <1>1, <1>2

LEMMA ReadTurnStream ==
  ASSUME StreamInv, NEW t \in Thread, ReadTurn(t), UNCHANGED <<accepted, dat>>
  PROVE  StreamInv'
<1>1. CASE CbufSize(uart_cbuf) = 0
  BY <1>1 DEF ReadTurn, StreamInv, StreamPreserved
<1>2. CASE CbufSize(uart_cbuf) # 0
  <2> DEFINE b == PopbByte(uart_cbuf)
             rest == Contents(Popb(uart_cbuf))
  <2>1. uart_cbuf' = Popb(uart_cbuf) /\ delivered' = Append(delivered, b)
    BY <1>2 DEF ReadTurn
  <2>2. uart_cbuf' \in CbufType /\ CbufSize(uart_cbuf)' = CbufSize(uart_cbuf) - 1
    BY <1>2, <2>1, PopbShrinks DEF StreamInv
  <2>3. b \in Byte /\ Contents(uart_cbuf) = <<b>> \o rest
    BY <1>2, PopbTakesFirst DEF StreamInv
  <2>4. rest \in Seq(Byte) /\ Contents(uart_cbuf)' = rest
    BY <2>1, <2>2, ContentsAreBytes
  <2>5. delivered \in Seq(Byte) /\ <<b>> \in Seq(Byte)
    BY <2>3, SMTT(30) DEF StreamInv
  <2> HIDE DEF b, rest
  <2>6. (delivered \o <<b>>) \o rest = delivered \o (<<b>> \o rest)
    BY <2>4, <2>5, ConcatAssociative, SMTT(30)
  <2>7. Append(delivered, b) = delivered \o <<b>> /\ Append(delivered, b) \in Seq(Byte)
    BY <2>3, <2>5, SMTT(30)
  <2>8. StreamPreserved'
    BY <2>1, <2>3, <2>4, <2>6, <2>7 DEF StreamInv, StreamPreserved
  <2>9. CbufSize(uart_cbuf)' <= Capacity
    BY <2>2, SizeIsNat, Ranges, SMTT(30) DEF StreamInv
  <2> QED BY <2>1, <2>2, <2>7, <2>8, <2>9 DEF StreamInv
<1> QED BY <1>1, <1>2

LEMMA StreamUnchanged ==
  ASSUME StreamInv, UNCHANGED <<uart_cbuf, accepted, delivered>>, dat' \in Byte
  PROVE  StreamInv'
BY DEF StreamInv, StreamPreserved

LEMMA StreamStep ==
  ASSUME StreamInv, [Next]_vars
  PROVE  StreamInv'
<1>1. ASSUME NEW byte \in Byte, ByteArrives(byte)
      PROVE  StreamInv'
  BY <1>1, StreamUnchanged DEF ByteArrives, uartvars
<1>2. CASE Handler
  BY <1>2, HandlerStream, StreamUnchanged DEF Handler, uartvars, StreamInv
<1>3. ASSUME NEW t \in Thread, Run(UartRead(t)) \/ Woken(t)
      PROVE  StreamInv'
  BY <1>3, ReadTurnStream DEF Run, Woken, UartRead, UartReadWoken, devicevars
<1>4. ASSUME NEW t \in Thread, Run(SpuriousWakeup(t))
      PROVE  StreamInv'
  BY <1>4, StreamUnchanged DEF Run, SpuriousWakeup, devicevars, StreamInv
<1>5. CASE UNCHANGED <<uartvars, dat>>
  BY <1>5, StreamUnchanged DEF uartvars, StreamInv
<1> QED
  BY <1>1, <1>2, <1>3, <1>4, <1>5
  DEF Next, vars, devicevars, OtherDevice, Boot, UartSetup, UartEnable, Accept, Lose,
      Interrupt

\* What uart_irq_handler put in the buffer is what uart_read returned and what
\* the buffer still holds, in order, for any capacity that divides the range
\* of the indexes: cbuf_pushb and cbuf_popb are those of a queue when the
\* indexes overflow, and when the buffer is full a byte is refused, not
\* written over another.
THEOREM UartStream == Spec => []StreamPreserved
<1>1. StreamInv => StreamPreserved
  BY DEF StreamInv
<1>2. StreamInv /\ [Next]_vars => StreamInv'
  BY StreamStep
<1> QED BY <1>1, <1>2, StreamInitially, PTL DEF Spec

-----------------------------------------------------------------------------
(* The circular buffer is a queue.                                         *)

\* Indexes are congruent to the numbers they overflow from.
LEMMA WrapOnce ==
  ASSUME NEW a \in Int
  PROVE  /\ a \in Index => a % IndexRange = a
         /\ a >= IndexRange /\ a < IndexRange + IndexRange => a % IndexRange = a - IndexRange
         /\ a < 0 /\ a >= -IndexRange => a % IndexRange = a + IndexRange
<1>0. IndexRange \in Nat \ {0}
  BY Ranges
<1>1. ASSUME a \in Index PROVE a % IndexRange = a
  <2>1. a = IndexRange * 0 + a /\ a \in 0 .. IndexRange - 1
    BY <1>0, <1>1, SMTT(30) DEF Index
  <2> QED BY <1>0, <2>1, Residue, SMTT(30)
<1>2. ASSUME a >= IndexRange /\ a < IndexRange + IndexRange
      PROVE  a % IndexRange = a - IndexRange
  <2>1. a = IndexRange * 1 + (a - IndexRange) /\ a - IndexRange \in 0 .. IndexRange - 1
    BY <1>0, <1>2, SMTT(30)
  <2> QED BY <1>0, <2>1, Residue, SMTT(30)
<1>3. ASSUME a < 0 /\ a >= -IndexRange
      PROVE  a % IndexRange = a + IndexRange
  <2>1. CASE a = -IndexRange
    <3>1. a = IndexRange * (-1) + 0 /\ 0 \in 0 .. IndexRange - 1
      BY <1>0, <2>1, SMTT(30)
    <3>2. a % IndexRange = 0
      BY <1>0, <3>1, Residue, SMTT(30)
    <3> QED BY <1>0, <2>1, <3>2, SMTT(30)
  <2>2. CASE a # -IndexRange
    <3>1. a = IndexRange * (-1) + (a + IndexRange) /\ a + IndexRange \in 0 .. IndexRange - 1
      BY <1>0, <1>3, <2>2, SMTT(30)
    <3> QED BY <1>0, <3>1, Residue, SMTT(30)
  <2> QED BY <2>1, <2>2
<1> QED BY <1>1, <1>2, <1>3

LEMMA AddValue ==
  ASSUME NEW a \in Index, NEW k \in Index
  PROVE  /\ Add(a, k) \in Index
         /\ Add(a, k) = IF a + k < IndexRange THEN a + k ELSE a + k - IndexRange
<1>1. IndexRange \in Nat \ {0} /\ a \in Nat /\ a < IndexRange /\ k \in Nat /\ k < IndexRange
      /\ a + k \in Int
  BY Ranges, SMTT(30) DEF Index
<1>2. CASE a + k < IndexRange
  <2>1. a + k \in Index
    BY <1>1, <1>2, SMTT(30) DEF Index
  <2> QED BY <1>1, <1>2, <2>1, WrapOnce DEF Add
<1>3. CASE ~(a + k < IndexRange)
  <2>1. a + k >= IndexRange /\ a + k < IndexRange + IndexRange /\ a + k - IndexRange \in Index
    BY <1>1, <1>3, SMTT(30) DEF Index
  <2> QED BY <1>1, <1>3, <2>1, WrapOnce, SMTT(30) DEF Add
<1> QED BY <1>2, <1>3

\* How far an index is from the start of a buffer.
LEMMA Offset ==
  ASSUME NEW s \in Index, NEW a \in Index
  PROVE  /\ Sub(a, s) \in Index
         /\ a = s + Sub(a, s) \/ a = s + Sub(a, s) - IndexRange
<1>1. IndexRange \in Nat \ {0} /\ a \in Nat /\ a < IndexRange /\ s \in Nat /\ s < IndexRange
  BY Ranges, SMTT(30) DEF Index
<1>2. Sub(a, s) = IF a >= s THEN a - s ELSE a - s + IndexRange
  BY Difference
<1> QED BY <1>1, <1>2, SMTT(30) DEF Index

\* The position of an index moved by m, from the offset of the index.
LEMMA OffsetPosition ==
  ASSUME NEW s \in Index, NEW a \in Index, NEW m \in Int
  PROVE  CbufIndex(a + m) = CbufIndex(s + Sub(a, s) + m)
<1> DEFINE d == Sub(a, s)
           x == s + d + m
<1>1. d \in Index /\ (a = s + d \/ a = s + d - IndexRange)
  BY Offset
<1>2. IndexRange \in Nat \ {0} /\ a \in Int /\ s \in Int /\ d \in Int
  BY <1>1, Ranges, SMTT(30) DEF Index
<1> HIDE DEF d
<1>3. x \in Int /\ (a + m = x \/ a + m = x - IndexRange)
  BY <1>1, <1>2, SMTT(30)
<1> HIDE DEF x
<1>4. CbufIndex(x - IndexRange) = CbufIndex(x)
  BY <1>3, WrapKeepsPosition
<1>5. CbufIndex(a + m) = CbufIndex(x)
  BY <1>3, <1>4
<1> QED BY <1>5 DEF x, d

\* Indexes with offsets.
LEMMA AddOffset ==
  ASSUME NEW s \in Index, NEW a \in Index, NEW k \in Index, Sub(a, s) + k < IndexRange
  PROVE  Add(a, k) \in Index /\ Sub(Add(a, k), s) = Sub(a, s) + k
<1> DEFINE b == Add(a, k)
           d == Sub(a, s)
<1>1. /\ IndexRange \in Nat \ {0} /\ a \in Nat /\ a < IndexRange /\ s \in Nat /\ s < IndexRange
      /\ k \in Nat /\ k < IndexRange
  BY Ranges, SMTT(30) DEF Index
<1>2. b \in Index /\ b = IF a + k < IndexRange THEN a + k ELSE a + k - IndexRange
  BY AddValue
<1>3. d = IF a >= s THEN a - s ELSE a - s + IndexRange
  BY Difference
<1>4. Sub(b, s) = IF b >= s THEN b - s ELSE b - s + IndexRange
  BY <1>2, Difference
<1>5. d + k < IndexRange
  OBVIOUS
<1> HIDE DEF b, d
<1>6. Sub(b, s) = d + k
  BY <1>1, <1>2, <1>3, <1>4, <1>5, SMTT(30)
<1> QED BY <1>2, <1>6 DEF b, d

\* Differences of indexes and of their offsets.
LEMMA SubOffsets ==
  ASSUME NEW s \in Index, NEW a \in Index, NEW b \in Index
  PROVE  Sub(a, b) = IF Sub(a, s) >= Sub(b, s) THEN Sub(a, s) - Sub(b, s)
                     ELSE Sub(a, s) - Sub(b, s) + IndexRange
<1> DEFINE d == Sub(a, s)
           e == Sub(b, s)
           f == Sub(a, b)
<1>1. /\ IndexRange \in Nat \ {0} /\ a \in Nat /\ a < IndexRange /\ s \in Nat /\ s < IndexRange
      /\ b \in Nat /\ b < IndexRange
  BY Ranges, SMTT(30) DEF Index
<1>2. /\ d = IF a >= s THEN a - s ELSE a - s + IndexRange
      /\ e = IF b >= s THEN b - s ELSE b - s + IndexRange
      /\ f = IF a >= b THEN a - b ELSE a - b + IndexRange
  BY Difference
<1> HIDE DEF d, e, f
<1>3. f = IF d >= e THEN d - e ELSE d - e + IndexRange
  BY <1>1, <1>2, SMTT(30)
<1> QED BY <1>3 DEF d, e, f

-----------------------------------------------------------------------------
\* Positions.

LEMMA PositionAfter ==
  ASSUME NEW a \in Int, NEW m \in 0 .. Capacity - 1
  PROVE  CbufIndex(a + m) = IF CbufIndex(a) + m < Capacity THEN CbufIndex(a) + m
                            ELSE CbufIndex(a) + m - Capacity
<1> DEFINE at == a % Capacity
<1>0. Capacity \in Nat \ {0}
  BY Ranges
<1>1. PICK k \in Int : a = Capacity * k + at
  BY <1>0, DivMod
<1>2. at \in 0 .. Capacity - 1 /\ Capacity * k \in Int /\ a + m \in Int /\ k + 1 \in Int
  BY <1>0, DivMod, SMTT(30)
<1> HIDE DEF at
<1>3. CASE at + m < Capacity
  <2>1. a + m = Capacity * k + (at + m) /\ at + m \in 0 .. Capacity - 1
    BY <1>0, <1>1, <1>2, <1>3, SMTT(30)
  <2>2. (a + m) % Capacity = at + m
    BY <1>0, <1>2, <2>1, Residue
  <2> QED BY <1>3, <2>2 DEF CbufIndex, at
<1>4. CASE ~(at + m < Capacity)
  <2>0. Capacity * (k + 1) = Capacity * k + Capacity
    BY <1>0, SMTT(30)
  <2>1. a + m = Capacity * (k + 1) + (at + m - Capacity) /\ at + m - Capacity \in 0 .. Capacity - 1
    BY <1>0, <1>1, <1>2, <1>4, <2>0, SMTT(30)
  <2>2. (a + m) % Capacity = at + m - Capacity
    BY <1>0, <1>2, <2>1, Residue
  <2> QED BY <1>4, <2>2 DEF CbufIndex, at
<1> QED BY <1>3, <1>4

LEMMA PositionPeriod ==
  ASSUME NEW a \in Int
  PROVE  CbufIndex(a - Capacity) = CbufIndex(a)
<1> DEFINE at == a % Capacity
<1>0. Capacity \in Nat \ {0}
  BY Ranges
<1>1. PICK k \in Int : a = Capacity * k + at
  BY <1>0, DivMod
<1>2. at \in 0 .. Capacity - 1 /\ Capacity * k \in Int /\ a - Capacity \in Int /\ k - 1 \in Int
  BY <1>0, DivMod, SMTT(30)
<1> HIDE DEF at
<1>3. Capacity * (k - 1) = Capacity * k - Capacity
  BY <1>0, SMTT(30)
<1>4. a - Capacity = Capacity * (k - 1) + at
  BY <1>0, <1>1, <1>2, <1>3, SMTT(30)
<1>5. (a - Capacity) % Capacity = at
  BY <1>0, <1>2, <1>4, Residue
<1> QED BY <1>5 DEF CbufIndex, at

\* The storage with data from position at on, around its end.
StoredAt(buf, at, data, p) ==
  LET m == IF p >= at THEN p - at ELSE p - at + Capacity
  IN  IF m < Len(data) THEN data[m + 1] ELSE buf[p]

LEMMA CopyProperties ==
  ASSUME NEW buf \in [0 .. Capacity - 1 -> Byte], NEW at \in 0 .. Capacity - 1,
         NEW data \in Seq(Byte), at + Len(data) <= Capacity
  PROVE  /\ Copy(buf, at, data) \in [0 .. Capacity - 1 -> Byte]
         /\ \A p \in 0 .. Capacity - 1 :
              Copy(buf, at, data)[p] = IF p >= at /\ p < at + Len(data) THEN data[p - at + 1]
                                       ELSE buf[p]
<1>0. Capacity \in Nat \ {0} /\ Len(data) \in Nat
  BY Ranges, SMTT(30)
<1>1. ASSUME NEW p \in 0 .. Capacity - 1
      PROVE  (IF p >= at /\ p < at + Len(data) THEN data[p - at + 1] ELSE buf[p]) \in Byte
  <2>1. CASE p >= at /\ p < at + Len(data)
    <3>1. p - at + 1 \in 1 .. Len(data)
      BY <1>0, <2>1, SMTT(30)
    <3> QED BY <2>1, <3>1, SMTT(30)
  <2>2. CASE ~(p >= at /\ p < at + Len(data))
    BY <2>2
  <2> QED BY <2>1, <2>2
<1> QED BY <1>1 DEF Copy

LEMMA StoreProperties ==
  ASSUME NEW buf \in [0 .. Capacity - 1 -> Byte], NEW index \in Int,
         NEW data \in Seq(Byte), Len(data) <= Capacity
  PROVE  /\ Store(buf, index, data) \in [0 .. Capacity - 1 -> Byte]
         /\ \A p \in 0 .. Capacity - 1 :
              Store(buf, index, data)[p] = StoredAt(buf, CbufIndex(index), data, p)
<1> DEFINE at   == CbufIndex(index)
           skip == Capacity - at
           head == SubSeq(data, 1, skip)
           rest == SubSeq(data, skip + 1, Len(data))
           once == Copy(buf, at, head)
<1>0. Capacity \in Nat \ {0} /\ Len(data) \in Nat
  BY Ranges, SMTT(30)
<1>1. at \in 0 .. Capacity - 1
  BY PositionsExist
<1>2. Store(buf, index, data) = IF Len(data) > skip THEN Copy(once, 0, rest)
                                ELSE Copy(buf, at, data)
  BY DEF Store
<1> HIDE DEF at
<1>3. CASE Len(data) > skip
  <2>1. /\ head \in Seq(Byte) /\ Len(head) = skip
        /\ \A i \in 1 .. skip : head[i] = data[i]
    BY <1>0, <1>1, <1>3, SMTT(30)
  <2>2. /\ rest \in Seq(Byte) /\ Len(rest) = Len(data) - skip
        /\ \A i \in 1 .. Len(data) - skip : rest[i] = data[skip + i]
    BY <1>0, <1>1, <1>3, SMTT(30)
  <2> HIDE DEF head, rest
  <2>3. at + Len(head) <= Capacity /\ 0 + Len(rest) <= Capacity /\ 0 \in 0 .. Capacity - 1
    BY <1>0, <1>1, <2>1, <2>2, SMTT(30)
  <2>4. /\ once \in [0 .. Capacity - 1 -> Byte]
        /\ \A p \in 0 .. Capacity - 1 :
             once[p] = IF p >= at /\ p < at + Len(head) THEN head[p - at + 1] ELSE buf[p]
    BY <1>1, <2>1, <2>3, CopyProperties
  <2> DEFINE twice == Copy(once, 0, rest)
  <2> HIDE DEF once
  <2>5. /\ twice \in [0 .. Capacity - 1 -> Byte]
        /\ \A p \in 0 .. Capacity - 1 :
             twice[p] = IF p >= 0 /\ p < 0 + Len(rest) THEN rest[p - 0 + 1] ELSE once[p]
    BY <2>2, <2>3, <2>4, CopyProperties
  <2> HIDE DEF twice
  <2>6. ASSUME NEW p \in 0 .. Capacity - 1 PROVE twice[p] = StoredAt(buf, at, data, p)
    <3>1. twice[p] = IF p >= 0 /\ p < 0 + Len(rest) THEN rest[p - 0 + 1] ELSE once[p]
      BY <2>5
    <3>2. once[p] = IF p >= at /\ p < at + Len(head) THEN head[p - at + 1] ELSE buf[p]
      BY <2>4
    <3>3. CASE p < Len(rest)
      <4>1. p < at /\ p - at + Capacity < Len(data) /\ p + 1 \in 1 .. Len(data) - skip
            /\ skip + (p + 1) = p - at + Capacity + 1 /\ p - 0 + 1 = p + 1
        BY <1>0, <1>1, <2>2, <3>3, SMTT(30)
      <4>2. twice[p] = rest[p + 1] /\ rest[p + 1] = data[skip + (p + 1)]
        BY <1>0, <2>2, <3>1, <3>3, <4>1, SMTT(30)
      <4>3. StoredAt(buf, at, data, p) = data[p - at + Capacity + 1]
        BY <1>1, <4>1, SMTT(30) DEF StoredAt
      <4> QED BY <4>1, <4>2, <4>3
    <3>4. CASE ~(p < Len(rest))
      <4>1. twice[p] = once[p]
        BY <1>0, <2>2, <3>1, <3>4, SMTT(30)
      <4>2. CASE p >= at
        <5>1. p < at + Len(head) /\ p - at < Len(data) /\ p - at + 1 \in 1 .. skip
          BY <1>0, <1>1, <1>3, <2>1, <4>2, SMTT(30)
        <5>2. once[p] = data[p - at + 1]
          BY <2>1, <3>2, <4>2, <5>1
        <5> QED BY <4>1, <4>2, <5>1, <5>2 DEF StoredAt
      <4>3. CASE ~(p >= at)
        <5>1. ~(p - at + Capacity < Len(data))
          BY <1>0, <1>1, <2>2, <3>4, SMTT(30)
        <5> QED BY <3>2, <4>1, <4>3, <5>1 DEF StoredAt
      <4> QED BY <4>2, <4>3
    <3> QED BY <3>3, <3>4
  <2>7. Store(buf, index, data) = twice
    BY <1>2, <1>3 DEF twice
  <2> QED BY <2>5, <2>6, <2>7 DEF at
<1>4. CASE ~(Len(data) > skip)
  <2> DEFINE c == Copy(buf, at, data)
  <2>1. at + Len(data) <= Capacity
    BY <1>0, <1>1, <1>4, SMTT(30)
  <2>2. /\ c \in [0 .. Capacity - 1 -> Byte]
        /\ \A p \in 0 .. Capacity - 1 :
             c[p] = IF p >= at /\ p < at + Len(data) THEN data[p - at + 1] ELSE buf[p]
    BY <1>1, <2>1, CopyProperties
  <2>3. Store(buf, index, data) = c
    BY <1>2, <1>4
  <2> HIDE DEF c
  <2>4. ASSUME NEW p \in 0 .. Capacity - 1 PROVE c[p] = StoredAt(buf, at, data, p)
    <3>1. c[p] = IF p >= at /\ p < at + Len(data) THEN data[p - at + 1] ELSE buf[p]
      BY <2>2
    <3>2. CASE p >= at
      <4>1. p < at + Len(data) <=> p - at < Len(data)
        BY <1>0, <1>1, SMTT(30)
      <4> QED BY <3>1, <3>2, <4>1 DEF StoredAt
    <3>3. CASE ~(p >= at)
      <4>1. ~(p - at + Capacity < Len(data))
        BY <1>0, <1>1, <2>1, SMTT(30)
      <4> QED BY <3>1, <3>3, <4>1 DEF StoredAt
    <3> QED BY <3>2, <3>3
  <2> QED BY <2>2, <2>3, <2>4 DEF at
<1> QED BY <1>3, <1>4

\* The bytes of the storage by their distance from the index of the copy.
LEMMA StoreBytes ==
  ASSUME NEW buf \in [0 .. Capacity - 1 -> Byte], NEW index \in Int,
         NEW data \in Seq(Byte), Len(data) <= Capacity, NEW m \in 0 .. Capacity - 1
  PROVE  Store(buf, index, data)[CbufIndex(index + m)]
           = IF m < Len(data) THEN data[m + 1] ELSE buf[CbufIndex(index + m)]
<1> DEFINE at == CbufIndex(index)
           p  == CbufIndex(index + m)
<1>0. Capacity \in Nat \ {0} /\ index + m \in Int /\ m \in Int
  BY Ranges, SMTT(30)
<1>1. at \in 0 .. Capacity - 1 /\ p \in 0 .. Capacity - 1
  BY <1>0, PositionsExist
<1>2. p = IF at + m < Capacity THEN at + m ELSE at + m - Capacity
  BY PositionAfter
<1>3. Store(buf, index, data)[p] = StoredAt(buf, at, data, p)
  BY <1>1, StoreProperties
<1> HIDE DEF at, p
<1>4. (IF p >= at THEN p - at ELSE p - at + Capacity) = m
  BY <1>0, <1>1, <1>2, SMTT(30)
<1>5. StoredAt(buf, at, data, p) = IF m < Len(data) THEN data[m + 1] ELSE buf[p]
  BY <1>4 DEF StoredAt
<1> QED BY <1>3, <1>5 DEF p

-----------------------------------------------------------------------------
\* cbuf_write.

\* The contents q with data from offset d on.
Overwritten(q, d, data) ==
  [i \in 1 .. (IF Len(q) > d + Len(data) THEN Len(q) ELSE d + Len(data)) |->
     IF i > d /\ i <= d + Len(data) THEN data[i - d] ELSE q[i]]

LEMMA WriteGrows ==
  ASSUME NEW c \in CbufType, CbufSize(c) <= Capacity, NEW index \in Index,
         Sub(index, c.start) <= CbufSize(c), NEW L \in 1 .. MaxData
  PROVE  /\ Add(index, L) \in Index
         /\ Sub(Add(index, L), c.start) = Sub(index, c.start) + L
         /\ RangeValid(c, c.start, Add(index, L)) <=> Sub(index, c.start) + L <= CbufSize(c)
<1> DEFINE s == c.start
           d == Sub(index, s)
           n == CbufSize(c)
           e == Add(index, L)
<1>1. /\ Capacity \in Nat /\ IndexRange \in Nat \ {0} /\ MaxData \in Nat
      /\ Capacity + MaxData < IndexRange
  BY Ranges, ClientAssumption
<1>2. c.start \in Index /\ c.end \in Index /\ L \in Index
  BY <1>1, SMTT(30) DEF CbufType, Index
<1>3. d \in Nat /\ n \in Nat /\ n = Sub(c.end, s)
  <2>1. d \in Index /\ n \in 0 .. IndexRange - 1
    BY <1>2, Offset, SizeIsNat
  <2> QED BY <1>1, <2>1, SMTT(30) DEF Index, CbufSize
<1>4. d + L < IndexRange
  <2>1. d <= n /\ n <= Capacity /\ L <= MaxData /\ L \in Nat
    BY <1>1, SMTT(30)
  <2> HIDE DEF d, n
  <2> QED BY <1>1, <1>3, <2>1, SMTT(30)
<1>5. e \in Index /\ Sub(e, s) = d + L
  BY <1>2, <1>4, AddOffset
<1>6. Sub(s, s) = 0
  <2>1. s \in Int
    BY <1>1, <1>2, SMTT(30) DEF Index
  <2>2. Sub(s, s) = IF s >= s THEN s - s ELSE s - s + IndexRange
    BY <1>2, Difference
  <2> QED BY <2>1, <2>2, SMTT(30)
<1>7. Sub(c.end, e) = IF n >= d + L THEN n - (d + L) ELSE n - (d + L) + IndexRange
  <2>1. Sub(c.end, e) = IF Sub(c.end, s) >= Sub(e, s) THEN Sub(c.end, s) - Sub(e, s)
                        ELSE Sub(c.end, s) - Sub(e, s) + IndexRange
    BY <1>2, <1>5, SubOffsets
  <2> QED BY <1>3, <1>5, <2>1
<1>8. RangeValid(c, s, e) <=> Sub(e, s) <= n /\ Sub(s, s) <= n /\ Sub(c.end, e) <= n
  BY DEF RangeValid
<1> HIDE DEF s, d, n, e
<1>9. RangeValid(c, s, e) <=> d + L <= n
  <2>1. RangeValid(c, s, e) <=> d + L <= n /\ 0 <= n /\ Sub(c.end, e) <= n
    BY <1>5, <1>6, <1>8
  <2> DEFINE x == Sub(c.end, e)
             b == RangeValid(c, s, e)
  <2>2. x = IF n >= d + L THEN n - (d + L) ELSE n - (d + L) + IndexRange
    BY <1>7
  <2> HIDE DEF x, b
  <2>3. b => d + L <= n
    BY <2>1 DEF b
  <2>4. d + L <= n => 0 <= n /\ x <= n
    BY <1>1, <1>3, <2>2, SMTT(30)
  <2> QED BY <2>1, <2>3, <2>4 DEF x, b
<1> QED BY <1>5, <1>9 DEF s, d, n, e

\* The buffer that cbuf_write makes, before the start is updated, in terms of
\* offsets from the start: d is that of the index, E that of the end.
Filled(c, w, d, data, skip) ==
  /\ w \in CbufType /\ w.start = c.start
  /\ CbufSize(w) = IF CbufSize(c) > d + Len(data) THEN CbufSize(c) ELSE d + Len(data)
  /\ \A m \in 0 .. Capacity - 1 :
       w.buf[CbufIndex(c.start + (d + skip) + m)]
         = IF m < Len(data) - skip THEN data[skip + m + 1]
           ELSE c.buf[CbufIndex(c.start + (d + skip) + m)]

Skipped(data) == IF Len(data) > Capacity THEN Len(data) - Capacity ELSE 0

LEMMA SkippedValue ==
  ASSUME NEW data \in Seq(Byte), Len(data) \in 1 .. MaxData
  PROVE  /\ Skipped(data) \in Nat /\ Skipped(data) < Len(data) /\ Skipped(data) \in Index
         /\ Len(data) - Skipped(data) <= Capacity /\ Len(data) \in Nat /\ Len(data) <= MaxData
         /\ Skipped(data) > 0 => Skipped(data) = Len(data) - Capacity
<1> DEFINE L == Len(data)
<1>1. /\ Capacity \in Nat \ {0} /\ IndexRange \in Nat \ {0} /\ MaxData \in Nat
      /\ Capacity + MaxData < IndexRange
  BY Ranges, ClientAssumption
<1>2. L \in Nat /\ L >= 1 /\ L <= MaxData
  BY <1>1, SMTT(30)
<1> HIDE DEF L
<1> QED BY <1>1, <1>2, SMTT(30) DEF Skipped, L, Index

LEMMA WriteFills ==
  ASSUME NEW c \in CbufType, CbufSize(c) <= Capacity, NEW index \in Index,
         Sub(index, c.start) <= CbufSize(c),
         NEW data \in Seq(Byte), Len(data) \in 1 .. MaxData
  PROVE  \E w : /\ Write(c, index, data) = UpdateStart(w)
                /\ Filled(c, w, Sub(index, c.start), data, Skipped(data))
<1> DEFINE s == c.start
           d == Sub(index, s)
           n == CbufSize(c)
           L == Len(data)
           e == Add(index, L)
           grows == ~RangeValid(c, s, e)
           skip  == Skipped(data)
           x     == Add(index, skip)
           tail  == SubSeq(data, skip + 1, L)
           end   == IF grows THEN e ELSE c.end
           buf   == Store(c.buf, x, tail)
           w     == [c EXCEPT !.buf = buf, !.end = end]
<1>1. /\ Capacity \in Nat \ {0} /\ IndexRange \in Nat \ {0} /\ MaxData \in Nat
      /\ Capacity + MaxData < IndexRange
  BY Ranges, ClientAssumption
<1>2. /\ s \in Index /\ c.end \in Index /\ s \in Int /\ index \in Int
      /\ c.buf \in [0 .. Capacity - 1 -> Byte]
  BY <1>1, SMTT(30) DEF CbufType, Index
<1>3. d \in Nat /\ n \in Nat /\ n = Sub(c.end, s) /\ d \in Index /\ d <= n /\ n <= Capacity
  <2>1. d \in Index /\ n \in 0 .. IndexRange - 1
    BY <1>2, Offset, SizeIsNat
  <2> QED BY <1>1, <2>1, SMTT(30) DEF Index, CbufSize
<1>4. /\ skip \in Nat /\ skip < L /\ skip \in Index
      /\ L - skip <= Capacity /\ L \in Nat /\ L <= MaxData
      /\ skip > 0 => skip = L - Capacity
  BY SkippedValue
<1>5. e \in Index /\ Sub(e, s) = d + L /\ (grows <=> ~(d + L <= n))
  BY WriteGrows
<1>6. skip = IF grows /\ L > Capacity THEN L - Capacity ELSE 0
  <2>1. L > Capacity => ~(d + L <= n)
    <3> HIDE DEF d, n, L, skip
    <3> QED BY <1>1, <1>3, <1>4, SMTT(30)
  <2>2. skip = IF L > Capacity THEN L - Capacity ELSE 0
    BY DEF Skipped
  <2> QED BY <1>5, <2>1, <2>2
<1>7. Write(c, index, data) = UpdateStart(w)
  <2>1. Write(c, index, data)
          = LET sk == IF grows /\ L > Capacity THEN L - Capacity ELSE 0
            IN  UpdateStart([c EXCEPT !.buf = Store(@, Add(index, sk), SubSeq(data, sk + 1, L)),
                                      !.end = IF grows THEN e ELSE @])
    BY DEF Write
  <2> QED BY <1>6, <2>1
<1>8. /\ tail \in Seq(Byte) /\ Len(tail) = L - skip
      /\ \A i \in 1 .. L - skip : tail[i] = data[skip + i]
  <2> HIDE DEF skip
  <2> QED BY <1>4, SMTT(30)
<1>9. x \in Index /\ Sub(x, s) = d + skip /\ x \in Int
  <2>1. d + skip < IndexRange
    <3> HIDE DEF d, n, L, skip
    <3> QED BY <1>1, <1>3, <1>4, SMTT(30)
  <2>2. x \in Index /\ Sub(x, s) = d + skip
    BY <1>2, <1>4, <2>1, AddOffset
  <2> QED BY <1>1, <2>2, SMTT(30) DEF Index
<1>10. end \in Index
  BY <1>2, <1>5
<1> HIDE DEF s, d, n, L, e, grows, skip, x, tail
<1>11. buf \in [0 .. Capacity - 1 -> Byte]
  BY <1>2, <1>4, <1>8, <1>9, StoreProperties
<1>12. Sub(end, s) = IF n > d + L THEN n ELSE d + L
  <2>1. CASE grows
    <3>1. ~(n > d + L)
      BY <1>3, <1>4, <1>5, <2>1, SMTT(30)
    <3> QED BY <1>5, <2>1, <3>1
  <2>2. CASE ~grows
    <3>1. n = IF n > d + L THEN n ELSE d + L
      BY <1>3, <1>4, <1>5, <2>2, SMTT(30)
    <3> QED BY <1>3, <2>2, <3>1
  <2> QED BY <2>1, <2>2
<1>13. w \in CbufType /\ w.start = s /\ w.end = end /\ w.buf = buf
  <2> HIDE DEF buf, end
  <2> QED BY <1>2, <1>10, <1>11 DEF CbufType, s
<1> HIDE DEF w
<1>14. CbufSize(w) = IF n > d + L THEN n ELSE d + L
  BY <1>12, <1>13 DEF CbufSize
<1>15. ASSUME NEW m \in 0 .. Capacity - 1
       PROVE  w.buf[CbufIndex(s + (d + skip) + m)]
                = IF m < L - skip THEN data[skip + m + 1] ELSE c.buf[CbufIndex(s + (d + skip) + m)]
  <2>1. m \in Int /\ m \in Nat
    BY <1>1, SMTT(30)
  <2>2. CbufIndex(x + m) = CbufIndex(s + (d + skip) + m)
    <3>1. CbufIndex(x + m) = CbufIndex(s + Sub(x, s) + m)
      BY <1>2, <1>9, <2>1, OffsetPosition
    <3> QED BY <1>9, <3>1
  <2>3. buf[CbufIndex(x + m)] = IF m < Len(tail) THEN tail[m + 1] ELSE c.buf[CbufIndex(x + m)]
    <3>1. Len(tail) <= Capacity
      BY <1>4, <1>8
    <3> QED BY <1>2, <1>8, <1>9, <3>1, StoreBytes
  <2>4. ASSUME m < L - skip PROVE tail[m + 1] = data[skip + m + 1]
    <3>1. m + 1 \in 1 .. L - skip /\ skip + (m + 1) = skip + m + 1
      BY <1>4, <2>1, <2>4, SMTT(30)
    <3>2. tail[m + 1] = data[skip + (m + 1)]
      BY <1>8, <3>1
    <3> QED BY <3>1, <3>2
  <2> QED BY <1>8, <1>13, <2>2, <2>3, <2>4
<1>16. Filled(c, w, d, data, skip)
  BY <1>13, <1>14, <1>15 DEF Filled, s, n, L
<1> QED BY <1>7, <1>16 DEF d, skip, s

LEMMA OverwrittenProperties ==
  ASSUME NEW q \in Seq(Byte), NEW data \in Seq(Byte), NEW d \in 0 .. Len(q)
  PROVE  /\ Overwritten(q, d, data) \in Seq(Byte)
         /\ Len(Overwritten(q, d, data))
              = IF Len(q) > d + Len(data) THEN Len(q) ELSE d + Len(data)
         /\ \A i \in 1 .. Len(Overwritten(q, d, data)) :
              Overwritten(q, d, data)[i] = IF i > d /\ i <= d + Len(data) THEN data[i - d] ELSE q[i]
<1> DEFINE o == Overwritten(q, d, data)
           n == Len(q)
           L == Len(data)
           E == IF n > d + L THEN n ELSE d + L
<1>1. n \in Nat /\ L \in Nat /\ d \in Nat /\ d <= n /\ E \in Nat
  BY SMTT(30)
<1>2. ASSUME NEW i \in 1 .. E
      PROVE  (IF i > d /\ i <= d + L THEN data[i - d] ELSE q[i]) \in Byte
  <2>1. CASE i > d /\ i <= d + L
    <3>1. i - d \in 1 .. L
      BY <1>1, <2>1, SMTT(30)
    <3>2. data[i - d] \in Byte
      BY <3>1, SMTT(30)
    <3> QED BY <2>1, <3>2
  <2>2. CASE ~(i > d /\ i <= d + L)
    <3>1. i \in 1 .. n
      BY <1>1, <2>2, SMTT(30)
    <3>2. q[i] \in Byte
      BY <3>1, SMTT(30)
    <3> QED BY <2>2, <3>2
  <2> QED BY <2>1, <2>2
<1>3. /\ o \in [1 .. E -> Byte]
      /\ \A i \in 1 .. E : o[i] = IF i > d /\ i <= d + L THEN data[i - d] ELSE q[i]
  BY <1>2 DEF Overwritten
<1> HIDE DEF o, E
<1>4. o \in Seq(Byte) /\ Len(o) = E
  BY <1>1, <1>3, SeqDef, LenProperties, SMTT(30)
<1> QED BY <1>3, <1>4 DEF o, E

\* Where the bytes are after cbuf_write: those that stay in the buffer are
\* what the offsets say, and no copy of others has overwritten them.
LEMMA FilledBytes ==
  ASSUME NEW c \in CbufType, CbufSize(c) <= Capacity, NEW d \in 0 .. CbufSize(c),
         NEW data \in Seq(Byte), Len(data) \in 1 .. MaxData,
         NEW w, Filled(c, w, d, data, Skipped(data)),
         NEW i \in 1 .. CbufSize(w), i > CbufSize(w) - Capacity
  PROVE  w.buf[CbufIndex(c.start + (i - 1))] = Overwritten(Contents(c), d, data)[i]
<1> DEFINE s == c.start
           n == CbufSize(c)
           L == Len(data)
           E == CbufSize(w)
           k == Skipped(data)
           q == Contents(c)
           o == Overwritten(q, d, data)
<1>1. Capacity \in Nat \ {0} /\ IndexRange \in Nat
  BY Ranges
<1>2. s \in Int /\ n \in Nat /\ n <= Capacity /\ d \in Nat /\ d <= n
  BY <1>1, SizeIsNat, SMTT(30) DEF CbufType, Index
<1>3. /\ k \in Nat /\ k < L /\ L - k <= Capacity /\ L \in Nat
      /\ k > 0 => k = L - Capacity
  BY SkippedValue
<1>4. E = IF n > d + L THEN n ELSE d + L
  BY DEF Filled
<1>5. ASSUME NEW m \in 0 .. Capacity - 1
      PROVE  w.buf[CbufIndex(s + (d + k) + m)]
               = IF m < L - k THEN data[k + m + 1] ELSE c.buf[CbufIndex(s + (d + k) + m)]
  BY DEF Filled
<1>6. /\ q \in Seq(Byte) /\ Len(q) = n
      /\ \A j \in 1 .. n : q[j] = c.buf[CbufIndex(s + j - 1)]
  BY ContentsAreBytes
<1>7. o[i] = IF i > d /\ i <= d + L THEN data[i - d] ELSE q[i]
  <2>1. d \in 0 .. Len(q)
    BY <1>2, <1>6
  <2>2. Len(o) = E
    BY <1>4, <1>6, <2>1, OverwrittenProperties
  <2>3. i \in 1 .. Len(o)
    BY <2>2
  <2>4. q \in Seq(Byte)
    BY <1>6
  <2> HIDE DEF q
  <2>5. \A j \in 1 .. Len(o) : o[j] = IF j > d /\ j <= d + L THEN data[j - d] ELSE q[j]
    BY <2>1, <2>4, OverwrittenProperties
  <2> QED BY <2>3, <2>5
<1>8. i \in Int /\ i >= 1 /\ i <= E /\ i > E - Capacity
  BY <1>2, <1>3, <1>4, SMTT(30)
<1> DEFINE pos == CbufIndex(s + (i - 1))
<1> HIDE DEF s, n, L, E, k, q, o
<1>9. ASSUME i <= n PROVE q[i] = c.buf[pos]
  <2>1. i \in 1 .. n /\ s + i - 1 = s + (i - 1)
    BY <1>2, <1>8, <1>9, SMTT(30)
  <2>2. q[i] = c.buf[CbufIndex(s + i - 1)]
    BY <1>6, <2>1
  <2> QED BY <2>1, <2>2
<1>10. CASE i > d + k
  <2> DEFINE m == i - 1 - (d + k)
  <2>1. m \in 0 .. Capacity - 1 /\ s + (d + k) + m = s + (i - 1)
    BY <1>1, <1>2, <1>3, <1>4, <1>8, <1>10, SMTT(30)
  <2>2. (m < L - k <=> i <= d + L) /\ k + m + 1 = i - d /\ i > d
    BY <1>2, <1>3, <1>8, <1>10, SMTT(30)
  <2> HIDE DEF m
  <2>3. w.buf[pos] = IF m < L - k THEN data[k + m + 1] ELSE c.buf[pos]
    <3>1. w.buf[CbufIndex(s + (d + k) + m)]
            = IF m < L - k THEN data[k + m + 1] ELSE c.buf[CbufIndex(s + (d + k) + m)]
      BY <1>5, <2>1
    <3> QED BY <2>1, <3>1
  <2>4. ASSUME ~(i <= d + L) PROVE q[i] = c.buf[pos]
    <3>1. i <= n
      BY <1>2, <1>3, <1>4, <1>8, <2>4
    <3> QED BY <1>9, <3>1
  <2> QED BY <1>7, <2>2, <2>3, <2>4 DEF o, q, s
<1>11. CASE ~(i > d + k)
  <2>1. k = 0 /\ i <= d
    BY <1>1, <1>2, <1>3, <1>4, <1>8, <1>11, SMTT(30)
  <2> DEFINE m == i - 1 - d + Capacity
             y == s + (d + k) + m
  <2>2. m \in 0 .. Capacity - 1 /\ y \in Int /\ y - Capacity = s + (i - 1) /\ ~(m < L - k)
    BY <1>1, <1>2, <1>3, <1>4, <1>8, <2>1, SMTT(30)
  <2>3. w.buf[CbufIndex(y)] = IF m < L - k THEN data[k + m + 1] ELSE c.buf[CbufIndex(y)]
    BY <1>5, <2>2
  <2> HIDE DEF m, y
  <2>4. CbufIndex(y) = pos
    <3>1. CbufIndex(y - Capacity) = CbufIndex(y)
      BY <2>2, PositionPeriod
    <3> QED BY <2>2, <3>1
  <2>5. w.buf[pos] = c.buf[pos]
    BY <2>2, <2>3, <2>4
  <2>6. i <= n /\ ~(i > d)
    BY <1>2, <1>8, <2>1, SMTT(30)
  <2>7. q[i] = c.buf[pos]
    BY <1>9, <2>6
  <2> QED BY <1>7, <2>5, <2>6, <2>7 DEF o, q, s
<1> QED BY <1>10, <1>11

\* cbuf_update_start moves the start so that the capacity is not exceeded.
LEMMA StartUpdated ==
  ASSUME NEW w \in CbufType
  PROVE  \E r \in Nat :
           /\ UpdateStart(w) \in CbufType /\ UpdateStart(w).buf = w.buf
           /\ r = IF CbufSize(w) > Capacity THEN CbufSize(w) - Capacity ELSE 0
           /\ CbufSize(UpdateStart(w)) = CbufSize(w) - r
           /\ \A j \in Int : CbufIndex(UpdateStart(w).start + j) = CbufIndex(w.start + r + j)
<1> DEFINE E == CbufSize(w)
           u == UpdateStart(w)
           x == Sub(w.end, Capacity)
<1>1. Capacity \in Nat \ {0} /\ IndexRange \in Nat \ {0} /\ Capacity < IndexRange
  BY Ranges
<1>2. /\ w.start \in Index /\ w.end \in Index /\ Capacity \in Index
      /\ w.start \in Nat /\ w.start < IndexRange /\ w.end \in Nat /\ w.end < IndexRange
  BY <1>1, SMTT(30) DEF CbufType, Index
<1>3. E \in Nat /\ E < IndexRange /\ E = Sub(w.end, w.start)
  BY <1>1, SizeIsNat, SMTT(30) DEF CbufSize
<1>4. CASE E > Capacity
  <2>1. u = [w EXCEPT !.start = x]
    BY <1>4 DEF UpdateStart
  <2>2. x = IF w.end >= Capacity THEN w.end - Capacity ELSE w.end - Capacity + IndexRange
    BY <1>2, Difference
  <2>3. x \in Index
    BY <1>1, <1>2, <2>2, SMTT(30) DEF Index
  <2> HIDE DEF x, u
  <2>4. u \in CbufType /\ u.buf = w.buf /\ u.start = x /\ u.end = w.end
    BY <2>1, <2>3 DEF CbufType
  <2>5. Sub(w.end, x) = IF w.end >= x THEN w.end - x ELSE w.end - x + IndexRange
    BY <1>2, <2>3, Difference
  <2>6. E = IF w.end >= w.start THEN w.end - w.start ELSE w.end - w.start + IndexRange
    BY SizeValue
  <2>7. Sub(x, w.start) = IF x >= w.start THEN x - w.start ELSE x - w.start + IndexRange
    BY <1>2, <2>3, Difference
  <2> DEFINE y == Sub(w.end, x)
             z == Sub(x, w.start)
  <2> HIDE DEF y, z, E
  <2>8. y = Capacity
    BY <1>1, <1>2, <2>2, <2>5, SMTT(30) DEF y
  <2>9. z = E - Capacity
    BY <1>1, <1>2, <1>4, <2>2, <2>6, <2>7, SMTT(30) DEF z
  <2>10. CbufSize(u) = E - (E - Capacity)
    <3>1. CbufSize(u) = Capacity
      BY <2>4, <2>8 DEF CbufSize, y
    <3> QED BY <1>1, <1>3, <3>1, SMTT(30)
  <2>11. ASSUME NEW j \in Int
         PROVE  CbufIndex(u.start + j) = CbufIndex(w.start + (E - Capacity) + j)
    <3>1. CbufIndex(x + j) = CbufIndex(w.start + Sub(x, w.start) + j)
      BY <1>2, <2>3, OffsetPosition
    <3> QED BY <2>4, <2>9, <3>1 DEF z
  <2>12. E - Capacity \in Nat
    BY <1>1, <1>3, <1>4, SMTT(30)
  <2>13. E - Capacity = IF E > Capacity THEN E - Capacity ELSE 0
    BY <1>4
  <2> QED BY <2>4, <2>10, <2>11, <2>12, <2>13 DEF E, u
<1>5. CASE ~(E > Capacity)
  <2>1. u = w
    BY <1>5 DEF UpdateStart
  <2> HIDE DEF u
  <2>2. ASSUME NEW j \in Int PROVE w.start + 0 + j = w.start + j
    BY <1>2, SMTT(30)
  <2>3. E - 0 = E /\ 0 \in Nat
    BY <1>3, SMTT(30)
  <2>4. 0 = IF E > Capacity THEN E - Capacity ELSE 0
    BY <1>5
  <2>5. \A j \in Int : CbufIndex(w.start + j) = CbufIndex(w.start + 0 + j)
    BY <2>2
  <2> QED BY <2>1, <2>3, <2>4, <2>5 DEF u
<1> QED BY <1>4, <1>5

LEMMA LastProperties ==
  ASSUME NEW o \in Seq(Byte), NEW n \in Nat
  PROVE  /\ Queue!Last(o, n) \in Seq(Byte)
         /\ Len(Queue!Last(o, n)) = Len(o) - (IF Len(o) > n THEN Len(o) - n ELSE 0)
         /\ \A k \in 1 .. Len(Queue!Last(o, n)) :
              Queue!Last(o, n)[k] = o[(IF Len(o) > n THEN Len(o) - n ELSE 0) + k]
<1> DEFINE t == SubSeq(o, Len(o) - n + 1, Len(o))
<1>1. CASE Len(o) <= n
  <2>1. Queue!Last(o, n) = o /\ ~(Len(o) > n)
    BY <1>1, SMTT(30) DEF Queue!Last
  <2> QED BY <2>1, SMTT(30)
<1>2. CASE ~(Len(o) <= n)
  <2>1. Queue!Last(o, n) = t /\ Len(o) > n
    BY <1>2, SMTT(30) DEF Queue!Last
  <2>2. t \in Seq(Byte) /\ Len(t) = n /\ \A k \in 1 .. n : t[k] = o[Len(o) - n + k]
    BY <1>2, SMTT(30)
  <2> HIDE DEF t
  <2>3. Len(o) - (Len(o) - n) = n
    BY SMTT(30)
  <2> QED BY <2>1, <2>2, <2>3
<1> QED BY <1>1, <1>2

\* cbuf_write overwrites, extends, and erases the oldest bytes.
LEMMA WriteContents ==
  ASSUME NEW c \in CbufType, CbufSize(c) <= Capacity, NEW index \in Index,
         Sub(index, c.start) <= CbufSize(c),
         NEW data \in Seq(Byte), Len(data) \in 1 .. MaxData
  PROVE  /\ Write(c, index, data) \in CbufType
         /\ CbufSize(Write(c, index, data)) <= Capacity
         /\ Contents(Write(c, index, data))
              = Queue!Last(Overwritten(Contents(c), Sub(index, c.start), data), Capacity)
<1> DEFINE d == Sub(index, c.start)
           n == CbufSize(c)
           q == Contents(c)
           o == Overwritten(q, d, data)
           l == Queue!Last(o, Capacity)
<1>1. Capacity \in Nat \ {0} /\ IndexRange \in Nat
  BY Ranges
<1>2. PICK w : Write(c, index, data) = UpdateStart(w) /\ Filled(c, w, d, data, Skipped(data))
  BY WriteFills
<1>3. /\ w \in CbufType /\ w.start = c.start
      /\ CbufSize(w) = IF n > d + Len(data) THEN n ELSE d + Len(data)
  BY <1>2 DEF Filled
<1>4. PICK r \in Nat :
        /\ UpdateStart(w) \in CbufType /\ UpdateStart(w).buf = w.buf
        /\ r = IF CbufSize(w) > Capacity THEN CbufSize(w) - Capacity ELSE 0
        /\ CbufSize(UpdateStart(w)) = CbufSize(w) - r
        /\ \A j \in Int : CbufIndex(UpdateStart(w).start + j) = CbufIndex(w.start + r + j)
  BY <1>3, StartUpdated
<1> DEFINE u == UpdateStart(w)
           E == CbufSize(w)
<1>5. d \in 0 .. n /\ n \in Nat /\ c.start \in Int /\ E \in Nat
  <2>1. c.start \in Index
    BY DEF CbufType
  <2>2. d \in Index
    BY <2>1, Offset
  <2>3. n \in Nat /\ E \in Nat
    BY <1>1, <1>3, SizeIsNat, SMTT(30)
  <2> QED BY <1>1, <2>1, <2>2, <2>3, SMTT(30) DEF Index
<1>6. q \in Seq(Byte) /\ Len(q) = n
  BY ContentsAreBytes
<1>7. o \in Seq(Byte) /\ Len(o) = E
  <2>1. d \in 0 .. Len(q)
    BY <1>5, <1>6
  <2> QED BY <1>3, <1>6, <2>1, OverwrittenProperties
<1>8. ASSUME NEW i \in 1 .. E, i > E - Capacity
      PROVE  w.buf[CbufIndex(c.start + (i - 1))] = o[i]
  BY <1>2, <1>5, <1>8, FilledBytes
<1> HIDE DEF d, n, q, o, E, u
<1>9. /\ l \in Seq(Byte) /\ Len(l) = E - r
      /\ \A k \in 1 .. E - r : l[k] = o[r + k]
  <2>1. r = IF Len(o) > Capacity THEN Len(o) - Capacity ELSE 0
    BY <1>4, <1>7 DEF E
  <2>2. Capacity \in Nat
    BY <1>1
  <2>3. /\ l \in Seq(Byte) /\ Len(l) = Len(o) - r
        /\ \A k \in 1 .. Len(l) : l[k] = o[r + k]
    BY <1>7, <2>1, <2>2, LastProperties
  <2> QED BY <1>7, <2>3
<1>10. E - r \in Nat /\ E - r <= Capacity /\ (r = 0 \/ r = E - Capacity) /\ r >= E - Capacity
  BY <1>1, <1>4, <1>5, SMTT(30) DEF E
<1>11. u \in CbufType /\ u.buf = w.buf /\ CbufSize(u) = E - r /\ Write(c, index, data) = u
  BY <1>2, <1>4 DEF u, E
<1>12. /\ Contents(u) \in Seq(Byte) /\ Len(Contents(u)) = E - r
       /\ \A k \in 1 .. E - r : Contents(u)[k] = w.buf[CbufIndex(u.start + k - 1)]
  BY <1>11, ContentsAreBytes
<1>13. u.start \in Int
  BY <1>1, <1>11, SMTT(30) DEF CbufType, Index
<1> HIDE DEF l
<1>14. ASSUME NEW k \in 1 .. E - r PROVE Contents(u)[k] = l[k]
  <2> DEFINE i == r + k
  <2>1. /\ k - 1 \in Int /\ i \in 1 .. E /\ i > E - Capacity
        /\ u.start + k - 1 = u.start + (k - 1) /\ c.start + r + (k - 1) = c.start + (i - 1)
    BY <1>1, <1>5, <1>10, <1>13, SMTT(30)
  <2> HIDE DEF i
  <2>2. CbufIndex(u.start + (k - 1)) = CbufIndex(w.start + r + (k - 1))
    BY <1>4, <2>1 DEF u
  <2>3. w.buf[CbufIndex(c.start + (i - 1))] = o[i]
    BY <1>8, <2>1
  <2>4. Contents(u)[k] = w.buf[CbufIndex(u.start + k - 1)]
    BY <1>12
  <2>5. Contents(u)[k] = o[i]
    BY <1>3, <2>1, <2>2, <2>3, <2>4
  <2>6. l[k] = o[r + k]
    BY <1>9
  <2> QED BY <2>5, <2>6 DEF i
<1>15. Contents(u) = l
  BY <1>9, <1>12, <1>14, SeqEqual
<1> QED BY <1>10, <1>11, <1>15 DEF l, o, q, d

\* What SubSeq gives, for a part of a sequence that may be empty.
LEMMA PartOf ==
  ASSUME NEW S, NEW q \in Seq(S), NEW a \in Nat, NEW b \in Nat, a <= b, b <= Len(q)
  PROVE  /\ SubSeq(q, a + 1, b) \in Seq(S)
         /\ Len(SubSeq(q, a + 1, b)) = b - a
         /\ \A j \in 1 .. b - a : SubSeq(q, a + 1, b)[j] = q[a + j]
<1> DEFINE t == SubSeq(q, a + 1, b)
<1>1. CASE a = b
  <2>1. t = <<>>
    BY <1>1, SMTT(30)
  <2> HIDE DEF t
  <2>2. t \in Seq(S) /\ Len(t) = 0 /\ b - a = 0
    BY <1>1, <2>1, SMTT(30)
  <2> QED BY <2>2, SMTT(30) DEF t
<1>2. CASE a < b
  BY <1>2, SMTT(30)
<1> QED BY <1>1, <1>2, SMTT(30)

-----------------------------------------------------------------------------
\* cbuf_read and cbuf_pop.

LEMMA LoadProperties ==
  ASSUME NEW buf \in [0 .. Capacity - 1 -> Byte], NEW at \in Nat, NEW n \in Nat,
         at + n <= Capacity
  PROVE  /\ Load(buf, at, n) \in Seq(Byte) /\ Len(Load(buf, at, n)) = n
         /\ \A j \in 1 .. n : Load(buf, at, n)[j] = buf[at + j - 1]
<1> DEFINE l == Load(buf, at, n)
<1>1. ASSUME NEW j \in 1 .. n PROVE buf[at + j - 1] \in Byte
  <2>1. at + j - 1 \in 0 .. Capacity - 1
    BY Ranges, SMTT(30)
  <2> QED BY <2>1
<1>2. l \in [1 .. n -> Byte] /\ \A j \in 1 .. n : l[j] = buf[at + j - 1]
  BY <1>1 DEF Load
<1> HIDE DEF l
<1>3. l \in Seq(Byte) /\ Len(l) = n
  BY <1>2, SeqDef, LenProperties, SMTT(30)
<1> QED BY <1>2, <1>3 DEF l

\* The bytes are read in one or two copies.
Loaded(buf, index, n) ==
  IF n > Capacity - CbufIndex(index)
  THEN Load(buf, CbufIndex(index), Capacity - CbufIndex(index))
         \o Load(buf, 0, n - (Capacity - CbufIndex(index)))
  ELSE Load(buf, CbufIndex(index), n)

LEMMA LoadedBytes ==
  ASSUME NEW buf \in [0 .. Capacity - 1 -> Byte], NEW index \in Int, NEW n \in 0 .. Capacity
  PROVE  /\ Loaded(buf, index, n) \in Seq(Byte) /\ Len(Loaded(buf, index, n)) = n
         /\ \A j \in 1 .. n : Loaded(buf, index, n)[j] = buf[CbufIndex(index + (j - 1))]
<1> DEFINE at == CbufIndex(index)
           k  == Capacity - at
           f  == Load(buf, at, k)
           g  == Load(buf, 0, n - k)
           l  == Loaded(buf, index, n)
<1>0. Capacity \in Nat \ {0} /\ n \in Nat /\ n <= Capacity
  BY Ranges, SMTT(30)
<1>1. at \in 0 .. Capacity - 1
  BY PositionsExist
<1>2. ASSUME NEW j \in 1 .. n
      PROVE  CbufIndex(index + (j - 1)) = IF j <= k THEN at + j - 1 ELSE j - k - 1
  <2>1. j - 1 \in 0 .. Capacity - 1 /\ j \in Int
    BY <1>0, SMTT(30)
  <2>2. CbufIndex(index + (j - 1)) = IF at + (j - 1) < Capacity THEN at + (j - 1)
                                     ELSE at + (j - 1) - Capacity
    BY <2>1, PositionAfter
  <2> DEFINE p == CbufIndex(index + (j - 1))
  <2> HIDE DEF at, p
  <2>3. p = IF j <= k THEN at + j - 1 ELSE j - k - 1
    BY <1>0, <1>1, <2>1, <2>2, SMTT(30) DEF p
  <2> QED BY <2>3 DEF p, at
<1> HIDE DEF at
<1>3. CASE n > k
  <2>1. l = f \o g
    BY <1>3 DEF Loaded, at
  <2>2. at \in Nat /\ k \in Nat /\ at + k <= Capacity /\ n - k \in Nat /\ 0 + (n - k) <= Capacity
    BY <1>0, <1>1, <1>3, SMTT(30)
  <2>3. f \in Seq(Byte) /\ Len(f) = k /\ \A j \in 1 .. k : f[j] = buf[at + j - 1]
    BY <2>2, LoadProperties
  <2>4. /\ g \in Seq(Byte) /\ Len(g) = n - k
        /\ \A j \in 1 .. n - k : g[j] = buf[0 + j - 1]
    BY <2>2, LoadProperties
  <2> HIDE DEF f, g, l
  <2>5. f \in Seq(Byte) /\ g \in Seq(Byte)
    BY <2>3, <2>4
  <2>6. /\ f \o g \in Seq(Byte) /\ Len(f \o g) = Len(f) + Len(g)
        /\ \A j \in 1 .. Len(f) + Len(g) : (f \o g)[j] = IF j <= Len(f) THEN f[j] ELSE g[j - Len(f)]
    BY <2>5, SMTT(30)
  <2>7. l \in Seq(Byte) /\ Len(l) = n /\ Len(f) = k
        /\ \A j \in 1 .. n : l[j] = IF j <= k THEN f[j] ELSE g[j - k]
    <3>1. Len(f) + Len(g) = n
      BY <1>0, <2>2, <2>3, <2>4, SMTT(30)
    <3> QED BY <2>1, <2>3, <2>6, <3>1
  <2>8. ASSUME NEW j \in 1 .. n PROVE l[j] = buf[CbufIndex(index + (j - 1))]
    <3>1. l[j] = IF j <= k THEN f[j] ELSE g[j - k]
      BY <2>7
    <3>2. CASE j <= k
      <4>1. j \in 1 .. k
        BY <1>0, <2>2, <3>2, SMTT(30)
      <4> QED BY <1>2, <2>3, <3>1, <3>2, <4>1
    <3>3. CASE ~(j <= k)
      <4>1. j - k \in 1 .. n - k /\ 0 + (j - k) - 1 = j - k - 1
        BY <1>0, <2>2, <3>3, SMTT(30)
      <4>2. g[j - k] = buf[0 + (j - k) - 1]
        BY <2>4, <4>1
      <4> QED BY <1>2, <3>1, <3>3, <4>1, <4>2
    <3> QED BY <3>2, <3>3
  <2> QED BY <2>7, <2>8 DEF l
<1>4. CASE ~(n > k)
  <2> DEFINE h == Load(buf, at, n)
  <2>1. l = h
    BY <1>4 DEF Loaded, at
  <2>2. at \in Nat /\ at + n <= Capacity
    BY <1>0, <1>1, <1>4, SMTT(30)
  <2>3. h \in Seq(Byte) /\ Len(h) = n /\ \A j \in 1 .. n : h[j] = buf[at + j - 1]
    BY <1>0, <2>2, LoadProperties
  <2> HIDE DEF h, l
  <2>4. ASSUME NEW j \in 1 .. n PROVE h[j] = buf[CbufIndex(index + (j - 1))]
    <3>1. j <= k
      BY <1>0, <1>1, <1>4, SMTT(30)
    <3> QED BY <1>2, <2>3, <3>1
  <2> QED BY <2>1, <2>3, <2>4 DEF l
<1> QED BY <1>3, <1>4

LEMMA ReadContents ==
  ASSUME NEW c \in CbufType, CbufSize(c) <= Capacity, NEW index \in Index,
         Sub(index, c.start) <= CbufSize(c), NEW m \in Nat
  PROVE  LET d == Sub(index, c.start)
             z == ReadSize(c, index, m)
         IN  /\ z = IF m > CbufSize(c) - d THEN CbufSize(c) - d ELSE m
             /\ z \in Nat /\ d \in Nat /\ d + z <= CbufSize(c)
             /\ ReadBytes(c, index, m) = SubSeq(Contents(c), d + 1, d + z)
<1> DEFINE s == c.start
           d == Sub(index, s)
           n == CbufSize(c)
           z == ReadSize(c, index, m)
           q == Contents(c)
           l == Loaded(c.buf, index, z)
           t == SubSeq(q, d + 1, d + z)
<1>1. Capacity \in Nat \ {0} /\ IndexRange \in Nat \ {0}
  BY Ranges
<1>2. /\ s \in Index /\ c.end \in Index /\ s \in Int /\ index \in Int
      /\ c.buf \in [0 .. Capacity - 1 -> Byte]
  BY <1>1, SMTT(30) DEF CbufType, Index
<1>3. d \in Nat /\ n \in Nat /\ n = Sub(c.end, s) /\ d <= n /\ n <= Capacity
  <2>1. d \in Index /\ n \in 0 .. IndexRange - 1
    BY <1>2, Offset, SizeIsNat
  <2> QED BY <1>1, <2>1, SMTT(30) DEF Index, CbufSize
<1>4. Sub(c.end, index) = n - d
  <2>1. Sub(c.end, index) = IF Sub(c.end, s) >= d THEN Sub(c.end, s) - d
                            ELSE Sub(c.end, s) - d + IndexRange
    BY <1>2, SubOffsets
  <2>2. n >= d
    <3> HIDE DEF d, n
    <3> QED BY <1>3
  <2> QED BY <1>3, <2>1, <2>2
<1>5. z = IF m > n - d THEN n - d ELSE m
  BY <1>4 DEF ReadSize
<1>6. ReadBytes(c, index, m) = l
  BY DEF ReadBytes, Loaded
<1>7. q \in Seq(Byte) /\ Len(q) = n /\ \A j \in 1 .. n : q[j] = c.buf[CbufIndex(s + j - 1)]
  BY ContentsAreBytes
<1> HIDE DEF s, d, n, z, q
<1>8. z \in Nat /\ d + z <= n /\ z \in 0 .. Capacity
  BY <1>1, <1>3, <1>5, SMTT(30)
<1>9. l \in Seq(Byte) /\ Len(l) = z /\ \A j \in 1 .. z : l[j] = c.buf[CbufIndex(index + (j - 1))]
  BY <1>2, <1>8, LoadedBytes
<1>10. t \in Seq(Byte) /\ Len(t) = z /\ \A j \in 1 .. z : t[j] = q[d + j]
  <2> DEFINE b == d + z
  <2>1. b \in Nat /\ d <= b /\ b <= Len(q) /\ b - d = z
    BY <1>3, <1>7, <1>8, SMTT(30)
  <2> HIDE DEF b
  <2>2. /\ SubSeq(q, d + 1, b) \in Seq(Byte) /\ Len(SubSeq(q, d + 1, b)) = b - d
        /\ \A j \in 1 .. b - d : SubSeq(q, d + 1, b)[j] = q[d + j]
    BY <1>3, <1>7, <2>1, PartOf
  <2> QED BY <2>1, <2>2 DEF b
<1> HIDE DEF l, t
<1>11. ASSUME NEW j \in 1 .. z PROVE l[j] = t[j]
  <2>1. j - 1 \in Int /\ d + j \in 1 .. n /\ s + (d + j) - 1 = s + d + (j - 1)
    BY <1>2, <1>3, <1>8, SMTT(30)
  <2>2. CbufIndex(index + (j - 1)) = CbufIndex(s + d + (j - 1))
    BY <1>2, <2>1, OffsetPosition DEF d
  <2>3. q[d + j] = c.buf[CbufIndex(s + (d + j) - 1)]
    BY <1>7, <2>1
  <2>4. l[j] = c.buf[CbufIndex(index + (j - 1))] /\ t[j] = q[d + j]
    BY <1>9, <1>10
  <2> QED BY <2>1, <2>2, <2>3, <2>4
<1>12. l = t
  BY <1>9, <1>10, <1>11, SeqEqual
<1> QED BY <1>3, <1>5, <1>6, <1>8, <1>12 DEF s, d, n, z, q, t

\* The start moves over the bytes that were read.
LEMMA StartMoved ==
  ASSUME NEW c \in CbufType, CbufSize(c) <= Capacity, NEW z \in 0 .. CbufSize(c),
         NEW p, p = [c EXCEPT !.start = Add(c.start, z)]
  PROVE  /\ p \in CbufType /\ CbufSize(p) = CbufSize(c) - z
         /\ Contents(p) = SubSeq(Contents(c), z + 1, CbufSize(c))
<1> DEFINE s == c.start
           n == CbufSize(c)
           x == Add(s, z)
           q == Contents(c)
           t == SubSeq(q, z + 1, n)
<1>1. Capacity \in Nat \ {0} /\ IndexRange \in Nat \ {0} /\ Capacity < IndexRange
  BY Ranges
<1>2. /\ s \in Index /\ c.end \in Index /\ s \in Nat /\ s < IndexRange
      /\ c.end \in Nat /\ c.end < IndexRange
  BY <1>1, SMTT(30) DEF CbufType, Index
<1>3. n \in Nat /\ n <= Capacity /\ z \in Nat /\ z <= n /\ z \in Index
  BY <1>1, SizeIsNat, SMTT(30) DEF Index
<1>4. n = IF c.end >= s THEN c.end - s ELSE c.end - s + IndexRange
  BY SizeValue
<1>5. x \in Index /\ x = IF s + z < IndexRange THEN s + z ELSE s + z - IndexRange
  BY <1>2, <1>3, AddValue
<1>6. p \in CbufType /\ p.start = x /\ p.end = c.end /\ p.buf = c.buf
  <2> HIDE DEF x
  <2> QED BY <1>5 DEF CbufType, x
<1>7. CbufSize(p) = IF c.end >= x THEN c.end - x ELSE c.end - x + IndexRange
  BY <1>6, SizeValue
<1>8. q \in Seq(Byte) /\ Len(q) = n /\ \A j \in 1 .. n : q[j] = c.buf[CbufIndex(s + j - 1)]
  BY ContentsAreBytes
<1> DEFINE k == CbufSize(p)
<1>9. /\ Contents(p) \in Seq(Byte) /\ Len(Contents(p)) = k
      /\ \A j \in 1 .. k : Contents(p)[j] = c.buf[CbufIndex(x + j - 1)]
  BY <1>6, ContentsAreBytes
<1> HIDE DEF s, n, x, q, k
<1>10. k = n - z
  BY <1>1, <1>2, <1>3, <1>4, <1>5, <1>7, SMTT(30) DEF k
<1>11. t \in Seq(Byte) /\ Len(t) = n - z /\ \A j \in 1 .. n - z : t[j] = q[z + j]
  <2>1. n <= Len(q) /\ n \in Nat /\ z \in Nat /\ z <= n
    BY <1>3, <1>8, SMTT(30)
  <2>2. q \in Seq(Byte)
    BY <1>8
  <2> QED BY <2>1, <2>2, PartOf
<1> HIDE DEF t
<1>12. ASSUME NEW j \in 1 .. k PROVE Contents(p)[j] = t[j]
  <2> DEFINE y == s + (z + j) - 1
  <2>1. j \in 1 .. n - z /\ z + j \in 1 .. n /\ y \in Int
        /\ (x + j - 1 = y \/ x + j - 1 = y - IndexRange)
    BY <1>1, <1>2, <1>3, <1>5, <1>10, SMTT(30)
  <2>2. q[z + j] = c.buf[CbufIndex(y)]
    BY <1>8, <2>1
  <2> HIDE DEF y
  <2>3. CbufIndex(y - IndexRange) = CbufIndex(y)
    BY <2>1, WrapKeepsPosition
  <2>4. CbufIndex(x + j - 1) = CbufIndex(y)
    BY <2>1, <2>3
  <2>5. t[j] = q[z + j]
    BY <1>11, <2>1
  <2>6. Contents(p)[j] = c.buf[CbufIndex(x + j - 1)]
    BY <1>9
  <2> QED BY <2>2, <2>4, <2>5, <2>6
<1>13. Contents(p) = t
  BY <1>9, <1>10, <1>11, <1>12, SeqEqual
<1> QED BY <1>6, <1>10, <1>13 DEF k, n, t, q

-----------------------------------------------------------------------------
\* The calls, as operations of the queue.

LEMMA OverwrittenEnd ==
  ASSUME NEW q \in Seq(Byte), NEW data \in Seq(Byte)
  PROVE  Overwritten(q, Len(q), data) = q \o data
<1> DEFINE o == Overwritten(q, Len(q), data)
           t == q \o data
           n == Len(q)
           L == Len(data)
<1>1. n \in Nat /\ L \in Nat /\ n \in 0 .. n
  BY SMTT(30)
<1>2. /\ t \in Seq(Byte) /\ Len(t) = n + L
      /\ \A i \in 1 .. n + L : t[i] = IF i <= n THEN q[i] ELSE data[i - n]
  BY SMTT(30)
<1>3. /\ o \in Seq(Byte) /\ Len(o) = IF n > n + L THEN n ELSE n + L
      /\ \A i \in 1 .. Len(o) : o[i] = IF i > n /\ i <= n + L THEN data[i - n] ELSE q[i]
  BY <1>1, OverwrittenProperties
<1> HIDE DEF o, t, n, L
<1>4. Len(o) = n + L
  BY <1>1, <1>3, SMTT(30)
<1>5. ASSUME NEW i \in 1 .. n + L PROVE o[i] = t[i]
  <2>1. o[i] = IF i > n /\ i <= n + L THEN data[i - n] ELSE q[i]
    BY <1>3, <1>4
  <2>2. t[i] = IF i <= n THEN q[i] ELSE data[i - n]
    BY <1>2
  <2>3. CASE i <= n
    <3>1. ~(i > n)
      BY <1>1, <2>3, SMTT(30)
    <3> QED BY <2>1, <2>2, <2>3, <3>1
  <2>4. CASE ~(i <= n)
    <3>1. i > n /\ i <= n + L
      BY <1>1, <2>4, SMTT(30)
    <3> QED BY <2>1, <2>2, <2>4, <3>1
  <2> QED BY <2>3, <2>4
<1>6. o = t
  BY <1>2, <1>3, <1>4, <1>5, SeqEqual
<1> QED BY <1>6 DEF o, t, n

LEMMA OverwrittenInside ==
  ASSUME NEW q \in Seq(Byte), NEW data \in Seq(Byte), NEW d \in 0 .. Len(q)
  PROVE  Overwritten(q, d, data)
           = SubSeq(q, 1, d) \o data \o SubSeq(q, d + Len(data) + 1, Len(q))
<1> DEFINE o == Overwritten(q, d, data)
           n == Len(q)
           L == Len(data)
           a == SubSeq(q, 1, d)
           f == d + L
           b == SubSeq(q, f + 1, n)
           E == IF n > f THEN n ELSE f
           t == (a \o data) \o b
<1>1. n \in Nat /\ L \in Nat /\ d \in Nat /\ d <= n /\ f \in Nat /\ E \in Nat
  BY SMTT(30)
<1>2. /\ o \in Seq(Byte) /\ Len(o) = E
      /\ \A i \in 1 .. Len(o) : o[i] = IF i > d /\ i <= f THEN data[i - d] ELSE q[i]
  BY OverwrittenProperties
<1>3. a \in Seq(Byte) /\ Len(a) = d /\ \A i \in 1 .. d : a[i] = q[i]
  <2>1. /\ SubSeq(q, 0 + 1, d) \in Seq(Byte) /\ Len(SubSeq(q, 0 + 1, d)) = d - 0
        /\ \A j \in 1 .. d - 0 : SubSeq(q, 0 + 1, d)[j] = q[0 + j]
    BY <1>1, PartOf, SMTT(30)
  <2>2. 0 + 1 = 1 /\ d - 0 = d /\ \A j \in 1 .. d : 0 + j = j
    BY <1>1, SMTT(30)
  <2> QED BY <2>1, <2>2
<1>4. b \in Seq(Byte) /\ Len(b) = E - f /\ \A j \in 1 .. E - f : b[j] = q[f + j]
  <2>1. CASE n > f
    <3>1. f <= n /\ E = n
      BY <1>1, <2>1, SMTT(30)
    <3>2. b \in Seq(Byte) /\ Len(b) = n - f /\ \A j \in 1 .. n - f : b[j] = q[f + j]
      <4>1. n <= Len(q)
        BY <1>1, SMTT(30)
      <4> HIDE DEF f, n
      <4> QED BY <1>1, <3>1, <4>1, PartOf
    <3> QED BY <3>1, <3>2
  <2>2. CASE ~(n > f)
    <3>1. b = <<>>
      <4> HIDE DEF f, n
      <4>1. f + 1 > n /\ f + 1 \in Int
        BY <1>1, <2>2, SMTT(30)
      <4>2. q \in Seq(Byte) /\ n \in Int
        BY <1>1, SMTT(30)
      <4> QED BY <4>1, <4>2, SMTT(30)
    <3> HIDE DEF b
    <3>2. b \in Seq(Byte) /\ Len(b) = 0
      BY <3>1, SMTT(30)
    <3>3. E - f = 0 /\ 1 .. E - f = {}
      BY <1>1, <2>2, SMTT(30)
    <3> QED BY <3>2, <3>3
  <2> QED BY <2>1, <2>2
<1> HIDE DEF a, b, f, E
<1>5. f = d + L /\ E >= f
  BY <1>1, SMTT(30) DEF f, E
<1>6. a \in Seq(Byte) /\ b \in Seq(Byte)
  BY <1>3, <1>4
<1>7. /\ a \o data \in Seq(Byte) /\ Len(a \o data) = Len(a) + L
      /\ \A i \in 1 .. Len(a) + L : (a \o data)[i] = IF i <= Len(a) THEN a[i] ELSE data[i - Len(a)]
  BY <1>6, SMTT(30)
<1> DEFINE ad == a \o data
<1>8. /\ ad \in Seq(Byte) /\ Len(ad) = f
      /\ \A i \in 1 .. f : ad[i] = IF i <= d THEN a[i] ELSE data[i - d]
  BY <1>3, <1>5, <1>7
<1> HIDE DEF ad
<1>9. ad \in Seq(Byte)
  BY <1>8
<1>10. /\ ad \o b \in Seq(Byte) /\ Len(ad \o b) = Len(ad) + Len(b)
       /\ \A i \in 1 .. Len(ad) + Len(b) : (ad \o b)[i] = IF i <= Len(ad) THEN ad[i] ELSE b[i - Len(ad)]
  BY <1>6, <1>9, SMTT(30)
<1>11. Len(ad) + Len(b) = E
  BY <1>1, <1>4, <1>8, SMTT(30)
<1>12. /\ t \in Seq(Byte) /\ Len(t) = E
       /\ \A i \in 1 .. E : t[i] = IF i <= f THEN ad[i] ELSE b[i - f]
  BY <1>8, <1>10, <1>11 DEF ad
<1> HIDE DEF o, t, L, n
<1>13. ASSUME NEW i \in 1 .. E PROVE o[i] = t[i]
  <2>1. o[i] = IF i > d /\ i <= f THEN data[i - d] ELSE q[i]
    BY <1>2
  <2>2. t[i] = IF i <= f THEN ad[i] ELSE b[i - f]
    BY <1>12
  <2>3. CASE i <= d
    <3>1. i \in 1 .. d /\ i \in 1 .. f /\ i <= f /\ ~(i > d)
      BY <1>1, <1>5, <2>3, SMTT(30)
    <3> QED BY <1>3, <1>8, <2>1, <2>2, <2>3, <3>1
  <2>4. CASE i > d /\ i <= f
    <3>1. i \in 1 .. f /\ ~(i <= d)
      BY <1>1, <2>4, SMTT(30)
    <3> QED BY <1>8, <2>1, <2>2, <2>4, <3>1
  <2>5. CASE i > f
    <3>1. i - f \in 1 .. E - f /\ f + (i - f) = i /\ ~(i <= f)
      BY <1>1, <2>5, SMTT(30)
    <3>2. b[i - f] = q[f + (i - f)]
      BY <1>4, <3>1
    <3> QED BY <2>1, <2>2, <3>1, <3>2
  <2>6. i <= d \/ (i > d /\ i <= f) \/ i > f
    BY <1>1, SMTT(30)
  <2> QED BY <2>3, <2>4, <2>5, <2>6
<1>14. o = t
  BY <1>2, <1>12, <1>13, SeqEqual
<1> QED BY <1>14 DEF o, t, a, b, f, L, n

\* cbuf_pushb writes one byte at the end.
LEMMA PushbIsWrite ==
  ASSUME NEW c \in CbufType, CbufSize(c) <= Capacity, NEW byte \in Byte
  PROVE  Pushb(c, byte) = Write(c, c.end, <<byte>>)
<1> DEFINE data == <<byte>>
           at   == CbufIndex(c.end)
           e    == Add(c.end, 1)
           grows == ~RangeValid(c, c.start, e)
<1>1. Capacity \in Nat \ {0} /\ IndexRange \in Nat \ {0} /\ 1 \in 1 .. MaxData
  BY Ranges, ClientAssumption
<1>2. c.end \in Index /\ c.start \in Index /\ c.buf \in [0 .. Capacity - 1 -> Byte] /\ c.end \in Int
  BY <1>1, SMTT(30) DEF CbufType, Index
<1>3. Len(data) = 1 /\ SubSeq(data, 0 + 1, 1) = data /\ data[1] = byte
  <2>1. data \in Seq(Byte) /\ Len(data) = 1 /\ data[1] = byte
    BY SMTT(30)
  <2> HIDE DEF data
  <2>2. SubSeq(data, 0 + 1, 1) = data
    BY <2>1, SMTT(30)
  <2> QED BY <2>1, <2>2
<1>4. at \in 0 .. Capacity - 1
  BY <1>2, PositionsExist
<1>5. Add(c.end, 0) = c.end
  <2>1. c.end + 0 = c.end
    BY <1>2, SMTT(30)
  <2> QED BY <1>2, <2>1, WrapOnce DEF Add
<1>6. grows
  <2>1. CbufSize(c) = Sub(c.end, c.start) /\ CbufSize(c) \in Nat
    BY <1>1, SizeIsNat, SMTT(30) DEF CbufSize
  <2>2. Sub(c.end, c.start) <= CbufSize(c) /\ ~(Sub(c.end, c.start) + 1 <= CbufSize(c))
    BY <2>1, SMTT(30)
  <2> QED BY <1>1, <1>2, <2>2, WriteGrows
<1>7. ~(Len(data) > Capacity)
  BY <1>1, <1>3, SMTT(30)
<1>8. Store(c.buf, c.end, data) = [c.buf EXCEPT ![at] = byte]
  <2>1. Store(c.buf, c.end, data) = Copy(c.buf, at, data)
    <3>1. ~(Len(data) > Capacity - at)
      <4> HIDE DEF data, at
      <4> QED BY <1>1, <1>3, <1>4, SMTT(30)
    <3> QED BY <3>1 DEF Store
  <2> DEFINE f == Copy(c.buf, at, data)
             g == [c.buf EXCEPT ![at] = byte]
  <2>2. ASSUME NEW j \in 0 .. Capacity - 1 PROVE f[j] = g[j]
    <3>1. f[j] = IF j >= at /\ j < at + Len(data) THEN data[j - at + 1] ELSE c.buf[j]
      BY DEF Copy
    <3> HIDE DEF data, at
    <3>2. CASE j = at
      <4>1. j >= at /\ j < at + Len(data) /\ j - at + 1 = 1
        BY <1>1, <1>3, <1>4, <3>2, SMTT(30)
      <4>2. f[j] = byte
        BY <1>3, <3>1, <4>1
      <4>3. g[j] = byte
        BY <1>2, <3>2
      <4> QED BY <4>2, <4>3
    <3>3. CASE j # at
      <4>1. ~(j >= at /\ j < at + Len(data))
        BY <1>1, <1>3, <1>4, <3>3, SMTT(30)
      <4>2. f[j] = c.buf[j]
        BY <3>1, <4>1
      <4>3. g[j] = c.buf[j]
        BY <1>2, <3>3
      <4> QED BY <4>2, <4>3
    <3> QED BY <3>2, <3>3
  <2>3. f = g
    <3>1. f = [j \in 0 .. Capacity - 1 |-> f[j]] /\ g = [j \in 0 .. Capacity - 1 |-> g[j]]
      BY <1>2 DEF Copy
    <3> QED BY <2>2, <3>1
  <2> QED BY <2>1, <2>3
<1>9. Write(c, c.end, data)
        = UpdateStart([c EXCEPT !.buf = Store(c.buf, c.end, data), !.end = e])
  <2>1. Write(c, c.end, data)
          = LET skip == IF grows /\ Len(data) > Capacity THEN Len(data) - Capacity ELSE 0
            IN  UpdateStart([c EXCEPT !.buf = Store(@, Add(c.end, skip),
                                                    SubSeq(data, skip + 1, Len(data))),
                                      !.end = IF grows THEN e ELSE @])
    <3>1. Add(c.end, Len(data)) = e
      BY <1>3
    <3> HIDE DEF data, e
    <3> QED BY <3>1 DEF Write
  <2> HIDE DEF data, e, grows
  <2> QED BY <1>3, <1>5, <1>6, <1>7, <2>1
<1>10. Pushb(c, byte) = UpdateStart([c EXCEPT !.buf = [c.buf EXCEPT ![at] = byte], !.end = e])
  BY DEF Pushb
<1> QED BY <1>8, <1>9, <1>10

\* The invariant of the buffer: it holds no more than its capacity.
ClientInv == cbuf \in CbufType /\ CbufSize(cbuf) <= Capacity

LEMMA QueueType ==
  ASSUME ClientInv
  PROVE  /\ Contents(cbuf) \in Seq(Byte) /\ Len(Contents(cbuf)) = CbufSize(cbuf)
         /\ CbufSize(cbuf) \in Nat /\ CbufSize(cbuf) <= Capacity /\ Capacity \in Nat \ {0}
<1>1. cbuf \in CbufType /\ CbufSize(cbuf) <= Capacity
  BY DEF ClientInv
<1>2. CbufSize(cbuf) \in Nat /\ Capacity \in Nat \ {0}
  BY <1>1, SizeIsNat, Ranges, SMTT(30)
<1> QED BY <1>1, <1>2, ContentsAreBytes

\* A call that fails changes nothing.
LEMMA FailsKeeps ==
  ASSUME NEW error, Fails(error)
  PROVE  cbuf' = cbuf /\ Contents(cbuf)' = Contents(cbuf) /\ out' = error
<1>1. cbuf' = cbuf /\ out' = error
  BY DEF Fails
<1> QED BY <1>1 DEF Contents, CbufSize, Sub, CbufIndex

LEMMA AppendData ==
  ASSUME ClientInv, NEW data \in Data, cbuf' = Write(cbuf, cbuf.end, data)
  PROVE  ClientInv' /\ Contents(cbuf)' = Queue!Last(Contents(cbuf) \o data, Capacity)
<1>1. cbuf \in CbufType /\ CbufSize(cbuf) <= Capacity /\ CbufSize(cbuf) \in Nat
  BY QueueType DEF ClientInv
<1>2. data \in Seq(Byte) /\ Len(data) \in 1 .. MaxData
  BY ClientAssumption
<1>3. cbuf.end \in Index /\ Sub(cbuf.end, cbuf.start) = CbufSize(cbuf)
  BY <1>1 DEF CbufType, CbufSize
<1>4. Sub(cbuf.end, cbuf.start) <= CbufSize(cbuf)
  BY <1>1, <1>3, SMTT(30)
<1> DEFINE w == Write(cbuf, cbuf.end, data)
           q == Contents(cbuf)
<1>5. /\ w \in CbufType /\ CbufSize(w) <= Capacity
      /\ Contents(w) = Queue!Last(Overwritten(q, Sub(cbuf.end, cbuf.start), data), Capacity)
  BY <1>1, <1>2, <1>3, <1>4, WriteContents
<1>6. q \in Seq(Byte) /\ Len(q) = CbufSize(cbuf)
  BY QueueType
<1>7. Overwritten(q, Len(q), data) = q \o data
  BY <1>2, <1>6, OverwrittenEnd
<1>8. Contents(w) = Queue!Last(q \o data, Capacity)
  BY <1>3, <1>5, <1>6, <1>7
<1>9. Contents(cbuf)' = Contents(w)
  BY DEF Contents, CbufSize, Sub, CbufIndex
<1>10. ClientInv'
  BY <1>5 DEF ClientInv, CbufSize, Sub, CbufType, Index
<1> QED BY <1>8, <1>9, <1>10

LEMMA FreeSizeMeans ==
  ASSUME ClientInv, NEW k \in Nat
  PROVE  /\ k > FreeSize(cbuf) <=> ~(Len(Contents(cbuf)) + k <= Capacity)
         /\ FreeSize(cbuf) = 0 <=> ~(Len(Contents(cbuf)) + 1 <= Capacity)
         /\ CbufSize(cbuf) = 0 <=> Contents(cbuf) = <<>>
<1> DEFINE n == CbufSize(cbuf)
           q == Contents(cbuf)
<1>1. q \in Seq(Byte) /\ Len(q) = n /\ n \in Nat /\ n <= Capacity /\ Capacity \in Nat
  BY QueueType
<1>2. FreeSize(cbuf) = Capacity - n
  BY DEF FreeSize
<1> HIDE DEF n, q
<1>3. q = <<>> <=> n = 0
  <2>1. q \in Seq(Byte)
    BY <1>1
  <2>2. q = <<>> <=> Len(q) = 0
    BY <2>1, EmptySeq
  <2> QED BY <1>1, <2>2
<1>4. k > FreeSize(cbuf) <=> ~(Len(q) + k <= Capacity)
  BY <1>1, <1>2, SMTT(30)
<1>5. FreeSize(cbuf) = 0 <=> ~(Len(q) + 1 <= Capacity)
  BY <1>1, <1>2, SMTT(30)
<1> QED BY <1>3, <1>4, <1>5 DEF n, q

LEMMA PushRefines ==
  ASSUME ClientInv, NEW data \in Data, NEW erase \in BOOLEAN, CbufPush(data, erase)
  PROVE  ClientInv' /\ Queue!Push(data, erase)
<1>1. Len(data) \in Nat
  BY ClientAssumption, SMTT(30)
<1>2. Len(data) > FreeSize(cbuf) <=> ~(Len(Contents(cbuf)) + Len(data) <= Capacity)
  BY <1>1, FreeSizeMeans
<1>3. CASE ~erase /\ Len(data) > FreeSize(cbuf)
  <2>1. Fails(AGAIN)
    BY <1>3 DEF CbufPush
  <2>2. cbuf' = cbuf /\ Contents(cbuf)' = Contents(cbuf) /\ out' = AGAIN
    BY <2>1, FailsKeeps
  <2>3. ClientInv'
    BY <2>2 DEF ClientInv, CbufSize, Sub, CbufType, Index
  <2> QED BY <1>2, <1>3, <2>2, <2>3 DEF Queue!Push
<1>4. CASE ~(~erase /\ Len(data) > FreeSize(cbuf))
  <2>1. cbuf' = Write(cbuf, cbuf.end, data) /\ out' = <<>>
    BY <1>4 DEF CbufPush
  <2>2. ClientInv' /\ Contents(cbuf)' = Queue!Last(Contents(cbuf) \o data, Capacity)
    BY <2>1, AppendData
  <2> QED BY <1>2, <1>4, <2>1, <2>2 DEF Queue!Push
<1> QED BY <1>3, <1>4

LEMMA PushbRefines ==
  ASSUME ClientInv, NEW byte \in Byte, NEW erase \in BOOLEAN, CbufPushb(byte, erase)
  PROVE  ClientInv' /\ Queue!Push(<<byte>>, erase)
<1>1. <<byte>> \in Data /\ Len(<<byte>>) = 1
  BY ClientAssumption
<1>2. FreeSize(cbuf) = 0 <=> ~(Len(Contents(cbuf)) + Len(<<byte>>) <= Capacity)
  <2>1. 0 \in Nat
    OBVIOUS
  <2> QED BY <1>1, <2>1, FreeSizeMeans
<1>3. CASE ~erase /\ FreeSize(cbuf) = 0
  <2>1. Fails(AGAIN)
    BY <1>3 DEF CbufPushb
  <2>2. cbuf' = cbuf /\ Contents(cbuf)' = Contents(cbuf) /\ out' = AGAIN
    BY <2>1, FailsKeeps
  <2>3. ClientInv'
    BY <2>2 DEF ClientInv, CbufSize, Sub, CbufType, Index
  <2> QED BY <1>2, <1>3, <2>2, <2>3 DEF Queue!Push
<1>4. CASE ~(~erase /\ FreeSize(cbuf) = 0)
  <2>1. cbuf' = Pushb(cbuf, byte) /\ out' = <<>>
    BY <1>4 DEF CbufPushb
  <2>2. cbuf' = Write(cbuf, cbuf.end, <<byte>>)
    BY <2>1, PushbIsWrite DEF ClientInv
  <2>3. ClientInv' /\ Contents(cbuf)' = Queue!Last(Contents(cbuf) \o <<byte>>, Capacity)
    BY <1>1, <2>2, AppendData
  <2> QED BY <1>2, <1>4, <2>1, <2>3 DEF Queue!Push
<1> QED BY <1>3, <1>4

\* Taking the first z bytes of the buffer.
LEMMA DropFirst ==
  ASSUME ClientInv, NEW z \in 0 .. CbufSize(cbuf),
         cbuf' = [cbuf EXCEPT !.start = Add(cbuf.start, z)]
  PROVE  /\ ClientInv'
         /\ Contents(cbuf)' = SubSeq(Contents(cbuf), z + 1, Len(Contents(cbuf)))
<1> DEFINE p == [cbuf EXCEPT !.start = Add(cbuf.start, z)]
           q == Contents(cbuf)
<1>1. cbuf \in CbufType /\ CbufSize(cbuf) <= Capacity
  BY DEF ClientInv
<1>2. CbufSize(cbuf) \in Nat /\ Capacity \in Nat /\ Len(q) = CbufSize(cbuf)
  BY QueueType
<1>3. p \in CbufType /\ CbufSize(p) = CbufSize(cbuf) - z
      /\ Contents(p) = SubSeq(q, z + 1, CbufSize(cbuf))
  BY <1>1, StartMoved
<1>4. CbufSize(p) <= Capacity
  BY <1>1, <1>2, <1>3, SMTT(30)
<1>5. cbuf' = p
  OBVIOUS
<1> HIDE DEF p
<1>6. ClientInv'
  BY <1>3, <1>4, <1>5 DEF ClientInv, CbufSize, Sub, CbufType, Index
<1>7. Contents(cbuf)' = Contents(p)
  BY <1>5 DEF Contents, CbufSize, Sub, CbufIndex
<1> QED BY <1>2, <1>3, <1>6, <1>7

LEMMA PopRefines ==
  ASSUME ClientInv, NEW n \in 1 .. MaxData, CbufPop(n)
  PROVE  ClientInv' /\ Queue!Pop(n)
<1> DEFINE q == Contents(cbuf)
           z == ReadSize(cbuf, cbuf.start, n)
<1>1. n \in Nat \ {0}
  BY ClientAssumption, SMTT(30)
<1>2. CbufSize(cbuf) = 0 <=> q = <<>>
  BY <1>1, FreeSizeMeans
<1>3. CASE CbufSize(cbuf) = 0
  <2>1. Fails(AGAIN)
    BY <1>3 DEF CbufPop
  <2>2. cbuf' = cbuf /\ Contents(cbuf)' = q /\ out' = AGAIN
    BY <2>1, FailsKeeps
  <2>3. ClientInv'
    BY <2>2 DEF ClientInv, CbufSize, Sub, CbufType, Index
  <2> QED BY <1>2, <1>3, <2>2, <2>3 DEF Queue!Pop
<1>4. CASE CbufSize(cbuf) # 0
  <2>1. out' = ReadBytes(cbuf, cbuf.start, n)
        /\ cbuf' = [cbuf EXCEPT !.start = Add(cbuf.start, z)]
    BY <1>4 DEF CbufPop
  <2>2. cbuf \in CbufType /\ CbufSize(cbuf) <= Capacity /\ CbufSize(cbuf) \in Nat
        /\ Len(q) = CbufSize(cbuf)
    BY QueueType DEF ClientInv
  <2>3. cbuf.start \in Index /\ Sub(cbuf.start, cbuf.start) = 0
    <3>1. cbuf.start \in Index
      BY <2>2 DEF CbufType
    <3>2. Sub(cbuf.start, cbuf.start) = IF cbuf.start >= cbuf.start THEN cbuf.start - cbuf.start
                                        ELSE cbuf.start - cbuf.start + IndexRange
      BY <3>1, Difference
    <3> QED BY <3>1, <3>2, Ranges, SMTT(30) DEF Index
  <2>4. Sub(cbuf.start, cbuf.start) <= CbufSize(cbuf)
    BY <2>2, <2>3, SMTT(30)
  <2>5. /\ z = IF n > CbufSize(cbuf) - 0 THEN CbufSize(cbuf) - 0 ELSE n
        /\ z \in Nat /\ 0 + z <= CbufSize(cbuf)
        /\ ReadBytes(cbuf, cbuf.start, n) = SubSeq(q, 0 + 1, 0 + z)
    BY <1>1, <2>2, <2>3, <2>4, ReadContents
  <2> DEFINE r == ReadBytes(cbuf, cbuf.start, n)
  <2> HIDE DEF z, q, r
  <2>6. z = (IF n < Len(q) THEN n ELSE Len(q)) /\ z \in 0 .. CbufSize(cbuf)
        /\ 0 + 1 = 1 /\ 0 + z = z
    BY <1>1, <2>2, <2>5, SMTT(30)
  <2>7. r = SubSeq(q, 1, z)
    BY <2>5, <2>6 DEF r
  <2>8. ClientInv' /\ Contents(cbuf)' = SubSeq(q, z + 1, Len(q))
    BY <2>1, <2>6, DropFirst DEF q
  <2>9. out' = SubSeq(q, 1, z)
    BY <2>1, <2>7 DEF r
  <2>10. ~(q = <<>>)
    BY <1>2, <1>4 DEF q
  <2> QED BY <2>6, <2>8, <2>9, <2>10 DEF Queue!Pop, q
<1> QED BY <1>3, <1>4

LEMMA PopbRefines ==
  ASSUME ClientInv, CbufPopb
  PROVE  ClientInv' /\ Queue!Pop(1)
<1> DEFINE q == Contents(cbuf)
<1>1. CbufSize(cbuf) = 0 <=> q = <<>>
  <2>1. 0 \in Nat
    OBVIOUS
  <2> QED BY <2>1, FreeSizeMeans
<1>2. CASE CbufSize(cbuf) = 0
  <2>1. Fails(AGAIN)
    BY <1>2 DEF CbufPopb
  <2>2. cbuf' = cbuf /\ Contents(cbuf)' = q /\ out' = AGAIN
    BY <2>1, FailsKeeps
  <2>3. ClientInv'
    BY <2>2 DEF ClientInv, CbufSize, Sub, CbufType, Index
  <2> QED BY <1>1, <1>2, <2>2, <2>3 DEF Queue!Pop
<1>3. CASE CbufSize(cbuf) # 0
  <2>1. out' = <<PopbByte(cbuf)>> /\ cbuf' = [cbuf EXCEPT !.start = Add(cbuf.start, 1)]
    BY <1>3 DEF CbufPopb, Popb
  <2>2. cbuf \in CbufType /\ CbufSize(cbuf) \in Nat /\ q \in Seq(Byte) /\ Len(q) = CbufSize(cbuf)
    BY QueueType DEF ClientInv
  <2>3. 1 \in 0 .. CbufSize(cbuf)
    BY <1>3, <2>2, SMTT(30)
  <2>4. ClientInv' /\ Contents(cbuf)' = SubSeq(q, 1 + 1, Len(q))
    BY <2>1, <2>3, DropFirst
  <2> DEFINE b == PopbByte(cbuf)
             t == Contents(Popb(cbuf))
  <2>5. b \in Byte /\ q = <<b>> \o t
    BY <1>3, <2>2, PopbTakesFirst
  <2>6. t \in Seq(Byte)
    BY <1>3, <2>2, PopbShrinks, ContentsAreBytes
  <2> HIDE DEF b, t, q
  <2>7. q[1] = b /\ Len(q) >= 1
    BY <2>5, <2>6, SMTT(30)
  <2>8. SubSeq(q, 1, 1) = <<b>>
    <3> DEFINE u == SubSeq(q, 1, 1)
               v == <<b>>
    <3>1. u \in Seq(Byte) /\ Len(u) = 1 /\ u[1] = q[1]
      BY <2>2, <2>7, SMTT(30)
    <3>2. v \in Seq(Byte) /\ Len(v) = 1 /\ v[1] = b
      BY <2>5, SMTT(30)
    <3> HIDE DEF u, v
    <3>3. \A i \in 1 .. Len(u) : u[i] = v[i]
      BY <2>7, <3>1, <3>2, SMTT(30)
    <3>4. u = v
      BY <3>1, <3>2, <3>3, SeqEqual
    <3> QED BY <3>4 DEF u, v
  <2>9. (IF 1 < Len(q) THEN 1 ELSE Len(q)) = 1
    BY <2>2, <2>7, SMTT(30)
  <2>10. ~(q = <<>>)
    BY <1>1, <1>3 DEF q
  <2>11. out' = SubSeq(q, 1, 1)
    BY <2>1, <2>8 DEF b
  <2> QED BY <2>4, <2>9, <2>10, <2>11 DEF Queue!Pop, q
<1> QED BY <1>2, <1>3

\* cbuf_range_valid, as cbuf_write and cbuf_read call it, accepts the offsets
\* up to the size of the buffer, and those below it.
LEMMA RangeMeans ==
  ASSUME ClientInv, NEW index \in Index
  PROVE  /\ Sub(index, cbuf.start) \in Nat
         /\ RangeValid(cbuf, index, cbuf.end) <=> Sub(index, cbuf.start) <= CbufSize(cbuf)
         /\ RangeValid(cbuf, index, Add(index, 1)) <=> Sub(index, cbuf.start) < CbufSize(cbuf)
<1> DEFINE s == cbuf.start
           e == cbuf.end
           n == CbufSize(cbuf)
           d == Sub(index, s)
           x == Add(index, 1)
<1>1. s \in Index /\ e \in Index
  BY DEF ClientInv, CbufType
<1>2. n \in Nat /\ n <= Capacity /\ Sub(e, s) = n
  BY QueueType DEF CbufSize
<1>3. IndexRange \in Nat /\ Capacity \in Nat /\ Capacity + 1 < IndexRange
  BY Ranges, ClientAssumption, SMTT(30)
<1>4. d \in Nat /\ d < IndexRange /\ 1 \in Index
  <2>1. d \in Index
    BY <1>1, Offset
  <2> HIDE DEF d
  <2> QED BY <1>3, <2>1, SMTT(30) DEF Index
<1>5. Sub(e, index) = IF n >= d THEN n - d ELSE n - d + IndexRange
  BY <1>1, <1>2, SubOffsets, SMTT(30)
<1>6. Sub(e, e) = 0
  <2>1. Sub(e, e) = IF Sub(e, s) >= Sub(e, s) THEN Sub(e, s) - Sub(e, s)
                    ELSE Sub(e, s) - Sub(e, s) + IndexRange
    BY <1>1, SubOffsets
  <2> QED BY <1>2, <2>1, SMTT(30)
<1>7. RangeValid(cbuf, index, e) <=> d <= n
  <2>1. RangeValid(cbuf, index, e) <=> Sub(e, index) <= n /\ d <= n /\ Sub(e, e) <= n
    BY DEF RangeValid
  <2> HIDE DEF s, e, n, d
  <2> QED BY <1>2, <1>3, <1>4, <1>5, <1>6, <2>1, SMTT(30)
<1>8. RangeValid(cbuf, index, x) <=> d < n
  <2>1. RangeValid(cbuf, index, x) <=> Sub(x, index) <= n /\ d <= n /\ Sub(e, x) <= n
    BY DEF RangeValid
  <2>2. CASE d <= n
    <3>1. d + 1 < IndexRange
      BY <1>2, <1>3, <1>4, <2>2, SMTT(30)
    <3>2. x \in Index /\ Sub(x, s) = d + 1
      BY <1>1, <1>4, <3>1, AddOffset
    <3>3. Sub(x, index) = IF Sub(x, s) >= d THEN Sub(x, s) - d ELSE Sub(x, s) - d + IndexRange
      BY <1>1, <3>2, SubOffsets
    <3>4. Sub(e, x) = IF Sub(e, s) >= Sub(x, s) THEN Sub(e, s) - Sub(x, s)
                      ELSE Sub(e, s) - Sub(x, s) + IndexRange
      BY <1>1, <3>2, SubOffsets
    <3> HIDE DEF s, e, n, d, x
    <3> QED BY <1>2, <1>3, <1>4, <2>1, <2>2, <3>2, <3>3, <3>4, SMTT(30)
  <2>3. CASE ~(d <= n)
    <3> HIDE DEF s, e, n, d, x
    <3> QED BY <1>2, <1>4, <2>1, <2>3, SMTT(30)
  <2> QED BY <2>2, <2>3
<1> QED BY <1>4, <1>7, <1>8

\* The offset of the abstract call: every offset past the buffer is refused
\* alike, so one number past the capacity stands for all of them.
Clipped(d) == IF d <= Capacity THEN d ELSE Capacity + 1

LEMMA ClippedOffset ==
  ASSUME ClientInv, NEW d \in Nat
  PROVE  /\ Clipped(d) \in 0 .. Capacity + 1
         /\ Clipped(d) > Len(Contents(cbuf)) <=> ~(d <= CbufSize(cbuf))
         /\ Clipped(d) >= Len(Contents(cbuf)) <=> ~(d < CbufSize(cbuf))
         /\ d <= CbufSize(cbuf) => Clipped(d) = d
<1>1. Len(Contents(cbuf)) = CbufSize(cbuf) /\ CbufSize(cbuf) \in Nat
      /\ CbufSize(cbuf) <= Capacity /\ Capacity \in Nat
  BY QueueType
<1> QED BY <1>1, SMTT(30) DEF Clipped

LEMMA WriteRefines ==
  ASSUME ClientInv, NEW index \in Index, NEW data \in Data, CbufWrite(index, data)
  PROVE  /\ ClientInv'
         /\ \E i \in 0 .. Capacity + 1 : Queue!Write(i, data)
<1> DEFINE q == Contents(cbuf)
           d == Sub(index, cbuf.start)
           i == Clipped(d)
<1>1. d \in Nat /\ (RangeValid(cbuf, index, cbuf.end) <=> d <= CbufSize(cbuf))
  BY RangeMeans
<1>2. /\ i \in 0 .. Capacity + 1
      /\ i > Len(q) <=> ~(d <= CbufSize(cbuf))
      /\ d <= CbufSize(cbuf) => i = d
  BY <1>1, ClippedOffset
<1>3. CASE ~(d <= CbufSize(cbuf))
  <2>1. Fails(INVAL)
    BY <1>1, <1>3 DEF CbufWrite
  <2>2. cbuf' = cbuf /\ Contents(cbuf)' = q /\ out' = INVAL
    BY <2>1, FailsKeeps
  <2>3. ClientInv'
    BY <2>2 DEF ClientInv, CbufSize, Sub, CbufType, Index
  <2>4. Queue!Write(i, data)
    <3> HIDE DEF i
    <3> QED BY <1>2, <1>3, <2>2 DEF Queue!Write
  <2> QED BY <1>2, <2>3, <2>4
<1>4. CASE d <= CbufSize(cbuf)
  <2> DEFINE w == Write(cbuf, index, data)
  <2>1. cbuf' = w /\ out' = <<>>
    BY <1>1, <1>4 DEF CbufWrite
  <2>2. cbuf \in CbufType /\ CbufSize(cbuf) <= Capacity /\ CbufSize(cbuf) \in Nat
        /\ q \in Seq(Byte) /\ Len(q) = CbufSize(cbuf)
    BY QueueType DEF ClientInv
  <2>3. data \in Seq(Byte) /\ Len(data) \in 1 .. MaxData
    BY ClientAssumption
  <2>4. w \in CbufType /\ CbufSize(w) <= Capacity
        /\ Contents(w) = Queue!Last(Overwritten(q, d, data), Capacity)
    BY <1>4, <2>2, <2>3, WriteContents
  <2>5. d \in 0 .. Len(q)
    BY <1>1, <1>4, <2>2, SMTT(30)
  <2>6. Overwritten(q, d, data)
          = SubSeq(q, 1, d) \o data \o SubSeq(q, d + Len(data) + 1, Len(q))
    BY <2>2, <2>3, <2>5, OverwrittenInside
  <2> HIDE DEF w
  <2>7. ClientInv'
    BY <2>1, <2>4 DEF ClientInv, CbufSize, Sub, CbufType, Index
  <2>8. Contents(cbuf)' = Contents(w)
    BY <2>1 DEF Contents, CbufSize, Sub, CbufIndex
  <2>9. Queue!Write(i, data)
    <3>1. i = d /\ ~(i > Len(q))
      BY <1>2, <1>4
    <3> HIDE DEF i, d
    <3>2. Contents(cbuf)' = Queue!Last(SubSeq(q, 1, i) \o data
                              \o SubSeq(q, i + Len(data) + 1, Len(q)), Capacity)
      BY <2>4, <2>6, <2>8, <3>1
    <3> QED BY <2>1, <3>1, <3>2 DEF Queue!Write
  <2> QED BY <1>2, <2>7, <2>9
<1> QED BY <1>3, <1>4

LEMMA ReadRefines ==
  ASSUME ClientInv, NEW index \in Index, NEW n \in 1 .. MaxData, CbufRead(index, n)
  PROVE  /\ ClientInv'
         /\ \E i \in 0 .. Capacity + 1 : Queue!Read(i, n)
<1> DEFINE q == Contents(cbuf)
           d == Sub(index, cbuf.start)
           i == Clipped(d)
<1>1. d \in Nat /\ (RangeValid(cbuf, index, Add(index, 1)) <=> d < CbufSize(cbuf))
  BY RangeMeans
<1>2. /\ i \in 0 .. Capacity + 1
      /\ i >= Len(q) <=> ~(d < CbufSize(cbuf))
      /\ d <= CbufSize(cbuf) => i = d
  BY <1>1, ClippedOffset
<1>3. cbuf' = cbuf
  BY DEF CbufRead, Fails
<1>4. ClientInv'
  BY <1>3 DEF ClientInv, CbufSize, Sub, CbufType, Index
<1>5. Contents(cbuf)' = q
  BY <1>3 DEF Contents, CbufSize, Sub, CbufIndex
<1>6. CASE ~(d < CbufSize(cbuf))
  <2>1. out' = INVAL
    BY <1>1, <1>6 DEF CbufRead, Fails
  <2>2. Queue!Read(i, n)
    <3> HIDE DEF i
    <3> QED BY <1>2, <1>5, <1>6, <2>1 DEF Queue!Read
  <2> QED BY <1>2, <1>4, <2>2
<1>7. CASE d < CbufSize(cbuf)
  <2> DEFINE z == ReadSize(cbuf, index, n)
             r == ReadBytes(cbuf, index, n)
  <2>1. out' = r
    BY <1>1, <1>7 DEF CbufRead
  <2>2. cbuf \in CbufType /\ CbufSize(cbuf) <= Capacity /\ CbufSize(cbuf) \in Nat
        /\ Len(q) = CbufSize(cbuf)
    BY QueueType DEF ClientInv
  <2>3. n \in Nat
    BY ClientAssumption, SMTT(30)
  <2>4. d <= CbufSize(cbuf)
    BY <1>1, <1>7, <2>2, SMTT(30)
  <2>5. /\ z = IF n > CbufSize(cbuf) - d THEN CbufSize(cbuf) - d ELSE n
        /\ r = SubSeq(q, d + 1, d + z)
    BY <2>2, <2>3, <2>4, ReadContents
  <2> HIDE DEF z, r, q, d, i
  <2>6. d + z = IF d + n < Len(q) THEN d + n ELSE Len(q)
    BY <1>1, <2>2, <2>3, <2>4, <2>5, SMTT(30)
  <2>7. i = d /\ ~(i >= Len(q))
    BY <1>2, <1>7, <2>4
  <2>8. out' = SubSeq(q, i + 1, IF i + n < Len(q) THEN i + n ELSE Len(q))
    BY <2>1, <2>5, <2>6, <2>7
  <2>9. Queue!Read(i, n)
    BY <1>5, <2>7, <2>8 DEF Queue!Read, q
  <2> QED BY <1>2, <1>4, <2>9
<1> QED BY <1>6, <1>7

LEMMA ClearRefines ==
  ASSUME ClientInv, cbuf' = CbufClear(cbuf), out' = <<>>
  PROVE  ClientInv' /\ Queue!Clear
<1> DEFINE p == CbufClear(cbuf)
<1>1. cbuf \in CbufType /\ cbuf.end \in Index
  BY DEF ClientInv, CbufType
<1>2. p \in CbufType /\ p.start = cbuf.end /\ p.end = cbuf.end
  BY <1>1 DEF CbufClear, CbufType
<1>3. cbuf' = p
  OBVIOUS
<1> HIDE DEF p
<1>4. CbufSize(p) = 0
  BY <1>1, <1>2, SizeValue, Ranges, SMTT(30) DEF Index
<1>5. CbufSize(p) <= Capacity
  BY <1>4, Ranges, SMTT(30)
<1>6. Contents(p) = <<>>
  BY <1>2, <1>4, ContentsAreBytes, EmptySeq
<1>7. ClientInv'
  BY <1>2, <1>3, <1>5 DEF ClientInv, CbufSize, Sub, CbufType, Index
<1>8. Contents(cbuf)' = Contents(p)
  BY <1>3 DEF Contents, CbufSize, Sub, CbufIndex
<1> QED BY <1>6, <1>7, <1>8 DEF Queue!Clear

LEMMA ClientInitially ==
  ASSUME ClientInit
  PROVE  ClientInv /\ Queue!Init
<1>1. PICK storage \in [0 .. Capacity - 1 -> Byte] : cbuf = CbufInit(storage)
  BY DEF ClientInit
<1>2. cbuf \in CbufType /\ cbuf.start = cbuf.end
  BY <1>1, CbufAssumption DEF CbufInit, CbufType, Index
<1>3. CbufSize(cbuf) = 0
  BY <1>2, SizeValue, Ranges, SMTT(30) DEF CbufType, Index
<1>4. ClientInv
  BY <1>2, <1>3, Ranges, SMTT(30) DEF ClientInv
<1>5. Contents(cbuf) = <<>>
  BY <1>2, <1>3, ContentsAreBytes, EmptySeq
<1> QED BY <1>4, <1>5 DEF Queue!Init, ClientInit

\* Every call on the buffer keeps its invariant and is one call on the queue.
LEMMA ClientStep ==
  ASSUME ClientInv, ClientNext
  PROVE  ClientInv' /\ Queue!Next
<1>1. ASSUME NEW data \in Data, NEW erase \in BOOLEAN, CbufPush(data, erase)
      PROVE  ClientInv' /\ Queue!Next
  BY <1>1, PushRefines DEF Queue!Next
<1>2. ASSUME NEW byte \in Byte, NEW erase \in BOOLEAN, CbufPushb(byte, erase)
      PROVE  ClientInv' /\ Queue!Next
  <2>1. <<byte>> \in Data
    BY ClientAssumption
  <2> QED BY <1>2, <2>1, PushbRefines DEF Queue!Next
<1>3. ASSUME NEW n \in 1 .. MaxData, CbufPop(n)
      PROVE  ClientInv' /\ Queue!Next
  BY <1>3, PopRefines DEF Queue!Next
<1>4. CASE CbufPopb
  <2>1. 1 \in 1 .. MaxData
    BY ClientAssumption, SMTT(30)
  <2> QED BY <1>4, <2>1, PopbRefines DEF Queue!Next
<1>5. ASSUME NEW index \in Index, NEW data \in Data, CbufWrite(index, data)
      PROVE  ClientInv' /\ Queue!Next
  BY <1>5, WriteRefines DEF Queue!Next
<1>6. ASSUME NEW index \in Index, NEW n \in 1 .. MaxData, CbufRead(index, n)
      PROVE  ClientInv' /\ Queue!Next
  BY <1>6, ReadRefines DEF Queue!Next
<1>7. CASE cbuf' = CbufClear(cbuf) /\ out' = <<>>
  BY <1>7, ClearRefines DEF Queue!Next
<1> QED BY <1>1, <1>2, <1>3, <1>4, <1>5, <1>6, <1>7 DEF ClientNext

LEMMA ClientStutters ==
  ASSUME ClientInv, UNCHANGED clientVars
  PROVE  ClientInv' /\ UNCHANGED <<Contents(cbuf), out>>
<1>1. cbuf' = cbuf /\ out' = out
  BY DEF clientVars
<1>2. ClientInv'
  BY <1>1 DEF ClientInv, CbufSize, Sub, CbufType, Index
<1>3. Contents(cbuf)' = Contents(cbuf)
  BY <1>1 DEF Contents, CbufSize, Sub, CbufIndex
<1> QED BY <1>1, <1>2, <1>3

\* The buffer never holds more than its capacity, whatever the calls of
\* src/lib/cbuf.c, the wrap of its absolute indexes included.
THEOREM CbufInvariance == ClientSpec => []ClientInv
<1>1. ClientInit => ClientInv
  BY ClientInitially
<1>2. ClientInv /\ [ClientNext]_clientVars => ClientInv'
  BY ClientStep, ClientStutters
<1> QED BY <1>1, <1>2, PTL DEF ClientSpec

\* Through every sequence of the calls of src/lib/cbuf.c, single bytes and
\* blocks, writes and reads inside the buffer, erasing pushes and the wrap of
\* the indexes included, the circular buffer is a bounded queue of bytes:
\* each call returns what the queue returns and leaves the contents it leaves.
THEOREM CbufRefinement == ClientSpec => ImplementsFifo
<1>1. ClientInit => Queue!Init
  BY ClientInitially
<1>2. ClientInv /\ [ClientNext]_clientVars => [Queue!Next]_<<Contents(cbuf), out>>
  BY ClientStep, ClientStutters
<1> QED BY <1>1, <1>2, CbufInvariance, PTL DEF ClientSpec, ImplementsFifo, Queue!Spec
=============================================================================
