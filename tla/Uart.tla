-------------------------------- MODULE Uart --------------------------------
(***************************************************************************)
(* The serial driver (src/src/uart.c): an interrupt handler that fills a   *)
(* circular buffer of UART_BUFFER_SIZE bytes, and threads that read it.    *)
(*                                                                         *)
(* uart_read runs with preemption and interrupts disabled except while it  *)
(* sleeps, and the handler runs with interrupts disabled: the code between *)
(* two sleeps is one step, and so is the handler.  The interrupts that run *)
(* the handler, and the steps of all parts together, are in Irq.           *)
(***************************************************************************)
EXTENDS Cbuf, FiniteSets

CONSTANTS
  Thread,    \* the threads calling uart_read
  NULL

ASSUME UartAssumption == NULL \notin Thread

VARIABLES
  uart_cbuf,
  uart_waiter,
  state,       \* thread->state
  pc,          \* "out" of uart_read, or in its "sleep"
  accepted,    \* history: the bytes put in the buffer
  delivered    \* history: the bytes that uart_read returned

uartvars == <<uart_cbuf, uart_waiter, state, pc, accepted, delivered>>

UartTypeOK ==
  /\ uart_cbuf \in CbufType
  /\ uart_waiter \in Thread \cup {NULL}
  /\ state \in [Thread -> {"RUNNING", "SLEEPING"}]
  /\ pc \in [Thread -> {"out", "sleep"}]
  /\ accepted \in Seq(Byte)
  /\ delivered \in Seq(Byte)

UartInit ==
  /\ uart_cbuf \in {CbufInit([j \in 0 .. Capacity - 1 |-> b]) : b \in Byte}
  /\ uart_waiter = NULL
  /\ state = [t \in Thread |-> "RUNNING"]
  /\ pc = [t \in Thread |-> "out"]
  /\ accepted = <<>>
  /\ delivered = <<>>

\* Faulty variant: the handler does not wake the waiter up.
WaiterNotWoken == state

\* thread_wakeup(uart_waiter), which may be NULL or running.
WaiterWoken ==
  IF uart_waiter = NULL THEN state ELSE [state EXCEPT ![uart_waiter] = "RUNNING"]

\* uart_irq_handler.  A byte that finds the buffer full is lost.
UartIrqHandler(byte) ==
  /\ IF FreeSize(uart_cbuf) = 0
     THEN UNCHANGED <<uart_cbuf, state, accepted>>
     ELSE /\ uart_cbuf' = Pushb(uart_cbuf, byte)
          /\ state' = WaiterWoken
          /\ accepted' = Append(accepted, byte)
  /\ UNCHANGED <<uart_waiter, pc, delivered>>

\* One turn of the loop of uart_read: a byte, or another sleep.
ReadTurn(t) ==
  IF CbufSize(uart_cbuf) = 0
  THEN /\ uart_waiter' = t
       /\ state' = [state EXCEPT ![t] = "SLEEPING"]
       /\ pc' = [pc EXCEPT ![t] = "sleep"]
       /\ UNCHANGED <<uart_cbuf, delivered>>
  ELSE /\ delivered' = Append(delivered, PopbByte(uart_cbuf))
       /\ uart_cbuf' = Popb(uart_cbuf)
       /\ uart_waiter' = NULL
       /\ pc' = [pc EXCEPT ![t] = "out"]
       /\ UNCHANGED state

\* uart_read; with a waiter it returns ERROR_BUSY and changes nothing.
UartRead(t) ==
  /\ state[t] = "RUNNING" /\ pc[t] = "out"
  /\ uart_waiter = NULL
  /\ ReadTurn(t)
  /\ UNCHANGED accepted

\* Faulty variant: thread_sleep again without a look at the buffer.
UartReadWokenBlind(t) ==
  /\ state[t] = "RUNNING" /\ pc[t] = "sleep"
  /\ state' = [state EXCEPT ![t] = "SLEEPING"]
  /\ UNCHANGED <<uart_cbuf, uart_waiter, pc, accepted, delivered>>

\* The loop of uart_read, after thread_sleep returned.
UartReadWoken(t) ==
  /\ state[t] = "RUNNING" /\ pc[t] = "sleep"
  /\ ReadTurn(t)
  /\ UNCHANGED accepted

\* thread_wakeup by code that does not know what the thread waits for.
SpuriousWakeup(t) ==
  /\ state[t] = "SLEEPING"
  /\ state' = [state EXCEPT ![t] = "RUNNING"]
  /\ UNCHANGED <<uart_cbuf, uart_waiter, pc, accepted, delivered>>

-----------------------------------------------------------------------------
\* A thread only sleeps in uart_read while the buffer is empty: the wake-up of
\* a byte that arrives around the decision to sleep is not lost.
SleepsOnlyWhenEmpty ==
  \A t \in Thread : state[t] = "SLEEPING" => CbufSize(uart_cbuf) = 0

\* ERROR_BUSY keeps the other readers out: the one thread in the loop is the
\* waiter, until it takes its byte, whatever wakes it up.
OneReader ==
  \A t \in Thread : pc[t] = "sleep" <=> uart_waiter = t

\* The bytes that entered the buffer reach the readers in order, each once,
\* across the overflow of the indexes and while other bytes are refused.
StreamPreserved == delivered \o Contents(uart_cbuf) = accepted

\* A reader that waits when a byte comes in gets it.
WaiterServed ==
  \A t \in Thread :
    (pc[t] = "sleep" /\ CbufSize(uart_cbuf) > 0) ~> pc[t] = "out"
=============================================================================
