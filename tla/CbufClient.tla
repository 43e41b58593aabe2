----------------------------- MODULE CbufClient -----------------------------
(***************************************************************************)
(* A client that makes any sequence of calls to the circular buffer of     *)
(* src/lib/cbuf.c; the buffer is shown to implement the queue Fifo.        *)
(* Data and output buffers have at least one byte.                         *)
(***************************************************************************)
EXTENDS Cbuf

CONSTANTS Data,        \* the data of the calls: sequences of bytes
          MaxData,     \* the length of the longest, and of output buffers
          AGAIN, INVAL \* ERROR_AGAIN and ERROR_INVAL

VARIABLES
  cbuf,   \* the buffer
  out     \* the bytes the last call returned, or its error

clientVars == <<cbuf, out>>

\* Any byte may be the data of a call, and one call adds less data than the
\* indexes can tell apart.
ASSUME ClientAssumption ==
  /\ MaxData \in Nat \ {0}
  /\ \A data \in Data : data \in Seq(Byte) /\ Len(data) \in 1 .. MaxData
  /\ \A byte \in Byte : <<byte>> \in Data
  /\ Capacity + MaxData < IndexRange

ClientInit ==
  /\ cbuf \in {CbufInit(storage) : storage \in [0 .. Capacity - 1 -> Byte]}
  /\ out = <<>>

Fails(error) == out' = error /\ UNCHANGED cbuf

\* cbuf_push is a cbuf_write at the end, after the test for room.
CbufPush(data, erase) ==
  IF ~erase /\ Len(data) > FreeSize(cbuf)
  THEN Fails(AGAIN)
  ELSE cbuf' = Write(cbuf, cbuf.end, data) /\ out' = <<>>

CbufPushb(byte, erase) ==
  IF ~erase /\ FreeSize(cbuf) = 0
  THEN Fails(AGAIN)
  ELSE cbuf' = Pushb(cbuf, byte) /\ out' = <<>>

CbufPop(n) ==
  IF CbufSize(cbuf) = 0
  THEN Fails(AGAIN)
  ELSE /\ out' = ReadBytes(cbuf, cbuf.start, n)
       /\ cbuf' = [cbuf EXCEPT !.start = Add(@, ReadSize(cbuf, cbuf.start, n))]

CbufPopb ==
  IF CbufSize(cbuf) = 0
  THEN Fails(AGAIN)
  ELSE out' = <<PopbByte(cbuf)>> /\ cbuf' = Popb(cbuf)

CbufWrite(index, data) ==
  IF ~RangeValid(cbuf, index, cbuf.end)
  THEN Fails(INVAL)
  ELSE cbuf' = Write(cbuf, index, data) /\ out' = <<>>

CbufRead(index, n) ==
  IF ~RangeValid(cbuf, index, Add(index, 1))
  THEN Fails(INVAL)
  ELSE /\ out' = ReadBytes(cbuf, index, n)
       /\ UNCHANGED cbuf

ClientNext ==
  \/ \E data \in Data, erase \in BOOLEAN : CbufPush(data, erase)
  \/ \E byte \in Byte, erase \in BOOLEAN : CbufPushb(byte, erase)
  \/ \E n \in 1 .. MaxData : CbufPop(n)
  \/ CbufPopb
  \/ \E data \in Data, index \in Index : CbufWrite(index, data)
  \/ \E n \in 1 .. MaxData, index \in Index : CbufRead(index, n)
  \/ cbuf' = CbufClear(cbuf) /\ out' = <<>>

ClientSpec == ClientInit /\ [][ClientNext]_clientVars

-----------------------------------------------------------------------------
Queue == INSTANCE Fifo WITH queue <- Contents(cbuf)

\* cbuf.h: across overflows of the indexes, wrap-arounds of the storage and
\* overwriting, the buffer behaves as a bounded queue of bytes.
ImplementsFifo == Queue!Spec
=============================================================================
