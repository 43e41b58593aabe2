-------------------------------- MODULE Cbuf --------------------------------
(***************************************************************************)
(* The circular buffer (src/lib/cbuf.c, src/lib/cbuf.h).  start and end    *)
(* are absolute indexes that overflow; IndexRange stands for 2^32.         *)
(* A buffer is a record; the operators below give its value after a call.  *)
(***************************************************************************)
EXTENDS Integers, Sequences

CONSTANTS
  Byte,        \* the values of a byte
  Capacity,    \* cbuf->capacity
  IndexRange,  \* the number of values of a size_t
  InitIndex    \* CBUF_INIT_INDEX, a little before the overflow

\* The mask of cbuf_index is a modulus because ISP2(capacity); it agrees with
\* the overflow of the indexes because one is a multiple of the other.
ASSUME CbufAssumption ==
  /\ Capacity \in Nat \ {0}
  /\ IndexRange \in Nat /\ IndexRange % Capacity = 0 /\ IndexRange > Capacity
  /\ InitIndex \in 0 .. IndexRange - 1

Index == 0 .. IndexRange - 1

Sub(a, b) == (a - b) % IndexRange
Add(a, b) == (a + b) % IndexRange

CbufType == [buf : [0 .. Capacity - 1 -> Byte], start : Index, end : Index]

\* cbuf_init; the storage has the value it had.
CbufInit(storage) == [buf |-> storage, start |-> InitIndex, end |-> InitIndex]

CbufSize(c) == Sub(c.end, c.start)

CbufIndex(abs_index) == abs_index % Capacity

RangeValid(c, start, end) ==
  /\ Sub(end, start) <= CbufSize(c)
  /\ Sub(start, c.start) <= CbufSize(c)
  /\ Sub(c.end, end) <= CbufSize(c)

\* Faulty variant: the start is not moved when old data are erased.
UpdateStartNever(c) == c

UpdateStart(c) ==
  IF CbufSize(c) > Capacity THEN [c EXCEPT !.start = Sub(c.end, Capacity)] ELSE c

CbufClear(c) == [c EXCEPT !.start = c.end]

\* Faulty variant: off by one.
FreeSizePlusOne(c) == Capacity + 1 - CbufSize(c)

\* cbuf_pushb; without erase it has no effect when the buffer is full.
FreeSize(c) == Capacity - CbufSize(c)

Pushb(c, byte) ==
  UpdateStart([c EXCEPT !.buf[CbufIndex(c.end)] = byte, !.end = Add(@, 1)])

\* cbuf_popb, when the buffer is not empty: the byte, and the buffer after it.
PopbByte(c) == c.buf[CbufIndex(c.start)]
Popb(c)     == [c EXCEPT !.start = Add(@, 1)]

\* memcpy of data to the storage, from position at on.
Copy(buf, at, data) ==
  [j \in 0 .. Capacity - 1 |->
     IF j >= at /\ j < at + Len(data) THEN data[j - at + 1] ELSE buf[j]]

\* The two copies of cbuf_write, of data at an absolute index.
Store(buf, index, data) ==
  LET at   == CbufIndex(index)
      skip == Capacity - at
  IN  IF Len(data) > skip
      THEN Copy(Copy(buf, at, SubSeq(data, 1, skip)), 0,
                SubSeq(data, skip + 1, Len(data)))
      ELSE Copy(buf, at, data)

\* cbuf_write of at least one byte, when the index is valid.  Data that do
\* not fit at all lose their first bytes.
Write(c, index, data) ==
  LET new_end == Add(index, Len(data))
      grows   == ~RangeValid(c, c.start, new_end)
      skip    == IF grows /\ Len(data) > Capacity THEN Len(data) - Capacity ELSE 0
      tail    == SubSeq(data, skip + 1, Len(data))
  IN  UpdateStart([c EXCEPT !.buf = Store(@, Add(index, skip), tail),
                            !.end = IF grows THEN new_end ELSE @])

\* cbuf_read of at most n bytes, n > 0, when the index is valid: what *sizep is
\* at the end, and the bytes, in one or two copies.
ReadSize(c, index, n) == IF n > Sub(c.end, index) THEN Sub(c.end, index) ELSE n

\* memcpy of n bytes of the storage, from position at on.
Load(buf, at, n) == [j \in 1 .. n |-> buf[at + j - 1]]

ReadBytes(c, index, n) ==
  LET size == ReadSize(c, index, n)
      at   == CbufIndex(index)
      head == Capacity - at
  IN  IF size > head THEN Load(c.buf, at, head) \o Load(c.buf, 0, size - head)
      ELSE Load(c.buf, at, size)

\* The bytes between start and end, oldest first.
Contents(c) == [i \in 1 .. CbufSize(c) |-> c.buf[CbufIndex(c.start + i - 1)]]
=============================================================================
