-------------------------------- MODULE Fifo --------------------------------
(***************************************************************************)
(* What a circular buffer promises (src/lib/cbuf.h): a queue of at most    *)
(* Capacity bytes.  Adding data either needs room or erases the oldest     *)
(* bytes, and out is what the last operation gave its caller.              *)
(***************************************************************************)
EXTENDS Integers, Sequences

CONSTANTS Capacity, Data, MaxData, AGAIN, INVAL

VARIABLES queue, out

Last(s, n) == IF Len(s) <= n THEN s ELSE SubSeq(s, Len(s) - n + 1, Len(s))

Init == queue = <<>> /\ out = <<>>

Push(data, erase) ==
  IF erase \/ Len(queue) + Len(data) <= Capacity
  THEN queue' = Last(queue \o data, Capacity) /\ out' = <<>>
  ELSE UNCHANGED queue /\ out' = AGAIN

Pop(n) ==
  LET size == IF n < Len(queue) THEN n ELSE Len(queue)
  IN  IF queue = <<>>
      THEN UNCHANGED queue /\ out' = AGAIN
      ELSE /\ out' = SubSeq(queue, 1, size)
           /\ queue' = SubSeq(queue, size + 1, Len(queue))

\* Overwrites the bytes from offset i of the queue, and extends it if needed.
Write(i, data) ==
  IF i > Len(queue)
  THEN UNCHANGED queue /\ out' = INVAL
  ELSE /\ queue' = Last(SubSeq(queue, 1, i) \o data
                          \o SubSeq(queue, i + Len(data) + 1, Len(queue)), Capacity)
       /\ out' = <<>>

Read(i, n) ==
  /\ out' = IF i >= Len(queue) THEN INVAL
            ELSE SubSeq(queue, i + 1, IF i + n < Len(queue) THEN i + n ELSE Len(queue))
  /\ UNCHANGED queue

Clear == queue' = <<>> /\ out' = <<>>

\* An offset of Capacity + 1 stands for all those outside of the queue.
Next ==
  \/ \E n \in 1 .. MaxData, i \in 0 .. Capacity + 1 : Read(i, n)
  \/ \E data \in Data, erase \in BOOLEAN : Push(data, erase)
  \/ \E n \in 1 .. MaxData : Pop(n)
  \/ \E data \in Data, i \in 0 .. Capacity + 1 : Write(i, data)
  \/ Clear

Spec == Init /\ [][Next]_<<queue, out>>
=============================================================================
