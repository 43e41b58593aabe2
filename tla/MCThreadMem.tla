----------------------------- MODULE MCThreadMem ----------------------------
(* An instance of ThreadMem for TLC: a block for a structure has the minimum *)
(* size, one for a stack is larger, and the heap holds one thread with a     *)
(* client's block, or two threads but for a stack.                           *)
EXTENDS ThreadMem

MCRequest == {0, 3}
=============================================================================
