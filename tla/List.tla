-------------------------------- MODULE List --------------------------------
(***************************************************************************)
(* The intrusive doubly linked circular list of src/lib/list.h, at the     *)
(* level of its pointers.  A heap h is a record of two functions, the next *)
(* and prev members of every node; the head of a list is a node itself.    *)
(***************************************************************************)
EXTENDS Integers, Sequences

\* list_init
ListInit(h, list) ==
  [next |-> [h.next EXCEPT ![list] = list], prev |-> [h.prev EXCEPT ![list] = list]]

\* list_add.  The assignments take effect in the order of the code, which
\* matters when two of the three nodes are the same.
ListAdd(h, before, after, node) ==
  [next |-> [h.next EXCEPT ![node] = after, ![before] = node],
   prev |-> [h.prev EXCEPT ![after] = node, ![node] = before]]

ListInsertHead(h, list, node)   == ListAdd(h, list, h.next[list], node)
ListInsertTail(h, list, node)   == ListAdd(h, h.prev[list], list, node)
ListInsertBefore(h, next, node) == ListAdd(h, h.prev[next], next, node)

\* list_remove; the members of the removed node keep their values.
ListRemove(h, node) ==
  [next |-> [h.next EXCEPT ![h.prev[node]] = h.next[node]],
   prev |-> [h.prev EXCEPT ![h.next[node]] = h.prev[node]]]

ListEmpty(h, list) == h.next[list] = list
ListFirst(h, list) == h.next[list]

\* The i-th node of the circle made of the head and of the sequence s.
Circle(list, s, i) == IF i = 0 \/ i = Len(s) + 1 THEN list ELSE s[i]

\* The nodes linked from the head list are those of s, in this order, and the
\* links backwards agree with the links forwards.
Represents(h, list, s) ==
  \A i \in 0 .. Len(s) :
    /\ h.next[Circle(list, s, i)] = Circle(list, s, i + 1)
    /\ h.prev[Circle(list, s, i + 1)] = Circle(list, s, i)

-----------------------------------------------------------------------------
\* Where only the order of the nodes matters a list is their sequence.

Linked(s, node) == \E i \in 1 .. Len(s) : s[i] = node

\* list_remove
Unlink(s, node) ==
  LET i == CHOOSE i \in 1 .. Len(s) : s[i] = node
  IN  SubSeq(s, 1, i - 1) \o SubSeq(s, i + 1, Len(s))
=============================================================================
