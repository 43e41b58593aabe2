------------------------------ MODULE MCThread ------------------------------
(***************************************************************************)
(* Instances of Thread for TLC: two threads of equal priority and one of a *)
(* higher priority.                                                        *)
(***************************************************************************)
EXTENDS ThreadInv, TLC

CONSTANTS t1, t2, t3

MCThreads  == {t1, t2, t3}
MCPriority == [t \in MCThreads |-> IF t = t3 THEN 2 ELSE 1]

\* t1 and t2 are interchangeable.
Symmetry == Permutations({t1, t2})

\* Two threads of one priority, for liveness.
MCPair         == {t1, t2}
MCPeerPriority == [t \in MCPair |-> 1]
=============================================================================
