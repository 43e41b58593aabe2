------------------------------- MODULE MCSync -------------------------------
(***************************************************************************)
(* Instance of Sync, with SyncSignals, for TLC.                            *)
(***************************************************************************)
EXTENDS SyncSignals, TLC

Symmetry == Permutations(Thread)
=============================================================================
