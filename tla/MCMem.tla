------------------------------- MODULE MCMem --------------------------------
(* An instance of Mem for TLC, with requests at the end of the range of      *)
(* size_t.                                                                   *)
EXTENDS Mem

MCLargeRequest == {8, SizeRange - 2}
=============================================================================
