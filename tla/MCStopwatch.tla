---------------------------- MODULE MCStopwatch ----------------------------
(***************************************************************************)
(* Instance of Stopwatch for TLC.                                          *)
(***************************************************************************)
EXTENDS Stopwatch

MCTimer  == {sw_timer}
MCClient == {shell}
=============================================================================
