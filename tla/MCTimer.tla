------------------------------- MODULE MCTimer -------------------------------
(* The instance of Timer for TLC: two timers, scheduled by the timer thread *)
(* and by one other thread.  Every value of the tick counter is an initial  *)
(* one, so each schedule is also met across the wrap-around.                *)
EXTENDS Timer
=============================================================================
