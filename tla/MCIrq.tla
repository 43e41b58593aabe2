-------------------------------- MODULE MCIrq -------------------------------
(* The instance of Irq for TLC: a buffer of two bytes whose indexes          *)
(* overflow, two threads that read, the system timer, a driver on the slave  *)
(* whose line is as unsteady as the timer's, and a device without a driver   *)
(* on each controller.                                                       *)
EXTENDS Irq
=============================================================================
