--------------------------------- MODULE Lib --------------------------------
(***************************************************************************)
(* The self-contained parts of src/lib: the circular buffer under any      *)
(* sequence of calls (CbufClient), or one call of a text function (Text).  *)
(* They share no state, so a behaviour exercises one of them.              *)
(***************************************************************************)
EXTENDS CbufClient, Text

Idle == "idle"

LibInit ==
  \/ ClientInit /\ fn = Idle /\ call = None /\ print = None /\ scan = None /\ args = None
  \/ /\ InitText
     /\ cbuf = CbufInit([i \in 0 .. Capacity - 1 |-> CHOOSE byte \in Byte : TRUE])
     /\ out = <<>>

LibNext ==
  \/ fn = Idle /\ ClientNext /\ UNCHANGED textvars
  \/ NextText /\ UNCHANGED clientVars

LibSpec == LibInit /\ [][LibNext]_<<clientVars, textvars>>
=============================================================================
