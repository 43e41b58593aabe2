------------------------------- MODULE MCShell ------------------------------
(* The instance of Shell for TLC.  The separator is 0; the commands share    *)
(* beginnings, and one is the beginning of another.  A line holds up to      *)
(* three characters, so that a command can grow in front of an argument;     *)
(* PastBound bounds the lines of the history together.                       *)
EXTENDS Shell
LOCAL INSTANCE SequencesExt

MCName == {<<1>>, <<1, 2>>, <<2, 1>>}
MCHash == [n \in MCName |-> n[1]]

PastBound == 3
ShortPast == Len(FlattenSeq(Past)) <= PastBound
=============================================================================
