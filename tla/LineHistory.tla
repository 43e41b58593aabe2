----------------------------- MODULE LineHistory -----------------------------
(***************************************************************************)
(* What the history of the shell promises: the last lines entered, oldest  *)
(* first, without empty lines and without immediate repetitions, and a     *)
(* position from which the user looks at them.                             *)
(***************************************************************************)
EXTENDS Integers, Sequences

CONSTANTS
  Kept,  \* how many lines are kept
  Line   \* the lines that can be typed

VARIABLES
  past,  \* the lines entered
  line,  \* the current line
  at     \* the position in past of the template, or the one after the last

Init == past = <<>> /\ line = <<>> /\ at = 1

Here == Len(past) + 1

Edit == line' \in Line /\ UNCHANGED <<past, at>>

Repeated == IF past = <<>> THEN FALSE ELSE past[Len(past)] = line

Enter ==
  /\ past' = IF line = <<>> \/ Repeated THEN past
             ELSE IF Len(past) < Kept THEN Append(past, line)
             ELSE Tail(Append(past, line))
  /\ line' = <<>>
  /\ at' = Here'

Back ==
  /\ at > 1
  /\ at' = at - 1
  /\ line' = past[at - 1]
  /\ UNCHANGED past

Forward ==
  /\ at < Here
  /\ at' = at + 1
  /\ line' = IF at + 1 = Here THEN <<>> ELSE past[at + 1]
  /\ UNCHANGED past

Next == Edit \/ Enter \/ Back \/ Forward

Spec == Init /\ [][Next]_<<past, line, at>>
=============================================================================
