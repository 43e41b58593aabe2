------------------------------ MODULE ShellArgs -----------------------------
(***************************************************************************)
(* shell_process_args of src/lib/shell.c: the entered line is copied to    *)
(* shell_tmp_line and cut in place into the arguments of a command.        *)
(***************************************************************************)
EXTENDS Integers, Sequences, FiniteSets

CONSTANTS
  Separator,  \* SHELL_SEPARATOR
  Cut,        \* the terminator written over a separator
  MaxArgs     \* SHELL_MAX_ARGS

ASSUME ArgsAssumption == MaxArgs \in Nat \ {0} /\ Cut # Separator

PreviousChar(line, i) == IF i = 1 THEN Separator ELSE line[i - 1]

\* Faulty variant: a separator is cut off only after the first argument.
ArgsTurnUncut(args, line, i) ==
  LET prev == PreviousChar(line, i)
  IN  CASE line[i] # Separator /\ prev = Separator /\ ~args.error ->
             [args EXCEPT !.argv = Append(@, i),
                          !.error = Len(args.argv) + 1 = MaxArgs]
        [] line[i] = Separator /\ prev # Separator /\ Len(args.argv) = 1 ->
             [args EXCEPT !.tmp_line[i] = Cut]
        [] OTHER -> args

\* One turn of the loop, at the ith character: shell_argv holds positions in
\* shell_tmp_line, and filling its last element is an error.
ArgsTurn(args, line, i) ==
  LET prev == PreviousChar(line, i)
  IN  CASE args.error -> args
        [] ~args.error /\ line[i] = Separator /\ prev # Separator ->
             [args EXCEPT !.tmp_line[i] = Cut]
        [] ~args.error /\ line[i] # Separator /\ prev = Separator ->
             [args EXCEPT !.argv = Append(@, i),
                          !.error = Len(args.argv) + 1 = MaxArgs]
        [] OTHER -> args

ProcessArgs(line) ==
  LET start == [tmp_line |-> line, argv |-> <<>>, error |-> FALSE]
      after[i \in 0 .. Len(line)] ==
        IF i = 0 THEN start ELSE ArgsTurn(after[i - 1], line, i)
  IN  after[Len(line)]

\* The part of a text from a position to the next mark, or to the end.
Ends(mark, text, at) ==
  {i \in at .. Len(text) : /\ \A k \in at .. i : text[k] # mark
                           /\ IF i = Len(text) THEN TRUE ELSE text[i + 1] = mark}
UpTo(mark, text, at) == SubSeq(text, at, CHOOSE i \in Ends(mark, text, at) : TRUE)

\* The string a command finds at shell_argv[j].
Argument(args, j) == UpTo(Cut, args.tmp_line, args.argv[j])

-----------------------------------------------------------------------------
\* The words of a line: its longest runs of characters other than separators.
WordStarts(line) ==
  {i \in DOMAIN line : line[i] # Separator /\ PreviousChar(line, i) = Separator}

\* A command's arguments are the words of the line in order, whatever
\* separators surround them; a line with as many words as shell_argv has
\* elements is refused.
SplitIntoWords(line, args) ==
  IF Cardinality(WordStarts(line)) >= MaxArgs THEN args.error
  ELSE /\ ~args.error
       /\ {args.argv[j] : j \in DOMAIN args.argv} = WordStarts(line)
       /\ \A j, k \in DOMAIN args.argv : j < k => args.argv[j] < args.argv[k]
       /\ \A j \in DOMAIN args.argv :
            Argument(args, j) = UpTo(Separator, line, args.argv[j])
=============================================================================
