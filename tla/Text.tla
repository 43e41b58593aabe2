-------------------------------- MODULE Text --------------------------------
(***************************************************************************)
(* The functions of src/lib that turn texts into values and back, each     *)
(* called once on chosen inputs: snprintf and sscanf, loop turn by loop    *)
(* turn, and the shell's splitting of a line. A text that snprintf has     *)
(* printed may be read back with sscanf.                                   *)
(***************************************************************************)
EXTENDS Sprintf, Sscanf, FmtStandard, ShellArgs

CONSTANTS Prints,   \* calls of snprintf: [size, directives]
          Scans,    \* calls of sscanf: [text, directives]
          Lines     \* lines entered in the shell

VARIABLES
  fn,      \* the function running, or the one that has returned
  call,    \* its inputs
  print,   \* the state of snprintf
  scan,    \* the state of sscanf
  args     \* the arguments the shell has split a line into

textvars == <<fn, call, print, scan, args>>

None == [kind |-> "none"]

Format(directives) == FlattenSeq([i \in DOMAIN directives |-> Render(directives[i])])
Variadic(directives) == FlattenSeq([i \in DOMAIN directives |-> Arguments(directives[i])])

\* A directive of sscanf has an assignment suppression in place of flags.
InitText ==
  \/ /\ fn = "snprintf"
     /\ call \in Prints
     /\ print = SprintfInit(call.size, Format(call.directives), Variadic(call.directives))
     /\ scan = None /\ args = None
  \/ /\ fn = "sscanf"
     /\ call \in Scans
     /\ scan = SscanfInit(call.text, Format(call.directives))
     /\ print = None /\ args = None
  \/ /\ fn = "shell_process_args"
     /\ call \in Lines
     /\ print = None /\ scan = None /\ args = None

Snprintf ==
  /\ fn = "snprintf"
  /\ IF print.format = <<>>
     THEN print' = SprintfFinalize(print) /\ fn' = "snprintf_returned"
     ELSE print' = SprintfTurn(print) /\ UNCHANGED fn
  /\ UNCHANGED <<call, scan, args>>

SscanfCall ==
  /\ fn = "sscanf"
  /\ IF scan.format = <<>> \/ scan.failed
     THEN fn' = "sscanf_returned" /\ UNCHANGED scan
     ELSE scan' = SscanfTurn(scan) /\ UNCHANGED fn
  /\ UNCHANGED <<call, print, args>>

ShellProcessArgs ==
  /\ fn = "shell_process_args"
  /\ args' = ProcessArgs(call)
  /\ fn' = "shell_process_args_returned"
  /\ UNCHANGED <<call, print, scan>>

\* The text in the buffer, up to its terminator.
Printed ==
  SubSeq([i \in 1 .. Room |-> print.mem[i - 1]], 1,
         (CHOOSE i \in 0 .. Room - 1 : print.mem[i] = Nul
                                       /\ \A j \in 0 .. i - 1 : print.mem[j] # Nul))

\* The directive of sscanf that reads what d has printed.
ReadDirective(d) ==
  [d EXCEPT !.flags = {}, !.width = Absent, !.precision = Absent]

\* Texts that sscanf is expected to read back: one integer, with no plus
\* sign, that has a digit and no more of them than sscanf has room for. It
\* does not read decimal numbers with %i, nor an octal zero.
ReadsBackTo(d) ==
  LET text == TextOf(d)
  IN  /\ d.spec \in {"d", "u", "o", "p", "x", "X"}
      /\ Conforming(d)
      /\ "+" \notin ToSet(text)
      /\ ToSet(text) \cap Xdigit # {}
      /\ Len(SelectSeq(text, LAMBDA c : c \in Xdigit)) < NumSize
      /\ d.spec = "o" => ValueOf(d, d.arg) # 0

ReadBack ==
  /\ fn = "snprintf_returned"
  /\ call.size = NoLimit /\ Len(call.directives) = 1
  /\ ReadsBackTo(call.directives[1])
  /\ scan' = SscanfInit(Printed, Render(ReadDirective(call.directives[1])))
  /\ fn' = "sscanf"
  /\ UNCHANGED <<call, print, args>>

NextText == Snprintf \/ SscanfCall \/ ShellProcessArgs \/ ReadBack

-----------------------------------------------------------------------------
\* fmt.h: snprintf prints what the C standard asks for, for the flags, widths,
\* precisions and modifiers of Conforming, which names the cases left out
\* because fmt.c differs there. It stores the longest start of the text
\* that fits with its terminator and touches no byte after it, returns the
\* length of the whole text, and %n stores the length so far.
PrintsStandard ==
  (fn = "snprintf_returned" /\ \A d \in ToSet(call.directives) : Conforming(d)) =>
    LET texts == [i \in DOMAIN call.directives |-> TextOf(call.directives[i])]
        text  == FlattenSeq(texts)
        fits  == IF call.size = NoLimit THEN Len(text)
                                        ELSE Min({call.size - 1, Len(text)})
    IN  /\ print.str = Len(text)
        /\ \A i \in 0 .. Room - 1 :
             print.mem[i] = CASE i < fits -> text[i + 1]
                              [] i = fits -> Nul
                              [] i > fits -> Untouched
        /\ \A i \in DOMAIN call.directives :
             call.directives[i].spec = "n" =>
               Signed(Len(FlattenSeq(SubSeq(texts, 1, i))),
                      ModifierBits(call.directives[i].modifier)) \in ToSet(print.stored)

\* sscanf is the inverse of snprintf: an integer printed in any field, base
\* and type is read back to its value by the same conversion.
ReadsBack ==
  (fn = "sscanf_returned" /\ print # None) =>
    LET d == call.directives[1]
    IN  /\ scan.nr_convs = 1 /\ Len(scan.stored) = 1
        /\ ValueOf(d, scan.stored[1]) = ValueOf(d, d.arg)

\* sw_shell_wait trusts a variable only when sscanf returns 1: the result of
\* sscanf is the number of values it has assigned, or EOF when there is none,
\* on every error path, and it never leaves the text.
CountsResults ==
  fn = "sscanf_returned" =>
    /\ scan.nr_convs = Len(scan.stored) \/ (scan.nr_convs = EOFResult /\ scan.stored = <<>>)
    /\ ~scan.failed => scan.str \in 1 .. Len(scan.text) + 1

-----------------------------------------------------------------------------
\* The value of a numeral: a sign, the prefix of base 16, and digits.
IsNumeral(text, base) ==
  LET unsigned == IF Peek(text) = "-" THEN Drop(text, 1) ELSE text
      digits   == IF base = 16 /\ Peek(unsigned) = "0" /\ Peek(Drop(unsigned, 1)) \in {"x", "X"}
                  THEN Drop(unsigned, 2) ELSE unsigned
  IN  digits # <<>> /\ ToSet(digits) \subseteq BaseDigit(base)

NumeralValue(text, base) ==
  LET digits == SelectSeq(text, LAMBDA c : c \in BaseDigit(base))
      value  == FoldLeft(LAMBDA n, c : base * n + Atoi(c), 0, digits)
  IN  IF Peek(text) = "-" THEN -value ELSE value
\* The lengths of the numerals a text starts with, within the field width.
NumeralEnds(text, d) ==
  {n \in 1 .. Len(text) : (d.width = Absent \/ n <= d.width.n)
                          /\ IsNumeral(SubSeq(text, 1, n), Base(d.spec))}

\* The numerals that fmt.c reads as the standard asks. Left out are octal
\* zeroes at the end of the text, more digits than the buffer holds, values
\* out of range, a leading zero in a field with a width, and 0x without a
\* digit.
ReadableNumeral(item, d, next) ==
  LET digits == SelectSeq(item, LAMBDA c : c \in Xdigit)
      value  == NumeralValue(item, Base(d.spec))
      bits   == IF d.modifier = <<"l", "l">> THEN LongLongBits ELSE IntBits
  IN  /\ Len(digits) < NumSize /\ value \in -(2 ^ bits) + 1 .. 2 ^ bits - 1
      /\ ~(d.spec = "o" /\ digits = <<"0">> /\ next = Nul)
      /\ ~(d.width # Absent /\ d.spec # "o" /\ digits[1] = "0" /\ Len(digits) > 1)
      /\ ~(Base(d.spec) = 16 /\ digits = <<"0">> /\ next \in {"x", "X"})

\* fmt.h: sscanf reads the longest numeral of the base that the text starts
\* with after white space, within the field width: its value reaches the
\* argument, and the rest of the text is left to the next directive. An
\* empty text gives EOF.
ScansNumbers ==
  (/\ fn = "sscanf_returned" /\ print = None
   /\ Len(call.directives) = 1
   /\ call.directives[1].spec \in {"d", "u", "o", "x", "X"}
   /\ call.directives[1].flags = {}) =>
    LET d     == call.directives[1]
        rest  == Drop(call.text, Span(call.text, Space))
        ends  == NumeralEnds(rest, d)
        n     == Max(ends)
        item  == SubSeq(rest, 1, n)
    IN  /\ rest = <<>> => scan.nr_convs = EOFResult
        /\ (ends # {} /\ ReadableNumeral(item, d, Peek(Drop(rest, n)))) =>
             /\ scan.nr_convs = 1
             /\ ValueOf(d, scan.stored[1]) = ValueOf(d, NumeralValue(item, Base(d.spec)))
             /\ Drop(call.text, scan.str - 1) = Drop(rest, n)

-----------------------------------------------------------------------------
\* shell_process_args: a command's arguments are the words of the line in
\* order, whatever separators surround them; a line with as many words as
\* shell_argv has elements is refused.
ArgsAreWords == fn = "shell_process_args_returned" => SplitIntoWords(call, args)
=============================================================================
