------------------------------- MODULE Sprintf ------------------------------
(***************************************************************************)
(* Formatted output: fmt_vsnprintf of src/lib/fmt.c. A state is the C      *)
(* structure fmt_sprintf_state, with the memory the buffer lies in; every  *)
(* definition is the function of the same name, from state to state.       *)
(***************************************************************************)
EXTENDS Fmt

CONSTANTS NoLimit,   \* FMT_NOLIMIT
          Room       \* bound: the bytes of memory from the buffer on

Untouched == "untouched"

NULL == -1

\* A null pointer in the place of a string.
NullStr == <<Nul>>

NoDirective == [flags |-> {}, width |-> 0, precision |-> 0,
                modifier |-> "NONE", specifier |-> "INVALID", base |-> 10]

SprintfInit(size, format, ap) ==
  [format |-> format, ap |-> ap, str |-> 0, stored |-> <<>>,
   mem    |-> [i \in 0 .. Room - 1 |-> Untouched],
   end    |-> CASE size = 0       -> NULL
                [] size = NoLimit -> Room
                [] OTHER          -> size - 1]
  @@ NoDirective

\* Faulty variant: a character past the end of the buffer is stored.
ProduceUnbounded(s, c) ==
  [s EXCEPT !.str = @ + 1,
            !.mem = IF s.str < Room THEN [@ EXCEPT ![s.str] = c] ELSE @]

\* fmt_vsnprintf_produce: the position advances whether or not c fits.
Produce(s, c) ==
  [s EXCEPT !.str = @ + 1,
            !.mem = IF s.str < s.end THEN [@ EXCEPT ![s.str] = c] ELSE @]

ProduceAll(s, text) == FoldLeft(Produce, s, text)

-----------------------------------------------------------------------------
\* A directive is consumed: flags, width, precision, modifier, specifier.

FlagChar == {"#", "0", "-", " ", "+"}

SprintfConsumeFlags(s) ==
  LET n == Span(s.format, FlagChar)
  IN  [s EXCEPT !.flags = ToSet(SubSeq(s.format, 1, n)), !.format = Drop(@, n)]

SprintfConsumeWidth(s) ==
  LET n   == Span(s.format, Digit)
      arg == Head(s.ap)
  IN  IF Peek(s.format) = "*"
      THEN [s EXCEPT !.width  = IF arg < 0 THEN -arg ELSE arg,
                     !.flags  = IF arg < 0 THEN @ \cup {"-"} ELSE @,
                     !.format = Tail(@), !.ap = Tail(@)]
      ELSE [s EXCEPT !.width  = Decimal(SubSeq(s.format, 1, n)),
                     !.format = Drop(@, n)]

\* A negative precision argument counts as zero; without a point the
\* precision is -1.
SprintfConsumePrecision(s) ==
  LET rest == Drop(s.format, 1)
      n    == Span(rest, Digit)
      arg  == Head(s.ap)
  IN  CASE Peek(s.format) # "." -> [s EXCEPT !.precision = -1]
        [] Peek(s.format) = "." /\ Peek(rest) = "*" ->
             [s EXCEPT !.precision = IF arg < 0 THEN 0 ELSE arg,
                       !.format = Tail(rest), !.ap = Tail(@)]
        [] OTHER -> [s EXCEPT !.precision = Decimal(SubSeq(rest, 1, n)),
                              !.format = Drop(rest, n)]

\* The case of z runs into that of t.
SprintfConsumeModifier(s) == ConsumeModifier(s, "PTRDIFF")

SprintfConsumeSpecifier(s) ==
  LET c     == Peek(s.format)
      int(base, flags) == [s EXCEPT !.specifier = "INT", !.base = base,
                                    !.flags = @ \cup flags, !.format = Tail(@)]
  IN  CASE c \in {"d", "i"} -> int(10, {"SIGNED"})
        [] c = "u" -> int(10, {})
        [] c = "o" -> int(8, {})
        [] c = "p" -> [int(16, {"#", "LOWER"}) EXCEPT !.modifier = "PTR"]
        [] c = "x" -> int(16, {"LOWER"})
        [] c = "X" -> int(16, {})
        [] c \in {"c", "s", "n", "%"} ->
             [s EXCEPT !.specifier = c, !.format = Tail(@)]
        [] OTHER -> [s EXCEPT !.specifier = "INVALID"]

SprintfConsume(s) ==
  SprintfConsumeSpecifier(SprintfConsumeModifier(SprintfConsumePrecision(
    SprintfConsumeWidth(SprintfConsumeFlags([s EXCEPT !.format = Tail(@)])))))

-----------------------------------------------------------------------------
\* The argument as the unsigned long long the conversion works on: a
\* PTRDIFF argument is sign-extended whatever the conversion.
IntArg(s) ==
  LET signed == s.modifier = "PTRDIFF" \/ "SIGNED" \in s.flags
      value  == IF signed THEN Signed(Head(s.ap), Bits(s.modifier))
                          ELSE Unsigned(Head(s.ap), Bits(s.modifier))
  IN  Unsigned(value, LongLongBits)

\* The digits of n, most significant first.
Digits(n, base, digits) ==
  LET of[m \in 0 .. n] ==
        IF m < base THEN <<digits[m + 1]>>
                    ELSE Append(of[m \div base], digits[(m % base) + 1])
  IN  of[n]

\* fmt_sprintf_state_produce_int: blanks, prefix or sign, zeroes of the
\* width, zeroes of the precision, digits, blanks. The alternate form
\* excludes a sign, and a number that is not a long long is cut to a long
\* in base ten only.
ProduceInt(s) ==
  LET arg    == IntArg(s)
      left   == "-" \in s.flags
      zero   == "0" \in s.flags /\ ~left /\ s.precision < 0
      alt    == "#" \in s.flags
      lower  == "LOWER" \in s.flags
      signed == "SIGNED" \in s.flags
      minus  == ~alt /\ signed /\ Signed(arg, LongLongBits) < 0
      alternate == IF s.base # 16 THEN <<"0">>
                   ELSE <<"0", IF lower THEN "x" ELSE "X">>
      sign   == IF minus THEN <<"-">>
                ELSE SelectSeq(<<"+", " ">>, LAMBDA c : signed /\ c \in s.flags)
      prefix == IF alt THEN alternate ELSE SubSeq(sign, 1, Min({1, Len(sign)}))
      n      == IF minus THEN Unsigned(-arg, LongLongBits) ELSE arg
      m      == IF s.base = 10 /\ s.modifier # "LONGLONG" THEN Unsigned(n, IntBits)
                                                         ELSE n
      text   == IF n = 0 /\ s.precision = 0 THEN <<>>
                ELSE Digits(m, s.base, IF lower THEN LowerDigits ELSE fmt_digits)
      zeroes == Repeat(s.precision - Len(text), "0")
      pad    == s.width - Len(prefix) - Len(zeroes) - Len(text)
  IN  [ProduceAll(s, Repeat(IF left \/ zero THEN 0 ELSE pad, " ") \o prefix
                     \o Repeat(IF zero THEN pad ELSE 0, "0") \o zeroes \o text
                     \o Repeat(IF left THEN pad ELSE 0, " "))
         EXCEPT !.ap = Tail(@)]

\* fmt_sprintf_state_produce_char and fmt_sprintf_state_produce_str: text,
\* one character or at most precision of them, in a field of the width.
Justify(s, text) ==
  LET blanks == Repeat(s.width - Len(text), " ")
  IN  ProduceAll(s, IF "-" \in s.flags THEN text \o blanks ELSE blanks \o text)

ProduceChar(s) == [Justify(s, <<Head(s.ap)>>) EXCEPT !.ap = Tail(@)]

ProduceStr(s) ==
  LET str == IF Head(s.ap) = NullStr THEN <<"(", "n", "u", "l", "l", ")">>
                                     ELSE Head(s.ap)
      len == IF s.precision \in 0 .. Len(str) THEN s.precision ELSE Len(str)
  IN  [Justify(s, SubSeq(str, 1, len)) EXCEPT !.ap = Tail(@)]

\* The pointer argument of %n names no value: what it points to is stored.
ProduceNrchars(s) ==
  [s EXCEPT !.stored = Append(@, Signed(s.str, Bits(s.modifier)))]

SprintfProduce(s) ==
  CASE s.specifier = "INT" -> ProduceInt(s)
    [] s.specifier = "c"   -> ProduceChar(s)
    [] s.specifier = "s"   -> ProduceStr(s)
    [] s.specifier = "n"   -> ProduceNrchars(s)
    [] OTHER               -> Produce(s, "%")

\* One turn of the loop of fmt_vsnprintf.
SprintfTurn(s) ==
  IF Head(s.format) # "%"
  THEN [Produce(s, Head(s.format)) EXCEPT !.format = Tail(@)]
  ELSE SprintfProduce(SprintfConsume(s))

\* The terminator goes to the end of the text, or of a buffer too small.
SprintfFinalize(s) ==
  CASE s.str < s.end -> [s EXCEPT !.mem[s.str] = Nul]
    [] s.str >= s.end /\ s.end # NULL -> [s EXCEPT !.mem[s.end] = Nul]
    [] OTHER -> s
=============================================================================
