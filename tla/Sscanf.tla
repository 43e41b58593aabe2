------------------------------- MODULE Sscanf -------------------------------
(***************************************************************************)
(* Formatted input: fmt_vsscanf of src/lib/fmt.c. A state is the C         *)
(* structure fmt_sscanf_state with the text that is read: str is a         *)
(* position in it, c the local variable that holds the last character      *)
(* consumed, stored the values that conversions assign, counted those that *)
(* %n assigns, failed the error a function returns.                        *)
(***************************************************************************)
EXTENDS Fmt

EOF == "eof"
EOFResult == -1

SscanfInit(text, format) ==
  [text |-> text, str |-> 1, format |-> format, flags |-> {}, width |-> 0,
   modifier |-> "NONE", specifier |-> "INVALID", base |-> 10,
   nr_convs |-> 0, c |-> Nul, stored |-> <<>>, counted |-> <<>>, failed |-> FALSE]

\* The character at a position: the terminator follows the last one.
CharAt(s, i) == IF i <= Len(s.text) THEN s.text[i] ELSE Nul

ReportConv(s) == [s EXCEPT !.nr_convs = IF @ = EOFResult THEN 1 ELSE @ + 1]

\* Faulty variant: an error hides the conversions already done.
ReportErrorAlways(s) == [s EXCEPT !.nr_convs = EOFResult, !.failed = TRUE]

ReportError(s) == [s EXCEPT !.nr_convs = IF @ = 0 THEN EOFResult ELSE @,
                            !.failed = TRUE]

SkipSpace(s) == [s EXCEPT !.str = @ + Span(Drop(s.text, @ - 1), Space)]

\* fmt_sscanf_state_consume_string: past the field width it reads EOF, but
\* the position still advances.
ConsumeString(s) ==
  LET check == "WIDTH" \in s.flags
  IN  [s EXCEPT !.str = @ + 1,
                !.c = IF check /\ s.width = 0 THEN EOF ELSE CharAt(s, s.str),
                !.width = IF check /\ @ > 0 THEN @ - 1 ELSE @]

RestoreString(s) == [s EXCEPT !.str = @ - 1]

-----------------------------------------------------------------------------
\* A directive is consumed: flags, width, modifier, specifier.

SscanfConsumeFlags(s) ==
  LET n == Span(s.format, {"*"})
  IN  [s EXCEPT !.flags = IF n > 0 THEN {"DISCARD"} ELSE {}, !.format = Drop(@, n)]

SscanfConsumeWidth(s) ==
  LET n     == Span(s.format, Digit)
      width == Decimal(SubSeq(s.format, 1, n))
  IN  [s EXCEPT !.width = width, !.format = Drop(@, n),
                !.flags = IF width # 0 THEN @ \cup {"WIDTH"} ELSE @]

SscanfConsumeModifier(s) == ConsumeModifier(s, "SIZE")

SscanfConsumeSpecifier(s) ==
  LET c == Peek(s.format)
      int(base, flags) == [s EXCEPT !.specifier = "INT", !.base = base,
                                    !.flags = @ \cup flags, !.format = Tail(@)]
  IN  CASE c = "i" -> int(0, {"SIGNED"})
        [] c = "d" -> int(10, {"SIGNED"})
        [] c = "u" -> int(10, {})
        [] c = "o" -> int(8, {})
        [] c = "p" -> [int(16, {}) EXCEPT !.modifier = "PTR"]
        [] c \in {"x", "X"} -> int(16, {})
        [] c \in {"c", "s", "n", "%"} ->
             [s EXCEPT !.specifier = c, !.format = Tail(@)]
        [] OTHER -> [s EXCEPT !.specifier = "INVALID"]

SscanfConsume(s) ==
  SscanfConsumeSpecifier(SscanfConsumeModifier(SscanfConsumeWidth(
    SscanfConsumeFlags([s EXCEPT !.format = Tail(@)]))))

\* fmt_sscanf_state_discard_char: a character of the format that the text
\* must have, or white space of any length.
DiscardChar(s, c) ==
  LET t == ConsumeString(s)
  IN  CASE c \in Space -> SkipSpace(s)
        [] c \notin Space /\ t.c = c -> t
        [] OTHER -> [t EXCEPT !.failed = TRUE,
                              !.nr_convs = IF t.c = Nul /\ @ = 0 THEN EOFResult ELSE @]

-----------------------------------------------------------------------------
\* Faulty variant: the character after a leading zero is not restored.
LeadingZeroLost(s) ==
  LET t == ConsumeString(s)
  IN  IF t.c \in {"x", "X"} THEN ConsumeString(t) ELSE t

\* The characters after a sign and a zero: 0x is the prefix of base 16, a
\* zero alone that of base 8; otherwise the zero is the first digit, and the
\* character after it is restored (the field width it took is not).
LeadingZero(s) ==
  LET t    == ConsumeString(s)
      hex  == t.c \in {"x", "X"}
      base == CASE s.base = 0 /\ hex -> 16 [] s.base = 0 /\ ~hex -> 8
                [] OTHER -> s.base
  IN  CASE hex /\ base = 16 -> ConsumeString([t EXCEPT !.base = base])
        [] ~hex /\ base = 8 -> [t EXCEPT !.base = base]
        [] OTHER -> [RestoreString(t) EXCEPT !.base = base, !.c = "0"]

BaseDigit(base) == CASE base = 8  -> ToSet(SubSeq(fmt_digits, 1, 8))
                     [] base = 16 -> Xdigit
                     [] OTHER     -> Digit

\* Faulty variant: the field width does not bound the digits.
NrDigitsUnbounded(s) ==
  IF s.c \in BaseDigit(s.base)
  THEN Span(Drop(s.text, s.str - 2), BaseDigit(s.base)) ELSE 0

\* How many digits the loop consumes from s.c on, within the field width.
NrDigits(s) ==
  LET n == IF s.c \in BaseDigit(s.base)
           THEN Span(Drop(s.text, s.str - 2), BaseDigit(s.base)) ELSE 0
  IN  IF "WIDTH" \in s.flags THEN Min({n, s.width + 1}) ELSE n

\* Sums digits from the last one, until the sum wraps around.
Accumulate(digits, base, bits) ==
  LET add(sum, c) ==
        LET tmp == Unsigned(sum.n + Atoi(c) * sum.m, bits)
        IN  CASE sum.wraps -> sum
              [] ~sum.wraps /\ tmp < sum.n -> [sum EXCEPT !.n = 1, !.wraps = TRUE]
              [] OTHER -> [sum EXCEPT !.n = tmp, !.m = Unsigned(@ * base, bits)]
  IN  FoldLeft(add, [n |-> 0, m |-> 1, wraps |-> FALSE], Reverse(digits))

\* Assigns an unsigned long long to an object of the directive's type.
StoreInt(s, n) ==
  LET signed == \/ s.modifier = "PTRDIFF"
                \/ ("SIGNED" \in s.flags /\ s.modifier # "SIZE")
  IN  [s EXCEPT !.stored = Append(@, IF signed THEN Signed(n, Bits(s.modifier))
                                               ELSE Unsigned(n, Bits(s.modifier)))]

\* fmt_sscanf_state_produce_int. Too many digits, or a sum that wraps
\* around, give -1. Without a digit, the value is 0 unless the text ends.
ScanInt(s) ==
  LET first    == ConsumeString(SkipSpace(s))
      minus    == first.c = "-"
      unsigned == IF minus THEN ConsumeString(first) ELSE first
      start    == IF unsigned.c = "0" THEN LeadingZero(unsigned) ELSE unsigned
      at       == start.str - 1
      k        == NrDigits(start)
      ends     == k = 0 /\ start.c = Nul
      done     == [start EXCEPT !.str = at + k]
      digits   == CASE k = 0 -> <<"0">>
                    [] k \in 1 .. NumSize - 1 -> SubSeq(s.text, at, at + k - 1)
                    [] OTHER -> <<"1">>
      sum      == Accumulate(digits, start.base,
                             IF s.modifier = "LONGLONG" THEN LongLongBits ELSE IntBits)
      negative == minus \/ k >= NumSize \/ sum.wraps
  IN  CASE "DISCARD" \in s.flags -> done
        [] "DISCARD" \notin s.flags /\ ends -> ReportError(done)
        [] OTHER -> ReportConv(StoreInt(done,
                      Unsigned(IF negative THEN -sum.n ELSE sum.n, LongLongBits)))

\* fmt_sscanf_state_produce_char: as many characters as the width, or one.
\* The end of the text is no error.
ScanChar(s) ==
  LET width == IF "WIDTH" \in s.flags THEN s.width ELSE 1
      n     == Min({width, Len(s.text) - s.str + 1})
      done  == [s EXCEPT !.str = @ + n]
  IN  IF "DISCARD" \in s.flags \/ n = 0 THEN done
      ELSE ReportConv([done EXCEPT !.stored = Append(@, SubSeq(s.text, s.str, s.str + n - 1))])

\* fmt_sscanf_state_produce_str: up to the next blank, the width, or the end.
ScanStr(s) ==
  LET t    == SkipSpace(s)
      n    == Span(Drop(s.text, t.str - 1), ToSet(s.text) \ {" "})
      len  == IF "WIDTH" \in s.flags THEN Min({n, s.width}) ELSE n
      done == [t EXCEPT !.str = @ + len]
  IN  CASE done.str = s.str -> ReportError(done)
        [] done.str # s.str /\ "DISCARD" \in s.flags -> done
        [] OTHER -> ReportConv([done EXCEPT !.stored =
                                  Append(@, SubSeq(s.text, t.str, t.str + len - 1))])

SscanfProduce(s) ==
  CASE s.specifier = "INT" -> ScanInt(s)
    [] s.specifier = "c"   -> ScanChar(s)
    [] s.specifier = "s"   -> ScanStr(s)
    [] s.specifier = "n"   -> [s EXCEPT !.counted = Append(@, s.str - 1)]
    [] s.specifier = "%"   -> DiscardChar(SkipSpace(s), "%")
    [] OTHER               -> ReportError(s)

\* One turn of the loop of fmt_vsscanf.
SscanfTurn(s) ==
  LET c == Head(s.format)
  IN  IF c # "%"
      THEN DiscardChar([s EXCEPT !.flags = {}, !.format = Tail(@)], c)
      ELSE SscanfProduce(SscanfConsume(s))
=============================================================================
