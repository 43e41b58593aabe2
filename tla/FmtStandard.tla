----------------------------- MODULE FmtStandard ----------------------------
(***************************************************************************)
(* What the C standard asks of formatted output, the reference fmt.h       *)
(* claims for src/lib/fmt.c ("a subset of the standard sprintf- and        *)
(* sscanf-like functions"). A directive is a record; Render writes it as   *)
(* the characters of a format.                                             *)
(***************************************************************************)
EXTENDS Fmt

\* A width or a precision: absent, in the format, or an argument.
Absent     == [kind |-> "absent", n |-> -1]
Point      == [kind |-> "point", n |-> 0]
Literal(n) == [kind |-> "literal", n |-> n]
Star(n)    == [kind |-> "star", n |-> n]

\* A character of the format that is printed as it is.
Raw(c) == [spec |-> "raw", arg |-> c]

\* The numeral of n by the positions of its digits, none leading.
Numeral(n, base, digits) ==
  LET size == CHOOSE k \in 1 .. LongLongBits :
                base ^ k > n /\ (k = 1 \/ base ^ (k - 1) <= n)
  IN  [i \in 1 .. size |-> digits[((n \div base ^ (size - i)) % base) + 1]]

RenderNumber(field) ==
  CASE field.kind = "literal" -> Numeral(field.n, 10, fmt_digits)
    [] field.kind = "star"    -> <<"*">>
    [] OTHER                  -> <<>>

Render(d) ==
  IF d.spec = "raw" THEN <<d.arg>>
  ELSE <<"%">> \o SelectSeq(<<"*", "#", "0", "-", " ", "+">>, LAMBDA c : c \in d.flags)
       \o RenderNumber(d.width)
       \o (IF d.precision = Absent THEN <<>> ELSE <<".">>)
       \o RenderNumber(d.precision) \o d.modifier \o <<d.spec>>

\* The variable arguments that the directive takes.
Arguments(d) ==
  IF d.spec = "raw" THEN <<>>
  ELSE (IF d.width.kind = "star" THEN <<d.width.n>> ELSE <<>>)
       \o (IF d.precision.kind = "star" THEN <<d.precision.n>> ELSE <<>>)
       \o (IF d.spec \in {"n", "%"} THEN <<>> ELSE <<d.arg>>)

ModifierBits(modifier) ==
  CASE modifier = <<"h", "h">> -> CharBits
    [] modifier = <<"h">>      -> ShortBits
    [] modifier = <<"l", "l">> -> LongLongBits
    [] OTHER                   -> IntBits

IsSigned(d) == d.spec \in {"d", "i"}
Base(spec)  == CASE spec = "o" -> 8 [] spec \in {"p", "x", "X"} -> 16 [] OTHER -> 10

\* The value an integer directive prints or reads, from a bit pattern.
ValueOf(d, n) == IF IsSigned(d) THEN Signed(n, ModifierBits(d.modifier))
                                ELSE Unsigned(n, ModifierBits(d.modifier))

Blanks(n) == Repeat(n, " ")
Zeroes(n) == Repeat(n, "0")

\* A text in a field of the directive's width.
IsLeft(d)  == "-" \in d.flags \/ (d.width.kind = "star" /\ d.width.n < 0)
WidthOf(d) == CASE d.width = Absent -> 0
                [] d.width.n < 0 /\ d.width # Absent -> -d.width.n
                [] OTHER -> d.width.n
Field(d, text) ==
  LET blanks == Blanks(WidthOf(d) - Len(text))
  IN  IF IsLeft(d) THEN text \o blanks ELSE blanks \o text

\* 7.21.6.1: the result of an integer conversion.
IntText(d) ==
  LET v      == ValueOf(d, d.arg)
      abs    == IF v < 0 THEN -v ELSE v
      digits == IF abs = 0 /\ d.precision.n = 0 THEN <<>>
                ELSE Numeral(abs, Base(d.spec),
                             IF d.spec = "X" THEN fmt_digits ELSE LowerDigits)
      body   == Zeroes(d.precision.n - Len(digits)) \o digits
      sign   == CASE v < 0 -> <<"-">>
                  [] v >= 0 /\ IsSigned(d) /\ "+" \in d.flags -> <<"+">>
                  [] v >= 0 /\ IsSigned(d) /\ {"+", " "} \cap d.flags = {" "} -> <<" ">>
                  [] OTHER -> <<>>
      prefix == CASE d.spec = "p" -> <<"0", "x">>
                  [] "#" \in d.flags /\ d.spec \in {"x", "X"} -> <<"0", d.spec>>
                  [] "#" \in d.flags /\ d.spec = "o" -> <<"0">>
                  [] OTHER -> sign
  IN  IF "0" \in d.flags /\ ~IsLeft(d) /\ d.precision = Absent
      THEN prefix \o Zeroes(WidthOf(d) - Len(prefix) - Len(body)) \o body
      ELSE Field(d, prefix \o body)

\* What a directive prints.
TextOf(d) ==
  CASE d.spec = "raw" -> <<d.arg>>
    [] d.spec = "%"   -> <<"%">>
    [] d.spec = "n"   -> <<>>
    [] d.spec = "c"   -> Field(d, <<d.arg>>)
    [] d.spec = "s"   -> Field(d, IF d.precision = Absent THEN d.arg
                                  ELSE SubSeq(d.arg, 1, Min({d.precision.n, Len(d.arg)})))
    [] OTHER          -> IntText(d)

\* The directives on which fmt.c follows the standard. It differs on the
\* alternate form of zero and of octal numbers that the precision extends,
\* on a negative precision argument, and on unsigned conversions, other than
\* to decimal, of a size_t or ptrdiff_t with its highest bit set.
Conforming(d) ==
  d.spec \notin {"raw", "n", "%"} =>
    /\ d.precision.kind = "star" => d.precision.n >= 0
    /\ ("#" \in d.flags /\ d.spec \in {"o", "x", "X"}) => ValueOf(d, d.arg) # 0
    /\ ("#" \in d.flags /\ d.spec = "o") =>
         d.precision.n <= Len(Numeral(ValueOf(d, d.arg), 8, fmt_digits))
    /\ (d.modifier \in {<<"z">>, <<"t">>} /\ d.spec \in {"o", "x", "X"}) =>
         Signed(d.arg, IntBits) >= 0
    /\ "#" \in d.flags => d.spec \in {"o", "x", "X", "p"}
=============================================================================
