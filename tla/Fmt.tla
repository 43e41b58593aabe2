--------------------------------- MODULE Fmt --------------------------------
(***************************************************************************)
(* What formatted output and formatted input share in src/lib/fmt.c: the   *)
(* characters, the C integer types and the length modifiers. A text is a   *)
(* sequence of characters without its terminator; reading at its end gives *)
(* Nul, and consuming a character then restoring it is only looking at it. *)
(***************************************************************************)
EXTENDS Integers, Sequences, SequencesExt

CONSTANTS
  CharBits, ShortBits, \* the widths of char and short,
  IntBits,             \* of int, long, size_t, ptrdiff_t and pointers (i386)
  LongLongBits         \* and of long long

ASSUME FmtAssumption ==
  /\ {CharBits, ShortBits, IntBits, LongLongBits} \subseteq Nat \ {0}
  /\ CharBits <= ShortBits /\ ShortBits <= IntBits /\ IntBits <= LongLongBits

\* FMT_MAX_NUM_SIZE: the room for the digits of a number, three bits each.
NumSize == LongLongBits \div 3 + 1

Nul == "nul"

fmt_digits == <<"0", "1", "2", "3", "4", "5", "6", "7", "8", "9",
                "A", "B", "C", "D", "E", "F">>

\* Each digit with FMT_FORMAT_LOWER set in its code.
LowerDigits == SubSeq(fmt_digits, 1, 10) \o <<"a", "b", "c", "d", "e", "f">>

Digit  == ToSet(SubSeq(fmt_digits, 1, 10))
Xdigit == ToSet(fmt_digits) \cup ToSet(LowerDigits)
Space  == {" ", "\t"}

\* fmt_atoi
Atoi(c) == (CHOOSE i \in 1 .. 16 : c \in {fmt_digits[i], LowerDigits[i]}) - 1

\* The next character of a text, and what is left once n are consumed.
Peek(text) == IF text = <<>> THEN Nul ELSE Head(text)
Drop(text, n) == SubSeq(text, n + 1, Len(text))

\* How many of the first characters of a text a loop over set consumes.
Span(text, set) ==
  CHOOSE n \in 0 .. Len(text) :
    /\ \A i \in 1 .. n : text[i] \in set
    /\ n < Len(text) => text[n + 1] \notin set

\* width * 10 + (c - '0'), over a run of digits.
Decimal(digits) == FoldLeft(LAMBDA n, c : 10 * n + Atoi(c), 0, digits)

\* n times the character c, none if n is negative.
Repeat(n, c) == IF n > 0 THEN [i \in 1 .. n |-> c] ELSE <<>>

-----------------------------------------------------------------------------
\* The value of an object of so many bits whose bit pattern is n.
Unsigned(n, bits) == n % 2 ^ bits
Signed(n, bits) ==
  IF Unsigned(n, bits) < 2 ^ (bits - 1) THEN Unsigned(n, bits)
                                        ELSE Unsigned(n, bits) - 2 ^ bits

\* The width of the type a modifier selects.
Bits(modifier) ==
  CASE modifier = "CHAR"     -> CharBits
    [] modifier = "SHORT"    -> ShortBits
    [] modifier = "LONGLONG" -> LongLongBits
    [] OTHER                 -> IntBits

\* The conversion modifier at the head of a state's format; z selects size.
ConsumeModifier(s, size) ==
  LET c       == Peek(s.format)
      doubled == Peek(Drop(s.format, 1)) = c
      once    == [h |-> "SHORT", l |-> "LONG", z |-> size, t |-> "PTRDIFF"]
      twice   == [h |-> "CHAR", l |-> "LONGLONG"]
  IN  CASE c \in DOMAIN twice /\ doubled ->
             [s EXCEPT !.modifier = twice[c], !.format = Drop(@, 2)]
        [] c \in DOMAIN once /\ ~(c \in DOMAIN twice /\ doubled) ->
             [s EXCEPT !.modifier = once[c], !.format = Drop(@, 1)]
        [] OTHER -> [s EXCEPT !.modifier = "NONE"]
=============================================================================
