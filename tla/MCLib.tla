-------------------------------- MODULE MCLib -------------------------------
(* An instance of Lib for TLC. The calls of snprintf and sscanf vary one     *)
(* part of a directive with every other one, up to two flags at a time; bit  *)
(* patterns lie around the limits of each type.                              *)
EXTENDS Lib

CONSTANTS a, b

\* Data of one byte, of most of the capacity and of more than the capacity.
MCData == {<<a>>, <<b>>, <<b, a, a>>, <<a, b, b, a, b>>}

Directives(flags, widths, precisions, modifiers, specs, arguments) ==
  [flags : flags, width : widths, precision : precisions,
   modifier : modifiers, spec : specs, arg : arguments]

Ints(modifiers, patterns) ==
  Directives({flags \in SUBSET FlagChar : Cardinality(flags) <= 2}, {Absent, Literal(5), Star(-4)},
             {Absent, Point, Literal(3), Star(1)},
             modifiers, {"d", "u", "o", "x", "X"}, patterns)

Unlimited(directives) == [size : {NoLimit}, directives : [{1} -> directives]]

\* Directives between characters, and the text of one cut at any length.
Mixed ==
  LET plain(spec, arg) == Directives({{}, {"-"}}, {Absent, Literal(3)},
                                     {Absent, Literal(1)}, {<<>>}, {spec}, {arg})
      inner == plain("s", <<"a", "b">>) \cup plain("c", "a") \cup plain("d", 255)
               \cup plain("i", 12) \cup plain("p", 18) \cup plain("%", 0) \cup plain("n", 0)
  IN  [size : 0 .. 5 \cup {NoLimit},
       directives : {<<Raw("a"), d, e>> : d \in inner, e \in inner}]

MCPrints ==
  Unlimited(Ints({<<>>, <<"h", "h">>, <<"h">>, <<"z">>},
                 {0, 3, 4, 15, 16, 127, 128, 255}))
  \cup Unlimited(Ints({<<"l", "l">>}, {0, 9, 128, 4095, 4096, 8191}))
  \cup Mixed

Conversions(flags, modifiers, specs) ==
  Directives(flags, {Absent, Literal(2)}, {Absent}, modifiers, specs, {0})

Texts(n) == UNION {[1 .. k -> {" ", "-", "0", "1", "9", "a", "x"}] : k \in 0 .. n}

\* One integer conversion, on short texts and on long numerals; two
\* conversions of any kind, a character between them or a literal first.
MCScans ==
  LET ints == Conversions({{}}, {<<>>, <<"h", "h">>, <<"l", "l">>}, {"d", "u", "o", "x"})
      long == [1 .. 4 -> {"-", "0", "1", "x"}] \cup [1 .. 5 -> {"1", "7"}]
      any  == Conversions({{}, {"*"}}, {<<>>}, {"d", "i", "c", "s", "n", "%", "?"})
  IN  [text : Texts(3) \cup long, directives : [{1} -> ints]]
      \cup [text : Texts(2),
            directives : {<<d, e>> : d \in any, e \in any}
                         \cup {<<Raw(c), d>> : c \in {" ", "1"}, d \in any}]

MCLines == UNION {[1 .. n -> {" ", "a", "b"}] : n \in 0 .. 7}
=============================================================================
