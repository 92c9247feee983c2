------------------------------ MODULE MCLibrary ------------------------------
(***************************************************************************)
(* Numbers at all the limits of a word, texts of both kinds, and input.    *)
(* At the end of the input readbyte gives whatever temp holds, here zero.  *)
(***************************************************************************)
EXTENDS Library

MCParts(name) == IF name = "temp_end" THEN <<"temp", "end">> ELSE <<name>>
MCArgCount == [n \in 0 .. WordSize - 1 |-> CASE n \in {0, 1} -> 3 [] n = 60 -> 1 [] OTHER -> 0]
LetterH == 104
LetterI == 105
MCInputs == {<<>>, <<LetterI>>, <<LetterH, LetterI>>}

\* Decimal digits of a natural number, and of an integer.
DigitsOf(n) ==
  LET digits[v \in 0 .. n] == IF v < 10 THEN <<Digit0 + v>>
                              ELSE digits[v \div 10] \o <<Digit0 + (v % 10)>>
  IN digits[n]
Decimal(n) == IF n < 0 THEN <<Minus>> \o DigitsOf(-n) ELSE DigitsOf(n)

Text(t) == [text |-> t, input |-> FALSE]
TheInput(otherwise) == [text |-> otherwise, input |-> TRUE]
Case(main, writes, leaves) == [main |-> main, writes |-> writes, leaves |-> leaves]

Limits == {0, 1, 9, 10, 11, 99, 100, 1000, 2047, -1, -9, -10, -999, -2047, -2048}
Decimals == {Case(<<Lit(77), Lit(n), Id("printint")>>, <<Text(Decimal(n))>>, <<77>>)
             : n \in Limits}
Twice == {Case(<<Lit(n), Id("printint"), Lit(m), Id("printint")>>,
               <<Text(Decimal(n)), Text(Decimal(m))>>, <<>>) : n \in {100, -5}, m \in {7, -10}}
Texts == {<<>>, <<LetterH>>, <<LetterH, LetterI>>}
Printed ==
  {Case(<<Str(t), Id("print"), Lit(5)>>, <<Text(t)>>, <<5>>) : t \in Texts}
  \cup {Case(<<Lit(6), Str(t \o <<0>>), Lit(8), Id("+"), Id("puts")>>, <<Text(t)>>, <<6>>)
        : t \in Texts}
  \cup {Case(<<Lit(6), Str(t), Lit(8), Id("+"), Lit(Len(t)), Id("printn")>>, <<Text(t)>>, <<6>>)
        : t \in Texts}
  \cup {Case(<<Lit(4), Id("clear")>>, <<Text(Clear)>>, <<4>>)}
Echo ==
  {Case(<<At("buffer"), Lit(size), Id("readstring"), At("buffer"), Id("print")>>,
        <<TheInput(<<>>)>>, <<>>) : size \in {9, 16}}
  \cup {Case(<<At("buffer"), Id("readbyte"), Id("setbyte"), At("buffer"), Lit(1), Id("printn")>>,
             <<TheInput(<<0>>)>>, <<>>)}
MCTests == Decimals \cup Twice \cup Printed \cup Echo
MCPrograms == {Importing(t.main) : t \in MCTests}
=============================================================================
