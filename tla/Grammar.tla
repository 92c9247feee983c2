------------------------------- MODULE Grammar -------------------------------
(***************************************************************************)
(* Which sequences of words are programs: README.md's list of operators    *)
(* outside functions, its block words and which of them belong together,   *)
(* and the names that must be declared.                                    *)
(***************************************************************************)
EXTENDS Integers, SequencesExt

IsId(w, names) == w.head = "id" /\ w.name \in names

\* The blocks open after each prefix of the program, innermost last; "fn" is
\* a function body.  What fits nowhere leaves <<"bad">> for good.
Bad == <<"bad">>
BlocksOutside(w) == CASE w.head = "#" /\ w.name # "" -> <<"fn">>
                      [] w.head \in {"@", "$"} -> <<>>
                      [] OTHER -> Bad
BlocksInside(s, w) ==
  CASE w.head = "#" /\ w.name = "" -> IF Last(s) = "fn" THEN <<>> ELSE Bad
    [] IsId(w, {"while", "if"}) -> Append(s, w.name)
    [] IsId(w, {"do"}) -> IF Last(s) = "while" THEN s ELSE Bad
    [] IsId(w, {"elihw"}) -> IF Last(s) = "while" THEN Front(s) ELSE Bad
    [] IsId(w, {"else"}) -> IF Last(s) = "if" THEN Append(Front(s), "else") ELSE Bad
    [] IsId(w, {"fi"}) -> IF Last(s) \in {"if", "else"} THEN Front(s) ELSE Bad
    [] OTHER -> s
BlocksAfter(s, w) == IF s = Bad THEN Bad
                     ELSE IF s = <<>> THEN BlocksOutside(w) ELSE BlocksInside(s, w)
OpenBlocks(p) ==
  LET open[i \in 0 .. Len(p)] == IF i = 0 THEN <<>> ELSE BlocksAfter(open[i - 1], p[i])
  IN open

WellNested(p) == OpenBlocks(p)[Len(p)] = <<>>

\* The places where a name is declared with the given first character.
Declarations(p, h) ==
  {i \in 1 .. Len(p) : OpenBlocks(p)[i - 1] = <<>> /\ p[i].head = h}
Uses(p, h) == {i \in 1 .. Len(p) : OpenBlocks(p)[i - 1] # <<>> /\ p[i].head = h}

Names(p, h) == {p[i].name : i \in Declarations(p, h)}
DeclaredOnce(p, h) == \A i, j \in Declarations(p, h) : p[i].name = p[j].name => i = j

\* Functions and segments may be used before they are declared, constants
\* may not.  Operators takes the place of the names no function can have.
NamesResolve(p, Operators) ==
  /\ \A i \in Uses(p, "@") : p[i].name \in Names(p, "@")
  /\ \A i \in Uses(p, "$") : \E j \in Declarations(p, "$") : j < i /\ p[j].name = p[i].name
  /\ \A i \in Uses(p, "id") : p[i].name \in Operators \cup Names(p, "#")
  /\ \A i \in Uses(p, "#") : p[i].name = ""
  /\ "entry" \in Names(p, "#")

\* [:n] in README.md: how many parameters a word takes, and which.
DeclarationFits(w) == CASE w.head = "#" -> w.params = <<>>
                        [] w.head = "@" -> Len(w.params) = 1 /\ w.params[1] > 0
                        [] w.head = "$" -> Len(w.params) = 1
OperatorFits(w) ==
  CASE w.head = "int" -> Len(w.params) = 1
    [] w.head = "str" -> TRUE
    [] IsId(w, {"copy", "swap"}) ->
         Len(w.params) <= 2 /\ \A i \in DOMAIN w.params : w.params[i] >= 0
    [] IsId(w, {"syscall"}) -> Len(w.params) = 1 /\ w.params[1] \in 0 .. 6
    [] IsId(w, {"get", "set"}) -> Len(w.params) = 1 /\ w.params[1] \in {1, 2, 4, 8}
    [] OTHER -> w.params = <<>>
ParametersFit(p) ==
  \A i \in 1 .. Len(p) : IF OpenBlocks(p)[i - 1] = <<>> THEN DeclarationFits(p[i])
                         ELSE OperatorFits(p[i])

WellFormed(p, Operators) ==
  /\ WellNested(p)
  /\ \A h \in {"#", "@", "$"} : DeclaredOnce(p, h)
  /\ NamesResolve(p, Operators)
  /\ ParametersFit(p)
=============================================================================
