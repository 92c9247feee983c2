----------------------------- MODULE MCToolchain -----------------------------
(***************************************************************************)
(* Small programs for Toolchain: every operator on boundary values, every  *)
(* nesting of two blocks, calls, recursion, memory, strings, system calls. *)
(***************************************************************************)
EXTENDS Toolchain

Entry(body) == <<Hash("entry")>> \o body \o <<Hash("")>>
Function(f, body) == <<Hash(f)>> \o body \o <<Hash("")>>

MCParts(name) == CASE name = "a_end" -> <<"a", "end">>
                   [] name = "while_0" -> <<"while", 0>>
                   [] OTHER -> <<name>>
MCArgCount == [n \in 0 .. 255 |-> CASE n \in {0, 1} -> 3 [] n = 60 -> 1 [] OTHER -> 0]
MCInputs == {<<>>, <<1, 0, 1>>}

-----------------------------------------------------------------------------
\* Operators on values at and around the limits of a word.
Boundary == {0, 1, 2, 127, -1, -128}
Small == {0, 1, 3, 100}
Total == (Arithmetic \ {"/", "%", "divmod"}) \cup Comparisons

Calculations ==
  {Entry(<<Lit(a), Lit(b), Id(o)>>) : a \in Boundary, b \in Boundary, o \in Total}
  \cup {Entry(<<Lit(a), Lit(b), Id(o), Lit(5)>>) :
          a \in Small, b \in Small, o \in {"/", "%", "divmod"}}

\* An operator after another one, whose results are still in the registers.
Chain(o, p) == Entry(<<Lit(100), Lit(-3), Id(o), Lit(2), Id(p)>>)
Chained == {Chain(o, p) : o \in Total, p \in Total}
           \cup {Chain(o, p) : o \in {"+", "-", "&"} \cup Comparisons, p \in {"/", "%"}}

Shuffles ==
  {Entry(<<Lit(4), Lit(5), Lit(6), w>>) :
     w \in {Id("copy"), Id("swap"), Id("pop")}
           \cup {IdN("copy", <<n>>) : n \in 0 .. 5}
           \cup {IdN("copy", <<n, c>>) : n \in {0, 2}, c \in {0, 2}}
           \cup {IdN("swap", <<n>>) : n \in 0 .. 3}
           \cup {IdN("swap", <<n, m>>) : n \in 0 .. 2, m \in 0 .. 2}}

\* One block in another or after another; the conditions vary.
Branches(b, c) ==
  UNION {{<<Lit(v), Id("if")>> \o b \o <<Id("fi")>>,
          <<Lit(v), Id("if")>> \o b \o <<Id("else")>> \o c \o <<Id("fi")>>} : v \in {0, 1}}
Loops(b) == {<<Lit(v), Id("while"), Id("copy"), Id("do")>> \o b
               \o <<Lit(1), Id("-"), Id("elihw"), Id("pop")>> : v \in {0, 2}}
Mark(n) == <<Lit(n), Id("pop")>>
Blocks == Branches(Mark(1), Mark(2)) \cup Loops(<<>>)
Nested == Blocks \cup UNION {Branches(b, Mark(3)) \cup Branches(Mark(3), b) \cup Loops(b)
                             : b \in Blocks}
Control == {Entry(<<Lit(9)>> \o b \o Mark(4)) : b \in Nested}
           \cup {Entry(<<Lit(9)>> \o b \o c) : b \in Blocks, c \in Blocks}

\* Calls forward and backward, twice, of empty functions, recursion.
Countdown == Function("f", <<Id("copy"), Id("if"), Lit(1), Id("-"), Id("f"), Id("fi")>>)
Calls ==
  {Entry(<<Id("f"), Lit(1), Id("f")>>) \o Function("f", b) :
     b \in {<<>>, <<Lit(2)>>, <<Id("g")>>, <<Id("g"), Id("g")>>}}
  \cup {Function("f", b) \o Entry(<<Lit(1), Id("f")>>) : b \in {<<>>, <<Id("pop")>>}}
CallPrograms ==
  {p \o Function("g", <<Lit(3)>>) : p \in Calls}
  \cup {Countdown \o Entry(<<Lit(v), Id("f"), Lit(7)>>) : v \in {0, 1, 2}}
  \cup {Entry(<<Lit(1), Id("if"), Lit(0), Id("f"), Id("fi")>>)
          \o Function("f", <<Id("if"), Id("entry"), Id("fi")>>)}

\* Segments next to each other, all sizes, and values that do not fit.
Segments == <<AtSize("a", 8), AtSize("b", 4)>>
MemoryPrograms ==
  {Segments \o Entry(<<At("a"), Lit(v), IdN("set", <<n>>), At("a"), IdN("get", <<m>>),
                       At("b"), IdN("get", <<2>>)>>) :
     v \in {1, 90, 255}, n \in Sizes, m \in Sizes}
  \cup {Segments \o Entry(<<At("b"), Lit(v), IdN("set", <<4>>), At("a"), Lit(0),
                            IdN("set", <<8>>), At("b"), IdN("get", <<1>>)>>) : v \in {1, 90}}
  \cup {Entry(<<Lit(0), IdN("get", <<1>>)>>), Entry(<<Lit(0), Lit(1), IdN("set", <<1>>)>>)}

Text1 == <<1, 0, 1>>
Others ==
  {Entry(<<Str(Text1), IdN("get", <<8>>), Str(<<>>), Str(Text1), Lit(9), Id("+"),
           IdN("get", <<1>>)>>),
   <<DollarIs("c", 1), DollarIs("d", -2)>> \o Entry(<<Dollar("c"), Dollar("d"), Id("-")>>),
   Entry(<<Lit(3), Lit(2), Lit(1), Lit(1), IdN("syscall", <<3>>)>>),
   Segments \o Entry(<<Lit(4), At("b"), Lit(0), Lit(0), IdN("syscall", <<3>>), At("b"), IdN("get", <<4>>)>>),
   Entry(<<Lit(4), Lit(250), Lit(0), Lit(0), IdN("syscall", <<3>>)>>),
   Entry(<<Lit(39), IdN("syscall", <<0>>), Lit(4), Lit(60), IdN("syscall", <<1>>), Lit(5)>>),
   Entry(<<Id("f"), Lit(5)>>) \o Function("f", <<Lit(39), IdN("syscall", <<0>>)>>),
   Entry(<<Id("pop"), Id("pop"), Id("pop")>>),
   Entry(<<Lit(1), IdN("copy", <<4>>)>>),
   Entry(<<>>), Entry(<<Lit(1)>>) \o Function("unused", <<Id("unused")>>)}

WellFormedPrograms ==
  Calculations \cup Chained \cup Shuffles \cup Control \cup CallPrograms \cup MemoryPrograms \cup Others

-----------------------------------------------------------------------------
\* Division of a negative number.
NegativeDivision == {Entry(<<Lit(-4), Lit(2), Id("/")>>)}

\* More nested calls than call_stack has room for, with a segment behind it.
DeepCalls == {<<AtSize("a", 8)>> \o Countdown \o Entry(<<Lit(v), Id("f")>>) : v \in 0 .. 4}
=============================================================================
