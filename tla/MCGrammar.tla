----------------------------- MODULE MCGrammar -----------------------------
(***************************************************************************)
(* All short sequences of words for Compiler, well formed or not: what the *)
(* compiler, the assembler and the linker do with them.                    *)
(***************************************************************************)
EXTENDS Toolchain

MCParts(name) == <<name>>
MCArgCount == [n \in 0 .. 255 |-> 0]

UpTo(S, n) == UNION {[1 .. k -> S] : k \in 0 .. n}
BlockWords == {Id(n) : n \in Structure}
Function(f, body) == <<Hash(f)>> \o body \o <<Hash("")>>

\* Functions: declared, called, ended, in every order.
Declaring == UpTo({Hash("f"), Hash("entry"), Hash(""), Id("f"), Id("entry")}, 5)

\* Memory, constants and strings, inside and outside functions.
Naming ==
  {p \o Function("entry", q) :
     p \in UpTo({At("a"), AtSize("a", 1), AtSize("b", 0), Dollar("c"), DollarIs("c", 1),
                Lit(1), IdN("", <<1>>)}, 2),
     q \in UpTo({At("a"), Dollar("c"), DollarIs("c", 1), Str(<<1>>), IdN("get", <<3>>),
                IdN("copy", <<-1>>)}, 2)}

\* Blocks: in one function, and left open from one function to the next.
Blocks ==
  {Function("entry", b) : b \in UpTo(BlockWords, 4)}
  \cup {Function("f", b) \o Function("entry", c) :
          b \in UpTo(BlockWords, 2), c \in UpTo(BlockWords, 2)}
  \cup {Function("f", b) \o <<Hash("entry"), Id("f")>> \o c :
          b \in UpTo(BlockWords, 2), c \in {<<>>, <<Hash("")>>, <<Hash(""), Hash("")>>}}

ShortPrograms == Declaring \cup Naming \cup Blocks

\* The program is compiled and linked and not run.
CompileAndLink == ToolchainInit /\ [][Compile \/ Build]_vars
=============================================================================
