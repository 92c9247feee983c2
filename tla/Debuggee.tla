------------------------------- MODULE Debuggee -------------------------------
(***************************************************************************)
(* A compiled program that runs on its own: what must not change when a    *)
(* debugger puts breakpoints into it and steps it.                         *)
(*                                                                         *)
(* values holds the return place that a call has pushed on the value stack *)
(* and the prologue has not yet moved; calls is call_stack up to R12.      *)
(* input counts the times that JE will still fall through.                 *)
(*                                                                         *)
(* SYSCALL has two bytes, so two addresses: "syscall" and "inside".  What  *)
(* stands at the second one, read as an instruction of its own, takes the  *)
(* four bytes behind it for its operand; by says where the process finds   *)
(* back to an instruction of its function.  No program goes there.         *)
(***************************************************************************)
EXTENDS Integers, Sequences, FiniteSets, SequencesExt

CONSTANTS
  Programs,   \* images [text, functions, rows]; see module Image
  Inputs      \* values of input to start with

ASSUME ProgramsAssumption ==
  \A p \in Programs :
    /\ Len(p.text) \in Nat /\ DOMAIN p.text = 1 .. Len(p.text)
    /\ Len(p.rows) \in Nat /\ DOMAIN p.rows = 1 .. Len(p.rows)
ASSUME InputsAssumption == Inputs \subseteq Nat

(***************************************************************************)
(* What the compiler makes sure of in every file that is assembled.        *)
(***************************************************************************)
CodeOf(p, f) == p.functions[f].start .. p.functions[f].end - 1
InFunction(p, a) == \E f \in DOMAIN p.functions : a \in CodeOf(p, f)
\* A place that is reached without a call: it is not a prologue, nor the second
\* byte of SYSCALL.
Within(p, a) == a \in DOMAIN p.text /\ p.text[a].op \notin {"enter", "inside"}
\* Only calls lead into a function, only its epilogue leads out of it.
Follows(p, a, b) == Within(p, b) /\ (InFunction(p, a) <=> InFunction(p, b))

\* A function begins with its prologue, and functions do not overlap.
FunctionsLaidOut(p) ==
  /\ IsFiniteSet(DOMAIN p.functions)
  /\ \A f \in DOMAIN p.functions :
       /\ p.functions[f].start \in DOMAIN p.text /\ p.text[p.functions[f].start].op = "enter"
       /\ p.functions[f].end \in Nat /\ p.functions[f].start < p.functions[f].end
       /\ \A g \in DOMAIN p.functions \ {f} : CodeOf(p, f) \cap CodeOf(p, g) = {}
InstructionsFollow(p) ==
  \A a \in DOMAIN p.text :
    LET i == p.text[a] IN
    /\ i.op \in {"plain", "call", "enter", "leave", "jmp", "je", "syscall", "inside",
                "fault", "exit"}
    /\ i.op \in {"plain", "call", "enter", "je"} => Follows(p, a, a + 1)
    /\ i.op \in {"jmp", "je", "inside"} => Follows(p, a, a + i.by)
    /\ i.op = "syscall" => /\ Follows(p, a, a + 2)
                           /\ a + 1 \in DOMAIN p.text /\ p.text[a + 1].op = "inside"
                           /\ InFunction(p, a) <=> InFunction(p, a + 1)
    /\ i.op = "call" => \E f \in DOMAIN p.functions : i.to = p.functions[f].start
    /\ i.op = "enter" => \E f \in DOMAIN p.functions : a = p.functions[f].start
    /\ i.op = "leave" => InFunction(p, a)
\* _start comes first; there is an entry; the line table has the words of bodies.
ASSUME ImagesAssumption ==
  \A p \in Programs :
    /\ FunctionsLaidOut(p) /\ InstructionsFollow(p)
    /\ 1 \in DOMAIN p.text /\ ~InFunction(p, 1)
    /\ "entry" \in DOMAIN p.functions
    /\ \A i \in DOMAIN p.rows : Within(p, p.rows[i].address)

\* In a program that closes its blocks where it has opened them no instruction but
\* a call leads from one function into another.
ASSUME BlocksAssumption ==
  \A p \in Programs : \A f \in DOMAIN p.functions : \A a \in CodeOf(p, f) :
    /\ p.text[a].op \in {"plain", "call", "enter", "je"} => a + 1 \in CodeOf(p, f)
    /\ p.text[a].op \in {"jmp", "je", "inside"} => a + p.text[a].by \in CodeOf(p, f)
    /\ p.text[a].op = "syscall" => {a + 1, a + 2} \subseteq CodeOf(p, f)

VARIABLES
  prog,       \* the image that runs
  m           \* the process: [pc, values, calls, input, alive, astray]; astray
              \* records whether it has executed the middle of an instruction

Addresses == DOMAIN prog.text
Process == [pc : Nat, values : Seq(Nat), calls : Seq(Nat), input : Nat, alive : BOOLEAN,
            astray : BOOLEAN]

ProgramInit ==
  /\ prog \in Programs
  /\ m \in [pc : {1}, values : {<<>>}, calls : {<<>>}, input : Inputs, alive : {TRUE},
            astray : {FALSE}]

\* The process after the instruction i; an instruction that faults changes nothing.
Executed(i) ==
  CASE i.op = "plain" -> [m EXCEPT !.pc = @ + 1]
    [] i.op = "call"  -> [m EXCEPT !.pc = i.to, !.values = Append(@, m.pc + 1)]
    [] i.op = "enter" -> [m EXCEPT !.pc = @ + 1, !.values = Front(@),
                                   !.calls = Append(@, Last(m.values))]
    [] i.op = "leave" -> [m EXCEPT !.pc = Last(m.calls), !.calls = Front(@)]
    [] i.op = "jmp"   -> [m EXCEPT !.pc = @ + i.by]
    [] i.op = "je"    -> IF m.input = 0 THEN [m EXCEPT !.pc = @ + i.by]
                         ELSE [m EXCEPT !.pc = @ + 1, !.input = @ - 1]
    [] i.op = "syscall" -> [m EXCEPT !.pc = @ + 2]
    [] i.op = "inside"  -> [m EXCEPT !.pc = @ + i.by, !.astray = TRUE]
    [] i.op = "fault" -> m
    [] OTHER          -> [m EXCEPT !.alive = FALSE]   \* "exit"

Instruction == prog.text[m.pc]

ProgramNext == /\ m.alive
               /\ m.pc \in Addresses
               /\ m' = Executed(Instruction)
               /\ UNCHANGED prog

\* Safety only: a program that is being debugged may rest for ever.
ProgramSpec == ProgramInit /\ [][ProgramNext]_<<prog, m>>
=============================================================================
