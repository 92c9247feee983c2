------------------------------ MODULE Toolchain ------------------------------
(***************************************************************************)
(* Compile, link, run: Compiler and Machine composed through the assembly  *)
(* file.  The composition is compared with the language (StackLang) at the *)
(* places of the text where the code of a word starts.                     *)
(***************************************************************************)
EXTENDS Compiler, Machine

VARIABLE seen   \* the machine when it last stood at the start of a word

vars == <<compilerVars, machineVars, seen>>

\* The code of a word starts at its .loc line; that of the "#" that ends a
\* function, which has none, where R12 goes down.
IsEpilogue(i) == text[i].ins = "SUB" /\ text[i].d = Reg("R12")
AtWord(i) == i \in DOMAIN text /\ (text[i].ins = "LOC" \/ IsEpilogue(i))

Snapshot == [ip |-> ip, stack |-> stack, mem |-> mem, r12 |-> regs["R12"], trace |-> trace]

ToolchainInit == /\ Init
                 /\ MachineOff
                 /\ seen = [ip |-> 0, stack |-> <<>>, mem |-> mem, r12 |-> 0, trace |-> <<>>]

Compile == CompilerNext /\ UNCHANGED <<machineVars, seen>>

Build == /\ exit_status = 0
         /\ Start(output)
         /\ UNCHANGED <<compilerVars, seen>>

Run == /\ MachineStep
       /\ seen' = IF AtWord(ip') THEN Snapshot' ELSE seen
       /\ UNCHANGED compilerVars

Next == Compile \/ Build \/ Run

\* The compiler, the linker and the processor do not stop of themselves.
Spec == ToolchainInit /\ [][Next]_vars /\ WF_vars(Next)

-----------------------------------------------------------------------------
(***************************************************************************)
(* Where a place in the text is in the program.                            *)
(***************************************************************************)
FunctionAt(i) == LET labels == {j \in 1 .. i : /\ text[j].ins = "LABEL"
                                               /\ text[j].lab[1] = "func"}
                 IN text[CHOOSE j \in labels : \A k \in labels : k <= j].lab[2]
EndOf(f) == LET start == CHOOSE i \in DOMAIN src : src[i] = Hash(f)
                ends == {i \in start + 1 .. Len(src) : src[i] = Hash("")}
            IN CHOOSE i \in ends : \A j \in ends : i <= j
WordOf(i) == IF text[i].ins = "LOC" THEN text[i].word
             ELSE IF IsEpilogue(i) THEN EndOf(FunctionAt(i)) ELSE 0

\* The return places in call_stack, innermost first; the first one stored is
\* that of _start.
CallStack == symbols[<<"call", "stack">>]
Depth == (seen.r12 - CallStack) \div 8
ReturnPlace(n) == Load(seen.mem, CallStack + 8 * (n - 1), 8)
ReturnWord(n) == LET i == ReturnPlace(n) IN IF AtWord(i) THEN WordOf(i) ELSE 0

Linked == seen.ip # 0
IsCallStack(a) == a \in CallStack .. CallStack + CallStackBytes - 1
SymbolOf(object) == IF object[1] = "mem" THEN Parts(object[2])
                    ELSE StringLabel(StringNumber(object[2]))
ObjectsOfProgram ==
  {<<"mem", name>> : name \in memory_segments} \cup {<<"str", strings[i]>> : i \in DOMAIN strings}

\* The program as the language sees it.
ProgramStatus == IF ~Linked THEN "off"
                 ELSE IF power \in {"exited", "fault"} THEN power ELSE "running"
ProgramAt == IF Linked THEN WordOf(seen.ip) ELSE 0
ProgramFrames == IF Linked THEN [i \in 1 .. Depth - 1 |-> ReturnWord(Depth - i + 1)] ELSE <<>>
ProgramMemory == [a \in {b \in DOMAIN seen.mem : ~IsCallStack(b)} |-> seen.mem[a]]
ProgramBase == [o \in IF Linked THEN ObjectsOfProgram ELSE {} |-> symbols[SymbolOf(o)]]
ProgramTrace == IF power = "exited" THEN trace ELSE seen.trace

Language == INSTANCE StackLang WITH
              prog <- src, status <- ProgramStatus, at <- ProgramAt, frames <- ProgramFrames,
              stack <- seen.stack, mem <- ProgramMemory, base <- ProgramBase,
              trace <- ProgramTrace

\* Memory that the program has allocated changes only where the program says
\* "set" or reads, not when a function stores its return place (README.md:12, 42;
\* main.py:105, 293-300).
Allocated == {a \in DOMAIN mem : ~IsCallStack(a)}
OnlySetWrites ==
  [][power = "running" /\ (\E a \in Allocated : mem'[a] # mem[a])
      => Instr("SYSCALL") \/ line.d # Ptr("R12")]_vars

-----------------------------------------------------------------------------
\* Numbers of places, addresses and characters have room in words and bytes.
Fits == /\ Len(text) + 1 < WordSize
        /\ \A l \in DOMAIN symbols : symbols[l] < WordSize
        /\ \A i \in DOMAIN strings : strings[i] \in Seq(0 .. ByteSize - 1)

\* The words that push something, calculate, or use the stack and the memory.
Calculates(w) == \/ w.head \in {"int", "$", "@", "str"}
                 \/ w.head = "id" /\ w.name \in Operators \ (Structure \cup {"syscall"})
Divides(w) == w.head = "id" /\ w.name \in {"/", "%", "divmod"}

\* A word that calculates leaves the stack and the memory as README.md says
\* (README.md:18-42), and the next word follows: from wherever the code of the
\* word is entered, while call_stack has not run over and division is of numbers
\* that are not negative (main.py:125-193, 212-218, 267-291, 321-347, 358-364).
WordsCalculate ==
  [][LET w == src[WordOf(seen.ip)] IN
     /\ Linked /\ text[seen.ip].ins = "LOC" /\ power' = "running" /\ AtWord(ip')
     /\ WellFormed(src, Operators) /\ Fits
     /\ Calculates(w) /\ ~Language!Undefined
     /\ Divides(w) => Signed(Language!V(0)) >= 0 /\ Signed(Language!V(1)) >= 0
     /\ seen.r12 <= CallStack + CallStackBytes
     => Language!Execute]_vars

-----------------------------------------------------------------------------
\* The compiled program does, word by word, what README.md says of the words, and
\* makes the system calls that std.stacksy means by syscall:n, not README.md:40 (see
\* StackLang); the assembler and the linker accept it.
CompiledProgramIsProgram == Language!Spec /\ [](power # "link_error")
=============================================================================
