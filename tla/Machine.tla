------------------------------- MODULE Machine -------------------------------
(***************************************************************************)
(* The part of an x86-64 Linux machine that the compiled code uses: the    *)
(* assembler and linker that place labels and sections, and one step per   *)
(* instruction.  It is modelled from the instructions that main.py emits.  *)
(*                                                                         *)
(* Sizes and offsets are those of the code, in the scaled bytes of module  *)
(* Numbers.  Directives and labels stay in the text as steps that do       *)
(* nothing.                                                                *)
(***************************************************************************)
EXTENDS Numbers, SequencesExt

CONSTANTS
  SyscallResults,  \* what the kernel may return in RAX
  ReadCall,        \* number of read; 0 on Linux
  Inputs,          \* what there may be to read
  ExitCall,        \* number of exit; 60 on Linux
  ArgCount,        \* system call number |-> number of arguments it takes
  MaxStack         \* bound: the machine stops when the stack would grow past it

Regs == {"RAX", "RBX", "RCX", "RDX", "RSI", "RDI", "RBP", "R8", "R9", "R10", "R12"}
DataStart == 16    \* address 0 and its neighbours are not mapped

ASSUME KernelAssumption == /\ Inputs \subseteq Seq(0 .. ByteSize - 1)
                           /\ SyscallResults \subseteq 0 .. WordSize - 1

VARIABLES
  text,     \* the assembly file: lines, directives included
  symbols,  \* label |-> address (data) or place in text (code)
  mem,      \* address |-> byte, for the .data and .bss sections
  ip,       \* place in text of the next instruction
  regs,
  flags,    \* operands of the last CMP
  stack,    \* words, top first; RSP is its length
  trace,    \* system calls made: number and arguments
  power     \* "off", "running", "exited", "fault", "link_error", "bound"

machineVars == <<text, symbols, mem, ip, regs, flags, stack, trace, power>>

-----------------------------------------------------------------------------
\* The registers that are parts of RAX: their size and what a write to one
\* leaves of the rest.
SizeOf(r) == CASE r = "AL" -> 1 [] r = "AX" -> 2 [] r = "EAX" -> 4 [] OTHER -> 8
Whole(r) == IF r \in {"AL", "AX", "EAX"} THEN "RAX" ELSE r
WriteReg(r, v) ==
  [regs EXCEPT ![Whole(r)] =
     CASE r \in {"AL", "AX"} -> (@ - (@ % Values(SizeOf(r)))) + (v % Values(SizeOf(r)))
       [] r = "EAX" -> v % Values(SizeOf(r))
       [] OTHER -> v]
ReadReg(r) == IF r = "RSP" THEN Len(stack) ELSE regs[Whole(r)] % Values(SizeOf(r))

-----------------------------------------------------------------------------
(***************************************************************************)
(* Assembling and linking.  The .data section comes before .bss; within a  *)
(* section, objects lie next to each other in the order of their lines.    *)
(***************************************************************************)
\* .quad takes 8 bytes, .ascii one for each character; .bss is zero.
Contents(object) == CASE object.ins = "QUAD" -> [i \in 1 .. 8 |-> Digits(object.value, 8)[i - 1]]
                      [] object.ins = "DATA" -> object.chars
                      [] object.ins = "LCOMM" -> [i \in 1 .. object.size |-> 0]

\* The objects in the order they lie in; the n-th starts at its Base.
ObjectsOf(file, kinds) ==
  LET places == {i \in DOMAIN file : file[i].ins \in kinds}
      Rank(i) == Cardinality({j \in places : j <= i})
  IN [n \in 1 .. Cardinality(places) |-> file[CHOOSE i \in places : Rank(i) = n]]
Objects(file) == ObjectsOf(file, {"QUAD", "DATA"}) \o ObjectsOf(file, {"LCOMM"})
DataBytes(objects) == FlattenSeq([n \in DOMAIN objects |-> Contents(objects[n])])
Base(objects, n) == DataStart + Len(DataBytes(SubSeq(objects, 1, n - 1)))

Labelled(file) == {i \in DOMAIN file : file[i].ins \in {"LABEL", "QUAD", "DATA", "LCOMM"}}
Defined(file) == {file[i].lab : i \in Labelled(file)}
DefinedOnce(file) == \A i, j \in Labelled(file) : file[i].lab = file[j].lab => i = j
Used(file) ==
  {file[i].d.v : i \in {j \in DOMAIN file : file[j].ins \in {"JMP", "JE", "CALL"}}}
  \cup {file[i].s.v : i \in {j \in DOMAIN file : file[j].ins = "LEA"}}
Links(file) == Used(file) \subseteq Defined(file) /\ DefinedOnce(file)

SymbolTable(file, objects) ==
  [l \in Defined(file) |->
     IF \E n \in DOMAIN objects : objects[n].lab = l
     THEN Base(objects, CHOOSE n \in DOMAIN objects : objects[n].lab = l)
     ELSE CHOOSE i \in DOMAIN file : file[i].ins = "LABEL" /\ file[i].lab = l]

InitialMemory(bytes) ==
  [a \in DataStart .. DataStart + Len(bytes) - 1 |-> bytes[a - DataStart + 1]]

\* What the kernel leaves on the stack of a new process: argc, argv, ... .
ProcessStack == <<1, 0, 0, 0, 0>>

MachineOff ==
  /\ text = <<>> /\ symbols = [l \in {} |-> 0] /\ mem = [a \in {} |-> 0]
  /\ ip = 0 /\ regs = [r \in Regs |-> 0] /\ flags = <<0, 0>>
  /\ stack = <<>> /\ trace = <<>> /\ power = "off"

\* Without a _start the linker warns and takes the beginning of the text.
EntryPoint == IF <<"_start">> \in DOMAIN symbols THEN symbols[<<"_start">>] ELSE 1

\* gcc test.s -nostdlib, then ./a.out
Start(file) ==
  /\ power = "off"
  /\ text' = file
  /\ IF Links(file)
     THEN /\ power' = "running"
          /\ \E objects \in {Objects(file)} :
               /\ symbols' = SymbolTable(file, objects)
               /\ \E bytes \in {DataBytes(objects)} : mem' = InitialMemory(bytes)
          /\ ip' = EntryPoint'
          /\ stack' = ProcessStack
     ELSE power' = "link_error" /\ UNCHANGED <<symbols, mem, ip, stack>>
  /\ UNCHANGED <<regs, flags, trace>>

-----------------------------------------------------------------------------
(***************************************************************************)
(* Instructions.                                                           *)
(***************************************************************************)
line == text[ip]
StackTop(i) == stack[i + 1]       \* the word at i words above RSP

\* Values of source operands.
Fetch(x) ==
  CASE x.k = "reg" -> ReadReg(x.v)
    [] x.k = "imm" -> Wrap(x.v)
    [] x.k = "lab" -> symbols[x.v]
    [] x.k = "stk" -> StackTop(x.v \div 8)
    [] x.k = "ptr" -> Load(mem, ReadReg(x.v), SizeOf(line.d.v))

\* Whether the operand may be used: a memory operand must be mapped.
Usable(x, size) ==
  CASE x.k = "ptr" -> Mapped(mem, ReadReg(x.v), size)
    [] x.k = "stk" -> x.v \div 8 < Len(stack)
    [] OTHER -> TRUE
Width == IF line.s.k = "reg" THEN SizeOf(line.s.v)
         ELSE IF line.d.k = "reg" THEN SizeOf(line.d.v) ELSE 8

Instr(op) == line.ins = op
Goto(n) == ip' = n
Advance == Goto(ip + 1)
Stop(how) == /\ power' = how
             /\ UNCHANGED <<text, symbols, mem, ip, regs, flags, stack, trace>>

NoOp == /\ line.ins \in {"LABEL", "LOC", "LCOMM", "QUAD", "DATA"}
        /\ Advance
        /\ UNCHANGED <<text, symbols, mem, regs, flags, stack, trace, power>>

Push == /\ Instr("PUSH")
        /\ IF Len(stack) >= MaxStack THEN Stop("bound")
           ELSE /\ stack' = <<Fetch(line.d)>> \o stack
                /\ Advance
                /\ UNCHANGED <<text, symbols, mem, regs, flags, trace, power>>

PopReg == /\ Instr("POP")
          /\ IF stack = <<>> THEN Stop("fault")
             ELSE /\ regs' = WriteReg(line.d.v, Head(stack))
                  /\ stack' = Tail(stack)
                  /\ Advance
                  /\ UNCHANGED <<text, symbols, mem, flags, trace, power>>

Mov == /\ Instr("MOV")
       /\ IF ~(Usable(line.d, Width) /\ Usable(line.s, Width)) THEN Stop("fault")
          ELSE /\ regs' = IF line.d.k = "reg" THEN WriteReg(line.d.v, Fetch(line.s)) ELSE regs
               /\ mem' = IF line.d.k = "ptr"
                         THEN Store(mem, ReadReg(line.d.v), Fetch(line.s), Width) ELSE mem
               /\ stack' = IF line.d.k = "stk"
                           THEN [stack EXCEPT ![line.d.v \div 8 + 1] = Fetch(line.s)]
                           ELSE stack
               /\ Advance
               /\ UNCHANGED <<text, symbols, flags, trace, power>>

Lea == /\ Instr("LEA")
       /\ regs' = WriteReg(line.d.v, Fetch(line.s))
       /\ Advance
       /\ UNCHANGED <<text, symbols, mem, flags, stack, trace, power>>

\* ADD to RSP gives up words of the stack.
Alu == /\ line.ins \in {"ADD", "SUB", "AND", "OR", "XOR"}
       /\ LET a == Fetch(line.d)  b == Fetch(line.s)
              result == CASE Instr("ADD") -> Wrap(a + b)
                          [] Instr("SUB") -> Wrap(a - b)
                          [] Instr("AND") -> BitAnd(a, b)
                          [] Instr("OR") -> BitOr(a, b)
                          [] Instr("XOR") -> 0   \* only ever of a register with itself
          IN IF line.d.v = "RSP"
             THEN stack' = SubSeq(stack, b \div 8 + 1, Len(stack)) /\ UNCHANGED regs
             ELSE regs' = WriteReg(line.d.v, result) /\ UNCHANGED stack
       /\ Advance
       /\ UNCHANGED <<text, symbols, mem, flags, trace, power>>

Mul == /\ Instr("MUL")
       /\ LET product == regs["RAX"] * Fetch(line.d)
          IN regs' = [regs EXCEPT !["RAX"] = Wrap(product),
                                  !["RDX"] = product \div WordSize]
       /\ Advance
       /\ UNCHANGED <<text, symbols, mem, flags, stack, trace, power>>

Div == /\ Instr("DIV")
       /\ LET divisor == Fetch(line.d)
              dividend == regs["RDX"] * WordSize + regs["RAX"]
          IN IF divisor = 0 \/ dividend \div divisor >= WordSize
             THEN Stop("fault")
             ELSE /\ regs' = [regs EXCEPT !["RAX"] = dividend \div divisor,
                                          !["RDX"] = dividend % divisor]
                  /\ Advance
                  /\ UNCHANGED <<text, symbols, mem, flags, stack, trace, power>>

Cmp == /\ Instr("CMP")
       /\ flags' = <<Fetch(line.d), Fetch(line.s)>>
       /\ Advance
       /\ UNCHANGED <<text, symbols, mem, regs, stack, trace, power>>

Condition(op) ==
  LET a == Signed(flags[1])  b == Signed(flags[2]) IN
  CASE op \in {"SETE", "JE"} -> a = b
    [] op = "SETNE" -> a # b
    [] op = "SETL" -> a < b
    [] op = "SETG" -> a > b
    [] op = "SETLE" -> a <= b
    [] op = "SETGE" -> a >= b

SetByte == /\ line.ins \in {"SETE", "SETNE", "SETL", "SETG", "SETLE", "SETGE"}
           /\ regs' = WriteReg(line.d.v, IF Condition(line.ins) THEN 1 ELSE 0)
           /\ Advance
           /\ UNCHANGED <<text, symbols, mem, flags, stack, trace, power>>

Jump == /\ line.ins \in {"JMP", "JE"}
        /\ IF Instr("JE") /\ ~Condition("JE") THEN Advance ELSE Goto(Fetch(line.d))
        /\ UNCHANGED <<text, symbols, mem, regs, flags, stack, trace, power>>

CallFunction ==
  /\ Instr("CALL")
  /\ IF Len(stack) >= MaxStack THEN Stop("bound")
     ELSE /\ stack' = <<ip + 1>> \o stack
          /\ Goto(Fetch(line.d))
          /\ UNCHANGED <<text, symbols, mem, regs, flags, trace, power>>

Ret == /\ Instr("RET")
       /\ IF stack = <<>> \/ Head(stack) \notin DOMAIN text THEN Stop("fault")
          ELSE /\ Goto(Head(stack))
               /\ stack' = Tail(stack)
               /\ UNCHANGED <<text, symbols, mem, regs, flags, trace, power>>

\* MOV %RBP, %RSP; POP %RBP.  The words that come back into the stack have
\* been overwritten; they are not tracked below RSP and read as zero.
Leave == /\ Instr("LEAVE")
         /\ LET n == regs["RBP"]
                old == Len(stack)
                at == [i \in 1 .. n |-> IF i > n - old THEN stack[old - n + i] ELSE 0]
            IN IF n = 0 THEN Stop("fault")
               ELSE /\ regs' = WriteReg("RBP", Head(at))
                    /\ stack' = Tail(at)
                    /\ Advance
                    /\ UNCHANGED <<text, symbols, mem, flags, trace, power>>

\* What the kernel reads: the number, and as many arguments as it takes.
KernelOrder == <<"RDI", "RSI", "RDX", "R10", "R8", "R9">>
CallMade == [i \in 1 .. 1 + ArgCount[regs["RAX"]] |->
               IF i = 1 THEN regs["RAX"] ELSE regs[KernelOrder[i - 1]]]

\* The kernel clobbers RCX, and read stores what it reads where RSI points.
Returns(r) == /\ regs' = [regs EXCEPT !["RAX"] = r, !["RCX"] = ip + 1]
              /\ Advance
              /\ UNCHANGED power
BadAddress == Wrap(-14)
ReadInput ==
  IF ~Mapped(mem, regs["RSI"], regs["RDX"])
  THEN Returns(BadAddress) /\ trace' = Append(trace, CallMade) /\ UNCHANGED mem
  ELSE \E data \in Inputs :
         /\ Len(data) <= regs["RDX"]
         /\ mem' = Place(mem, regs["RSI"], data)
         /\ trace' = Append(trace, CallMade \o data)
         /\ Returns(Len(data))
Syscall ==
  /\ Instr("SYSCALL")
  /\ IF regs["RAX"] = ReadCall THEN ReadInput
     ELSE /\ trace' = Append(trace, CallMade)
          /\ IF regs["RAX"] = ExitCall
             THEN power' = "exited" /\ UNCHANGED <<ip, regs>>
             ELSE \E r \in SyscallResults : Returns(r)
          /\ UNCHANGED mem
  /\ UNCHANGED <<text, symbols, flags, stack>>

MachineStep ==
  /\ power = "running"
  /\ IF ip \notin DOMAIN text THEN Stop("fault")
     ELSE \/ NoOp \/ Push \/ PopReg \/ Mov \/ Lea \/ Alu \/ Mul \/ Div \/ Cmp
          \/ SetByte \/ Jump \/ CallFunction \/ Ret \/ Leave \/ Syscall
=============================================================================
