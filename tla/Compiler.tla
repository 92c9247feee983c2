------------------------------ MODULE Compiler ------------------------------
(***************************************************************************)
(* Parser and Compilerx64: from the words of a program to the lines of the *)
(* assembly file, and the command line that writes the file.               *)
(*                                                                         *)
(* A word is the record that o = word.lower().split(":") amounts to: its   *)
(* first character when that decides how it is read, the name after it,    *)
(* and the compile time parameters.  A line of assembly is a record too.   *)
(*                                                                         *)
(* A label is the tuple of its parts, which the file joins with "_".  The  *)
(* name after "@" becomes a label as it is, Parts(name): the same label as *)
(* one of the compiler's own when the parts are the same.                  *)
(***************************************************************************)
EXTENDS Integers, SequencesExt, Grammar

CONSTANTS
  Programs,        \* the sequences of words that may be compiled
  Parts(_),        \* name of a memory segment |-> its parts between "_"
  CallStackBytes   \* size of call_stack (main.py:105)

NoUnit == "None"   \* compile_unit is None; names are in lower case
NoOutput == <<"not written">>

W(h, n, p) == [head |-> h, name |-> n, params |-> p]
Hash(f) == W("#", f, <<>>)             \* "#f" declares f, "#" alone ends it
At(m) == W("@", m, <<>>)
AtSize(m, bytes) == W("@", m, <<bytes>>)
Dollar(c) == W("$", c, <<>>)
DollarIs(c, v) == W("$", c, <<v>>)
Lit(v) == W("int", "", <<v>>)          \* 12, -3, 0x1f, 'c'
Str(chars) == W("str", "", chars)      \* "..."
Id(n) == W("id", n, <<>>)              \* an operator or a call
IdN(n, p) == W("id", n, p)             \* copy:1:2

Arithmetic == {"+", "-", "*", "/", "%", "divmod", "or", "&"}
Comparisons == {"=", "!=", "<", ">", "<=", ">="}
Structure == {"while", "do", "elihw", "if", "else", "fi"}
WithParams == {"copy", "swap", "syscall", "get", "set"}
Operators == Arithmetic \cup Comparisons \cup Structure \cup WithParams \cup {"pop"}

Word == [head : {"#", "@", "$", "int", "str", "id"}, name : STRING \ {NoUnit}, params : Seq(Int)]

ASSUME ProgramsAssumption == Programs \subseteq Seq(Word)
ASSUME CallStackAssumption == CallStackBytes \in Nat

VARIABLES
  src, pos,          \* the program, and how many of its words were read
  in_function,       \* name of the function being compiled; "" when falsy
  compile_unit,      \* function that append_asm adds to, or NoUnit
  functions,         \* name |-> the lines compiled for it
  functions_called,  \* names in the order of their first call
  memory_segments,   \* names declared with @
  const_labels,      \* name |-> value declared with $
  strings,           \* string literals in the order of first use
  while_labels, while_label_ct, if_labels, if_label_ct, has_else,
  asm,               \* the lines outside functions
  status,            \* "compiling", "done", "error", "assertion", "crash"
  output,            \* the assembly file
  exit_status        \* of the compiler's process; -1 while it runs

declVars == <<functions_called, memory_segments, const_labels>>
whileVars == <<while_labels, while_label_ct>>
ifVars == <<if_labels, if_label_ct, has_else>>
cliVars == <<output, exit_status>>
compilerVars == <<src, pos, in_function, compile_unit, functions, declVars,
                  strings, whileVars, ifVars, asm, status, cliVars>>

-----------------------------------------------------------------------------
\* Lines of assembly.
Reg(r) == [k |-> "reg", v |-> r]
Imm(v) == [k |-> "imm", v |-> v]
Stk(bytes) == [k |-> "stk", v |-> bytes]   \* bytes(%RSP)
Ptr(r) == [k |-> "ptr", v |-> r]           \* (%r)
Lab(l) == [k |-> "lab", v |-> l]

I0(op) == [ins |-> op]
I1(op, dest) == [ins |-> op, d |-> dest]
I2(op, dest, source) == [ins |-> op, d |-> dest, s |-> source]
PUSH(x) == I1("PUSH", x)
POP(r) == I1("POP", Reg(r))
Label(l) == [ins |-> "LABEL", lab |-> l]
Loc(n) == [ins |-> "LOC", word |-> n]      \* .loc; the word stands for its place
Lcomm(l, size) == [ins |-> "LCOMM", lab |-> l, size |-> size]
Quad(l, v) == [ins |-> "QUAD", lab |-> l, value |-> v]
Segment(l, size) == <<Lcomm(l, size), Lcomm(l \o <<"end">>, 0)>>
Data(l, chars) == [ins |-> "DATA", lab |-> l, chars |-> chars]

intsize == 8
Prologue == <<POP("RCX"), I2("MOV", Ptr("R12"), Reg("RCX")),
              I2("ADD", Reg("R12"), Imm(8))>>
Epilogue == <<I2("SUB", Reg("R12"), Imm(8)), I2("MOV", Reg("RCX"), Ptr("R12")),
              PUSH(Reg("RCX")), I0("RET")>>
StartCode == <<Label(<<"_start">>), PUSH(Reg("R12")), I2("MOV", Reg("RBP"), Reg("RSP")),
               I2("ADD", Reg("RSP"), Imm(32)),
               I2("LEA", Reg("R12"), Lab(<<"call", "stack">>)),
               I1("CALL", Lab(<<"func", "entry">>)), I0("LEAVE"), POP("R12"),
               I2("MOV", Reg("RAX"), Imm(60)), I2("XOR", Reg("RDI"), Reg("RDI")),
               I0("SYSCALL")>>

-----------------------------------------------------------------------------
(***************************************************************************)
(* The code of the operators that change nothing in the compiler but the   *)
(* unit being compiled.                                                    *)
(***************************************************************************)
Pop1 == <<POP("RAX")>>
Pop2 == <<POP("RBX"), POP("RAX")>>
PushRAX == <<PUSH(Reg("RAX"))>>
DivCode == <<I2("XOR", Reg("RDX"), Reg("RDX")), I1("DIV", Reg("RBX"))>>

ArithmeticCode(o) ==
  Pop2 \o
  (CASE o = "+" -> <<I2("ADD", Reg("RAX"), Reg("RBX"))>> \o PushRAX
     [] o = "-" -> <<I2("SUB", Reg("RAX"), Reg("RBX"))>> \o PushRAX
     [] o = "*" -> <<I1("MUL", Reg("RBX"))>> \o PushRAX
     [] o = "/" -> DivCode \o PushRAX
     [] o = "%" -> DivCode \o <<I2("MOV", Reg("RAX"), Reg("RDX"))>> \o PushRAX
     [] o = "divmod" -> DivCode \o PushRAX \o <<PUSH(Reg("RDX"))>>
     [] o = "or" -> <<I2("OR", Reg("RAX"), Reg("RBX"))>> \o PushRAX
     [] o = "&" -> <<I2("AND", Reg("RAX"), Reg("RBX"))>> \o PushRAX)

SetInstruction(o) == CASE o = "=" -> "SETE" [] o = "!=" -> "SETNE" [] o = "<" -> "SETL"
                       [] o = ">" -> "SETG" [] o = "<=" -> "SETLE" [] o = ">=" -> "SETGE"
\* Mutant: the upper bytes of RAX are not cleared.
CompareCodeStale(o) == <<POP("RBX"), POP("RCX"), I2("CMP", Reg("RCX"), Reg("RBX")),
                         I1(SetInstruction(o), Reg("AL"))>> \o PushRAX
CompareCode(o) == <<POP("RBX"), POP("RCX"), I2("XOR", Reg("RAX"), Reg("RAX")),
                    I2("CMP", Reg("RCX"), Reg("RBX")),
                    I1(SetInstruction(o), Reg("AL"))>> \o PushRAX

CopyCode(i, ct) == <<I2("MOV", Reg("RAX"), Stk(i * intsize))>>
                   \o [k \in 1 .. ct |-> PUSH(Reg("RAX"))]
SwapCode(i, j) == <<I2("MOV", Reg("RAX"), Stk(i * 8)), I2("MOV", Reg("RBX"), Stk(j * 8)),
                    I2("MOV", Stk(i * 8), Reg("RBX")), I2("MOV", Stk(j * 8), Reg("RAX"))>>

ArgOrder == <<"RAX", "RDI", "RSI", "RDX", "R10", "R8", "R9">>
SyscallCode(n) == [i \in 1 .. n + 1 |-> POP(ArgOrder[i])] \o <<I0("SYSCALL")>> \o PushRAX

Sizes == {1, 2, 4, 8}
SizedRAX(size) == CASE size = 1 -> "AL" [] size = 2 -> "AX" [] size = 4 -> "EAX"
                    [] size = 8 -> "RAX"
WriteCode(size) == <<POP("RAX"), POP("RBX"), I2("MOV", Ptr("RBX"), Reg(SizedRAX(size)))>>
\* Mutant: what is read does not fill RAX, and the rest of it is not cleared.
ReadCodeStale(size) == <<POP("RBX"), I2("MOV", Reg(SizedRAX(size)), Ptr("RBX"))>> \o PushRAX
ReadCode(size) == <<POP("RBX")>>
                  \o (IF size = 8 THEN <<>> ELSE <<I2("XOR", Reg("RAX"), Reg("RAX"))>>)
                  \o <<I2("MOV", Reg(SizedRAX(size)), Ptr("RBX"))>> \o PushRAX
AddressCode(l) == <<I2("LEA", Reg("RAX"), Lab(l))>> \o PushRAX

\* Parameters that are left out (copy[:n[:count]], swap[:n[:m]]).
Param(p, i, default) == IF Len(p) >= i THEN p[i] ELSE default

OperatorCode(o, p) ==
  CASE o \in Arithmetic -> ArithmeticCode(o)
    [] o \in Comparisons -> CompareCode(o)
    [] o = "pop" -> Pop1
    [] o = "copy" -> CopyCode(Param(p, 1, 0), Param(p, 2, 1))
    [] o = "swap" -> SwapCode(Param(p, 1, 1), Param(p, 2, 0))
    [] o = "syscall" -> SyscallCode(p[1])
    [] o = "get" -> ReadCode(p[1])
    [] o = "set" -> WriteCode(p[1])

PlainCode(w) ==
  CASE w.head = "int" -> <<PUSH(Imm(w.params[1]))>>
    [] w.head = "@" -> AddressCode(Parts(w.name))
    [] w.head = "$" -> <<PUSH(Imm(const_labels[w.name]))>>
    [] w.head = "id" -> OperatorCode(w.name, w.params)

\* The parameters the operator takes; CodeException otherwise.
ParamsOK(w) ==
  LET o == w.name  p == w.params IN
  CASE w.head \in {"int", "str"} -> TRUE
    [] w.head = "id" /\ o = "copy" -> Len(p) <= 2 /\ Param(p, 1, 0) >= 0
    [] w.head = "id" /\ o = "swap" -> Len(p) <= 2
    [] w.head = "id" /\ o = "syscall" -> Len(p) = 1 /\ p[1] < Len(ArgOrder)
    [] w.head = "id" /\ o \in {"get", "set"} -> Len(p) = 1 /\ p[1] \in Sizes
    [] OTHER -> p = <<>>

-----------------------------------------------------------------------------
(***************************************************************************)
(* Parser.run: one step per word.                                          *)
(***************************************************************************)
Init ==
  /\ src \in Programs /\ pos = 0
  /\ in_function = "" /\ compile_unit = NoUnit
  /\ functions = [f \in {} |-> <<>>]
  /\ functions_called = <<>> /\ memory_segments = {}
  /\ const_labels = [c \in {} |-> 0]
  /\ strings = <<>>
  /\ while_labels = <<>> /\ while_label_ct = 0
  /\ if_labels = <<>> /\ if_label_ct = 0 /\ has_else = <<>>
  /\ asm = Segment(<<"call", "stack">>, CallStackBytes)
  /\ status = "compiling" /\ output = NoOutput /\ exit_status = -1

word == src[pos + 1]
Is(h, n) == word.head = h /\ word.name = n

\* append_asm, through make_instruction and define_label, for a word inside
\* a function: its .loc directive, then its code.
Emit(code) ==
  functions' = [functions EXCEPT ![compile_unit] = @ \o <<Loc(pos + 1)>> \o code]

\* An exception.  What the word had already added to a function is not kept
\* track of: no function reaches the file after an exception.
Fail(how) == /\ status' = how
             /\ UNCHANGED <<in_function, compile_unit, functions, declVars, strings,
                            whileVars, ifVars, asm>>

\* Mutant: the unit is opened before it is entered among the functions.
DeclareFunctionLate ==
  /\ word.head = "#"
  /\ in_function' = word.name
  /\ compile_unit' = word.name
  /\ UNCHANGED <<functions, declVars, strings, whileVars, ifVars, asm, status>>

DeclareFunction ==
  /\ word.head = "#"
  /\ IF word.params # <<>> \/ word.name \in DOMAIN functions THEN Fail("error")
     ELSE IF compile_unit # NoUnit
     THEN \* "Compile unit should be none when opening function"
          /\ status' = "assertion"
          /\ in_function' = word.name
          /\ functions' = [f \in DOMAIN functions \cup {word.name} |->
                             IF f = word.name THEN <<>> ELSE functions[f]]
          /\ UNCHANGED <<compile_unit, declVars, strings, whileVars, ifVars, asm>>
     ELSE /\ in_function' = word.name
          /\ compile_unit' = word.name
          /\ functions' = [f \in DOMAIN functions \cup {word.name} |->
                             IF f = word.name THEN Prologue ELSE functions[f]]
          /\ UNCHANGED <<declVars, strings, whileVars, ifVars, asm, status>>

AllocateMemory ==
  /\ word.head = "@"
  /\ IF Len(word.params) # 1 \/ word.name \in memory_segments THEN Fail("error")
     ELSE IF word.params[1] <= 0 THEN Fail("error")   \* memint
     ELSE /\ asm' = asm \o Segment(Parts(word.name), word.params[1])
          /\ memory_segments' = memory_segments \cup {word.name}
          /\ UNCHANGED <<in_function, compile_unit, functions, functions_called,
                         const_labels, strings, whileVars, ifVars, status>>

DeclareConst ==
  /\ word.head = "$"
  /\ IF Len(word.params) # 1 \/ word.name \in DOMAIN const_labels THEN Fail("error")
     ELSE /\ const_labels' = [c \in DOMAIN const_labels \cup {word.name} |->
                                IF c = word.name THEN word.params[1] ELSE const_labels[c]]
          /\ UNCHANGED <<in_function, compile_unit, functions, functions_called,
                         memory_segments, strings, whileVars, ifVars, asm, status>>

\* "Expected function declaration (#name) or memory allocation (@name:size)"; a
\* word that starts with ":" has no o[0][0] to look at (IndexError).
NothingElseOutside ==
  /\ word.head \notin {"#", "@", "$"}
  /\ Fail(IF word.head = "id" /\ word.name = "" THEN "crash" ELSE "error")

\* Mutant: the number of the label is the depth of the loop.
WhileByDepth ==
  /\ Is("id", "while")
  /\ while_labels' = Append(while_labels, Len(while_labels))
  /\ while_label_ct' = while_label_ct + 1
  /\ Emit(<<Label(<<"while", Len(while_labels)>>)>>)
  /\ UNCHANGED <<in_function, compile_unit, declVars, strings, ifVars, asm, status>>

While ==
  /\ Is("id", "while")
  /\ while_labels' = Append(while_labels, while_label_ct)
  /\ while_label_ct' = while_label_ct + 1
  /\ Emit(<<Label(<<"while", while_label_ct>>)>>)
  /\ UNCHANGED <<in_function, compile_unit, declVars, strings, ifVars, asm, status>>

Do ==
  /\ Is("id", "do")
  /\ IF while_labels = <<>> THEN Fail("crash")   \* IndexError
     ELSE /\ Emit(Pop1 \o <<I2("CMP", Reg("RAX"), Imm(0)),
                            I1("JE", Lab(<<"endwhile", Last(while_labels)>>))>>)
          /\ UNCHANGED <<in_function, compile_unit, declVars, strings, whileVars,
                         ifVars, asm, status>>

\* Mutant: the label stays on the stack.
EndWhileKeepsLabel ==
  /\ Is("id", "elihw")
  /\ while_labels # <<>>
  /\ Emit(<<I1("JMP", Lab(<<"while", Last(while_labels)>>)),
            Label(<<"endwhile", Last(while_labels)>>)>>)
  /\ UNCHANGED <<in_function, compile_unit, declVars, strings, whileVars, ifVars, asm,
                 status>>

EndWhile ==
  /\ Is("id", "elihw")
  /\ IF while_labels = <<>> THEN Fail("crash")
     ELSE /\ Emit(<<I1("JMP", Lab(<<"while", Last(while_labels)>>)),
                    Label(<<"endwhile", Last(while_labels)>>)>>)
          /\ while_labels' = Front(while_labels)
          /\ UNCHANGED <<in_function, compile_unit, declVars, strings, while_label_ct,
                         ifVars, asm, status>>

If ==
  /\ Is("id", "if")
  /\ if_labels' = Append(if_labels, if_label_ct)
  /\ if_label_ct' = if_label_ct + 1
  /\ has_else' = Append(has_else, FALSE)
  /\ Emit(Pop1 \o <<I2("CMP", Reg("RAX"), Imm(0)),
                    I1("JE", Lab(<<"endif", if_label_ct>>))>>)
  /\ UNCHANGED <<in_function, compile_unit, declVars, strings, whileVars, asm, status>>

Else ==
  /\ Is("id", "else")
  /\ IF if_labels = <<>> THEN Fail("crash")
     ELSE /\ Emit(<<I1("JMP", Lab(<<"endelse", Last(if_labels)>>)),
                    Label(<<"endif", Last(if_labels)>>)>>)
          /\ has_else' = [has_else EXCEPT ![Len(has_else)] = TRUE]
          /\ UNCHANGED <<in_function, compile_unit, declVars, strings, whileVars,
                         if_labels, if_label_ct, asm, status>>

\* Mutants: the label of a branch with an else is that of one without; only
\* one of the two stacks is popped.
EndIfWithoutElse ==
  /\ Is("id", "fi")
  /\ has_else # <<>>
  /\ Emit(<<Label(<<"endif", Last(if_labels)>>)>>)
  /\ has_else' = Front(has_else)
  /\ if_labels' = Front(if_labels)
  /\ UNCHANGED <<in_function, compile_unit, declVars, strings, whileVars, if_label_ct,
                 asm, status>>
EndIfKeepsElse ==
  /\ Is("id", "fi")
  /\ if_labels # <<>>
  /\ Emit(<<Label(<<IF Last(has_else) THEN "endelse" ELSE "endif", Last(if_labels)>>)>>)
  /\ if_labels' = Front(if_labels)
  /\ UNCHANGED <<in_function, compile_unit, declVars, strings, whileVars, if_label_ct,
                 has_else, asm, status>>

EndIf ==
  /\ Is("id", "fi")
  /\ IF has_else = <<>> THEN Fail("crash")
     ELSE /\ Emit(<<Label(<<IF Last(has_else) THEN "endelse" ELSE "endif",
                            Last(if_labels)>>)>>)
          /\ has_else' = Front(has_else)
          /\ if_labels' = Front(if_labels)
          /\ UNCHANGED <<in_function, compile_unit, declVars, strings, whileVars,
                         if_label_ct, asm, status>>

\* Mutant: the unit is closed before the epilogue is added.
EndFunctionEarly ==
  /\ Is("#", "")
  /\ asm' = asm \o Epilogue
  /\ compile_unit' = NoUnit
  /\ in_function' = ""
  /\ UNCHANGED <<functions, declVars, strings, whileVars, ifVars, status>>

\* Mutant: the compiler's unit stays open.
EndFunctionKeepsUnit ==
  /\ Is("#", "")
  /\ functions' = [functions EXCEPT ![compile_unit] = @ \o Epilogue]
  /\ in_function' = ""
  /\ UNCHANGED <<compile_unit, declVars, strings, whileVars, ifVars, asm, status>>

\* debug_word adds no .loc for a word that starts with "#".
EndFunction ==
  /\ Is("#", "")
  /\ functions' = [functions EXCEPT ![compile_unit] = @ \o Epilogue]
  /\ compile_unit' = NoUnit
  /\ in_function' = ""
  /\ UNCHANGED <<declVars, strings, whileVars, ifVars, asm, status>>

\* Any other name, "#name" included, is a call.
Call ==
  /\ \/ word.head = "id" /\ word.name \notin Operators
     \/ word.head = "#" /\ word.name # ""
  /\ LET callee == IF word.head = "#" THEN "#" \o word.name ELSE word.name
         loc == IF word.head = "#" THEN <<>> ELSE <<Loc(pos + 1)>>
     IN /\ functions' = [functions EXCEPT ![compile_unit] =
                           @ \o loc \o <<I1("CALL", Lab(<<"func", callee>>))>>]
        /\ functions_called' = IF callee \in ToSet(functions_called) THEN functions_called
                               ELSE Append(functions_called, callee)
  /\ UNCHANGED <<in_function, compile_unit, memory_segments, const_labels, strings,
                 whileVars, ifVars, asm, status>>

StringNumber(s) == IF s \in ToSet(strings) THEN CHOOSE i \in DOMAIN strings : strings[i] = s
                   ELSE Len(strings) + 1
StringLabel(i) == <<"string", i - 1>>
PushString ==
  /\ word.head = "str"
  /\ strings' = IF word.params \in ToSet(strings) THEN strings
                ELSE Append(strings, word.params)
  /\ Emit(AddressCode(StringLabel(StringNumber(word.params))))
  /\ UNCHANGED <<in_function, compile_unit, declVars, whileVars, ifVars, asm, status>>

Plain ==
  /\ \/ word.head \in {"int", "@"}
     \/ word.head = "id" /\ word.name \in Operators \ Structure
     \/ word.head = "$" /\ word.name \in DOMAIN const_labels
  /\ Emit(PlainCode(word))
  /\ UNCHANGED <<in_function, compile_unit, declVars, strings, whileVars, ifVars,
                 asm, status>>

UndeclaredConst == /\ word.head = "$"
                   /\ word.name \notin DOMAIN const_labels
                   /\ Fail("error")

InsideFunction ==
  IF ~ParamsOK(word) THEN Fail("error")
  ELSE \/ While \/ Do \/ EndWhile
       \/ If \/ Else \/ EndIf
       \/ EndFunction \/ Call \/ PushString \/ Plain \/ UndeclaredConst

OutsideFunction ==
  \/ DeclareFunction \/ AllocateMemory \/ DeclareConst \/ NothingElseOutside

ReadWord ==
  /\ status = "compiling"
  /\ pos < Len(src)
  /\ pos' = pos + 1
  /\ IF in_function # "" THEN InsideFunction ELSE OutsideFunction
  /\ UNCHANGED <<src, cliVars>>

-----------------------------------------------------------------------------
(***************************************************************************)
(* The end of the input: strings, _start and every function called.  They  *)
(* are added with append_asm, so they are lost in the unit when a function *)
(* is still open; only _start is always added to the file.                 *)
(***************************************************************************)
FunctionCode(f) == <<Label(<<"func", f>>)>> \o functions[f] \o <<Label(<<"funcend", f>>)>>

\* Mutant: entry is always added.
EmittedFunctionsAlways == Append(functions_called, "entry")
EmittedFunctions == IF "entry" \in ToSet(functions_called) THEN functions_called
                    ELSE Append(functions_called, "entry")
StringData ==
  FlattenSeq([i \in DOMAIN strings |-> <<Quad(StringLabel(i), Len(strings[i])),
                                     Data(StringLabel(i) \o <<"ptr">>, strings[i])>>])
Bodies == FlattenSeq([i \in DOMAIN EmittedFunctions |-> FunctionCode(EmittedFunctions[i])])

Finish ==
  /\ status = "compiling"
  /\ pos = Len(src)
  /\ IF ~(ToSet(functions_called) \subseteq DOMAIN functions)
     THEN Fail("error")       \* "Undeclared function"
     ELSE IF "entry" \notin DOMAIN functions
     THEN Fail("crash")       \* KeyError: make_main adds "entry" unchecked
     ELSE /\ status' = "done"
          /\ functions_called' = EmittedFunctions
          /\ IF compile_unit = NoUnit
             THEN /\ asm' = asm \o StringData \o StartCode \o Bodies
                  /\ UNCHANGED functions
             ELSE /\ asm' = asm \o StartCode
                  /\ functions' = [functions EXCEPT ![compile_unit] =
                                     @ \o StringData \o Bodies]
          /\ UNCHANGED <<in_function, compile_unit, memory_segments, const_labels,
                         strings, whileVars, ifVars>>
  /\ UNCHANGED <<src, pos, cliVars>>

\* The command line prints a CodeException and writes the file all the same;
\* any other exception ends the process before the file is written.
WriteOutput ==
  /\ status # "compiling"
  /\ exit_status = -1
  /\ IF status = "crash" THEN exit_status' = 1 /\ UNCHANGED output
     ELSE exit_status' = 0 /\ output' = asm
  /\ UNCHANGED <<src, pos, in_function, compile_unit, functions, declVars, strings,
                 whileVars, ifVars, asm, status>>

CompilerNext == ReadWord \/ Finish \/ WriteOutput
CompilerSpec == Init /\ [][CompilerNext]_compilerVars

-----------------------------------------------------------------------------
(***************************************************************************)
(* Properties.  They are about every sequence of words, not only about     *)
(* well formed programs: the compiler checks neither nesting nor pairing.  *)
(***************************************************************************)
\* The state has the types that Parser.py:11-22 and main.py:93-122 give it; a
\* function that is being compiled is one of the functions.
TypeOK ==
  /\ pos \in 0 .. Len(src)
  /\ in_function \in DOMAIN functions \cup {""}
  /\ compile_unit \in DOMAIN functions \cup {NoUnit}
  /\ while_label_ct \in Nat /\ if_label_ct \in Nat
  /\ while_labels \in Seq(Nat) /\ if_labels \in Seq(Nat)
  /\ has_else \in Seq(BOOLEAN)
  /\ status \in {"compiling", "done", "error", "assertion", "crash"}
  /\ exit_status \in {-1, 0, 1}

\* The lines of all functions.
Lines == UNION {{f} \X DOMAIN functions[f] : f \in DOMAIN functions}
LineAt(x) == functions[x[1]][x[2]]
\* No function is open at the end of the input; the code of one that is would
\* get what run adds at the end, and is not emitted.
InputComplete == status = "done" => compile_unit = NoUnit
Increasing(s) == \A i, j \in DOMAIN s : i < j => s[i] < s[j]

\* The stacks of open blocks stay in step: one else flag for each open if, and
\* an inner block has a higher number than the one around it, whatever order
\* the block words come in (main.py:220-256).
BlocksInStep ==
  /\ Len(has_else) = Len(if_labels)
  /\ Increasing(while_labels) /\ Increasing(if_labels)
  /\ \A i \in DOMAIN while_labels : while_labels[i] < while_label_ct
  /\ \A i \in DOMAIN if_labels : if_labels[i] < if_label_ct

\* No label of a loop, and no end of an if with an else, is placed twice, in one
\* function or in two, though the numbers are shared by all functions (main.py:220-256).
\* (An if with two else has its endif twice; see the README.)
BlockLabelsOnce ==
  InputComplete => \A x, y \in Lines :
    /\ LineAt(x).ins = "LABEL" /\ LineAt(x).lab[1] \in {"while", "endwhile", "endelse"}
    /\ LineAt(x) = LineAt(y)
    => x = y

\* Every function closes as many loops and branches as it opens, in whatever
\* order: it is ended where as many have been closed as opened.
Times(name, n) == Cardinality({i \in 1 .. n : src[i].head = "id" /\ src[i].name = name})
BlocksClosed ==
  \A i \in DOMAIN src : src[i].head = "#" /\ src[i].name = "" =>
    /\ Times("while", i) = Times("elihw", i)
    /\ Times("if", i) = Times("fi", i)

\* In the file that is written every jump has its label, and has it in the same
\* function: however blocks cross (main.py:220-256), the functions left out
\* because nothing calls them (main.py:482-483) hold no target of the others.  It
\* is so unless a block is open from one function to the next, or a function
\* at the end of the input; the compiler checks neither.
IsJump(line) == line.ins \in {"JMP", "JE"}
LandsIn(code) ==
  \A i \in DOMAIN code : IsJump(code[i]) =>
    \E j \in DOMAIN code : code[j].ins = "LABEL" /\ code[j].lab = code[i].d.v
JumpsLand ==
  status = "done" /\ InputComplete /\ BlocksClosed =>
    LandsIn(asm) /\ \A f \in DOMAIN functions : LandsIn(functions[f])

\* A function that has been ended stores its return place in call_stack first
\* and takes it back last, and nothing in between moves R12: the two stacks
\* stay balanced whatever the body does (main.py:293-312).
MovesR12(l) == l.ins \notin {"LABEL", "LOC", "QUAD", "DATA", "RET", "SYSCALL"}
               /\ l.d = Reg("R12")
FunctionsFramed ==
  status # "assertion" =>
    \A f \in DOMAIN functions \ {compile_unit} :
      LET code == functions[f]  n == Len(code) IN
      /\ n >= 7
      /\ SubSeq(code, 1, 3) = Prologue
      /\ SubSeq(code, n - 3, n) = Epilogue
      /\ \A i \in 4 .. n - 4 : ~MovesR12(code[i])

\* In the file that is written every call has exactly one function to go to
\* (Parser.py:191-193, main.py:195-210, 471-483), unless a function is open at
\* the end of the input.
CallsLand ==
  status = "done" /\ InputComplete =>
    \A i \in DOMAIN asm :
      asm[i].ins = "CALL" =>
        Cardinality({j \in DOMAIN asm : asm[j] = Label(asm[i].d.v)}) = 1

\* The parser's record of the function it is in (Parser.py:36-45, 158) and the
\* compiler's (main.py:294-312) agree after every word, and so the exception that
\* funcdef raises for a unit left open never comes, unless the program has a lone
\* "#" outside a function, which declares the function "".
OneUnit ==
  "" \notin DOMAIN functions =>
    /\ status # "assertion"
    /\ status = "compiling" => IF in_function = "" THEN compile_unit = NoUnit
                               ELSE compile_unit = in_function

\* The command line writes the file after an exception all the same and exits with
\* 0 (main.py:503-509): whatever had been compiled by then, the file has no
\* instruction and no data in it, only the sizes of segments.
FailedFileIsEmpty ==
  output # NoOutput /\ status # "done" =>
    \A i \in DOMAIN output : output[i].ins = "LCOMM"

\* A program whose blocks are well nested, whose names are declared and whose
\* words have the parameters they take is compiled without an exception, whatever
\* the order of its declarations (Parser.py:151-193).
WellFormedIsAccepted == WellFormed(src, Operators) => status \in {"compiling", "done"}
=============================================================================
