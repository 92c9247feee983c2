--------------------------------- MODULE Image --------------------------------
(***************************************************************************)
(* What the debugger has of a compiled program: the instructions, the      *)
(* bounds of its functions (the symbols func_f and funcend_f) and the line *)
(* table (the .loc directives).  Link lays these out the way the compiler  *)
(* does: _start first, then the functions one after the other; a row for   *)
(* every word of a body, none for "#f", for the prologue and the epilogue; *)
(* and last the row with which the assembler ends the table, the place of  *)
(* the last word at the address behind the text.                           *)
(*                                                                         *)
(* An instruction takes one address, as int3 does, and SYSCALL two.  The   *)
(* instructions are the ones a debugger tells apart: call, the prologue    *)
(* that moves the return place from the value stack to call_stack, the     *)
(* epilogue that moves it back and returns, jumps, system calls, one that  *)
(* faults and everything else.                                             *)
(***************************************************************************)
EXTENDS Integers, Sequences
LOCAL INSTANCE SequencesExt

Plain == [op |-> "plain"]
CallTo(f) == [op |-> "call", to |-> f]        \* f is a name until it is linked
Enter == [op |-> "enter"]                     \* POP RCX; MOV (R12); ADD R12
Leave == [op |-> "leave"]                     \* SUB R12; MOV; PUSH RCX; RET
JumpBy(d) == [op |-> "jmp", by |-> d]
JumpIfZero(d) == [op |-> "je", by |-> d]      \* POP RAX; CMP; JE
\* POP; SYSCALL; PUSH RAX, and where the second byte of SYSCALL leads.
SystemCall(d) == <<Plain, [op |-> "syscall"], [op |-> "inside", by |-> d], Plain>>
Fault == [op |-> "fault"]                     \* an address that is not mapped
Exit == [op |-> "exit"]                       \* the end of _start

\* A word of a function with its place and its code, which may be empty.
At(file, line, column, code) ==
  [place |-> [file |-> file, line |-> line, column |-> column], code |-> code]

\* A program is a sequence of functions [name, words].
Body(f) == FlattenSeq([i \in DOMAIN f.words |-> f.words[i].code])
FunctionCode(f) == <<Enter>> \o Body(f) \o <<Leave>>
StartCode == <<CallTo("entry"), Exit>>
TextBefore(fs, k) ==
  StartCode \o FlattenSeq([j \in 1 .. k - 1 |-> FunctionCode(fs[j])])
StartOf(fs, k) == Len(TextBefore(fs, k)) + 1
EndOf(fs, k) == StartOf(fs, k) + Len(FunctionCode(fs[k]))
RowsOf(fs, k) ==
  [i \in DOMAIN fs[k].words |->
    [address |-> StartOf(fs, k) + 1
                 + Len(FlattenSeq([j \in 1 .. i - 1 |-> fs[k].words[j].code])),
     place |-> fs[k].words[i].place]]

Link(fs) ==
  LET names == {fs[k].name : k \in DOMAIN fs}
      Index(f) == CHOOSE k \in DOMAIN fs : fs[k].name = f
      text == Append(TextBefore(fs, Len(fs) + 1), Fault)   \* behind the text: padding
      rows == FlattenSeq([k \in DOMAIN fs |-> RowsOf(fs, k)])
      Resolved(i) == IF i.op = "call" THEN [i EXCEPT !.to = StartOf(fs, Index(i.to))]
                     ELSE i
  IN [text |-> [a \in DOMAIN text |-> Resolved(text[a])],
      functions |-> [f \in names |-> [start |-> StartOf(fs, Index(f)),
                                      end |-> EndOf(fs, Index(f))]],
      rows |-> rows \o IF rows = <<>> THEN <<>>
                       ELSE <<[address |-> Len(text), place |-> Last(rows).place]>>]
=============================================================================
