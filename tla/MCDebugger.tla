------------------------------ MODULE MCDebugger ------------------------------
(***************************************************************************)
(* Small programs for the debugger.                                        *)
(***************************************************************************)
EXTENDS Debugger

I == INSTANCE Image
F(name, words) == [name |-> name, words |-> words]
Here(line, column, instrs) == I!At(1, line, column, instrs)
Other(line, column, instrs) == I!At(2, line, column, instrs)
Op == <<I!Plain>>
None == <<>>
Call(f) == <<I!CallTo(f)>>

\* A loop over several lines that calls g; g is imported from another file, has
\* the line numbers of entry, and calls f twice; f begins on the line that
\* declares it; "empty" has no word, so no line.
LoopOverCalls ==
  <<F("entry", <<Here(7, 2, None), Here(7, 3, Op), Here(7, 4, <<I!JumpIfZero(3)>>),
                 Here(8, 1, Call("g")),
                 Here(9, 1, <<I!JumpBy(-3)>>),
                 Here(10, 1, Call("empty")), Here(10, 2, None)>>),
    F("g", <<Other(8, 1, Call("f")), Other(9, 1, Call("f"))>>),
    F("f", <<Here(1, 2, Op), Here(2, 1, Op)>>),
    F("empty", <<>>)>>

\* Everything on one line.
OneLine ==
  <<F("f", <<Here(1, 2, Op), Here(1, 3, None)>>),
    F("entry", <<Here(1, 6, Call("f")), Here(1, 7, Call("f")), Here(1, 8, Op)>>)>>

\* Calls as the last words of two functions: neither has a line to return to.
TailCalls ==
  <<F("entry", <<Here(1, 1, Op), Here(2, 1, Call("g"))>>),
    F("g", <<Here(4, 1, Op), Here(5, 1, Call("f"))>>),
    F("f", <<Here(7, 2, Op)>>)>>

\* No word in entry.
EmptyEntry == <<F("entry", <<>>)>>

\* f calls itself as often as the input says.
Recursion ==
  <<F("f", <<Here(1, 2, <<I!JumpIfZero(2)>>), Here(2, 1, Call("f")), Here(3, 1, Op)>>),
    F("entry", <<Here(5, 1, Call("f")), Here(6, 1, Op)>>)>>

\* An instruction that faults, in a function.
Faulting ==
  <<F("f", <<Here(1, 2, Op), Here(2, 1, <<I!Fault>>)>>),
    F("entry", <<Here(4, 1, Call("f")), Here(5, 1, Op)>>)>>

\* System calls, the last of them at the end of a function that entry calls; what
\* follows them is swallowed in part by the instruction inside.
SystemCalls ==
  <<F("entry", <<Here(1, 2, I!SystemCall(2)), Here(1, 3, Op), Here(2, 1, Call("f")),
                 Here(3, 1, I!SystemCall(3)), Here(3, 2, Op)>>),
    F("f", <<Here(5, 2, Op), Here(6, 1, I!SystemCall(2))>>)>>

NotRecursive == {I!Link(LoopOverCalls), I!Link(OneLine), I!Link(TailCalls),
                 I!Link(EmptyEntry)}
Recursive == {I!Link(Recursion)}
WithFault == {I!Link(Faulting)}
AllPrograms == NotRecursive \cup Recursive \cup WithFault \cup {I!Link(SystemCalls)}
=============================================================================
