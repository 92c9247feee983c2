------------------------------- MODULE Debugger -------------------------------
(***************************************************************************)
(* The debugger's core: StacksyDebugger, Breakpoint, the lookups of        *)
(* DebugInfo and the commands of the view, attached to a Debuggee.         *)
(*                                                                         *)
(* The debugger is one thread: it reads a command, and for most commands   *)
(* lets the process run, by one instruction or until it stops, and waits.  *)
(* The nested calls of stepOver, stepOut, stepFrom and continueExecution   *)
(* are the values of cmd.at, with their locals in the other fields of cmd. *)
(***************************************************************************)
EXTENDS Debuggee

CONSTANT MaxBreaks    \* how many breakpoints the user sets

VARIABLES
  code,           \* first byte at each address: "own" or "int3"
  mBreakpoints,   \* address |-> [mEnabled, mOldVal]
  mPc, mRegs,     \* the debugger's copies of registers
  mRunning,
  cmd,            \* the command that is being executed, or the last one
  userBreaks      \* where the user has set breakpoints

processVars == <<prog, m, code>>
copies == <<mPc, mRegs, mRunning>>
vars == <<processVars, mBreakpoints, copies, cmd, userBreaks>>

NoAddress == 0   \* nothing is mapped here
NoEntry == [file |-> 0, line |-> 0, column |-> 0]   \* nullptr
NoFunction == ""

-----------------------------------------------------------------------------
(***************************************************************************)
(* DebugInfo.  A later row of the line table replaces an earlier one with  *)
(* the same address or the same place.                                     *)
(***************************************************************************)
LastRow(R) == prog.rows[CHOOSE i \in R : \A j \in R : j <= i]
RowsAt(a) == {i \in DOMAIN prog.rows : prog.rows[i].address = a}
RowsOn(p) == {i \in DOMAIN prog.rows : prog.rows[i].place = p}

getLineEntry(a) == IF RowsAt(a) = {} THEN NoEntry ELSE LastRow(RowsAt(a)).place
getAddressFromLineCol(p) == IF RowsOn(p) = {} THEN NoAddress ELSE LastRow(RowsOn(p)).address

Functions == DOMAIN prog.functions
\* NoFunction stands for the exception.
getFunctionName(a) ==
  LET below == {f \in Functions : prog.functions[f].start <= a}
      nearest == {f \in below : \A g \in below :
                                  prog.functions[g].start <= prog.functions[f].start}
      inside == {f \in nearest : a < prog.functions[f].end}
  IN IF inside = {} THEN NoFunction ELSE CHOOSE f \in inside : TRUE

\* The first row beyond the start of the function; NoAddress stands for the
\* exceptions: no such function, no row beyond it, a row beyond its end.
getFunctionPrologueEndAddress(f) ==
  LET beyond == {prog.rows[i].address : i \in
                   {j \in DOMAIN prog.rows :
                      prog.rows[j].address > prog.functions[f].start}}
  IN IF \E a \in beyond : a < prog.functions[f].end
     THEN CHOOSE a \in beyond : \A b \in beyond : a <= b
     ELSE NoAddress

\* An address without a row belongs to the line before it.
sameLine(old, new) ==
  \/ new = NoEntry
  \/ old # NoEntry /\ old.line = new.line /\ old.file = new.file
sameColumn(old, new) == new = NoEntry \/ old = new
Same(column, old, new) == IF column THEN sameColumn(old, new) ELSE sameLine(old, new)

-----------------------------------------------------------------------------
(***************************************************************************)
(* Breakpoint.  b is the memory of the process and the table together,     *)
(* [code, table]; the operations apply while the process is alive.         *)
(***************************************************************************)
Enabled(t) == {a \in DOMAIN t : t[a].mEnabled}

\* changeByte, and the flag that is set after it.
ChangeByte(b, a, v, enabled) ==
  [code |-> [b.code EXCEPT ![a] = v],
   table |-> [b.table EXCEPT ![a] = [mEnabled |-> enabled, mOldVal |-> b.code[a]]]]
\* Mutant: no early return when it is enabled already.
EnableAgain(b, a) == ChangeByte(b, a, "int3", TRUE)
Enable(b, a) == IF b.table[a].mEnabled THEN b ELSE ChangeByte(b, a, "int3", TRUE)
Disable(b, a) == IF b.table[a].mEnabled THEN ChangeByte(b, a, b.table[a].mOldVal, FALSE)
                 ELSE b

TryEmplace(b, a) ==
  IF a \in DOMAIN b.table THEN b
  ELSE [b EXCEPT !.table = [x \in DOMAIN b.table \cup {a} |->
                              IF x = a THEN [mEnabled |-> FALSE, mOldVal |-> "own"]
                              ELSE b.table[x]]]
\* Nothing can be planted where nothing is mapped: the entry stays disabled.
AddBreakpoint(b, a) == IF a \in Addresses THEN Enable(TryEmplace(b, a), a)
                       ELSE TryEmplace(b, a)

Now == [code |-> code, table |-> mBreakpoints]
Put(b) == code' = b.code /\ mBreakpoints' = b.table

-----------------------------------------------------------------------------
(***************************************************************************)
(* ptrace and waitpid.                                                     *)
(***************************************************************************)
Registers(p) == [RIP |-> p.pc, R12 |-> Len(p.calls)]

\* Why the process stops after one instruction with the memory c; for a step over
\* SYSCALL the kernel reports TRAP_BRKPT (user_single_step_report of Linux on x86).
Signal(c) ==
  IF c[m.pc] = "int3" THEN "int3"                     \* SIGTRAP, SI_KERNEL
  ELSE CASE Instruction.op = "fault" -> "fault"       \* SIGSEGV
         [] Instruction.op = "exit" -> "exit"
         [] Instruction.op = "syscall" -> "brkpt"     \* SIGTRAP, TRAP_BRKPT
         [] OTHER -> "trace"                          \* SIGTRAP, TRAP_TRACE
\* A process that is not single-stepped does not stop for these.
StepSignals == {"brkpt", "trace"}
\* The process behind int3 is one byte further; handleSigtrap puts it back.
Stopped(c) == IF Signal(c) = "int3" THEN [m EXCEPT !.pc = @ + 1] ELSE Executed(Instruction)

\* handleSigtrap takes TRAP_BRKPT for int3.  Mutant: the pc is left behind int3.
StopPcAsIs(signal, pc) == pc
StopPc(signal, pc) == IF signal \in {"int3", "brkpt"} THEN pc - 1 ELSE pc

\* wait(), when the process has stopped.
\* Mutant: a segmentation fault does not refresh mPc.
WaitKeepsPc(c) ==
  LET signal == Signal(c)  p == Stopped(c)  pc == StopPc(signal, p.pc) IN
  IF signal = "exit"
  THEN m' = p /\ mRunning' = FALSE /\ UNCHANGED <<mPc, mRegs>>
  ELSE /\ mPc' = IF signal = "fault" THEN mPc ELSE pc
       /\ m' = [p EXCEPT !.pc = pc]
       /\ mRegs' = Registers(m')
       /\ UNCHANGED mRunning
Wait(c) ==
  LET signal == Signal(c)  p == Stopped(c)  pc == StopPc(signal, p.pc) IN
  IF signal = "exit"
  THEN m' = p /\ mRunning' = FALSE /\ UNCHANGED <<mPc, mRegs>>
  ELSE /\ mPc' = pc
       /\ m' = [p EXCEPT !.pc = pc]
       /\ mRegs' = Registers(m')
       /\ UNCHANGED mRunning

\* stepX64Instruction with stepOverBreakpoint.  If the process exits in
\* between, enable() throws and the breakpoint stays disabled.
BreakHere(b) == mPc \in Enabled(b.table)
\* Mutants: the breakpoint stays in place; it is not set again.
StepX64InPlace(b) == Wait(b.code) /\ Put(b)
StepX64Forgets(b) ==
  LET c == IF BreakHere(b) THEN Disable(b, mPc) ELSE b IN Wait(c.code) /\ Put(c)
StepX64(b) ==
  LET c == IF BreakHere(b) THEN Disable(b, mPc) ELSE b IN
  /\ Wait(c.code)
  /\ Put(IF BreakHere(b) /\ Signal(c.code) # "exit" THEN Enable(c, mPc) ELSE c)
StepThrows(b) == BreakHere(b) /\ Signal(Disable(b, mPc).code) = "exit"

\* getReturnAddress.  Below call_stack there is no address of code.
\* Mutant: the return place of the caller.
ReturnAddressOfCaller == IF mRegs.R12 <= 1 THEN NoAddress ELSE m.calls[mRegs.R12 - 1]
getReturnAddress == IF mRegs.R12 = 0 THEN NoAddress ELSE m.calls[mRegs.R12]

-----------------------------------------------------------------------------
(***************************************************************************)
(* cmd.at says what the debugger does next: read a command ("prompt"), one *)
(* turn of stepFrom ("stepping"), the loops of stepOver ("over"), wait for *)
(* the process ("running").  cmd.depth is the number of activations when   *)
(* the command was given; cmd.ok is FALSE after an exception.              *)
(***************************************************************************)
Commands == {"start", "continue", "step", "next", "finish", "break"}
Idle(name) ==
  [name |-> name, at |-> "prompt", ok |-> TRUE, column |-> FALSE, lineInfo |-> NoEntry,
   returnAddress |-> NoAddress, function |-> NoFunction, temp |-> NoAddress,
   depth |-> Len(m.calls)]

Goto(c, where) == cmd' = [c EXCEPT !.at = where]
\* An exception ends the command; run prints it.
Throw(c) == cmd' = [c EXCEPT !.at = "prompt", !.ok = FALSE]

Init ==
  /\ ProgramInit
  /\ code = [a \in Addresses |-> "own"]
  /\ mBreakpoints = [a \in {} |-> [mEnabled |-> FALSE, mOldVal |-> "own"]]
  \* mPc is not initialised: what matters is whether it is the first breakpoint.
  /\ mPc \in {NoAddress, getFunctionPrologueEndAddress("entry")}
  /\ mRegs = [RIP |-> 0, R12 |-> 0]
  /\ mRunning = FALSE
  /\ cmd = [Idle("start") EXCEPT !.at = "attach"]
  /\ userBreaks = {}

\* continueExecution, up to the wait; b is the memory before it.
ContinueExecution(b, c) ==
  IF BreakHere(b)
  THEN /\ IF StepThrows(b) THEN Throw(c) ELSE Goto(c, "running")
       /\ StepX64(b)
  ELSE Put(b) /\ UNCHANGED <<m, copies>> /\ Goto(c, "running")

\* run(): the process has stopped at its first instruction.
Attach ==
  /\ cmd.at = "attach"
  /\ mRunning' = TRUE
  /\ mRegs' = Registers(m)
  /\ Goto(cmd, "start")
  /\ UNCHANGED <<processVars, mBreakpoints, mPc, userBreaks>>

Start ==
  /\ cmd.at = "start"
  /\ LET entry == getFunctionPrologueEndAddress("entry") IN
     IF entry \notin Addresses
     THEN Goto(cmd, "ended") /\ UNCHANGED <<processVars, mBreakpoints, copies>>
     ELSE ContinueExecution(AddBreakpoint(Now, entry), [cmd EXCEPT !.temp = entry])
  /\ UNCHANGED <<prog, userBreaks>>

\* handleCommand.
Ready == cmd.at = "prompt" /\ mRunning

CmdContinue ==
  /\ Ready
  /\ ContinueExecution(Now, Idle("continue"))
  /\ UNCHANGED <<prog, userBreaks>>

CmdStep(column) ==
  /\ Ready
  /\ Goto([Idle("step") EXCEPT !.column = column, !.lineInfo = getLineEntry(mPc)], "stepping")
  /\ UNCHANGED <<processVars, mBreakpoints, copies, userBreaks>>

CmdNext(column) ==
  /\ Ready
  /\ LET c == [Idle("next") EXCEPT !.column = column, !.lineInfo = getLineEntry(mPc),
                 !.returnAddress = getReturnAddress, !.function = getFunctionName(mPc)]
     IN IF c.function = NoFunction THEN Throw(c) ELSE Goto(c, "stepping")
  /\ UNCHANGED <<processVars, mBreakpoints, copies, userBreaks>>

\* stepOut, up to the wait.  Mutant: the breakpoint of the user is taken for its own.
StepOutOwns(c) ==
  LET a == getReturnAddress IN
  IF a \notin Addresses
  THEN Put(AddBreakpoint(Now, a)) /\ UNCHANGED <<m, copies>> /\ Throw(c)
  ELSE ContinueExecution(AddBreakpoint(Now, a), [c EXCEPT !.temp = a])
StepOut(c) ==
  LET a == getReturnAddress IN
  CASE a \in Enabled(mBreakpoints) -> ContinueExecution(Now, c)
    [] a \notin Addresses ->
         Put(AddBreakpoint(Now, a)) /\ UNCHANGED <<m, copies>> /\ Throw(c)
    [] OTHER -> ContinueExecution(AddBreakpoint(Now, a), [c EXCEPT !.temp = a])

CmdFinish ==
  /\ Ready
  /\ StepOut(Idle("finish"))
  /\ UNCHANGED <<prog, userBreaks>>

\* Where nothing is found there is an exception.  Mutant: without that check.
SetBreakpointUnchecked(a, c) ==
  /\ Put(AddBreakpoint(Now, a))
  /\ userBreaks' = userBreaks \cup {a}
  /\ Cardinality(userBreaks') <= MaxBreaks
  /\ cmd' = c
  /\ UNCHANGED <<prog, m, copies>>
SetBreakpoint(a, c) ==
  /\ IF a \notin Addresses
     THEN Throw(c) /\ UNCHANGED <<code, mBreakpoints, userBreaks>>
     ELSE /\ Put(AddBreakpoint(Now, a))
          /\ userBreaks' = userBreaks \cup {a}
          /\ Cardinality(userBreaks') <= MaxBreaks
          /\ cmd' = c
  /\ UNCHANGED <<prog, m, copies>>

Files == {prog.rows[i].place.file : i \in DOMAIN prog.rows}
CmdBreakFunction(f) ==
  /\ Ready
  /\ SetBreakpoint(getFunctionPrologueEndAddress(f), Idle("break"))

\* "b line" is "b line 1".  The file is that of the current address, or the one
\* that is named; 0 stands for none, an exception.
CmdBreakLine(line, column) ==
  /\ Ready
  /\ \E file \in {0, getLineEntry(mRegs.RIP).file} \cup Files :
       LET place == [file |-> file, line |-> line, column |-> column] IN
       SetBreakpoint(IF file = 0 THEN NoAddress ELSE getAddressFromLineCol(place),
                     Idle("break"))

-----------------------------------------------------------------------------
\* One turn of the loop of stepFrom.  step ends with it, stepOver goes on.
StepFrom ==
  /\ cmd.at = "stepping"
  /\ StepX64(Now)
  /\ IF StepThrows(Now) THEN Throw(cmd)
     ELSE IF /\ mRunning'
             /\ mPc' # cmd.returnAddress
             /\ Same(cmd.column, cmd.lineInfo, getLineEntry(mPc'))
     THEN UNCHANGED cmd
     ELSE Goto(cmd, IF cmd.name = "next" THEN "over" ELSE "prompt")
  /\ UNCHANGED <<prog, userBreaks>>

\* The conditions of the two loops of stepOver.
\* Mutant: a function that was entered is not left again.
StepOverInner ==
  /\ cmd.at = "over"
  /\ Goto(cmd, IF /\ mRunning
                  /\ mPc # cmd.returnAddress
                  /\ Same(cmd.column, cmd.lineInfo, getLineEntry(mPc))
               THEN "stepping" ELSE "prompt")
  /\ UNCHANGED <<processVars, mBreakpoints, copies, userBreaks>>
StepOver ==
  /\ cmd.at = "over"
  /\ LET away == mRunning /\ mPc # cmd.returnAddress IN
     IF away /\ getFunctionName(mPc) = NoFunction
     THEN Throw(cmd) /\ UNCHANGED <<m, code, mBreakpoints, copies>>
     ELSE IF away /\ getFunctionName(mPc) # cmd.function
     THEN StepOut(cmd)
     ELSE /\ Goto(cmd, IF away /\ Same(cmd.column, cmd.lineInfo, getLineEntry(mPc))
                       THEN "stepping" ELSE "prompt")
          /\ UNCHANGED <<m, code, mBreakpoints, copies>>
  /\ UNCHANGED <<prog, userBreaks>>

\* The process runs until something stops it; then the breakpoint of stepOut,
\* or the first one of run, is removed, which throws when the process is gone.
Stop ==
  LET after == IF cmd.name = "next" THEN "over" ELSE "prompt"
      c == [cmd EXCEPT !.temp = NoAddress] IN
  /\ Wait(code)
  /\ CASE cmd.temp = NoAddress -> Goto(c, after) /\ Put(Now)
       [] cmd.temp # NoAddress /\ Signal(code) = "exit" ->
            /\ IF cmd.name = "start" THEN Goto(c, "ended") ELSE Throw(c)
            /\ Put(Now)
       [] OTHER -> Goto(c, after) /\ Put(Disable(Now, cmd.temp))

Run ==
  /\ cmd.at = "running"
  /\ IF Signal(code) \in StepSignals
     THEN m' = Stopped(code) /\ UNCHANGED <<code, mBreakpoints, copies, cmd>>
     ELSE Stop
  /\ UNCHANGED <<prog, userBreaks>>

\* What the user may ask for, and what the debugger does on its own.
Lines == {prog.rows[i].place.line : i \in DOMAIN prog.rows}
Command ==
  \/ CmdContinue \/ CmdFinish
  \/ \E column \in BOOLEAN : CmdStep(column) \/ CmdNext(column)
  \/ \E f \in Functions : CmdBreakFunction(f)
  \/ \E line \in Lines, column \in 1 .. 2 : CmdBreakLine(line, column)
Work == Attach \/ Start \/ StepFrom \/ StepOver \/ Run

Next == Command \/ Work
Spec == Init /\ [][Next]_vars
FairSpec == Spec /\ WF_vars(Work)

-----------------------------------------------------------------------------
(***************************************************************************)
(* Properties.                                                             *)
(***************************************************************************)
TypeOK ==
  /\ m \in Process
  /\ code \in [Addresses -> {"own", "int3"}]
  /\ DOMAIN mBreakpoints \subseteq Addresses \cup {NoAddress}
  /\ \A a \in DOMAIN mBreakpoints :
       mBreakpoints[a] \in [mEnabled : BOOLEAN, mOldVal : {"own", "int3"}]
  /\ mPc \in Nat /\ mRegs \in [RIP : Nat, R12 : Nat] /\ mRunning \in BOOLEAN
  /\ cmd.name \in Commands
  /\ cmd.at \in {"attach", "start", "prompt", "stepping", "over", "running", "ended"}
  /\ userBreaks \subseteq Addresses

\* The bytes of the process and the table tell the same story: int3 stands where
\* a breakpoint is enabled and nowhere else, and what disabling it would write
\* back is the program's own byte (breakpoint.hpp:25-43, 66-80).
BreakpointsCoherent ==
  m.alive =>
    /\ \A a \in Addresses : code[a] = "int3" <=> a \in Enabled(mBreakpoints)
    /\ \A a \in Enabled(mBreakpoints) : mBreakpoints[a].mOldVal = "own"

\* The debugger steps the process into the middle of a system call.
LandsInside ==
  /\ cmd.at # "running" /\ Instruction.op = "syscall"
  /\ m' = [m EXCEPT !.pc = @ + 1] /\ UNCHANGED prog

\* Whatever is set, stepped and continued, the process executes the program: the
\* same instructions in the same order, none skipped, none twice, with one
\* exception: a single step over SYSCALL, which handleSigtrap takes for a
\* breakpoint, leaves it in the middle of that instruction; running freely it
\* passes system calls unharmed (debugger.cpp:160-184, 319-335).
RunsAsAlone == ProgramInit /\ [][ProgramNext \/ LandsInside]_<<prog, m>>

\* At the prompt exactly the user's breakpoints are set: those that finish, next
\* and the start put in for themselves are gone again, and a breakpoint that was
\* stepped over or shared by finish is still there (debugger.cpp:171-201).
UserBreakpointsStay == Ready => Enabled(mBreakpoints) = userBreaks

\* When the debugger decides, its copies of the registers are those of the
\* process (debugger.cpp:312-380).
CopiesFresh ==
  mRunning /\ cmd.at \in {"prompt", "stepping", "over"} =>
    mPc = m.pc /\ mRegs = Registers(m)

\* "continue running program until next breakpoint" (README.me:12): once the
\* process runs freely, it does not execute an instruction that has a breakpoint
\* of the user.
StopsAtBreakpoints == [][cmd.at = "running" /\ m.pc \in userBreaks => m' = m]_vars

\* The last command was carried out, neither a breakpoint nor a fault has stopped
\* it, and the process has not been led into the middle of an instruction: of what
\* it does then nothing is said.
Undisturbed(name) ==
  /\ Ready /\ cmd.name = name /\ cmd.ok
  /\ mPc \notin userBreaks
  /\ mPc \in Addresses /\ Instruction.op \notin {"fault", "inside"} /\ ~m.astray

\* "fin or finish -- step out" (README.me:13): the activation that was current is
\* left, and no other one.
FinishStepsOut == Undisturbed("finish") => Len(m.calls) = cmd.depth - 1

\* Each function calls only functions of a lower rank, so none calls itself.
Calls == {fg \in Functions \X Functions :
            \E a \in prog.functions[fg[1]].start .. prog.functions[fg[1]].end - 1 :
              /\ prog.text[a].op = "call"
              /\ prog.text[a].to = prog.functions[fg[2]].start}
NonRecursive == \E rank \in [Functions -> 1 .. Cardinality(Functions)] :
                  \A fg \in Calls : rank[fg[2]] < rank[fg[1]]
FaultFree == \A f \in Functions : \A a \in CodeOf(prog, f) : prog.text[a].op # "fault"

\* finish does step out of the current activation, and of no other, when no
\* function calls itself (debugger.cpp:186-201).
FinishLeaves == Undisturbed("finish") /\ NonRecursive => Len(m.calls) = cmd.depth - 1

\* "n or next -- step over to next line" (README.me:10): next ends in the
\* activation it was given in, or where that one returned to, when no function
\* calls itself; breakpoints in what it steps over do not stop it there.
NextStepsOver ==
  Undisturbed("next") /\ NonRecursive =>
    \/ Len(m.calls) = cmd.depth
    \/ Len(m.calls) = cmd.depth - 1 /\ mPc = cmd.returnAddress

\* Every command comes to an end: the debugger asks for the next one, or the
\* program has ended; unless an instruction faults, which step and next repeat for
\* ever, or a step over a system call has led the process astray
\* (debugger.cpp:190-239).
CommandsEndFaultFree ==
  (cmd.at # "prompt" /\ FaultFree) ~> (cmd.at \in {"prompt", "ended"} \/ m.astray)
=============================================================================
