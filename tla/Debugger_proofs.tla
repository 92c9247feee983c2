--------------------------- MODULE Debugger_proofs ----------------------------
(***************************************************************************)
(* Proofs about Debugger, for every set of programs: the bytes of the      *)
(* process and the table of breakpoints agree, at the prompt exactly the   *)
(* user's breakpoints are set, the copies of the registers are fresh, and  *)
(* the debugged program does what it does alone until the debugger steps   *)
(* into a system call.  For every set of images in which no function calls *)
(* itself: finish leaves the activation it was given in, and next ends     *)
(* there or where that one has returned to.                                *)
(***************************************************************************)
EXTENDS Debugger, SequenceFacts, FiniteSetTheorems

\* b is memory and table, of which BreakpointsCoherent is true.
Coherent(b) ==
  /\ b = [code |-> b.code, table |-> b.table]
  /\ b.code \in [Addresses -> {"own", "int3"}]
  /\ b.table \in [DOMAIN b.table -> [mEnabled : BOOLEAN, mOldVal : {"own", "int3"}]]
  /\ Enabled(b.table) \subseteq Addresses
  /\ \A a \in Addresses : b.code[a] = "int3" <=> a \in Enabled(b.table)
  /\ \A a \in Enabled(b.table) : b.table[a].mOldVal = "own"

\* c is b after the byte at a was set to v, with a flag that tells which it is.
Changed(b, a, v, c) ==
  /\ c = [code |-> c.code, table |-> c.table]
  /\ c.code = [b.code EXCEPT ![a] = v]
  /\ c.table = [x \in DOMAIN b.table |-> c.table[x]]
  /\ \A x \in DOMAIN b.table \ {a} : c.table[x] = b.table[x]
  /\ c.table[a] \in [mEnabled : BOOLEAN, mOldVal : {"own", "int3"}]
  /\ c.table[a].mEnabled <=> v = "int3"
  /\ c.table[a].mOldVal = b.code[a]

-----------------------------------------------------------------------------
\* Writing int3 over the program's byte, or the program's byte over int3, keeps
\* memory and table in agreement.
LEMMA ChangeCoherent ==
  ASSUME NEW b, Coherent(b), NEW a \in DOMAIN b.table, a \in Addresses,
         NEW v \in {"own", "int3"}, v = "int3" => b.code[a] = "own",
         NEW c, Changed(b, a, v, c)
  PROVE  /\ Coherent(c)
         /\ v = "int3" => Enabled(c.table) = Enabled(b.table) \cup {a}
         /\ v = "own" => Enabled(c.table) = Enabled(b.table) \ {a}
         /\ DOMAIN c.table = DOMAIN b.table
PROOF
<1>1. DOMAIN c.table = DOMAIN b.table
  BY DEF Changed
<1>2. \A x : x \in Enabled(c.table) <=> \/ x = a /\ v = "int3"
                                        \/ x # a /\ x \in Enabled(b.table)
  BY <1>1 DEF Changed, Enabled
<1>3. c.table \in [DOMAIN c.table -> [mEnabled : BOOLEAN, mOldVal : {"own", "int3"}]]
  BY <1>1 DEF Changed, Coherent
<1>4. c.code \in [Addresses -> {"own", "int3"}]
  BY DEF Changed, Coherent
<1>5. ASSUME NEW x \in Addresses
      PROVE  c.code[x] = "int3" <=> x \in Enabled(c.table)
  BY <1>2 DEF Changed, Coherent
<1>6. Enabled(c.table) \subseteq Addresses
  BY <1>2 DEF Coherent
<1>7. ASSUME NEW x \in Enabled(c.table)
      PROVE  c.table[x].mOldVal = "own"
  <2>1. CASE x = a
    BY <1>2, <2>1 DEF Changed
  <2>2. CASE x # a
    <3>1. x \in Enabled(b.table) /\ x \in DOMAIN b.table
      BY <1>2, <2>2 DEF Enabled
    <3> QED BY <2>2, <3>1 DEF Changed, Coherent
  <2> QED BY <2>1, <2>2
<1>8. c = [code |-> c.code, table |-> c.table]
  BY DEF Changed
<1>9. Coherent(c)
  BY <1>3, <1>4, <1>5, <1>6, <1>7, <1>8 DEF Coherent
<1> QED BY <1>1, <1>2, <1>9

\* Enabling a breakpoint adds its address and nothing else.
LEMMA EnableCoherent ==
  ASSUME NEW b, Coherent(b), NEW a \in DOMAIN b.table, a \in Addresses
  PROVE  /\ Coherent(Enable(b, a))
         /\ Enabled(Enable(b, a).table) = Enabled(b.table) \cup {a}
PROOF
<1>1. CASE b.table[a].mEnabled
  BY <1>1 DEF Enable, Enabled
<1>2. CASE ~b.table[a].mEnabled
  <2>1. b.code[a] = "own"
    BY <1>2 DEF Coherent, Enabled
  <2>2. PICK c : c = Enable(b, a)
    OBVIOUS
  <2>3. c = ChangeByte(b, a, "int3", TRUE)
    BY <1>2, <2>2 DEF Enable
  <2>4. Changed(b, a, "int3", c)
    BY <2>1, <2>3 DEF ChangeByte, Changed, Coherent
  <2>5. \A v \in {"own", "int3"} :
          (v = "int3" => b.code[a] = "own") /\ Changed(b, a, v, c)
          => /\ Coherent(c)
             /\ v = "int3" => Enabled(c.table) = Enabled(b.table) \cup {a}
    BY ChangeCoherent
  <2> QED BY <2>1, <2>2, <2>4, <2>5
<1> QED BY <1>1, <1>2

\* Disabling one takes its address away and nothing else.
LEMMA DisableCoherent ==
  ASSUME NEW b, Coherent(b), NEW a \in DOMAIN b.table, a \in Addresses
  PROVE  /\ Coherent(Disable(b, a))
         /\ Enabled(Disable(b, a).table) = Enabled(b.table) \ {a}
         /\ DOMAIN Disable(b, a).table = DOMAIN b.table
PROOF
<1>1. CASE ~b.table[a].mEnabled
  BY <1>1 DEF Disable, Enabled
<1>2. CASE b.table[a].mEnabled
  <2>1. b.table[a].mOldVal = "own"
    BY <1>2 DEF Coherent, Enabled
  <2>2. PICK c : c = Disable(b, a)
    OBVIOUS
  <2>3. c = ChangeByte(b, a, "own", FALSE)
    BY <1>2, <2>1, <2>2 DEF Disable
  <2>4. Changed(b, a, "own", c)
    BY <1>2, <2>1, <2>3 DEF ChangeByte, Changed, Coherent
  <2>5. \A v \in {"own", "int3"} :
          (v = "int3" => b.code[a] = "own") /\ Changed(b, a, v, c)
          => /\ Coherent(c)
             /\ v = "own" => Enabled(c.table) = Enabled(b.table) \ {a}
             /\ DOMAIN c.table = DOMAIN b.table
    BY ChangeCoherent
  <2> QED BY <2>2, <2>4, <2>5
<1> QED BY <1>1, <1>2

\* A new entry is not enabled, and an old one is left as it is.
LEMMA EmplaceCoherent ==
  ASSUME NEW b, Coherent(b), NEW a
  PROVE  /\ Coherent(TryEmplace(b, a))
         /\ Enabled(TryEmplace(b, a).table) = Enabled(b.table)
         /\ a \in DOMAIN TryEmplace(b, a).table
PROOF
<1>1. CASE a \in DOMAIN b.table
  BY <1>1 DEF TryEmplace
<1>2. CASE a \notin DOMAIN b.table
  <2> DEFINE t == [x \in DOMAIN b.table \cup {a} |->
                     IF x = a THEN [mEnabled |-> FALSE, mOldVal |-> "own"] ELSE b.table[x]]
             c == [code |-> b.code, table |-> t]
  <2>1. TryEmplace(b, a) = c
    BY <1>2 DEF TryEmplace, Coherent
  <2>2. Enabled(t) = Enabled(b.table)
    BY <1>2 DEF Enabled
  <2>3. t \in [DOMAIN t -> [mEnabled : BOOLEAN, mOldVal : {"own", "int3"}]]
    BY DEF Coherent
  <2>4. \A x \in Enabled(t) : t[x].mOldVal = "own"
    BY <1>2, <2>2 DEF Coherent, Enabled
  <2>5. a \in DOMAIN t
    OBVIOUS
  <2> HIDE DEF t
  <2>6. Coherent(c)
    BY <2>2, <2>3, <2>4 DEF Coherent
  <2> QED BY <2>1, <2>2, <2>5, <2>6
<1> QED BY <1>1, <1>2

LEMMA AddCoherent ==
  ASSUME NEW b, Coherent(b), NEW a
  PROVE  /\ Coherent(AddBreakpoint(b, a))
         /\ Enabled(AddBreakpoint(b, a).table)
              = Enabled(b.table) \cup (IF a \in Addresses THEN {a} ELSE {})
PROOF
<1>1. CASE a \in Addresses
  BY <1>1, EmplaceCoherent, EnableCoherent DEF AddBreakpoint
<1>2. CASE a \notin Addresses
  BY <1>2, EmplaceCoherent DEF AddBreakpoint
<1> QED BY <1>1, <1>2

-----------------------------------------------------------------------------
\* A record with the fields pc and alive.
IsProcess(p) == p = [x \in DOMAIN p |-> p[x]] /\ {"pc", "alive"} \subseteq DOMAIN p

\* An instruction changes fields of the process and takes none away.
LEMMA ExecutedFields ==
  ASSUME NEW i, IsProcess(m)
  PROVE  IsProcess(Executed(i))
PROOF
<1>1. \A f, x, v : IsProcess(f) => IsProcess([f EXCEPT ![x] = v])
  BY DEF IsProcess
<1> QED BY <1>1, Zenon DEF Executed

\* What waiting for the process does to the debugger.
LEMMA WaitEffect ==
  ASSUME NEW c, Wait(c), IsProcess(m), mRunning \in BOOLEAN
  PROVE  /\ Signal(c) = "exit" => ~mRunning' /\ ~m'.alive
         /\ Signal(c) # "exit" => mRunning' = mRunning
         /\ IsProcess(m') /\ mRunning' \in BOOLEAN
PROOF
<1>1. \A f, x, v : IsProcess(f) => IsProcess([f EXCEPT ![x] = v])
  BY DEF IsProcess
<1>2. IsProcess(Stopped(c))
  BY <1>1, ExecutedFields, Zenon DEF Stopped
<1>3. CASE Signal(c) = "exit"
  <2>1. m' = Stopped(c) /\ mRunning' = FALSE
    BY <1>3, Zenon DEF Wait
  <2>2. Stopped(c) = Executed(Instruction) /\ Instruction.op = "exit"
    BY <1>3 DEF Signal, Stopped
  <2>3. Executed(Instruction) = [m EXCEPT !.alive = FALSE]
    BY <2>2 DEF Executed
  <2>4. [m EXCEPT !.alive = FALSE].alive = FALSE
    BY DEF IsProcess
  <2> QED BY <1>2, <1>3, <2>1, <2>2, <2>3, <2>4
<1>4. CASE Signal(c) # "exit"
  <2>1. PICK pc : m' = [Stopped(c) EXCEPT !.pc = pc]
    BY <1>4 DEF Wait
  <2>2. mRunning' = mRunning
    BY <1>4 DEF Wait
  <2>3. IsProcess(m')
    BY <1>1, <1>2, <2>1, Zenon
  <2> QED BY <1>4, <2>2, <2>3
<1> QED BY <1>3, <1>4

\* Memory and table after they were written.
LEMMA PutEffect ==
  ASSUME NEW b, Coherent(b), Put(b), prog' = prog
  PROVE  Coherent(Now)' /\ Enabled(mBreakpoints)' = Enabled(b.table)
PROOF
<1>1. code' = b.code /\ mBreakpoints' = b.table
  BY DEF Put
<1>2. Now' = b
  BY <1>1 DEF Now, Coherent
<1>3. Addresses' = Addresses
  BY DEF Addresses
<1> QED BY <1>1, <1>2, <1>3 DEF Coherent, Enabled

\* What one instruction with stepOverBreakpoint does: unless the process is gone,
\* the same breakpoints are set after it.
LEMMA StepEffect ==
  ASSUME NEW b, Coherent(b), StepX64(b), mRunning = TRUE, IsProcess(m), prog' = prog
  PROVE  /\ IsProcess(m')
         /\ mRunning' \in BOOLEAN
         /\ ~mRunning' => ~m'.alive
         /\ StepThrows(b) => ~mRunning'
         /\ BreakHere(b) /\ ~StepThrows(b) => mRunning'
         /\ mRunning' => Coherent(Now)' /\ Enabled(mBreakpoints)' = Enabled(b.table)
PROOF
<1>1. PICK c : c = IF BreakHere(b) THEN Disable(b, mPc) ELSE b
  OBVIOUS
<1>2. PICK d : d = IF BreakHere(b) /\ Signal(c.code) # "exit" THEN Enable(c, mPc) ELSE c
  OBVIOUS
<1>3. Wait(c.code) /\ Put(d)
  BY <1>1, <1>2 DEF StepX64
<1>4. StepThrows(b) <=> BreakHere(b) /\ Signal(c.code) = "exit"
  BY <1>1 DEF StepThrows
<1>5. /\ Signal(c.code) = "exit" => ~mRunning' /\ ~m'.alive
      /\ Signal(c.code) # "exit" => mRunning' = mRunning
      /\ IsProcess(m')
  <2>1. \A x : Wait(x) => /\ Signal(x) = "exit" => ~mRunning' /\ ~m'.alive
                          /\ Signal(x) # "exit" => mRunning' = mRunning
                          /\ IsProcess(m')
    BY WaitEffect
  <2> QED BY <2>1, <1>3, Zenon
<1>6. mRunning' \in BOOLEAN
  BY <1>3 DEF Wait
<1>7. ASSUME Signal(c.code) # "exit"
      PROVE  Coherent(d) /\ Enabled(d.table) = Enabled(b.table)
  <2>1. CASE BreakHere(b)
    <3>1. mPc \in Enabled(b.table) /\ mPc \in DOMAIN b.table /\ mPc \in Addresses
      BY <2>1 DEF BreakHere, Enabled, Coherent
    <3>2. /\ Coherent(c)
          /\ Enabled(c.table) = Enabled(b.table) \ {mPc}
          /\ DOMAIN c.table = DOMAIN b.table
      BY <1>1, <2>1, <3>1, DisableCoherent
    <3>3. Coherent(d) /\ Enabled(d.table) = Enabled(c.table) \cup {mPc}
      BY <1>2, <1>7, <2>1, <3>1, <3>2, EnableCoherent
    <3> QED BY <3>1, <3>2, <3>3
  <2>2. CASE ~BreakHere(b)
    BY <1>1, <1>2, <2>2
  <2> QED BY <2>1, <2>2
<1>8. ASSUME Signal(c.code) # "exit"
      PROVE  Coherent(Now)' /\ Enabled(mBreakpoints)' = Enabled(b.table)
  BY <1>3, <1>7, <1>8, PutEffect
<1> QED BY <1>4, <1>5, <1>6, <1>8

\* A process that is let go has been stepped over a breakpoint first.
LEMMA ContinueEffect ==
  ASSUME NEW b, NEW c, Coherent(b), ContinueExecution(b, c), mRunning = TRUE,
         IsProcess(m), prog' = prog
  PROVE  /\ IsProcess(m')
         /\ mRunning' \in BOOLEAN
         /\ \/ Throw(c) /\ ~mRunning' /\ ~m'.alive
            \/ /\ Goto(c, "running") /\ mRunning'
               /\ Coherent(Now)' /\ Enabled(mBreakpoints)' = Enabled(b.table)
PROOF
<1>1. CASE BreakHere(b)
  <2>1. StepX64(b) /\ (IF StepThrows(b) THEN Throw(c) ELSE Goto(c, "running"))
    BY <1>1 DEF ContinueExecution
  <2> QED BY <1>1, <2>1, StepEffect
<1>2. CASE ~BreakHere(b)
  <2>1. Put(b) /\ m' = m /\ mRunning' = mRunning /\ Goto(c, "running")
    BY <1>2 DEF ContinueExecution, copies
  <2> QED BY <2>1, PutEffect
<1> QED BY <1>1, <1>2

-----------------------------------------------------------------------------
(***************************************************************************)
(* The inductive invariant: while the debugger runs the process, memory    *)
(* and table agree; between commands the user's breakpoints are set, and   *)
(* while the process runs freely also the one in cmd.temp, which is none   *)
(* of the user's.                                                          *)
(***************************************************************************)
CmdFields == {"name", "at", "ok", "column", "lineInfo", "returnAddress", "function",
              "temp", "depth"}

AtTheStart ==
  cmd.at \in {"attach", "start"} =>
    /\ Coherent(Now) /\ Enabled(mBreakpoints) = {} /\ userBreaks = {}
    /\ cmd.temp = NoAddress

BetweenCommands ==
  /\ cmd.at \in {"prompt", "stepping", "over"} /\ mRunning =>
       Enabled(mBreakpoints) = userBreaks
  /\ cmd.at \in {"stepping", "over"} => cmd.temp = NoAddress

WhileRunning ==
  cmd.at = "running" =>
    \/ cmd.temp = NoAddress /\ Enabled(mBreakpoints) = userBreaks
    \/ /\ cmd.temp # NoAddress /\ cmd.temp \in Addresses \ userBreaks
       /\ Enabled(mBreakpoints) = userBreaks \cup {cmd.temp}

Alive ==
  /\ IsProcess(m) /\ mRunning \in BOOLEAN
  /\ mRunning => Coherent(Now)
  /\ ~mRunning /\ cmd.at # "attach" => ~m.alive
  /\ cmd.at \in {"start", "stepping", "running"} => mRunning

IInv ==
  /\ prog \in Programs
  /\ DOMAIN cmd = CmdFields
  /\ cmd.at \in {"attach", "start", "prompt", "stepping", "over", "running", "ended"}
  /\ AtTheStart /\ BetweenCommands /\ WhileRunning /\ Alive

LEMMA NowhereMapped ==
  ASSUME prog \in Programs
  PROVE  NoAddress \notin Addresses
BY ProgramsAssumption DEF Addresses, NoAddress

LEMMA GotoFields ==
  ASSUME NEW c, DOMAIN c = CmdFields, NEW where, Goto(c, where)
  PROVE  DOMAIN cmd' = CmdFields /\ cmd'.at = where /\ cmd'.temp = c.temp
PROOF
BY DEF Goto, CmdFields

LEMMA ThrowFields ==
  ASSUME NEW c, DOMAIN c = CmdFields, Throw(c)
  PROVE  DOMAIN cmd' = CmdFields /\ cmd'.at = "prompt"
PROOF
BY DEF Throw, CmdFields

LEMMA IdleFields ==
  ASSUME NEW name
  PROVE  DOMAIN Idle(name) = CmdFields /\ Idle(name).temp = NoAddress /\ Idle(name).at = "prompt"
PROOF
BY DEF Idle, CmdFields

LEMMA InitIInv == Init => IInv
PROOF
<1> SUFFICES ASSUME Init PROVE IInv
  OBVIOUS
<1>1. /\ DOMAIN cmd = CmdFields /\ cmd.at = "attach" /\ cmd.temp = NoAddress
  BY DEF Init, Idle, CmdFields
<1>2. Coherent(Now) /\ Enabled(mBreakpoints) = {}
  BY DEF Init, Coherent, Now, Enabled
<1>3. prog \in Programs /\ IsProcess(m)
  <2>1. m \in [pc : {1}, values : {<<>>}, calls : {<<>>}, input : Inputs, alive : {TRUE},
            astray : {FALSE}]
    BY DEF Init, ProgramInit
  <2> QED BY <2>1 DEF Init, ProgramInit, IsProcess
<1> QED BY <1>1, <1>2, <1>3
        DEF Init, IInv, AtTheStart, BetweenCommands, WhileRunning, Alive

\* A command that lets the process go: with its breakpoint in c.temp, if it has one.
LEMMA Release ==
  ASSUME IInv, mRunning, UNCHANGED <<prog, userBreaks>>,
         NEW b, Coherent(b), NEW c, DOMAIN c = CmdFields, ContinueExecution(b, c),
         \/ c.temp = NoAddress /\ Enabled(b.table) = userBreaks
         \/ /\ c.temp # NoAddress /\ c.temp \in Addresses \ userBreaks
            /\ Enabled(b.table) = userBreaks \cup {c.temp}
  PROVE  IInv'
PROOF
<1>1. mRunning = TRUE /\ IsProcess(m) /\ prog' = prog /\ userBreaks' = userBreaks
  BY DEF IInv, Alive
<1>2. /\ IsProcess(m') /\ mRunning' \in BOOLEAN
      /\ \/ Throw(c) /\ ~mRunning' /\ ~m'.alive
         \/ /\ Goto(c, "running") /\ mRunning'
            /\ Coherent(Now)' /\ Enabled(mBreakpoints)' = Enabled(b.table)
  BY <1>1, ContinueEffect
<1>3. CASE Throw(c) /\ ~mRunning' /\ ~m'.alive
  <2>1. DOMAIN cmd' = CmdFields /\ cmd'.at = "prompt"
    BY <1>3, ThrowFields
  <2> QED BY <1>1, <1>2, <1>3, <2>1
          DEF IInv, AtTheStart, BetweenCommands, WhileRunning, Alive, CmdFields
<1>4. CASE /\ Goto(c, "running") /\ mRunning'
           /\ Coherent(Now)' /\ Enabled(mBreakpoints)' = Enabled(b.table)
  <2>1. DOMAIN cmd' = CmdFields /\ cmd'.at = "running" /\ cmd'.temp = c.temp
    BY <1>4, GotoFields
  <2>2. WhileRunning'
    BY <1>1, <1>4, <2>1 DEF WhileRunning, Addresses, NoAddress
  <2> QED BY <1>1, <1>2, <1>4, <2>1, <2>2
          DEF IInv, AtTheStart, BetweenCommands, Alive, CmdFields
<1> QED BY <1>2, <1>3, <1>4

\* A step that leaves process, memory and table alone and goes from the prompt or
\* from a loop to one of them.
LEMMA Rest ==
  ASSUME IInv, cmd.at \in {"prompt", "stepping", "over"},
         UNCHANGED <<processVars, mBreakpoints, copies, userBreaks>>,
         DOMAIN cmd' = CmdFields, cmd'.at \in {"prompt", "stepping", "over"},
         cmd'.at = "stepping" => mRunning,
         cmd'.at \in {"stepping", "over"} => cmd'.temp = NoAddress
  PROVE  IInv'
PROOF
<1>1. /\ prog' = prog /\ m' = m /\ code' = code /\ mBreakpoints' = mBreakpoints
      /\ mRunning' = mRunning /\ userBreaks' = userBreaks
  BY DEF processVars, copies
<1>2. Coherent(Now)' <=> Coherent(Now)
  BY <1>1 DEF Coherent, Now, Addresses, Enabled
<1>3. Enabled(mBreakpoints)' = Enabled(mBreakpoints)
  BY <1>1
<1> QED BY <1>1, <1>2, <1>3
        DEF IInv, AtTheStart, BetweenCommands, WhileRunning, Alive, CmdFields

LEMMA AttachIInv == IInv /\ Attach => IInv'
PROOF
<1> SUFFICES ASSUME IInv, Attach PROVE IInv'
  OBVIOUS
<1>1. /\ prog' = prog /\ m' = m /\ code' = code /\ mBreakpoints' = mBreakpoints
      /\ mRunning' = TRUE /\ userBreaks' = userBreaks /\ cmd.at = "attach"
  BY DEF Attach, processVars
<1>2. DOMAIN cmd' = CmdFields /\ cmd'.at = "start" /\ cmd'.temp = cmd.temp
  BY GotoFields DEF Attach, IInv
<1>3. Coherent(Now)' <=> Coherent(Now)
  BY <1>1 DEF Coherent, Now, Addresses, Enabled
<1>4. Enabled(mBreakpoints)' = Enabled(mBreakpoints)
  BY <1>1
<1> QED BY <1>1, <1>2, <1>3, <1>4
        DEF IInv, AtTheStart, BetweenCommands, WhileRunning, Alive, CmdFields

LEMMA StartIInv == IInv /\ Start => IInv'
PROOF
<1> SUFFICES ASSUME IInv, Start PROVE IInv'
  OBVIOUS
<1>1. /\ prog' = prog /\ userBreaks' = userBreaks /\ cmd.at = "start" /\ mRunning
      /\ Coherent(Now) /\ Enabled(mBreakpoints) = {} /\ userBreaks = {}
  BY DEF Start, IInv, AtTheStart, Alive
<1>2. PICK entry : entry = getFunctionPrologueEndAddress("entry")
  OBVIOUS
<1>3. CASE entry \notin Addresses
  <2>1. /\ m' = m /\ code' = code /\ mBreakpoints' = mBreakpoints /\ mRunning' = mRunning
        /\ Goto(cmd, "ended")
    BY <1>2, <1>3 DEF Start, processVars, copies
  <2>2. DOMAIN cmd' = CmdFields /\ cmd'.at = "ended"
    BY <2>1, GotoFields DEF IInv
  <2>3. Coherent(Now)'
    BY <1>1, <2>1 DEF Coherent, Now, Addresses, Enabled
  <2> QED BY <1>1, <2>1, <2>2, <2>3
          DEF IInv, AtTheStart, BetweenCommands, WhileRunning, Alive, CmdFields
<1>4. CASE entry \in Addresses
  <2>1. PICK b, c : b = AddBreakpoint(Now, entry) /\ c = [cmd EXCEPT !.temp = entry]
    OBVIOUS
  <2>2. ContinueExecution(b, c)
    BY <1>2, <1>4, <2>1 DEF Start
  <2>3. DOMAIN c = CmdFields /\ c.temp = entry
    BY <2>1 DEF IInv, CmdFields
  <2>4. Coherent(b) /\ Enabled(b.table) = {entry}
    <3>1. /\ Coherent(b)
          /\ Enabled(b.table) = Enabled(Now.table) \cup (IF entry \in Addresses THEN {entry} ELSE {})
      BY <1>1, <2>1, AddCoherent
    <3> QED BY <1>1, <1>4, <3>1 DEF Now
  <2>5. entry # NoAddress
    BY <1>4, NowhereMapped DEF IInv
  <2> QED BY <1>1, <1>4, <2>2, <2>3, <2>4, <2>5, Release
<1> QED BY <1>3, <1>4

LEMMA CmdContinueIInv == IInv /\ CmdContinue => IInv'
PROOF
<1> SUFFICES ASSUME IInv, CmdContinue PROVE IInv'
  OBVIOUS
<1>1. PICK b, c : b = Now /\ c = Idle("continue")
  OBVIOUS
<1>2. mRunning /\ Coherent(b) /\ Enabled(b.table) = userBreaks
  BY <1>1 DEF CmdContinue, Ready, IInv, Alive, BetweenCommands, Now
<1>3. DOMAIN c = CmdFields /\ c.temp = NoAddress
  BY <1>1, IdleFields
<1>4. ContinueExecution(b, c) /\ UNCHANGED <<prog, userBreaks>>
  BY <1>1 DEF CmdContinue
<1> QED BY <1>2, <1>3, <1>4, Release

LEMMA CmdStepIInv == IInv /\ (\E column \in BOOLEAN : CmdStep(column)) => IInv'
PROOF
<1> SUFFICES ASSUME IInv, NEW column \in BOOLEAN, CmdStep(column) PROVE IInv'
  OBVIOUS
<1>1. PICK c : c = [Idle("step") EXCEPT !.column = column, !.lineInfo = getLineEntry(mPc)]
  OBVIOUS
<1>2. DOMAIN c = CmdFields /\ c.temp = NoAddress
  BY <1>1 DEF Idle, CmdFields
<1>3. Goto(c, "stepping") /\ Ready
      /\ UNCHANGED <<processVars, mBreakpoints, copies, userBreaks>>
  BY <1>1 DEF CmdStep
<1>4. DOMAIN cmd' = CmdFields /\ cmd'.at = "stepping" /\ cmd'.temp = NoAddress
  BY <1>2, <1>3, GotoFields
<1> QED BY <1>3, <1>4, Rest DEF Ready

LEMMA CmdNextIInv == IInv /\ (\E column \in BOOLEAN : CmdNext(column)) => IInv'
PROOF
<1> SUFFICES ASSUME IInv, NEW column \in BOOLEAN, CmdNext(column) PROVE IInv'
  OBVIOUS
<1>1. PICK c : c = [Idle("next") EXCEPT !.column = column, !.lineInfo = getLineEntry(mPc),
                      !.returnAddress = getReturnAddress, !.function = getFunctionName(mPc)]
  OBVIOUS
<1>2. DOMAIN c = CmdFields /\ c.temp = NoAddress
  BY <1>1 DEF Idle, CmdFields
<1>3. (Throw(c) \/ Goto(c, "stepping")) /\ Ready
      /\ UNCHANGED <<processVars, mBreakpoints, copies, userBreaks>>
  BY <1>1 DEF CmdNext
<1>4. DOMAIN cmd' = CmdFields /\ cmd'.at \in {"prompt", "stepping"}
      /\ (cmd'.at = "stepping" => cmd'.temp = NoAddress)
  BY <1>2, <1>3, GotoFields, ThrowFields
<1> QED BY <1>3, <1>4, Rest DEF Ready

\* stepOut, for finish and for next: the temporary breakpoint is not the user's.
LEMMA StepOutIInv ==
  ASSUME IInv, mRunning, cmd.at \in {"prompt", "over"},
         UNCHANGED <<prog, userBreaks>>,
         NEW c, DOMAIN c = CmdFields, c.temp = NoAddress, StepOut(c)
  PROVE  IInv'
PROOF
<1>1. Coherent(Now) /\ Enabled(mBreakpoints) = userBreaks /\ prog' = prog
      /\ userBreaks' = userBreaks
  BY DEF IInv, Alive, BetweenCommands
<1>2. PICK a : a = getReturnAddress
  OBVIOUS
<1>3. CASE a \in Enabled(mBreakpoints)
  <2>1. PICK b : b = Now
    OBVIOUS
  <2>2. ContinueExecution(b, c)
    <3>1. a \in Addresses
      BY <1>1, <1>3 DEF Coherent, Now
    <3> QED BY <1>2, <1>3, <2>1, <3>1 DEF StepOut
  <2>3. Coherent(b) /\ Enabled(b.table) = userBreaks
    BY <1>1, <2>1 DEF Now
  <2> QED BY <2>2, <2>3, Release
<1>4. CASE a \notin Enabled(mBreakpoints)
  <2>1. PICK b : b = AddBreakpoint(Now, a)
    OBVIOUS
  <2>2. Coherent(b) /\ Enabled(b.table) = userBreaks \cup (IF a \in Addresses THEN {a} ELSE {})
    <3>1. /\ Coherent(b)
          /\ Enabled(b.table) = Enabled(Now.table) \cup (IF a \in Addresses THEN {a} ELSE {})
      BY <1>1, <2>1, AddCoherent
    <3> QED BY <1>1, <3>1 DEF Now
  <2>3. CASE a \notin Addresses
    <3>1. Put(b) /\ m' = m /\ mRunning' = mRunning /\ Throw(c)
      BY <1>2, <1>4, <2>1, <2>3 DEF StepOut, copies
    <3>2. Coherent(Now)' /\ Enabled(mBreakpoints)' = userBreaks
      BY <1>1, <2>2, <2>3, <3>1, PutEffect
    <3>3. DOMAIN cmd' = CmdFields /\ cmd'.at = "prompt"
      BY <3>1, ThrowFields
    <3> QED BY <1>1, <3>1, <3>2, <3>3
            DEF IInv, AtTheStart, BetweenCommands, WhileRunning, Alive, CmdFields
  <2>4. CASE a \in Addresses
    <3>1. PICK d : d = [c EXCEPT !.temp = a]
      OBVIOUS
    <3>2. ContinueExecution(b, d)
      BY <1>2, <1>4, <2>1, <2>4, <3>1 DEF StepOut
    <3>3. DOMAIN d = CmdFields /\ d.temp = a
      BY <3>1 DEF CmdFields
    <3>4. a # NoAddress
      BY <2>4, NowhereMapped DEF IInv
    <3> QED BY <1>1, <1>4, <2>2, <2>4, <3>2, <3>3, <3>4, Release
  <2> QED BY <2>3, <2>4
<1> QED BY <1>3, <1>4

LEMMA CmdFinishIInv == IInv /\ CmdFinish => IInv'
PROOF
<1> SUFFICES ASSUME IInv, CmdFinish PROVE IInv'
  OBVIOUS
<1>1. PICK c : c = Idle("finish")
  OBVIOUS
<1>2. DOMAIN c = CmdFields /\ c.temp = NoAddress
  BY <1>1, IdleFields
<1>3. StepOut(c) /\ UNCHANGED <<prog, userBreaks>> /\ mRunning /\ cmd.at = "prompt"
  BY <1>1 DEF CmdFinish, Ready
<1> QED BY <1>2, <1>3, StepOutIInv

\* A breakpoint of the user, wherever it is asked for.
LEMMA SetBreakpointIInv ==
  ASSUME IInv, Ready, NEW a, NEW c, DOMAIN c = CmdFields, c.at = "prompt",
         SetBreakpoint(a, c)
  PROVE  IInv'
PROOF
<1>1. /\ Coherent(Now) /\ Enabled(mBreakpoints) = userBreaks /\ mRunning
      /\ prog' = prog /\ m' = m /\ mRunning' = mRunning
  BY DEF IInv, Alive, BetweenCommands, Ready, SetBreakpoint, copies
<1>2. DOMAIN cmd' = CmdFields /\ cmd'.at = "prompt"
  BY ThrowFields DEF SetBreakpoint
<1>3. Coherent(Now)' /\ Enabled(mBreakpoints)' = userBreaks'
  <2>1. CASE a \notin Addresses
    <3>1. code' = code /\ mBreakpoints' = mBreakpoints /\ userBreaks' = userBreaks
      BY <2>1 DEF SetBreakpoint
    <3> QED BY <1>1, <3>1 DEF Coherent, Now, Addresses, Enabled
  <2>2. CASE a \in Addresses
    <3>1. PICK b : b = AddBreakpoint(Now, a)
      OBVIOUS
    <3>2. Put(b) /\ userBreaks' = userBreaks \cup {a}
      BY <2>2, <3>1 DEF SetBreakpoint
    <3>3. /\ Coherent(b)
          /\ Enabled(b.table) = Enabled(Now.table) \cup (IF a \in Addresses THEN {a} ELSE {})
      BY <1>1, <3>1, AddCoherent
    <3>4. Coherent(Now)' /\ Enabled(mBreakpoints)' = Enabled(b.table)
      BY <1>1, <3>2, <3>3, PutEffect
    <3> QED BY <1>1, <2>2, <3>2, <3>3, <3>4 DEF Now
  <2> QED BY <2>1, <2>2
<1> QED BY <1>1, <1>2, <1>3
        DEF IInv, AtTheStart, BetweenCommands, WhileRunning, Alive, CmdFields

LEMMA CmdBreakIInv ==
  IInv /\ (\/ \E f \in Functions : CmdBreakFunction(f)
           \/ \E line \in Lines, column \in 1 .. 2 : CmdBreakLine(line, column)) => IInv'
PROOF
<1> SUFFICES ASSUME IInv,
                    \/ \E f \in Functions : CmdBreakFunction(f)
                    \/ \E line \in Lines, column \in 1 .. 2 : CmdBreakLine(line, column)
             PROVE  IInv'
  OBVIOUS
<1>1. PICK a, c : DOMAIN c = CmdFields /\ c.at = "prompt" /\ SetBreakpoint(a, c) /\ Ready
  <2>1. \A f : CmdBreakFunction(f) =>
          SetBreakpoint(getFunctionPrologueEndAddress(f), Idle("break")) /\ Ready
    BY DEF CmdBreakFunction
  <2>2. DOMAIN Idle("break") = CmdFields /\ Idle("break").at = "prompt"
    BY DEF Idle, CmdFields
  <2>3. \A line, column : CmdBreakLine(line, column) =>
          \E a : SetBreakpoint(a, Idle("break")) /\ Ready
    BY DEF CmdBreakLine
  <2> QED BY <2>1, <2>2, <2>3, IdleFields
<1> QED BY <1>1, SetBreakpointIInv

LEMMA StepFromIInv == IInv /\ StepFrom => IInv'
PROOF
<1> SUFFICES ASSUME IInv, StepFrom PROVE IInv'
  OBVIOUS
<1>1. /\ prog' = prog /\ userBreaks' = userBreaks /\ cmd.at = "stepping"
      /\ mRunning = TRUE /\ IsProcess(m)
      /\ Coherent(Now) /\ Enabled(mBreakpoints) = userBreaks /\ cmd.temp = NoAddress
  BY DEF StepFrom, IInv, Alive, BetweenCommands
<1>2. PICK b : b = Now
  OBVIOUS
<1>3. StepX64(b) /\ Coherent(b) /\ Enabled(b.table) = userBreaks
  BY <1>1, <1>2 DEF StepFrom, Now
<1>4. /\ IsProcess(m') /\ mRunning' \in BOOLEAN /\ (~mRunning' => ~m'.alive)
      /\ StepThrows(b) => ~mRunning'
      /\ mRunning' => Coherent(Now)' /\ Enabled(mBreakpoints)' = userBreaks
  BY <1>1, <1>3, StepEffect
<1>5. /\ DOMAIN cmd' = CmdFields
      /\ \/ cmd'.at \in {"over", "prompt"}
         \/ cmd'.at = "stepping" /\ mRunning'
      /\ cmd'.at \in {"over", "stepping"} => cmd'.temp = NoAddress
  <2>1. CASE Throw(cmd)
    BY <2>1, ThrowFields DEF IInv
  <2>2. CASE cmd' = cmd /\ mRunning'
    BY <1>1, <2>2 DEF IInv
  <2>3. CASE Goto(cmd, "over") \/ Goto(cmd, "prompt")
    BY <1>1, <2>3, GotoFields DEF IInv
  <2>4. Throw(cmd) \/ (cmd' = cmd /\ mRunning') \/ Goto(cmd, "over") \/ Goto(cmd, "prompt")
    BY DEF StepFrom
  <2> QED BY <2>1, <2>2, <2>3, <2>4
<1> QED BY <1>1, <1>4, <1>5
        DEF IInv, AtTheStart, BetweenCommands, WhileRunning, Alive, CmdFields

LEMMA StepOverIInv == IInv /\ StepOver => IInv'
PROOF
<1> SUFFICES ASSUME IInv, StepOver PROVE IInv'
  OBVIOUS
<1>1. /\ cmd.at = "over" /\ cmd.temp = NoAddress /\ DOMAIN cmd = CmdFields
      /\ prog' = prog /\ userBreaks' = userBreaks
  BY DEF StepOver, IInv, BetweenCommands
<1>2. \/ mRunning /\ StepOut(cmd)
      \/ /\ UNCHANGED <<m, code, mBreakpoints, copies>>
         /\ \/ Throw(cmd) \/ Goto(cmd, "prompt")
            \/ Goto(cmd, "stepping") /\ mRunning
  BY DEF StepOver
<1>3. CASE mRunning /\ StepOut(cmd)
  BY <1>1, <1>3, StepOutIInv
<1>4. CASE /\ UNCHANGED <<m, code, mBreakpoints, copies>>
           /\ \/ Throw(cmd) \/ Goto(cmd, "prompt")
              \/ Goto(cmd, "stepping") /\ mRunning
  <2>1. /\ DOMAIN cmd' = CmdFields /\ cmd'.at \in {"prompt", "stepping"}
        /\ cmd'.at = "stepping" => cmd'.temp = NoAddress /\ mRunning
    BY <1>1, <1>4, GotoFields, ThrowFields
  <2>2. UNCHANGED <<processVars, mBreakpoints, copies, userBreaks>>
    BY <1>1, <1>4 DEF processVars
  <2> QED BY <1>1, <2>1, <2>2, Rest
<1> QED BY <1>2, <1>3, <1>4

\* The process runs freely by one instruction, or stops and is waited for.
LEMMA RunIInv == IInv /\ Run => IInv'
PROOF
<1> SUFFICES ASSUME IInv, Run PROVE IInv'
  OBVIOUS
<1>1. /\ prog' = prog /\ userBreaks' = userBreaks /\ cmd.at = "running"
      /\ mRunning = TRUE /\ IsProcess(m) /\ Coherent(Now) /\ DOMAIN cmd = CmdFields
      /\ \/ cmd.temp = NoAddress /\ Enabled(mBreakpoints) = userBreaks
         \/ /\ cmd.temp # NoAddress /\ cmd.temp \in Addresses \ userBreaks
            /\ Enabled(mBreakpoints) = userBreaks \cup {cmd.temp}
  BY DEF Run, IInv, Alive, WhileRunning
<1>2. CASE Signal(code) \in StepSignals
  <2>1. /\ m' = Stopped(code) /\ code' = code /\ mBreakpoints' = mBreakpoints
        /\ mRunning' = mRunning /\ cmd' = cmd
    BY <1>2 DEF Run, copies
  <2>2. IsProcess(m')
    <3>1. Stopped(code) = Executed(Instruction)
      BY <1>2 DEF Stopped, StepSignals
    <3> QED BY <1>1, <2>1, <3>1, ExecutedFields, Zenon
  <2>3. Coherent(Now)'
    BY <1>1, <2>1 DEF Coherent, Now, Addresses, Enabled
  <2>4. WhileRunning'
    BY <1>1, <2>1 DEF WhileRunning, Addresses, NoAddress, Enabled
  <2> QED BY <1>1, <2>1, <2>2, <2>3, <2>4
          DEF IInv, AtTheStart, BetweenCommands, Alive
<1>3. CASE Signal(code) \notin StepSignals
  <2>1. Stop
    BY <1>3 DEF Run
  <2>2. PICK c : c = [cmd EXCEPT !.temp = NoAddress]
    OBVIOUS
  <2>3. DOMAIN c = CmdFields /\ c.temp = NoAddress
    BY <1>1, <2>2 DEF CmdFields
  <2>4. /\ IsProcess(m') /\ mRunning' \in BOOLEAN /\ (~mRunning' => ~m'.alive)
        /\ Signal(code) = "exit" => ~mRunning'
    <3>1. PICK b : b = code /\ Wait(b)
      BY <2>1 DEF Stop
    <3>2. /\ Signal(b) = "exit" => ~mRunning' /\ ~m'.alive
          /\ Signal(b) # "exit" => mRunning' = mRunning
          /\ IsProcess(m') /\ mRunning' \in BOOLEAN
      BY <1>1, <3>1, WaitEffect
    <3> QED BY <1>1, <3>1, <3>2
  <2>5. /\ DOMAIN cmd' = CmdFields /\ cmd'.at \in {"over", "prompt", "ended"}
        /\ cmd'.at = "over" => cmd'.temp = NoAddress
    <3>1. Goto(c, "over") \/ Goto(c, "prompt") \/ Goto(c, "ended") \/ Throw(c)
      BY <2>1, <2>2 DEF Stop
    <3> QED BY <2>3, <3>1, GotoFields, ThrowFields
  <2>6. ASSUME mRunning'
        PROVE  Coherent(Now)' /\ Enabled(mBreakpoints)' = userBreaks'
    <3>1. CASE cmd.temp = NoAddress
      <4>1. PICK b : b = Now
        OBVIOUS
      <4>2. Put(b)
        BY <2>1, <3>1, <4>1 DEF Stop
      <4>3. Coherent(b) /\ Enabled(b.table) = userBreaks
        BY <1>1, <3>1, <4>1 DEF Now
      <4> QED BY <1>1, <4>2, <4>3, PutEffect
    <3>2. CASE cmd.temp # NoAddress
      <4>1. PICK b : b = Disable(Now, cmd.temp)
        OBVIOUS
      <4>2. Put(b)
        BY <2>1, <2>4, <2>6, <3>2, <4>1 DEF Stop
      <4>3. cmd.temp \in DOMAIN Now.table /\ cmd.temp \in Addresses
        BY <1>1, <3>2 DEF Enabled, Now
      <4>4. Coherent(b) /\ Enabled(b.table) = Enabled(Now.table) \ {cmd.temp}
        BY <1>1, <4>1, <4>3, DisableCoherent
      <4>5. Enabled(b.table) = userBreaks
        BY <1>1, <3>2, <4>4 DEF Now
      <4> QED BY <1>1, <4>2, <4>4, <4>5, PutEffect
    <3> QED BY <3>1, <3>2
  <2> QED BY <1>1, <2>4, <2>5, <2>6
          DEF IInv, AtTheStart, BetweenCommands, WhileRunning, Alive, CmdFields
<1> QED BY <1>2, <1>3

LEMMA StutterIInv == IInv /\ UNCHANGED vars => IInv'
PROOF
BY DEF vars, processVars, copies, IInv, AtTheStart, BetweenCommands, WhileRunning, Alive,
       Coherent, Now, Addresses, Enabled

LEMMA StepKeepsIInv == IInv /\ [Next]_vars => IInv'
PROOF
BY AttachIInv, StartIInv, CmdContinueIInv, CmdStepIInv, CmdNextIInv, CmdFinishIInv,
   CmdBreakIInv, StepFromIInv, StepOverIInv, RunIInv, StutterIInv
   DEF Next, Command, Work

LEMMA InvariantHolds == Spec => []IInv
PROOF
BY InitIInv, StepKeepsIInv, PTL DEF Spec

-----------------------------------------------------------------------------
\* While the process lives, int3 stands where a breakpoint is enabled and nowhere
\* else, and disabling one writes the program's own byte back (breakpoint.hpp:25-43).
THEOREM BreakpointsCoherentHolds == Spec => []BreakpointsCoherent
PROOF
<1>1. IInv => BreakpointsCoherent
  BY DEF IInv, Alive, AtTheStart, Coherent, Now, BreakpointsCoherent
<1> QED BY <1>1, InvariantHolds, PTL

\* At the prompt the breakpoints that are set are those of the user
\* (debugger.cpp:171-201).
THEOREM UserBreakpointsStayHolds == Spec => []UserBreakpointsStay
PROOF
<1>1. IInv => UserBreakpointsStay
  BY DEF IInv, BetweenCommands, Ready, UserBreakpointsStay
<1> QED BY <1>1, InvariantHolds, PTL

\* A process that is let go and comes to a breakpoint of the user stays there: wait
\* puts it back before the instruction (debugger.cpp:312-380).
THEOREM StopsAtBreakpointsHolds == Spec => StopsAtBreakpoints
PROOF
<1>1. ASSUME IInv, [Next]_vars, cmd.at = "running", m.pc \in userBreaks
      PROVE  m' = m
  <2>1. CASE Run
    <3>1. m.pc \in Addresses /\ code[m.pc] = "int3"
      BY <1>1 DEF IInv, Alive, WhileRunning, Coherent, Now
    <3>2. m.pc \in Nat
      BY <1>1, <3>1, ProgramsAssumption DEF IInv, Addresses
    <3>3. PICK c : c = code
      OBVIOUS
    <3>4. Signal(c) = "int3"
      BY <3>1, <3>3 DEF Signal
    <3>5. Wait(c)
      BY <2>1, <3>3, <3>4 DEF Run, Stop, StepSignals
    <3>6. IsProcess(m)
      BY <1>1 DEF IInv, Alive
    <3>7. PICK p : p = Stopped(c) /\ p = [m EXCEPT !.pc = m.pc + 1]
      BY <3>4 DEF Stopped
    <3>8. m' = [p EXCEPT !.pc = StopPc("int3", p.pc)]
      BY <3>4, <3>5, <3>7 DEF Wait
    <3>9. p.pc = m.pc + 1
      BY <3>6, <3>7 DEF IsProcess
    <3>10. StopPc("int3", p.pc) = m.pc
      BY <3>2, <3>9 DEF StopPc
    <3> QED BY <3>6, <3>7, <3>8, <3>10 DEF IsProcess
  <2>2. CASE UNCHANGED vars
    BY <2>2 DEF vars, processVars
  <2>3. Run \/ UNCHANGED vars
    BY <1>1 DEF Next, Command, Work, Attach, Start, StepFrom, StepOver, CmdContinue,
                CmdFinish, CmdStep, CmdNext, CmdBreakFunction, CmdBreakLine, Ready
  <2> QED BY <2>1, <2>2, <2>3
<1>2. IInv /\ [Next]_vars => [cmd.at = "running" /\ m.pc \in userBreaks => m' = m]_vars
  BY <1>1
<1> QED BY <1>2, InvariantHolds, PTL DEF Spec, StopsAtBreakpoints

-----------------------------------------------------------------------------
\* The copies of the registers are those of the process, if it is there.
Copied == mRunning => mPc = m.pc /\ mRegs = Registers(m)

LEMMA WaitCopies ==
  ASSUME NEW c, Wait(c), IsProcess(m)
  PROVE  Copied'
PROOF
<1>1. \A f, x, v : IsProcess(f) => IsProcess([f EXCEPT ![x] = v])
  BY DEF IsProcess
<1>2. IsProcess(Stopped(c))
  BY <1>1, ExecutedFields, Zenon DEF Stopped
<1>3. CASE Signal(c) = "exit"
  <2>1. mRunning' = FALSE
    BY <1>3, Zenon DEF Wait
  <2> QED BY <2>1 DEF Copied
<1>4. CASE Signal(c) # "exit"
  <2>1. PICK pc : /\ mPc' = pc
                  /\ m' = [Stopped(c) EXCEPT !.pc = pc]
                  /\ mRegs' = Registers(m')
    BY <1>4 DEF Wait
  <2>2. m'.pc = pc
    BY <1>2, <2>1 DEF IsProcess
  <2> QED BY <2>1, <2>2 DEF Copied, Registers
<1> QED BY <1>3, <1>4

\* Without a wait the process and the copies stay as they are.
LEMMA CopiesUnchanged == Copied /\ UNCHANGED <<m, copies>> => Copied'
PROOF
BY DEF Copied, copies, Registers

\* A process that is let go needs no copies.
LEMMA ContinueCopies ==
  ASSUME NEW b, NEW c, DOMAIN c = CmdFields, ContinueExecution(b, c), IsProcess(m)
  PROVE  cmd'.at = "running" \/ Copied'
PROOF
<1>1. CASE BreakHere(b)
  <2>1. \E x : Wait(x)
    BY <1>1 DEF ContinueExecution, StepX64
  <2> QED BY <2>1, WaitCopies
<1>2. CASE ~BreakHere(b)
  <2>1. Goto(c, "running")
    BY <1>2 DEF ContinueExecution
  <2> QED BY <2>1, GotoFields
<1> QED BY <1>1, <1>2

LEMMA StepOutCopies ==
  ASSUME NEW c, DOMAIN c = CmdFields, StepOut(c), IsProcess(m), Copied
  PROVE  cmd'.at = "running" \/ Copied'
PROOF
<1>1. \A t : DOMAIN [c EXCEPT !.temp = t] = CmdFields
  OBVIOUS
<1>2. \/ UNCHANGED <<m, copies>>
      \/ ContinueExecution(Now, c)
      \/ \E b, t : ContinueExecution(b, [c EXCEPT !.temp = t])
  BY DEF StepOut
<1>3. CASE UNCHANGED <<m, copies>>
  BY <1>3, CopiesUnchanged
<1>4. CASE ContinueExecution(Now, c)
  BY <1>4, ContinueCopies
<1>5. CASE \E b, t : ContinueExecution(b, [c EXCEPT !.temp = t])
  BY <1>1, <1>5, ContinueCopies
<1> QED BY <1>2, <1>3, <1>4, <1>5

FreshInv == cmd.at \in {"prompt", "stepping", "over"} => Copied

LEMMA FreshStep == IInv /\ FreshInv /\ [Next]_vars => FreshInv'
PROOF
<1> SUFFICES ASSUME IInv, FreshInv, [Next]_vars PROVE FreshInv'
  OBVIOUS
<1>0. IsProcess(m) /\ DOMAIN cmd = CmdFields
  BY DEF IInv, Alive
<1>1. CASE Attach
  <2>1. cmd'.at = "start"
    BY <1>0, <1>1, GotoFields DEF Attach
  <2> QED BY <2>1 DEF FreshInv
<1>2. CASE Start
  <2>1. CASE Goto(cmd, "ended")
    <3>1. cmd'.at = "ended"
      BY <1>0, <2>1, GotoFields
    <3> QED BY <3>1 DEF FreshInv
  <2>2. CASE ~Goto(cmd, "ended")
    <3>1. PICK b, t : ContinueExecution(b, [cmd EXCEPT !.temp = t])
      BY <1>2, <2>2 DEF Start
    <3>2. DOMAIN [cmd EXCEPT !.temp = t] = CmdFields
      BY <1>0
    <3>3. cmd'.at = "running" \/ Copied'
      BY <1>0, <3>1, <3>2, ContinueCopies
    <3> QED BY <3>3 DEF FreshInv
  <2> QED BY <2>1, <2>2
<1>3. CASE CmdContinue
  <2>1. ContinueExecution(Now, Idle("continue"))
    BY <1>3 DEF CmdContinue
  <2>2. cmd'.at = "running" \/ Copied'
    BY <1>0, <2>1, ContinueCopies, IdleFields
  <2> QED BY <2>2 DEF FreshInv
<1>4. CASE CmdFinish
  <2>1. StepOut(Idle("finish")) /\ cmd.at = "prompt"
    BY <1>4 DEF CmdFinish, Ready
  <2>2. cmd'.at = "running" \/ Copied'
    BY <1>0, <2>1, StepOutCopies, IdleFields DEF FreshInv
  <2> QED BY <2>2 DEF FreshInv
<1>5. CASE \/ \E column \in BOOLEAN : CmdStep(column) \/ CmdNext(column)
           \/ \E f \in Functions : CmdBreakFunction(f)
           \/ \E line \in Lines, column \in 1 .. 2 : CmdBreakLine(line, column)
  <2>1. cmd.at = "prompt" /\ UNCHANGED <<m, copies>>
    BY <1>5 DEF CmdStep, CmdNext, CmdBreakFunction, CmdBreakLine, SetBreakpoint, Ready,
                processVars
  <2> QED BY <2>1, CopiesUnchanged DEF FreshInv
<1>6. CASE StepFrom
  <2>1. \E x : Wait(x)
    BY <1>6 DEF StepFrom, StepX64
  <2> QED BY <1>0, <2>1, WaitCopies DEF FreshInv
<1>7. CASE StepOver
  <2>1. Copied
    BY <1>7 DEF StepOver, FreshInv
  <2>2. UNCHANGED <<m, copies>> \/ StepOut(cmd)
    BY <1>7 DEF StepOver
  <2>3. cmd'.at = "running" \/ Copied'
    BY <1>0, <2>1, <2>2, CopiesUnchanged, StepOutCopies
  <2> QED BY <2>3 DEF FreshInv
<1>8. CASE Run
  <2>1. CASE Signal(code) \in StepSignals
    BY <1>8, <2>1 DEF Run, FreshInv
  <2>2. CASE Signal(code) \notin StepSignals
    <3>1. \E x : Wait(x)
      BY <1>8, <2>2 DEF Run, Stop
    <3> QED BY <1>0, <3>1, WaitCopies DEF FreshInv
  <2> QED BY <2>1, <2>2
<1>9. CASE UNCHANGED vars
  BY <1>9, CopiesUnchanged DEF vars, processVars, FreshInv
<1> QED BY <1>1, <1>2, <1>3, <1>4, <1>5, <1>6, <1>7, <1>8, <1>9 DEF Next, Command, Work

\* Whenever the debugger decides on its copies of the registers, they are those of
\* the process, for every set of programs and every sequence of commands: each wait
\* refreshes them, and nothing decides before the first (debugger.cpp:312-380).
THEOREM CopiesFreshHolds == Spec => []CopiesFresh
PROOF
<1>1. Init => IInv /\ FreshInv
  BY InitIInv DEF Init, Idle, FreshInv
<1>2. IInv /\ FreshInv /\ [Next]_vars => (IInv /\ FreshInv)'
  BY StepKeepsIInv, FreshStep
<1>3. FreshInv => CopiesFresh
  BY DEF FreshInv, Copied, CopiesFresh
<1> QED BY <1>1, <1>2, <1>3, PTL DEF Spec

-----------------------------------------------------------------------------
(***************************************************************************)
(* The two stacks of a process q.  Between a call and the prologue there   *)
(* is one return place on the value stack, otherwise there is none; all    *)
(* others are in calls, the lowest of them in _start.                      *)
(***************************************************************************)
ReturnPlace(a, inner) == Within(prog, a) /\ (InFunction(prog, a) <=> inner)

Balanced(q) ==
  /\ q \in Process /\ q.pc \in Addresses
  /\ \A i \in 1 .. Len(q.calls) : ReturnPlace(q.calls[i], i > 1)
  /\ prog.text[q.pc].op = "enter" =>
       Len(q.values) = 1 /\ ReturnPlace(q.values[1], Len(q.calls) > 0)
  /\ prog.text[q.pc].op # "enter" =>
       Len(q.values) = 0 /\ (InFunction(prog, q.pc) <=> Len(q.calls) > 0)

\* What the assumptions say of the image that runs.
LEMMA ImageFacts ==
  ASSUME prog \in Programs
  PROVE  /\ Len(prog.text) \in Nat /\ Addresses = 1 .. Len(prog.text)
         /\ \A a \in Addresses : prog.text[a].op \in
              {"plain", "call", "enter", "leave", "jmp", "je", "syscall", "inside",
               "fault", "exit"}
         /\ \A a \in Addresses : prog.text[a].op \in {"plain", "call", "enter", "je"} =>
              Follows(prog, a, a + 1)
         /\ \A a \in Addresses : prog.text[a].op \in {"jmp", "je", "inside"} =>
              Follows(prog, a, a + prog.text[a].by)
         /\ \A a \in Addresses : prog.text[a].op = "syscall" =>
              /\ Follows(prog, a, a + 2)
              /\ a + 1 \in Addresses /\ prog.text[a + 1].op = "inside"
              /\ InFunction(prog, a) <=> InFunction(prog, a + 1)
         /\ \A a \in Addresses : prog.text[a].op = "call" =>
              \E f \in Functions : prog.text[a].to = prog.functions[f].start
         /\ \A a \in Addresses : prog.text[a].op = "enter" =>
              \E f \in Functions : a = prog.functions[f].start
         /\ \A a \in Addresses : prog.text[a].op = "leave" => InFunction(prog, a)
PROOF
BY ProgramsAssumption, ImagesAssumption DEF Addresses, InstructionsFollow, Functions

\* The prologue is in its function.
LEMMA PrologueWithin ==
  ASSUME prog \in Programs, NEW f \in Functions
  PROVE  /\ prog.functions[f].start \in Addresses
         /\ prog.text[prog.functions[f].start].op = "enter"
         /\ InFunction(prog, prog.functions[f].start)
PROOF
<1>1. FunctionsLaidOut(prog)
  BY ImagesAssumption
<1>2. /\ prog.functions[f].start \in Addresses
      /\ prog.text[prog.functions[f].start].op = "enter"
      /\ prog.functions[f].end \in Nat /\ prog.functions[f].start < prog.functions[f].end
  BY <1>1 DEF FunctionsLaidOut, Functions, Addresses
<1>3. prog.functions[f].start \in Nat
  BY <1>2, ImageFacts
<1>4. prog.functions[f].start \in CodeOf(prog, f)
  BY <1>2, <1>3 DEF CodeOf
<1> QED BY <1>2, <1>4 DEF InFunction, Functions

\* A stack without its top, and with one more.
LEMMA PopCalls ==
  ASSUME NEW s \in Seq(Nat), Len(s) > 0
  PROVE  /\ Front(s) \in Seq(Nat) /\ Len(Front(s)) = Len(s) - 1
         /\ \A i \in 1 .. Len(s) - 1 : Front(s)[i] = s[i]
         /\ Last(s) = s[Len(s)] /\ Last(s) \in Nat
PROOF
<1>1. Len(s) \in Nat /\ Len(s) - 1 \in 0 .. Len(s)
  OBVIOUS
<1>2. PICK n : n = Len(s) - 1
  OBVIOUS
<1>3. /\ SubSeq(s, 1, n) \in Seq(Nat) /\ Len(SubSeq(s, 1, n)) = n
      /\ \A i \in 1 .. n : SubSeq(s, 1, n)[i] = s[i]
  BY <1>1, <1>2, FirstElements
<1>4. Front(s) = SubSeq(s, 1, n)
  BY <1>2 DEF Front
<1> QED BY <1>1, <1>2, <1>3, <1>4 DEF Last

\* A stack of one element without its top.
LEMMA PopOnly ==
  ASSUME NEW s \in Seq(Nat), Len(s) = 1
  PROVE  Front(s) \in Seq(Nat) /\ Len(Front(s)) = 0 /\ Last(s) = s[1] /\ s[1] \in Nat
PROOF
<1>1. Len(s) > 0 /\ Len(s) - 1 = 0
  OBVIOUS
<1>2. /\ Front(s) \in Seq(Nat) /\ Len(Front(s)) = Len(s) - 1
      /\ Last(s) = s[Len(s)] /\ Last(s) \in Nat
  BY <1>1, PopCalls
<1> QED BY <1>1, <1>2

LEMMA PushCalls ==
  ASSUME NEW s \in Seq(Nat), NEW a \in Nat
  PROVE  /\ Append(s, a) \in Seq(Nat) /\ Len(Append(s, a)) = Len(s) + 1
         /\ \A i \in 1 .. Len(s) : Append(s, a)[i] = s[i]
         /\ Append(s, a)[Len(s) + 1] = a
PROOF
OBVIOUS

\* An instruction keeps the stacks balanced and the process in its text.
LEMMA ExecutedBalanced ==
  ASSUME prog \in Programs, Balanced(m)
  PROVE  Balanced(Executed(Instruction))
PROOF
<1> DEFINE i == prog.text[m.pc]
<1>1. /\ m \in Process /\ m.pc \in Addresses /\ i = Instruction
      /\ m.pc \in Nat /\ Addresses \subseteq Nat
  BY ImageFacts DEF Balanced, Instruction
<1>2. m = [pc |-> m.pc, values |-> m.values, calls |-> m.calls, input |-> m.input,
           alive |-> m.alive, astray |-> m.astray]
  BY <1>1 DEF Process
<1>3. /\ m.values \in Seq(Nat) /\ m.calls \in Seq(Nat) /\ m.input \in Nat /\ m.alive \in BOOLEAN
      /\ m.astray \in BOOLEAN
  BY <1>1 DEF Process
<1>4. CASE i.op = "plain"
  <2>1. Executed(Instruction) = [m EXCEPT !.pc = m.pc + 1]
    BY <1>1, <1>4 DEF Executed
  <2>2. Follows(prog, m.pc, m.pc + 1)
    BY <1>1, <1>4, ImageFacts
  <2> QED BY <1>1, <1>2, <1>3, <1>4, <2>1, <2>2 DEF Balanced, Follows, Within, Process, Addresses
<1>5. CASE i.op = "call"
  <2>1. Executed(Instruction) = [m EXCEPT !.pc = i.to, !.values = Append(m.values, m.pc + 1)]
    BY <1>1, <1>5 DEF Executed
  <2>2. Follows(prog, m.pc, m.pc + 1)
    BY <1>1, <1>5, ImageFacts
  <2>3. PICK f \in Functions : i.to = prog.functions[f].start
    BY <1>1, <1>5, ImageFacts
  <2>4. i.to \in Addresses /\ prog.text[i.to].op = "enter"
    BY <2>3, PrologueWithin
  <2>5. Len(m.values) = 0 /\ (InFunction(prog, m.pc) <=> Len(m.calls) > 0)
    BY <1>5 DEF Balanced
  <2>6. PICK v : v = Append(m.values, m.pc + 1)
    OBVIOUS
  <2>7. v \in Seq(Nat) /\ Len(v) = 1 /\ v[1] = m.pc + 1
    BY <1>1, <1>3, <2>5, <2>6, PushCalls
  <2>8. ReturnPlace(v[1], Len(m.calls) > 0)
    BY <2>2, <2>5, <2>7 DEF ReturnPlace, Follows
  <2>9. PICK q : q = Executed(Instruction)
    OBVIOUS
  <2>10. q = [pc |-> i.to, values |-> v, calls |-> m.calls, input |-> m.input,
              alive |-> m.alive, astray |-> m.astray]
    BY <1>2, <2>1, <2>6, <2>9
  <2>11. q \in Process
    BY <1>1, <1>3, <2>4, <2>7, <2>10 DEF Process
  <2> QED BY <2>4, <2>7, <2>8, <2>9, <2>10, <2>11 DEF Balanced
<1>6. CASE i.op = "enter"
  <2>1. Executed(Instruction) = [m EXCEPT !.pc = m.pc + 1, !.values = Front(m.values),
                                          !.calls = Append(m.calls, Last(m.values))]
    BY <1>1, <1>6 DEF Executed
  <2>2. Within(prog, m.pc + 1) /\ InFunction(prog, m.pc + 1)
    <3>1. PICK f \in Functions : m.pc = prog.functions[f].start
      BY <1>1, <1>6, ImageFacts
    <3>2. InFunction(prog, m.pc)
      BY <3>1, PrologueWithin
    <3> QED BY <1>1, <1>6, <3>2, ImageFacts DEF Follows
  <2>3. Len(m.values) = 1 /\ ReturnPlace(m.values[1], Len(m.calls) > 0)
    BY <1>6 DEF Balanced
  <2>4. PICK v, c : v = Front(m.values) /\ c = Append(m.calls, Last(m.values))
    OBVIOUS
  <2>5. v \in Seq(Nat) /\ Len(v) = 0 /\ Last(m.values) = m.values[1] /\ m.values[1] \in Nat
    BY <1>3, <2>3, <2>4, PopOnly
  <2>6. /\ c \in Seq(Nat) /\ Len(c) = Len(m.calls) + 1
        /\ \A k \in 1 .. Len(m.calls) : c[k] = m.calls[k]
        /\ c[Len(m.calls) + 1] = m.values[1]
    BY <1>3, <2>4, <2>5, PushCalls
  <2>7. \A k \in 1 .. Len(c) : ReturnPlace(c[k], k > 1)
    <3> SUFFICES ASSUME NEW k \in 1 .. Len(c) PROVE ReturnPlace(c[k], k > 1)
      OBVIOUS
    <3>1. CASE k \in 1 .. Len(m.calls)
      BY <2>6, <3>1 DEF Balanced
    <3>2. CASE k = Len(m.calls) + 1
      BY <1>3, <2>3, <2>6, <3>2 DEF ReturnPlace
    <3> QED BY <1>3, <2>6, <3>1, <3>2
  <2>8. PICK q : q = Executed(Instruction)
    OBVIOUS
  <2>9. q = [pc |-> m.pc + 1, values |-> v, calls |-> c, input |-> m.input,
             alive |-> m.alive, astray |-> m.astray]
    BY <1>2, <2>1, <2>4, <2>8
  <2>10. q \in Process
    BY <1>1, <1>3, <2>5, <2>6, <2>9 DEF Process
  <2> QED BY <1>3, <2>2, <2>5, <2>6, <2>7, <2>8, <2>9, <2>10 DEF Balanced, Within, Addresses
<1>7. CASE i.op = "leave"
  <2>1. Executed(Instruction) = [m EXCEPT !.pc = Last(m.calls), !.calls = Front(m.calls)]
    BY <1>1, <1>7 DEF Executed
  <2>2. Len(m.calls) > 0 /\ Len(m.values) = 0
    BY <1>1, <1>7, ImageFacts DEF Balanced
  <2>3. PICK a, c : a = Last(m.calls) /\ c = Front(m.calls)
    OBVIOUS
  <2>4. /\ c \in Seq(Nat) /\ Len(c) = Len(m.calls) - 1 /\ a = m.calls[Len(m.calls)]
        /\ \A k \in 1 .. Len(m.calls) - 1 : c[k] = m.calls[k]
    BY <1>3, <2>2, <2>3, PopCalls
  <2>5. ReturnPlace(a, Len(c) > 0)
    BY <1>3, <2>2, <2>4 DEF Balanced, ReturnPlace
  <2>6. \A k \in 1 .. Len(c) : ReturnPlace(c[k], k > 1)
    <3> SUFFICES ASSUME NEW k \in 1 .. Len(c) PROVE ReturnPlace(c[k], k > 1)
      OBVIOUS
    <3>1. k \in 1 .. Len(m.calls) - 1 /\ Len(m.calls) \in Nat
      BY <1>3, <2>4
    <3>2. k \in 1 .. Len(m.calls) /\ c[k] = m.calls[k]
      BY <2>4, <3>1
    <3> QED BY <3>2 DEF Balanced
  <2>7. PICK q : q = Executed(Instruction)
    OBVIOUS
  <2>8. q = [pc |-> a, values |-> m.values, calls |-> c, input |-> m.input,
             alive |-> m.alive, astray |-> m.astray]
    BY <1>2, <2>1, <2>3, <2>7
  <2>9. a \in Addresses /\ prog.text[a].op # "enter"
    BY <2>5 DEF ReturnPlace, Within, Addresses
  <2>10. q \in Process
    BY <1>1, <1>3, <2>4, <2>8, <2>9 DEF Process
  <2> QED BY <2>2, <2>5, <2>6, <2>7, <2>8, <2>9, <2>10 DEF Balanced, ReturnPlace
<1>8. CASE i.op = "jmp"
  <2>1. Executed(Instruction) = [m EXCEPT !.pc = m.pc + i.by]
    BY <1>1, <1>8 DEF Executed
  <2>2. Follows(prog, m.pc, m.pc + i.by)
    BY <1>1, <1>8, ImageFacts
  <2> QED BY <1>1, <1>2, <1>3, <1>8, <2>1, <2>2 DEF Balanced, Follows, Within, Process, Addresses
<1>9. CASE i.op = "je"
  <2>1. \/ Executed(Instruction) = [m EXCEPT !.pc = m.pc + i.by]
        \/ /\ Executed(Instruction) = [m EXCEPT !.pc = m.pc + 1, !.input = m.input - 1]
           /\ m.input # 0
    BY <1>1, <1>9 DEF Executed
  <2>2. PICK a, n : /\ n \in Nat /\ a \in {m.pc + i.by, m.pc + 1}
                    /\ Executed(Instruction) =
                         [pc |-> a, values |-> m.values, calls |-> m.calls, input |-> n,
                          alive |-> m.alive, astray |-> m.astray]
    <3>1. m.input # 0 => m.input - 1 \in Nat
      BY <1>3
    <3> QED BY <1>2, <1>3, <2>1, <3>1
  <2>3. Follows(prog, m.pc, a)
    BY <1>1, <1>9, <2>2, ImageFacts
  <2>4. PICK q : q = Executed(Instruction)
    OBVIOUS
  <2>5. q \in Process /\ q.pc = a /\ q.pc \in Addresses
    BY <1>1, <1>3, <2>2, <2>3, <2>4 DEF Process, Follows, Within, Addresses
  <2> QED BY <1>1, <1>9, <2>2, <2>3, <2>4, <2>5 DEF Balanced, Follows, Within
<1>10. CASE i.op = "fault"
  BY <1>1, <1>10 DEF Executed
<1>11. CASE i.op = "exit"
  <2>1. Executed(Instruction) = [m EXCEPT !.alive = FALSE]
    BY <1>1, <1>11 DEF Executed
  <2> QED BY <1>1, <1>2, <1>3, <2>1 DEF Balanced, Process
<1>12. CASE i.op = "syscall"
  <2>1. Executed(Instruction) = [m EXCEPT !.pc = m.pc + 2]
    BY <1>1, <1>12 DEF Executed
  <2>2. Follows(prog, m.pc, m.pc + 2)
    BY <1>1, <1>12, ImageFacts
  <2> QED BY <1>1, <1>2, <1>3, <1>12, <2>1, <2>2 DEF Balanced, Follows, Within, Process, Addresses
<1>13. CASE i.op = "inside"
  <2>1. Executed(Instruction) = [m EXCEPT !.pc = m.pc + i.by, !.astray = TRUE]
    BY <1>1, <1>13 DEF Executed
  <2>2. Follows(prog, m.pc, m.pc + i.by)
    BY <1>1, <1>13, ImageFacts
  <2> QED BY <1>1, <1>2, <1>3, <1>13, <2>1, <2>2 DEF Balanced, Follows, Within, Process, Addresses
<1> QED BY <1>1, <1>4, <1>5, <1>6, <1>7, <1>8, <1>9, <1>10, <1>11, <1>12, <1>13, ImageFacts

\* A single step over SYSCALL ends in the middle of it: another way to move.
IntoSyscall(q) == Instruction.op = "syscall" /\ q = [m EXCEPT !.pc = m.pc + 1]
Moves(q) == q = Executed(Instruction) \/ IntoSyscall(q)

LEMMA MovesBalanced ==
  ASSUME prog \in Programs, Balanced(m), NEW q, Moves(q)
  PROVE  Balanced(q)
PROOF
<1>1. CASE q = Executed(Instruction)
  BY <1>1, ExecutedBalanced
<1>2. CASE IntoSyscall(q)
  <2>1. /\ m \in Process /\ m.pc \in Addresses /\ m.pc \in Nat
        /\ prog.text[m.pc].op = "syscall" /\ q = [m EXCEPT !.pc = m.pc + 1]
    BY <1>2, ImageFacts DEF Balanced, Instruction, IntoSyscall
  <2>2. /\ m.pc + 1 \in Addresses /\ prog.text[m.pc + 1].op = "inside"
        /\ (InFunction(prog, m.pc) <=> InFunction(prog, m.pc + 1))
    BY <2>1, ImageFacts
  <2>4. m = [pc |-> m.pc, values |-> m.values, calls |-> m.calls, input |-> m.input,
             alive |-> m.alive, astray |-> m.astray]
    BY <2>1 DEF Process
  <2>5. q = [pc |-> m.pc + 1, values |-> m.values, calls |-> m.calls, input |-> m.input,
             alive |-> m.alive, astray |-> m.astray]
    BY <2>1, <2>4
  <2>6. /\ m.values \in Seq(Nat) /\ m.calls \in Seq(Nat) /\ m.input \in Nat
        /\ m.alive \in BOOLEAN /\ m.astray \in BOOLEAN
    BY <2>1 DEF Process
  <2>7. q.pc = m.pc + 1 /\ q.calls = m.calls /\ q.values = m.values
    BY <2>5
  <2>3. q.pc = m.pc + 1 /\ q.calls = m.calls /\ q.values = m.values /\ q \in Process
    <3>1. PICK b : b = m.pc + 1 /\ b \in Nat
      BY <2>1
    <3>2. [pc |-> b, values |-> m.values, calls |-> m.calls, input |-> m.input,
           alive |-> m.alive, astray |-> m.astray] \in Process
      BY <2>6, <3>1 DEF Process
    <3> QED BY <2>5, <2>7, <3>1, <3>2
  <2> QED BY <2>1, <2>2, <2>3 DEF Balanced, ReturnPlace
<1> QED BY <1>1, <1>2 DEF Moves

-----------------------------------------------------------------------------
(***************************************************************************)
(* What a step of the debugger does to the process.                        *)
(***************************************************************************)
\* To wait is to let the process execute one instruction, or none when it comes to
\* int3; it lives as long as the debugger takes it to be running.
LEMMA WaitRuns ==
  ASSUME NEW c, Wait(c), prog \in Programs, Balanced(m)
  PROVE  /\ m' = m \/ Moves(m')
         /\ m' = m \/ m' = Executed(Instruction) \/ (IntoSyscall(m') /\ Signal(c) = "brkpt")
         /\ mRunning' => mRunning' = mRunning /\ m'.alive = m.alive
         /\ mRunning' = mRunning \/ mRunning' = FALSE
         /\ mPc' = mPc \/ mPc' = m'.pc
         /\ mRegs' = mRegs \/ mRegs' = Registers(m')
PROOF
<1>1. /\ m \in Process /\ m.pc \in Nat
      /\ m = [pc |-> m.pc, values |-> m.values, calls |-> m.calls, input |-> m.input,
              alive |-> m.alive, astray |-> m.astray]
  BY ImageFacts DEF Balanced, Process
<1>2. PICK p : p = Stopped(c)
  OBVIOUS
<1>3. CASE Signal(c) = "exit"
  <2>1. m' = p /\ mRunning' = FALSE /\ mPc' = mPc /\ mRegs' = mRegs
    BY <1>2, <1>3 DEF Wait
  <2>2. p = Executed(Instruction)
    BY <1>2, <1>3 DEF Stopped
  <2> QED BY <2>1, <2>2 DEF Moves
<1>4. CASE Signal(c) = "int3"
  <2>1. p = [m EXCEPT !.pc = m.pc + 1]
    BY <1>2, <1>4 DEF Stopped
  <2>2. /\ m' = [p EXCEPT !.pc = StopPc("int3", p.pc)] /\ mPc' = StopPc("int3", p.pc)
        /\ mRunning' = mRunning /\ mRegs' = Registers(m')
    BY <1>2, <1>4 DEF Wait
  <2>3. p.pc = m.pc + 1 /\ StopPc("int3", p.pc) = m.pc
    BY <1>1, <2>1 DEF StopPc
  <2>4. m' = m
    BY <1>1, <2>1, <2>2, <2>3
  <2> QED BY <2>2, <2>3, <2>4
<1>6. CASE Signal(c) = "brkpt"
  <2>1. Instruction.op = "syscall" /\ Instruction = prog.text[m.pc]
    BY <1>6 DEF Signal, Instruction
  <2>2. p = [m EXCEPT !.pc = m.pc + 2]
    BY <1>2, <1>6, <2>1 DEF Stopped, Executed
  <2>3. /\ m' = [p EXCEPT !.pc = StopPc("brkpt", p.pc)] /\ mPc' = StopPc("brkpt", p.pc)
        /\ mRunning' = mRunning /\ mRegs' = Registers(m')
    BY <1>2, <1>6 DEF Wait
  <2>4. p.pc = m.pc + 2 /\ StopPc("brkpt", p.pc) = m.pc + 1
    BY <1>1, <2>2 DEF StopPc
  <2>5. m' = [m EXCEPT !.pc = m.pc + 1]
    BY <1>1, <2>2, <2>3, <2>4
  <2>6. mPc' = m'.pc /\ m'.alive = m.alive
    BY <1>1, <2>3, <2>4, <2>5
  <2> QED BY <1>6, <2>1, <2>3, <2>5, <2>6 DEF Moves, IntoSyscall
<1>5. CASE Signal(c) \notin {"exit", "int3", "brkpt"}
  <2>1. p = Executed(Instruction)
    BY <1>2, <1>5 DEF Stopped
  <2>2. Balanced(p)
    BY <2>1, ExecutedBalanced
  <2>3. /\ m' = [p EXCEPT !.pc = p.pc] /\ mPc' = p.pc
        /\ mRunning' = mRunning /\ mRegs' = Registers(m')
    BY <1>2, <1>5 DEF Wait, StopPc
  <2>4. m' = p
    BY <2>2, <2>3 DEF Balanced, Process
  <2>5. Instruction.op # "exit"
    BY <1>5 DEF Signal
  <2>6. p.alive = m.alive
    <3>1. Instruction.op \in {"plain", "call", "enter", "leave", "jmp", "je", "syscall",
                              "inside", "fault"}
      BY <2>5, ImageFacts DEF Balanced, Instruction
    <3> QED BY <1>1, <2>1, <3>1 DEF Executed
  <2> QED BY <2>1, <2>3, <2>4, <2>6 DEF Moves
<1> QED BY <1>3, <1>4, <1>5, <1>6

\* Whoever lets the process go waits for it at most once, and no command goes back
\* to the beginning.
LEMMA ContinueWaits ==
  ASSUME NEW b, NEW c, DOMAIN c = CmdFields, ContinueExecution(b, c)
  PROVE  cmd'.at # "attach" /\ (UNCHANGED <<m, copies>> \/ \E x : Wait(x))
PROOF
<1>1. Throw(c) \/ Goto(c, "running")
  BY DEF ContinueExecution
<1>2. UNCHANGED <<m, copies>> \/ \E x : Wait(x)
  BY DEF ContinueExecution, StepX64
<1> QED BY <1>1, <1>2, GotoFields, ThrowFields

LEMMA StepOutWaits ==
  ASSUME NEW c, DOMAIN c = CmdFields, StepOut(c)
  PROVE  cmd'.at # "attach" /\ (UNCHANGED <<m, copies>> \/ \E x : Wait(x))
PROOF
<1>1. \A t : DOMAIN [c EXCEPT !.temp = t] = CmdFields
  OBVIOUS
<1>2. \/ UNCHANGED <<m, copies>> /\ Throw(c)
      \/ ContinueExecution(Now, c)
      \/ \E b, t : ContinueExecution(b, [c EXCEPT !.temp = t])
  BY DEF StepOut
<1> QED BY <1>1, <1>2, ContinueWaits, ThrowFields

\* step and next, and the setting of a breakpoint, begin with a command of their own.
LEMMA StepsBegin ==
  ASSUME NEW column, CmdStep(column) \/ CmdNext(column)
  PROVE  \E c : /\ DOMAIN c = CmdFields /\ c.name \in {"step", "next"} /\ c.at = "prompt"
                /\ c.temp = NoAddress /\ c.returnAddress \in {NoAddress, getReturnAddress}
                /\ Throw(c) \/ Goto(c, "stepping")
PROOF
<1>1. CASE CmdStep(column)
  <2>1. PICK c : c = [Idle("step") EXCEPT !.column = column, !.lineInfo = getLineEntry(mPc)]
    OBVIOUS
  <2>2. /\ DOMAIN c = CmdFields /\ c.name = "step" /\ c.at = "prompt"
        /\ c.temp = NoAddress /\ c.returnAddress = NoAddress
    BY <2>1 DEF Idle, CmdFields
  <2>3. Goto(c, "stepping")
    BY <1>1, <2>1 DEF CmdStep
  <2> QED BY <2>2, <2>3
<1>2. CASE CmdNext(column)
  <2>1. PICK c : c = [Idle("next") EXCEPT !.column = column, !.lineInfo = getLineEntry(mPc),
                        !.returnAddress = getReturnAddress, !.function = getFunctionName(mPc)]
    OBVIOUS
  <2>2. /\ DOMAIN c = CmdFields /\ c.name = "next" /\ c.at = "prompt"
        /\ c.temp = NoAddress /\ c.returnAddress = getReturnAddress
    BY <2>1 DEF Idle, CmdFields
  <2>3. Throw(c) \/ Goto(c, "stepping")
    BY <1>2, <2>1 DEF CmdNext
  <2> QED BY <2>2, <2>3
<1> QED BY <1>1, <1>2

LEMMA BreaksBegin ==
  ASSUME \/ \E f \in Functions : CmdBreakFunction(f)
         \/ \E line \in Lines, column \in 1 .. 2 : CmdBreakLine(line, column)
  PROVE  \E a, c : /\ DOMAIN c = CmdFields /\ c.name = "break" /\ c.at = "prompt"
                   /\ c.temp = NoAddress /\ c.returnAddress = NoAddress
                   /\ Ready /\ SetBreakpoint(a, c)
                   /\ \/ \E f \in Functions : a = getFunctionPrologueEndAddress(f)
                      \/ a = NoAddress \/ \E p : a = getAddressFromLineCol(p)
PROOF
<1>1. CASE \E f \in Functions : CmdBreakFunction(f)
  <2>1. PICK f \in Functions :
          Ready /\ SetBreakpoint(getFunctionPrologueEndAddress(f), Idle("break"))
    BY <1>1 DEF CmdBreakFunction
  <2>2. /\ DOMAIN Idle("break") = CmdFields /\ Idle("break").name = "break"
        /\ Idle("break").at = "prompt" /\ Idle("break").temp = NoAddress
        /\ Idle("break").returnAddress = NoAddress
    BY DEF Idle, CmdFields
  <2> QED BY <2>1, <2>2
<1>2. CASE \E line \in Lines, column \in 1 .. 2 : CmdBreakLine(line, column)
  <2>1. PICK a : /\ a = NoAddress \/ \E x : a = getAddressFromLineCol(x)
                 /\ Ready /\ SetBreakpoint(a, Idle("break"))
    BY <1>2 DEF CmdBreakLine
  <2>2. PICK c : c = Idle("break")
    OBVIOUS
  <2>3. /\ DOMAIN c = CmdFields /\ c.name = "break" /\ c.at = "prompt"
        /\ c.temp = NoAddress /\ c.returnAddress = NoAddress
    BY <2>2 DEF Idle, CmdFields
  <2> QED BY <2>1, <2>2, <2>3
<1> QED BY <1>1, <1>2

\* Every step leaves the process as it is, waits for it, or lets it execute one
\* instruction while it runs freely.
LEMMA EveryStep ==
  ASSUME IInv, [Next]_vars
  PROVE  /\ prog' = prog
         /\ \/ UNCHANGED <<m, copies>> /\ (cmd'.at # "attach" \/ cmd' = cmd)
            \/ /\ cmd.at = "attach" /\ cmd'.at # "attach" /\ mRunning' = TRUE
               /\ m' = m /\ mPc' = mPc /\ mRegs' = Registers(m)
            \/ /\ mRunning /\ cmd'.at # "attach"
               /\ \E x : Wait(x) /\ (cmd.at = "running" => Signal(x) \notin StepSignals)
            \/ /\ mRunning /\ Signal(code) \in StepSignals /\ cmd' = cmd /\ cmd.at = "running"
               /\ m' = Stopped(code) /\ UNCHANGED copies
PROOF
<1>0. DOMAIN cmd = CmdFields
      /\ (cmd.at \in {"start", "stepping", "running"} => mRunning)
  BY DEF IInv, Alive
<1>1. CASE Attach
  BY <1>0, <1>1, GotoFields DEF Attach, processVars
<1>2. CASE Start
  <2>1. \A t : DOMAIN [cmd EXCEPT !.temp = t] = CmdFields
    BY <1>0
  <2>2. \/ Goto(cmd, "ended") /\ UNCHANGED <<m, copies>>
        \/ \E b, t : ContinueExecution(b, [cmd EXCEPT !.temp = t])
    BY <1>2 DEF Start, processVars
  <2>3. cmd'.at # "attach" /\ (UNCHANGED <<m, copies>> \/ \E x : Wait(x))
    <3>1. CASE Goto(cmd, "ended") /\ UNCHANGED <<m, copies>>
      BY <1>0, <3>1, GotoFields
    <3>2. CASE \E b, t : ContinueExecution(b, [cmd EXCEPT !.temp = t])
      BY <2>1, <3>2, ContinueWaits
    <3> QED BY <2>2, <3>1, <3>2
  <2> QED BY <1>0, <1>2, <2>3 DEF Start
<1>3. CASE CmdContinue
  <2>1. cmd'.at # "attach" /\ (UNCHANGED <<m, copies>> \/ \E x : Wait(x))
    BY <1>3, IdleFields, ContinueWaits DEF CmdContinue
  <2> QED BY <1>3, <2>1 DEF CmdContinue, Ready
<1>4. CASE CmdFinish
  <2>1. cmd'.at # "attach" /\ (UNCHANGED <<m, copies>> \/ \E x : Wait(x))
    BY <1>4, IdleFields, StepOutWaits DEF CmdFinish
  <2> QED BY <1>4, <2>1 DEF CmdFinish, Ready
<1>5. CASE \/ \E column \in BOOLEAN : CmdStep(column) \/ CmdNext(column)
           \/ \E f \in Functions : CmdBreakFunction(f)
           \/ \E line \in Lines, column \in 1 .. 2 : CmdBreakLine(line, column)
  <2>1. UNCHANGED <<prog, m, copies>>
    BY <1>5 DEF CmdStep, CmdNext, CmdBreakFunction, CmdBreakLine, SetBreakpoint, processVars
  <2>2. \E c : /\ DOMAIN c = CmdFields /\ c.at = "prompt"
               /\ Throw(c) \/ Goto(c, "stepping") \/ cmd' = c
    <3>1. CASE \E column \in BOOLEAN : CmdStep(column) \/ CmdNext(column)
      BY <3>1, StepsBegin
    <3>2. CASE ~(\E column \in BOOLEAN : CmdStep(column) \/ CmdNext(column))
      <4>1. PICK x, c : DOMAIN c = CmdFields /\ c.at = "prompt" /\ SetBreakpoint(x, c)
        BY <1>5, <3>2, BreaksBegin
      <4> QED BY <4>1 DEF SetBreakpoint
    <3> QED BY <3>1, <3>2
  <2> QED BY <2>1, <2>2, GotoFields, ThrowFields
<1>6. CASE StepFrom
  <2>1. \E x : Wait(x)
    BY <1>6 DEF StepFrom, StepX64
  <2>2. Throw(cmd) \/ cmd' = cmd \/ Goto(cmd, "over") \/ Goto(cmd, "prompt")
    BY <1>6 DEF StepFrom
  <2> QED BY <1>0, <1>6, <2>1, <2>2, GotoFields, ThrowFields DEF StepFrom
<1>7. CASE StepOver
  <2>1. \/ mRunning /\ StepOut(cmd)
        \/ /\ UNCHANGED <<m, copies>>
           /\ Throw(cmd) \/ Goto(cmd, "stepping") \/ Goto(cmd, "prompt")
    BY <1>7 DEF StepOver
  <2> QED BY <1>0, <1>7, <2>1, StepOutWaits, GotoFields, ThrowFields DEF StepOver
<1>8. CASE Run
  <2>1. CASE Signal(code) \in StepSignals
    BY <1>0, <1>8, <2>1 DEF Run
  <2>2. CASE Signal(code) \notin StepSignals
    <3>1. /\ \E x : Wait(x) /\ Signal(x) \notin StepSignals
          /\ \E c : DOMAIN c = CmdFields /\ (Throw(c) \/ \E w \in {"over", "prompt", "ended"} :
                                               Goto(c, w))
      <4>1. DOMAIN [cmd EXCEPT !.temp = NoAddress] = CmdFields
        BY <1>0
      <4> QED BY <1>8, <2>2, <4>1 DEF Run, Stop
    <3> QED BY <1>0, <1>8, <3>1, GotoFields, ThrowFields DEF Run
  <2> QED BY <2>1, <2>2
<1>9. CASE UNCHANGED vars
  BY <1>9 DEF vars, processVars
<1> QED BY <1>1, <1>2, <1>3, <1>4, <1>5, <1>6, <1>7, <1>8, <1>9 DEF Next, Command, Work

-----------------------------------------------------------------------------
(***************************************************************************)
(* The process in the hands of the debugger.                               *)
(***************************************************************************)
InText ==
  /\ Balanced(m)
  /\ mRunning \/ cmd.at = "attach" => m.alive

\* One instruction of the program, unless it is at int3, or a system call that is
\* stepped into.
LEMMA StepRuns ==
  ASSUME IInv, InText, [Next]_vars
  PROVE  /\ InText'
         /\ \/ m' = m
            \/ m.alive /\ m' = Executed(Instruction)
            \/ m.alive /\ LandsInside
PROOF
<1>1. prog \in Programs /\ prog' = prog /\ Balanced(m)
  BY EveryStep DEF IInv, InText
<1>2. ASSUME m' = m \/ Moves(m')
      PROVE  Balanced(m)'
  <2>1. Balanced(m')
    BY <1>1, <1>2, MovesBalanced
  <2> QED BY <1>1, <2>1 DEF Balanced, ReturnPlace, Addresses
<1>3. CASE UNCHANGED <<m, copies>> /\ (cmd'.at # "attach" \/ cmd' = cmd)
  BY <1>2, <1>3 DEF InText, copies
<1>4. CASE cmd.at = "attach" /\ cmd'.at # "attach" /\ mRunning' = TRUE /\ m' = m
  BY <1>2, <1>4 DEF InText
<1>5. CASE /\ mRunning /\ cmd'.at # "attach"
           /\ \E x : Wait(x) /\ (cmd.at = "running" => Signal(x) \notin StepSignals)
  <2>1. PICK x : Wait(x) /\ (cmd.at = "running" => Signal(x) \notin StepSignals)
    BY <1>5
  <2>2. /\ m' = m \/ Moves(m')
        /\ mRunning' => m'.alive = m.alive
        /\ m' = m \/ m' = Executed(Instruction) \/ (IntoSyscall(m') /\ Signal(x) = "brkpt")
    BY <1>1, <2>1, WaitRuns
  <2>3. m' = m \/ m' = Executed(Instruction) \/ LandsInside
    BY <1>1, <2>1, <2>2 DEF LandsInside, IntoSyscall, StepSignals
  <2> QED BY <1>2, <1>5, <2>2, <2>3 DEF InText
<1>6. CASE /\ mRunning /\ Signal(code) \in StepSignals /\ cmd' = cmd /\ cmd.at = "running"
           /\ m' = Stopped(code) /\ UNCHANGED copies
  <2>1. m' = Executed(Instruction)
    BY <1>6 DEF Stopped, StepSignals
  <2>2. Instruction.op \notin {"exit", "fault"}
    BY <1>6 DEF Signal, StepSignals
  <2>3. Instruction.op \in {"plain", "call", "enter", "leave", "jmp", "je", "syscall", "inside"}
    BY <1>1, <2>2, ImageFacts DEF Balanced, Instruction
  <2>4. m'.alive = m.alive
    BY <1>1, <2>1, <2>3 DEF Executed, Balanced, Process
  <2> QED BY <1>2, <1>6, <2>1, <2>4 DEF InText, copies, Moves
<1> QED BY <1>3, <1>4, <1>5, <1>6, EveryStep

\* The process stays where it is or moves.
LEMMA StepMoves ==
  ASSUME IInv, InText, [Next]_vars
  PROVE  m' = m \/ Moves(m')
PROOF
BY StepRuns DEF LandsInside, Moves, IntoSyscall

LEMMA InitInText == Init => InText
PROOF
<1> SUFFICES ASSUME Init PROVE InText
  OBVIOUS
<1>1. prog \in Programs /\ m \in [pc : {1}, values : {<<>>}, calls : {<<>>},
                                  input : Inputs, alive : {TRUE}, astray : {FALSE}]
  BY DEF Init, ProgramInit
<1>2. m \in Process /\ m.pc = 1 /\ Len(m.values) = 0 /\ Len(m.calls) = 0 /\ m.alive
  <2>1. m = [pc |-> 1, values |-> <<>>, calls |-> <<>>, input |-> m.input, alive |-> TRUE,
             astray |-> FALSE]
        /\ m.input \in Nat
    BY <1>1, InputsAssumption
  <2>2. <<>> \in Seq(Nat) /\ Len(<<>>) = 0
    OBVIOUS
  <2>3. m.pc = 1 /\ m.values = <<>> /\ m.calls = <<>> /\ m.alive = TRUE
    BY <2>1
  <2>4. ASSUME NEW e \in Seq(Nat), NEW n \in Nat
        PROVE  [pc |-> 1, values |-> e, calls |-> e, input |-> n, alive |-> TRUE,
                astray |-> FALSE] \in Process
    BY DEF Process
  <2>5. m \in Process
    BY <2>1, <2>2, <2>4, Zenon
  <2>6. Len(m.values) = 0 /\ Len(m.calls) = 0
    BY <2>2, <2>3, Zenon
  <2> QED BY <2>3, <2>5, <2>6
<1>3. 1 \in Addresses /\ ~InFunction(prog, 1)
  BY <1>1, ImagesAssumption DEF Addresses
<1>4. prog.text[1].op # "enter"
  BY <1>1, <1>3, ImageFacts, PrologueWithin
<1> QED BY <1>2, <1>3, <1>4 DEF InText, Balanced

LEMMA InTextHolds == Spec => [](IInv /\ InText)
PROOF
BY InitIInv, InitInText, StepKeepsIInv, StepRuns, PTL DEF Spec

\* The debugged process executes the program: whatever is set, stepped and continued,
\* each step of the debugger is one of the program's instructions, the next one, or
\* none, or a single step over SYSCALL, after which handleSigtrap leaves the process
\* in the middle of that instruction (debugger.cpp:160-184, 319-335).
THEOREM RunsAsAloneHolds == Spec => RunsAsAlone
PROOF
<1>1. Init => ProgramInit
  BY DEF Init
<1>2. ASSUME IInv, InText, [Next]_vars
      PROVE  [ProgramNext \/ LandsInside]_<<prog, m>>
  <2>1. prog' = prog /\ m.pc \in Addresses
    BY <1>2, EveryStep DEF InText, Balanced
  <2> QED BY <1>2, <2>1, StepRuns DEF ProgramNext
<1> QED BY <1>1, <1>2, InTextHolds, PTL DEF Spec, RunsAsAlone

-----------------------------------------------------------------------------
(***************************************************************************)
(* The types of the debugger's own state.                                  *)
(***************************************************************************)
Entries == [mEnabled : BOOLEAN, mOldVal : {"own", "int3"}]
Typed(b) ==
  /\ b = [code |-> b.code, table |-> b.table]
  /\ b.code \in [Addresses -> {"own", "int3"}]
  /\ b.table \in [DOMAIN b.table -> Entries]
  /\ DOMAIN b.table \subseteq Addresses \cup {NoAddress}
  /\ Enabled(b.table) \subseteq Addresses

LEMMA ChangeTyped ==
  ASSUME NEW b, Typed(b), NEW a \in DOMAIN b.table, a \in Addresses,
         NEW v \in {"own", "int3"}, NEW e \in BOOLEAN
  PROVE  /\ Typed(ChangeByte(b, a, v, e))
         /\ DOMAIN ChangeByte(b, a, v, e).table = DOMAIN b.table
PROOF
<1> DEFINE new == [mEnabled |-> e, mOldVal |-> b.code[a]]
           t == [b.table EXCEPT ![a] = new]
<1>1. new \in Entries
  BY DEF Typed, Entries
<1>2. t \in [DOMAIN b.table -> Entries]
  BY <1>1 DEF Typed
<1>3. DOMAIN t = DOMAIN b.table
  OBVIOUS
<1>4. [b.code EXCEPT ![a] = v] \in [Addresses -> {"own", "int3"}]
  BY DEF Typed
<1>5. Enabled(t) \subseteq Addresses
  <2>1. \A x \in DOMAIN t : x # a => t[x] = b.table[x]
    BY DEF Typed
  <2> QED BY <1>3, <2>1 DEF Typed, Enabled
<1>6. ChangeByte(b, a, v, e) = [code |-> [b.code EXCEPT ![a] = v], table |-> t]
  BY DEF ChangeByte
<1> HIDE DEF t
<1> QED BY <1>2, <1>3, <1>4, <1>5, <1>6 DEF Typed

LEMMA EnableTyped ==
  ASSUME NEW b, Typed(b), NEW a \in DOMAIN b.table, a \in Addresses
  PROVE  Typed(Enable(b, a)) /\ DOMAIN Enable(b, a).table = DOMAIN b.table
PROOF
BY ChangeTyped DEF Enable

LEMMA DisableTyped ==
  ASSUME NEW b, Typed(b), NEW a \in DOMAIN b.table, a \in Addresses
  PROVE  Typed(Disable(b, a)) /\ DOMAIN Disable(b, a).table = DOMAIN b.table
PROOF
<1>1. b.table[a].mOldVal \in {"own", "int3"}
  BY DEF Typed, Entries
<1> QED BY <1>1, ChangeTyped DEF Disable

LEMMA AddTyped ==
  ASSUME NEW b, Typed(b), NEW a \in Addresses \cup {NoAddress}
  PROVE  Typed(AddBreakpoint(b, a))
PROOF
<1>1. Typed(TryEmplace(b, a)) /\ a \in DOMAIN TryEmplace(b, a).table
  <2>1. CASE a \in DOMAIN b.table
    BY <2>1 DEF TryEmplace
  <2>2. CASE a \notin DOMAIN b.table
    <3> DEFINE new == [mEnabled |-> FALSE, mOldVal |-> "own"]
               t == [x \in DOMAIN b.table \cup {a} |-> IF x = a THEN new ELSE b.table[x]]
    <3>1. new \in Entries /\ ~new.mEnabled
      BY DEF Entries
    <3>2. t \in [DOMAIN b.table \cup {a} -> Entries] /\ DOMAIN t = DOMAIN b.table \cup {a}
      BY <3>1 DEF Typed
    <3>3. Enabled(t) \subseteq Addresses
      BY <2>2, <3>1 DEF Enabled, Typed
    <3>4. TryEmplace(b, a) = [code |-> b.code, table |-> t]
      BY <2>2 DEF TryEmplace, Typed
    <3> HIDE DEF t
    <3> QED BY <3>2, <3>3, <3>4 DEF Typed
  <2> QED BY <2>1, <2>2
<1>2. CASE a \in Addresses
  BY <1>1, <1>2, EnableTyped DEF AddBreakpoint
<1>3. CASE a \notin Addresses
  BY <1>1, <1>3 DEF AddBreakpoint
<1> QED BY <1>2, <1>3

LEMMA PutTyped ==
  ASSUME NEW b, Typed(b), Put(b), prog' = prog
  PROVE  Typed(Now)'
PROOF
<1>1. code' = b.code /\ mBreakpoints' = b.table
  BY DEF Put
<1>2. Now' = b
  BY <1>1 DEF Now, Typed
<1> QED BY <1>1, <1>2 DEF Typed, Addresses, Enabled

LEMMA StepTyped ==
  ASSUME NEW b, Typed(b), StepX64(b), prog' = prog
  PROVE  Typed(Now)'
PROOF
<1>1. CASE BreakHere(b)
  <2>1. mPc \in DOMAIN b.table /\ mPc \in Addresses
    BY <1>1 DEF BreakHere, Enabled, Typed
  <2>2. PICK c : c = Disable(b, mPc)
    OBVIOUS
  <2>3. Typed(c) /\ mPc \in DOMAIN c.table
    BY <2>1, <2>2, DisableTyped
  <2>4. Put(c) \/ Put(Enable(c, mPc))
    BY <1>1, <2>2 DEF StepX64
  <2> QED BY <2>1, <2>3, <2>4, EnableTyped, PutTyped
<1>2. CASE ~BreakHere(b)
  <2>1. Put(b)
    BY <1>2 DEF StepX64
  <2> QED BY <2>1, PutTyped
<1> QED BY <1>1, <1>2

LEMMA ContinueTyped ==
  ASSUME NEW b, Typed(b), NEW c, ContinueExecution(b, c), prog' = prog
  PROVE  Typed(Now)'
PROOF
BY StepTyped, PutTyped DEF ContinueExecution

\* The command c is still carried out: only where, and whether it has failed, changes.
Kept(c) == DOMAIN cmd' = CmdFields /\ \A x \in CmdFields \ {"at", "ok"} : cmd'[x] = c[x]

LEMMA GotoKeeps ==
  ASSUME NEW c, DOMAIN c = CmdFields, NEW where, Goto(c, where)
  PROVE  Kept(c) /\ cmd'.at = where /\ cmd'.ok = c.ok
PROOF
BY DEF Goto, Kept, CmdFields

LEMMA ThrowKeeps ==
  ASSUME NEW c, DOMAIN c = CmdFields, Throw(c)
  PROVE  Kept(c) /\ cmd'.at = "prompt" /\ cmd'.ok = FALSE
PROOF
BY DEF Throw, Kept, CmdFields

LEMMA ContinueKeeps ==
  ASSUME NEW b, NEW c, DOMAIN c = CmdFields, ContinueExecution(b, c)
  PROVE  /\ Kept(c)
         /\ \/ cmd'.at = "running" /\ cmd'.ok = c.ok
            \/ cmd'.at = "prompt" /\ cmd'.ok = FALSE
PROOF
BY GotoKeeps, ThrowKeeps DEF ContinueExecution

\* What getReturnAddress reads is an address of the program, or nothing.
LEMMA ReturnIsAddress ==
  ASSUME InText, Copied, mRunning
  PROVE  getReturnAddress \in Addresses \cup {NoAddress}
PROOF
<1>1. mRegs.R12 = Len(m.calls) /\ Len(m.calls) \in Nat
  BY DEF Copied, Registers, InText, Balanced, Process
<1>2. CASE Len(m.calls) = 0
  BY <1>1, <1>2 DEF getReturnAddress
<1>3. CASE Len(m.calls) # 0
  <2>1. Len(m.calls) \in 1 .. Len(m.calls)
    BY <1>1, <1>3
  <2>2. ReturnPlace(m.calls[Len(m.calls)], Len(m.calls) > 1)
    BY <2>1 DEF InText, Balanced
  <2> QED BY <1>1, <1>3, <2>2 DEF getReturnAddress, ReturnPlace, Within, Addresses
<1> QED BY <1>2, <1>3

LEMMA StepOutTyped ==
  ASSUME Typed(Now), getReturnAddress \in Addresses \cup {NoAddress}, prog' = prog,
         NEW c, StepOut(c)
  PROVE  Typed(Now)'
PROOF
<1>1. PICK a : a = getReturnAddress
  OBVIOUS
<1>2. \/ ContinueExecution(Now, c)
      \/ Put(AddBreakpoint(Now, a))
      \/ ContinueExecution(AddBreakpoint(Now, a), [c EXCEPT !.temp = a])
  BY <1>1 DEF StepOut
<1>3. PICK b, d : b = Now /\ d = AddBreakpoint(Now, a)
  OBVIOUS
<1>4. Typed(b) /\ Typed(d)
  BY <1>1, <1>3, AddTyped
<1> QED BY <1>2, <1>3, <1>4, ContinueTyped, PutTyped

TypesInv ==
  /\ Typed(Now)
  /\ mPc \in Nat /\ mRegs \in [RIP : Nat, R12 : Nat]
  /\ cmd.name \in Commands
  /\ userBreaks \subseteq Addresses

LEMMA TablesTyped ==
  ASSUME IInv, InText, FreshInv, TypesInv, [Next]_vars
  PROVE  Typed(Now)'
PROOF
<1>1. PICK b : b = Now
  OBVIOUS
<1>2. prog \in Programs /\ prog' = prog /\ Typed(b)
  BY <1>1, EveryStep DEF IInv, TypesInv
<1>3. ASSUME UNCHANGED <<code, mBreakpoints>> PROVE Typed(Now)'
  BY <1>1, <1>2, <1>3, PutTyped DEF Put, Now
<1>4. CASE Attach
  BY <1>3, <1>4 DEF Attach, processVars
<1>5. CASE Start
  <2>1. PICK entry, c : \/ entry \in Addresses /\ ContinueExecution(AddBreakpoint(Now, entry), c)
                        \/ UNCHANGED <<code, mBreakpoints>>
    BY <1>5 DEF Start, processVars
  <2>2. PICK d : d = AddBreakpoint(b, entry)
    OBVIOUS
  <2> QED BY <1>1, <1>2, <1>3, <2>1, <2>2, AddTyped, ContinueTyped
<1>6. CASE CmdContinue
  BY <1>1, <1>2, <1>6, ContinueTyped DEF CmdContinue
<1>7. CASE CmdFinish
  <2>1. Copied /\ mRunning
    BY <1>7 DEF CmdFinish, Ready, FreshInv
  <2> QED BY <1>1, <1>2, <1>7, <2>1, ReturnIsAddress, StepOutTyped DEF CmdFinish
<1>8. CASE \/ \E column \in BOOLEAN : CmdStep(column) \/ CmdNext(column)
  BY <1>3, <1>8 DEF CmdStep, CmdNext, processVars
<1>9. CASE \/ \E f \in Functions : CmdBreakFunction(f)
           \/ \E line \in Lines, column \in 1 .. 2 : CmdBreakLine(line, column)
  <2>1. PICK a, c : SetBreakpoint(a, c)
    BY <1>9 DEF CmdBreakFunction, CmdBreakLine
  <2>2. \/ UNCHANGED <<code, mBreakpoints>>
        \/ a \in Addresses /\ Put(AddBreakpoint(b, a))
    BY <1>1, <2>1 DEF SetBreakpoint
  <2>3. PICK d : d = AddBreakpoint(b, a)
    OBVIOUS
  <2> QED BY <1>2, <1>3, <2>2, <2>3, AddTyped, PutTyped
<1>10. CASE StepFrom
  BY <1>1, <1>2, <1>10, StepTyped DEF StepFrom
<1>11. CASE StepOver
  <2>1. UNCHANGED <<code, mBreakpoints>> \/ (mRunning /\ StepOut(cmd))
    BY <1>11 DEF StepOver
  <2>2. Copied
    BY <1>11 DEF StepOver, FreshInv
  <2> QED BY <1>1, <1>2, <1>3, <2>1, <2>2, ReturnIsAddress, StepOutTyped
<1>12. CASE Run
  <2>1. \/ UNCHANGED <<code, mBreakpoints>>
        \/ Put(b)
        \/ cmd.temp # NoAddress /\ Put(Disable(b, cmd.temp))
    BY <1>1, <1>12 DEF Run, Stop
  <2>2. ASSUME cmd.temp # NoAddress
        PROVE  cmd.temp \in Addresses /\ cmd.temp \in DOMAIN b.table
    BY <1>1, <1>12, <2>2 DEF Run, IInv, WhileRunning, Enabled, Now
  <2>3. PICK d : d = Disable(b, cmd.temp)
    OBVIOUS
  <2> QED BY <1>2, <1>3, <2>1, <2>2, <2>3, DisableTyped, PutTyped
<1>13. CASE UNCHANGED vars
  BY <1>3, <1>13 DEF vars, processVars
<1> QED BY <1>4, <1>5, <1>6, <1>7, <1>8, <1>9, <1>10, <1>11, <1>12, <1>13
        DEF Next, Command, Work

LEMMA CopiesTyped ==
  ASSUME IInv, InText, TypesInv, [Next]_vars
  PROVE  mPc' \in Nat /\ mRegs' \in [RIP : Nat, R12 : Nat]
PROOF
<1>1. prog \in Programs /\ Balanced(m) /\ Balanced(m)'
  BY StepRuns DEF IInv, InText
<1>2. \A q \in Process : q.pc \in Nat /\ Registers(q) \in [RIP : Nat, R12 : Nat]
  BY DEF Process, Registers
<1>3. m \in Process /\ m' \in Process
  BY <1>1 DEF Balanced, Process
<1>4. \/ UNCHANGED copies
      \/ mPc' = mPc /\ mRegs' = Registers(m)
      \/ \E x : Wait(x)
  BY EveryStep DEF copies
<1>5. \E x : Wait(x) => /\ mPc' = mPc \/ mPc' = m'.pc
                        /\ mRegs' = mRegs \/ mRegs' = Registers(m')
  BY <1>1, WaitRuns
<1> QED BY <1>1, <1>2, <1>3, <1>4, WaitRuns DEF TypesInv, copies

LEMMA NamesTyped ==
  ASSUME IInv, TypesInv, [Next]_vars
  PROVE  cmd'.name \in Commands
PROOF
<1>1. DOMAIN cmd = CmdFields /\ cmd.name \in Commands /\ "name" \in CmdFields
  BY DEF IInv, TypesInv, CmdFields
<1>2. ASSUME NEW c, DOMAIN c = CmdFields, c.name \in Commands,
             \/ Throw(c) \/ cmd' = c \/ \E where : Goto(c, where)
             \/ \E b : ContinueExecution(b, c)
             \/ StepOut(c)
      PROVE  cmd'.name \in Commands
  <2>1. ASSUME Kept(c) PROVE cmd'.name \in Commands
    BY <1>2, <2>1 DEF Kept, CmdFields
  <2>2. CASE StepOut(c)
    <3>1. PICK a : a = getReturnAddress
      OBVIOUS
    <3>2. PICK d : d = [c EXCEPT !.temp = a]
      OBVIOUS
    <3>3. DOMAIN d = CmdFields /\ d.name \in Commands
      BY <1>2, <3>2 DEF CmdFields
    <3>4. \/ Throw(c) \/ ContinueExecution(Now, c)
          \/ \E b : ContinueExecution(b, d)
      BY <2>2, <3>1, <3>2 DEF StepOut
    <3>5. Kept(c) \/ Kept(d)
      BY <1>2, <3>3, <3>4, ThrowKeeps, ContinueKeeps
    <3> QED BY <1>2, <3>3, <3>5 DEF Kept, CmdFields
  <2>3. CASE Throw(c) \/ \E where : Goto(c, where)
    BY <1>2, <2>1, <2>3, GotoKeeps, ThrowKeeps
  <2>4. CASE \E b : ContinueExecution(b, c)
    BY <1>2, <2>1, <2>4, ContinueKeeps
  <2> QED BY <1>2, <2>2, <2>3, <2>4
<1>3. \A name \in Commands : DOMAIN Idle(name) = CmdFields /\ Idle(name).name \in Commands
  BY IdleFields DEF Idle
<1>4. CASE Attach \/ StepFrom \/ StepOver
  BY <1>1, <1>2, <1>4 DEF Attach, StepFrom, StepOver
<1>5. CASE Start
  <2>1. PICK entry : \/ Goto(cmd, "ended")
                     \/ \E b : ContinueExecution(b, [cmd EXCEPT !.temp = entry])
    BY <1>5 DEF Start
  <2>2. PICK d : d = [cmd EXCEPT !.temp = entry]
    OBVIOUS
  <2>3. DOMAIN d = CmdFields /\ d.name \in Commands
    BY <1>1, <2>2 DEF CmdFields
  <2> QED BY <1>1, <1>2, <2>1, <2>2, <2>3
<1>6. CASE CmdContinue \/ CmdFinish
  BY <1>2, <1>3, <1>6 DEF CmdContinue, CmdFinish, Commands
<1>7. CASE \E column \in BOOLEAN : CmdStep(column) \/ CmdNext(column)
  <2>1. PICK c : /\ DOMAIN c = CmdFields /\ c.name \in {"step", "next"}
                 /\ Throw(c) \/ Goto(c, "stepping")
    BY <1>7, StepsBegin
  <2> QED BY <1>2, <2>1 DEF Commands
<1>8. CASE \/ \E f \in Functions : CmdBreakFunction(f)
           \/ \E line \in Lines, column \in 1 .. 2 : CmdBreakLine(line, column)
  <2>1. PICK a, c : DOMAIN c = CmdFields /\ c.name = "break" /\ SetBreakpoint(a, c)
    BY <1>8, BreaksBegin
  <2> QED BY <1>2, <2>1 DEF SetBreakpoint, Commands
<1>9. CASE Run
  <2>1. PICK c : c = [cmd EXCEPT !.temp = NoAddress]
    OBVIOUS
  <2>2. DOMAIN c = CmdFields /\ c.name = cmd.name
    BY <1>1, <2>1 DEF CmdFields
  <2>3. cmd' = cmd \/ Throw(c) \/ \E where : Goto(c, where)
    BY <1>9, <2>1 DEF Run, Stop
  <2> QED BY <1>1, <1>2, <2>2, <2>3
<1>10. CASE UNCHANGED vars
  BY <1>1, <1>10 DEF vars
<1> QED BY <1>4, <1>5, <1>6, <1>7, <1>8, <1>9, <1>10 DEF Next, Command, Work

LEMMA UserBreaksTyped ==
  ASSUME IInv, TypesInv, [Next]_vars
  PROVE  userBreaks' \subseteq Addresses'
PROOF
<1>1. Addresses' = Addresses /\ userBreaks \subseteq Addresses
  BY EveryStep DEF Addresses, TypesInv
<1>2. userBreaks' = userBreaks \/ \E a, c : SetBreakpoint(a, c)
  BY DEF Next, Command, Work, Attach, Start, CmdContinue, CmdFinish, CmdStep, CmdNext,
         CmdBreakFunction, CmdBreakLine, StepFrom, StepOver, Run, vars
<1> QED BY <1>1, <1>2 DEF SetBreakpoint

\* The first row of the line table beyond the start of a function.
LEMMA PrologueEndIsNat ==
  ASSUME prog \in Programs, NEW f \in Functions
  PROVE  getFunctionPrologueEndAddress(f) \in Nat
PROOF
<1> DEFINE beyond == {prog.rows[i].address : i \in
                        {j \in DOMAIN prog.rows :
                           prog.rows[j].address > prog.functions[f].start}}
<1>1. \A i \in DOMAIN prog.rows : prog.rows[i].address \in Nat
  <2>1. \A i \in DOMAIN prog.rows : prog.rows[i].address \in Addresses
    BY ImagesAssumption DEF Within, Addresses
  <2> QED BY <2>1, ImageFacts
<1>2. beyond \subseteq Nat
  BY <1>1
<1>3. CASE beyond = {}
  BY <1>3 DEF getFunctionPrologueEndAddress, NoAddress
<1>4. CASE beyond # {}
  <2> HIDE DEF beyond
  <2>1. \E a \in beyond : \A b \in beyond : a <= b
    BY <1>2, <1>4, LeastNat
  <2>2. (CHOOSE a \in beyond : \A b \in beyond : a <= b) \in Nat
    BY <1>2, <2>1
  <2> QED BY <2>2 DEF beyond, getFunctionPrologueEndAddress, NoAddress
<1> QED BY <1>3, <1>4

LEMMA InitTypesInv == Init => TypesInv
PROOF
<1> SUFFICES ASSUME Init PROVE TypesInv
  OBVIOUS
<1>1. Typed(Now)
  BY DEF Init, Typed, Now, Enabled
<1>2. mPc \in Nat
  <2>1. prog \in Programs /\ "entry" \in Functions
    BY ImagesAssumption DEF Init, ProgramInit, Functions
  <2> QED BY <2>1, PrologueEndIsNat DEF Init, NoAddress
<1>3. mRegs \in [RIP : Nat, R12 : Nat] /\ userBreaks = {}
  BY DEF Init
<1>4. cmd.name \in Commands
  BY DEF Init, Idle, Commands
<1> QED BY <1>1, <1>2, <1>3, <1>4 DEF TypesInv

\* Every variable of the debugger keeps its type: what it plants, remembers and
\* reads from the process are addresses of the program or none.
DebuggerInv == IInv /\ InText /\ FreshInv /\ TypesInv

LEMMA InvariantStep == DebuggerInv /\ [Next]_vars => DebuggerInv'
PROOF
<1> SUFFICES ASSUME DebuggerInv, [Next]_vars PROVE DebuggerInv'
  OBVIOUS
<1>1. IInv /\ InText /\ FreshInv /\ TypesInv
  BY DEF DebuggerInv
<1>2. IInv' /\ InText' /\ FreshInv'
  BY <1>1, StepKeepsIInv, StepRuns, FreshStep
<1>3. TypesInv'
  BY <1>1, TablesTyped, CopiesTyped, NamesTyped, UserBreaksTyped DEF TypesInv
<1> QED BY <1>2, <1>3 DEF DebuggerInv

LEMMA DebuggerInvHolds == Spec => []DebuggerInv
PROOF
<1>1. Init => DebuggerInv
  BY InitIInv, InitInText, InitTypesInv DEF DebuggerInv, FreshInv, Init, Idle
<1> QED BY <1>1, InvariantStep, PTL DEF Spec

\* Whatever the user asks for, the debugger keeps its types: breakpoints are set at
\* addresses of the program or at none, and what it reads from the call stack is one
\* of them (debugger.cpp:171-201, 261-290).
THEOREM TypeCorrect == Spec => []TypeOK
PROOF
<1>1. DebuggerInv => TypeOK
  BY DEF DebuggerInv, IInv, Alive, InText, Balanced, TypesInv, Typed, Now, Entries, TypeOK
<1> QED BY <1>1, DebuggerInvHolds, PTL

-----------------------------------------------------------------------------
(***************************************************************************)
(* Functions and what an instruction does to the stacks.                   *)
(***************************************************************************)
SameCode(a, b) == \A f \in Functions : a \in CodeOf(prog, f) <=> b \in CodeOf(prog, f)

LEMMA OneFunction ==
  ASSUME prog \in Programs, NEW f \in Functions, NEW g \in Functions, NEW a,
         a \in CodeOf(prog, f), a \in CodeOf(prog, g)
  PROVE  f = g
PROOF
<1>1. FunctionsLaidOut(prog)
  BY ImagesAssumption
<1> QED BY <1>1 DEF FunctionsLaidOut, Functions

\* An instruction stays in the code of its function, unless it calls or returns.
LEMMA StaysInCode ==
  ASSUME prog \in Programs, NEW a \in Addresses, NEW b,
         InFunction(prog, a) <=> InFunction(prog, b),
         \/ b = a + 1 /\ prog.text[a].op \in {"plain", "call", "enter", "je", "syscall"}
         \/ b = a + 2 /\ prog.text[a].op = "syscall"
         \/ b = a + prog.text[a].by /\ prog.text[a].op \in {"jmp", "je", "inside"}
  PROVE  SameCode(a, b)
PROOF
<1>1. ASSUME NEW f \in Functions, a \in CodeOf(prog, f) PROVE b \in CodeOf(prog, f)
  BY <1>1, BlocksAssumption DEF Functions
<1>2. ASSUME NEW f \in Functions, b \in CodeOf(prog, f) PROVE a \in CodeOf(prog, f)
  <2>1. InFunction(prog, b)
    BY <1>2 DEF InFunction, Functions
  <2>2. PICK g \in Functions : a \in CodeOf(prog, g)
    BY <2>1 DEF InFunction, Functions
  <2> QED BY <1>1, <1>2, <2>2, OneFunction
<1> QED BY <1>1, <1>2 DEF SameCode

IsEnter(a) == prog.text[a].op = "enter"

\* The next instruction, a jump, and an instruction without a successor.
Stays(q) ==
  /\ q.calls = m.calls /\ q.values = m.values /\ SameCode(m.pc, q.pc)
  /\ ~IsEnter(m.pc) /\ ~IsEnter(q.pc)
CallsFunction(q) ==
  /\ q.calls = m.calls /\ Len(q.values) = 1 /\ SameCode(m.pc, q.values[1])
  /\ ~IsEnter(m.pc) /\ prog.text[m.pc].op = "call" /\ prog.text[m.pc].to = q.pc
  /\ \E g \in Functions : q.pc = prog.functions[g].start
Enters(q) ==
  /\ Len(q.calls) = Len(m.calls) + 1 /\ q.calls[Len(m.calls) + 1] = m.values[1]
  /\ \A i \in 1 .. Len(m.calls) : q.calls[i] = m.calls[i]
  /\ Len(m.values) = 1 /\ Len(q.values) = 0 /\ SameCode(m.pc, q.pc)
  /\ IsEnter(m.pc) /\ ~IsEnter(q.pc)
Leaves(q) ==
  /\ Len(m.calls) > 0 /\ Len(q.calls) = Len(m.calls) - 1 /\ q.pc = m.calls[Len(m.calls)]
  /\ \A i \in 1 .. Len(m.calls) - 1 : q.calls[i] = m.calls[i]
  /\ Len(q.values) = 0 /\ ~IsEnter(m.pc) /\ ~IsEnter(q.pc)

LEMMA Stacks ==
  ASSUME prog \in Programs, Balanced(m), NEW q, Moves(q)
  PROVE  Stays(q) \/ CallsFunction(q) \/ Enters(q) \/ Leaves(q)
PROOF
<1> DEFINE i == prog.text[m.pc]
<1>1. /\ m \in Process /\ m.pc \in Addresses /\ i = Instruction
      /\ m.pc \in Nat /\ Addresses \subseteq Nat /\ Balanced(q)
  BY ImageFacts, MovesBalanced DEF Balanced, Instruction
<1>2. /\ m = [pc |-> m.pc, values |-> m.values, calls |-> m.calls, input |-> m.input,
              alive |-> m.alive, astray |-> m.astray]
      /\ m.values \in Seq(Nat) /\ m.calls \in Seq(Nat)
  BY <1>1 DEF Process
<1>8. i.op # "syscall" => q = Executed(Instruction)
  BY <1>1 DEF Moves, IntoSyscall
<1>3. CASE i.op \in {"plain", "jmp", "je", "inside"}
  <2>1. /\ q.calls = m.calls /\ q.values = m.values
        /\ \/ q.pc = m.pc + 1 /\ i.op \in {"plain", "je"}
           \/ q.pc = m.pc + i.by /\ i.op \in {"jmp", "je", "inside"}
    BY <1>1, <1>2, <1>3, <1>8 DEF Executed
  <2>2. Follows(prog, m.pc, q.pc)
    BY <1>1, <2>1, ImageFacts
  <2>3. SameCode(m.pc, q.pc)
    BY <1>1, <2>1, <2>2, StaysInCode DEF Follows
  <2> QED BY <1>3, <2>1, <2>2, <2>3 DEF Stays, IsEnter, Follows, Within
<1>4. CASE i.op \in {"fault", "exit"}
  <2>1. q.calls = m.calls /\ q.values = m.values /\ q.pc = m.pc
    BY <1>1, <1>2, <1>4, <1>8 DEF Executed
  <2> QED BY <1>4, <2>1 DEF Stays, IsEnter, SameCode
<1>5. CASE i.op = "call"
  <2>1. q.calls = m.calls /\ q.pc = i.to /\ q.values = Append(m.values, m.pc + 1)
    BY <1>1, <1>2, <1>5, <1>8 DEF Executed
  <2>2. Len(m.values) = 0
    BY <1>5 DEF Balanced
  <2>3. Len(q.values) = 1 /\ q.values[1] = m.pc + 1
    BY <1>1, <1>2, <2>1, <2>2, PushCalls
  <2>4. Follows(prog, m.pc, m.pc + 1)
    BY <1>1, <1>5, ImageFacts
  <2>5. SameCode(m.pc, q.values[1])
    BY <1>1, <1>5, <2>3, <2>4, StaysInCode DEF Follows
  <2>6. \E g \in Functions : i.to = prog.functions[g].start
    BY <1>1, <1>5, ImageFacts
  <2> QED BY <1>5, <2>1, <2>3, <2>5, <2>6 DEF CallsFunction, IsEnter
<1>6. CASE i.op = "enter"
  <2>1. /\ q.pc = m.pc + 1 /\ q.values = Front(m.values)
        /\ q.calls = Append(m.calls, Last(m.values))
    BY <1>1, <1>2, <1>6, <1>8 DEF Executed
  <2>2. Len(m.values) = 1
    BY <1>6 DEF Balanced
  <2>3. Len(q.values) = 0 /\ Last(m.values) = m.values[1] /\ m.values[1] \in Nat
    BY <1>2, <2>1, <2>2, PopOnly
  <2>4. /\ Len(q.calls) = Len(m.calls) + 1 /\ q.calls[Len(m.calls) + 1] = m.values[1]
        /\ \A k \in 1 .. Len(m.calls) : q.calls[k] = m.calls[k]
    BY <1>2, <2>1, <2>3, PushCalls
  <2>5. Follows(prog, m.pc, m.pc + 1)
    BY <1>1, <1>6, ImageFacts
  <2>6. SameCode(m.pc, q.pc)
    BY <1>1, <1>6, <2>1, <2>5, StaysInCode DEF Follows
  <2> QED BY <1>6, <2>1, <2>2, <2>3, <2>4, <2>5, <2>6 DEF Enters, IsEnter, Follows, Within
<1>7. CASE i.op = "leave"
  <2>1. q.pc = Last(m.calls) /\ q.calls = Front(m.calls) /\ q.values = m.values
    BY <1>1, <1>2, <1>7, <1>8 DEF Executed
  <2>2. Len(m.calls) > 0 /\ Len(m.values) = 0
    BY <1>1, <1>7, ImageFacts DEF Balanced
  <2>3. /\ Len(q.calls) = Len(m.calls) - 1 /\ q.pc = m.calls[Len(m.calls)]
        /\ \A k \in 1 .. Len(m.calls) - 1 : q.calls[k] = m.calls[k]
    BY <1>2, <2>1, <2>2, PopCalls
  <2>4. Len(m.calls) \in 1 .. Len(m.calls)
    BY <1>2, <2>2
  <2>5. ~IsEnter(q.pc)
    BY <2>3, <2>4 DEF Balanced, ReturnPlace, Within, IsEnter
  <2> QED BY <1>7, <2>1, <2>2, <2>3, <2>5 DEF Leaves, IsEnter
<1>9. CASE i.op = "syscall"
  <2>1. q.calls = m.calls /\ q.values = m.values /\ q.pc \in {m.pc + 1, m.pc + 2}
    BY <1>1, <1>2, <1>9 DEF Moves, IntoSyscall, Executed
  <2>2. /\ InFunction(prog, m.pc) <=> InFunction(prog, q.pc)
        /\ prog.text[q.pc].op # "enter"
    BY <1>1, <1>9, <2>1, ImageFacts DEF Follows, Within
  <2>3. SameCode(m.pc, q.pc)
    BY <1>1, <1>9, <2>1, <2>2, StaysInCode
  <2> QED BY <1>9, <2>1, <2>2, <2>3 DEF Stays, IsEnter
<1> QED BY <1>1, <1>3, <1>4, <1>5, <1>6, <1>7, <1>9, ImageFacts

-----------------------------------------------------------------------------
(***************************************************************************)
(* Where no function calls itself, the functions in the middle of which    *)
(* the process is have ever lower ranks.                                   *)
(***************************************************************************)
Ranked(rank) ==
  /\ \A f \in Functions : rank[f] \in Int
  /\ \A fg \in Calls : rank[fg[2]] < rank[fg[1]]

\* b is not in the function of a, nor in one that could have called it.
Below(rank, a, b) ==
  \A f, g \in Functions :
    a \in CodeOf(prog, f) /\ b \in CodeOf(prog, g) => rank[g] < rank[f]

Nested(q, rank) ==
  /\ \A i, j \in 1 .. Len(q.calls) : i < j => Below(rank, q.calls[i], q.calls[j])
  /\ \A i \in 1 .. Len(q.calls) :
       Below(rank, q.calls[i], q.pc) /\ \A v \in 1 .. Len(q.values) : Below(rank, q.calls[i], q.values[v])
  /\ \A v \in 1 .. Len(q.values) : Below(rank, q.values[v], q.pc)

LEMMA SameBelow ==
  ASSUME NEW rank, NEW a, NEW b, NEW c, SameCode(b, c)
  PROVE  /\ Below(rank, a, b) => Below(rank, a, c)
         /\ Below(rank, b, a) => Below(rank, c, a)
PROOF
BY DEF Below, SameCode

LEMMA NestedStep ==
  ASSUME prog \in Programs, Balanced(m), NEW q, Moves(q),
         NEW rank, Ranked(rank), Nested(m, rank)
  PROVE  Nested(q, rank)
PROOF
<1>1. Len(m.calls) \in Nat /\ m.pc \in Addresses
  BY DEF Balanced, Process
<1>2. CASE Stays(q)
  BY <1>2, SameBelow DEF Stays, Nested
<1>3. CASE CallsFunction(q)
  <2>1. PICK g \in Functions : q.pc = prog.functions[g].start
    BY <1>3 DEF CallsFunction
  <2>2. ASSUME NEW h \in Functions, q.pc \in CodeOf(prog, h) PROVE h = g
    <3>1. q.pc \in CodeOf(prog, g)
      <4>1. FunctionsLaidOut(prog)
        BY ImagesAssumption
      <4>2. q.pc \in Nat
        BY <2>1, PrologueWithin, ImageFacts
      <4> QED BY <2>1, <4>1, <4>2 DEF FunctionsLaidOut, Functions, CodeOf
    <3> QED BY <2>2, <3>1, OneFunction
  <2>3. ASSUME NEW f \in Functions, m.pc \in CodeOf(prog, f) PROVE rank[g] < rank[f]
    <3>1. <<f, g>> \in Calls
      BY <1>3, <2>1, <2>3 DEF CallsFunction, Calls, CodeOf
    <3> QED BY <3>1 DEF Ranked
  <2>4. Below(rank, q.values[1], q.pc)
    BY <1>3, <2>2, <2>3 DEF CallsFunction, SameCode, Below
  <2>5. ASSUME NEW i \in 1 .. Len(m.calls) PROVE Below(rank, m.calls[i], q.pc)
    <3>1. InFunction(prog, m.pc)
      BY <1>1, <1>3 DEF CallsFunction, IsEnter, Balanced
    <3>2. PICK e \in Functions : m.pc \in CodeOf(prog, e)
      BY <3>1 DEF InFunction, Functions
    <3>3. ASSUME NEW f \in Functions, m.calls[i] \in CodeOf(prog, f)
          PROVE  rank[g] < rank[f]
      <4>1. rank[e] < rank[f]
        BY <3>2, <3>3 DEF Nested, Below
      <4>2. rank[g] < rank[e]
        BY <2>3, <3>2
      <4> QED BY <4>1, <4>2 DEF Ranked
    <3> QED BY <2>2, <3>3 DEF Below
  <2>6. \A i \in 1 .. Len(m.calls) : Below(rank, m.calls[i], q.values[1])
    BY <1>3, SameBelow DEF CallsFunction, Nested
  <2> QED BY <1>3, <2>4, <2>5, <2>6 DEF CallsFunction, Nested
<1>4. CASE Enters(q)
  <2>1. PICK n : n = Len(m.calls) /\ n \in Nat
    BY <1>1
  <2>2. /\ Len(q.calls) = n + 1 /\ q.calls[n + 1] = m.values[1] /\ Len(q.values) = 0
        /\ \A i \in 1 .. n : q.calls[i] = m.calls[i]
        /\ SameCode(m.pc, q.pc) /\ Len(m.values) = 1
    BY <1>4, <2>1 DEF Enters
  <2>3. ASSUME NEW i \in 1 .. n + 1, NEW j \in 1 .. n + 1, i < j
        PROVE  Below(rank, q.calls[i], q.calls[j])
    <3>1. CASE j \in 1 .. n
      <4>1. i \in 1 .. n
        BY <2>1, <2>3, <3>1
      <4> QED BY <2>1, <2>2, <2>3, <3>1, <4>1 DEF Nested
    <3>2. CASE j = n + 1
      <4>1. i \in 1 .. n
        BY <2>1, <2>3, <3>2
      <4> QED BY <2>1, <2>2, <3>2, <4>1 DEF Nested
    <3> QED BY <2>1, <3>1, <3>2
  <2>4. ASSUME NEW i \in 1 .. n + 1 PROVE Below(rank, q.calls[i], q.pc)
    <3>1. CASE i \in 1 .. n
      BY <2>1, <2>2, <3>1, SameBelow DEF Nested
    <3>2. CASE i = n + 1
      BY <2>1, <2>2, <3>2, SameBelow DEF Nested
    <3> QED BY <2>1, <3>1, <3>2
  <2> QED BY <2>2, <2>3, <2>4 DEF Nested
<1>5. CASE Leaves(q)
  <2>1. PICK n : n = Len(m.calls) /\ n \in Nat /\ n > 0
    BY <1>1, <1>5 DEF Leaves
  <2>2. /\ Len(q.calls) = n - 1 /\ q.pc = m.calls[n] /\ Len(q.values) = 0
        /\ \A i \in 1 .. n - 1 : q.calls[i] = m.calls[i]
    BY <1>5, <2>1 DEF Leaves
  <2>3. ASSUME NEW i \in 1 .. n - 1
        PROVE  /\ Below(rank, q.calls[i], q.pc)
               /\ \A j \in 1 .. n - 1 : i < j => Below(rank, q.calls[i], q.calls[j])
    <3>1. i \in 1 .. n /\ n \in 1 .. n /\ i < n /\ \A j \in 1 .. n - 1 : j \in 1 .. n
      BY <2>1
    <3> QED BY <2>1, <2>2, <3>1 DEF Nested
  <2> QED BY <2>2, <2>3 DEF Nested
<1> QED BY <1>2, <1>3, <1>4, <1>5, Stacks

\* No return place of an activation is where the process is.
LEMMA NotAtReturnPlace ==
  ASSUME prog \in Programs, Balanced(m), NEW rank, Ranked(rank), Nested(m, rank),
         NEW i \in 1 .. Len(m.calls)
  PROVE  m.calls[i] # m.pc
PROOF
<1> SUFFICES ASSUME m.calls[i] = m.pc PROVE FALSE
  OBVIOUS
<1>1. Within(prog, m.pc) /\ (InFunction(prog, m.pc) <=> i > 1) /\ Len(m.calls) \in Nat
  BY DEF Balanced, ReturnPlace, Process
<1>2. Len(m.calls) > 0
  BY <1>1
<1>3. InFunction(prog, m.pc)
  BY <1>1, <1>2 DEF Within, Balanced
<1>4. PICK f \in Functions : m.pc \in CodeOf(prog, f)
  BY <1>3 DEF InFunction, Functions
<1>5. rank[f] < rank[f] /\ rank[f] \in Int
  BY <1>4 DEF Nested, Below, Ranked
<1> QED BY <1>5

-----------------------------------------------------------------------------
(***************************************************************************)
(* One activation, over the steps of the process.                          *)
(***************************************************************************)
\* In q the activation d is there and returns to a; it has returned to a.
Deep(q, d, a) == d \in 1 .. Len(q.calls) /\ q.calls[d] = a
Returned(q, d, a) == d \in Nat /\ Len(q.calls) = d - 1 /\ q.pc = a

\* The activation d is one of f.
OfFunction(q, d, f) ==
  IF d < Len(q.calls) THEN q.calls[d + 1] \in CodeOf(prog, f)
  ELSE IF IsEnter(q.pc) THEN q.values[1] \in CodeOf(prog, f)
  ELSE q.pc \in CodeOf(prog, f)

LEMMA DeepStep ==
  ASSUME prog \in Programs, Balanced(m), NEW q, Moves(q),
         NEW d, NEW a, Deep(m, d, a)
  PROVE  Deep(q, d, a) \/ Returned(q, d, a)
PROOF
<1>1. Len(m.calls) \in Nat
  BY DEF Balanced, Process
<1>2. CASE Stays(q) \/ CallsFunction(q)
  BY <1>2 DEF Stays, CallsFunction, Deep
<1>3. CASE Enters(q)
  BY <1>1, <1>3 DEF Enters, Deep
<1>4. CASE Leaves(q)
  BY <1>1, <1>4 DEF Leaves, Deep, Returned
<1> QED BY <1>2, <1>3, <1>4, Stacks

LEMMA OfFunctionStep ==
  ASSUME prog \in Programs, Balanced(m), NEW q, Moves(q),
         NEW d \in 1 .. Len(m.calls), NEW f \in Functions, OfFunction(m, d, f),
         d \in 1 .. Len(q.calls)
  PROVE  OfFunction(q, d, f)
PROOF
<1>1. Len(m.calls) \in Nat
  BY DEF Balanced, Process
<1>2. CASE Stays(q)
  BY <1>2 DEF Stays, OfFunction, SameCode
<1>3. CASE CallsFunction(q)
  <2>1. IsEnter(q.pc)
    BY <1>3, PrologueWithin DEF CallsFunction, IsEnter
  <2> QED BY <1>3, <2>1 DEF CallsFunction, OfFunction, SameCode
<1>4. CASE Enters(q)
  <2>1. CASE d < Len(m.calls)
    <3>1. d + 1 \in 1 .. Len(m.calls) /\ d < Len(m.calls) + 1
      BY <1>1, <2>1
    <3> QED BY <1>4, <2>1, <3>1 DEF Enters, OfFunction
  <2>2. CASE d = Len(m.calls)
    BY <1>1, <1>4, <2>2 DEF Enters, OfFunction
  <2> QED BY <1>1, <2>1, <2>2
<1>5. CASE Leaves(q)
  <2>1. d < Len(m.calls) /\ m.calls[d + 1] \in CodeOf(prog, f)
    BY <1>1, <1>5 DEF Leaves, OfFunction
  <2>2. CASE d + 1 = Len(m.calls)
    BY <1>1, <1>5, <2>1, <2>2 DEF Leaves, OfFunction
  <2>3. CASE d + 1 # Len(m.calls)
    <3>1. d + 1 \in 1 .. Len(m.calls) - 1 /\ d < Len(m.calls) - 1
      BY <1>1, <2>1, <2>3
    <3> QED BY <1>5, <2>1, <3>1 DEF Leaves, OfFunction
  <2> QED BY <2>2, <2>3
<1> QED BY <1>2, <1>3, <1>4, <1>5, Stacks

-----------------------------------------------------------------------------
(***************************************************************************)
(* The lookups of DebugInfo.                                               *)
(***************************************************************************)
LEMMA RowsWithin ==
  ASSUME prog \in Programs, NEW a, RowsAt(a) # {}
  PROVE  Within(prog, a)
PROOF
BY ImagesAssumption DEF RowsAt

LEMMA PrologueEndWithin ==
  ASSUME prog \in Programs, NEW f \in Functions
  PROVE  \/ getFunctionPrologueEndAddress(f) = NoAddress
         \/ Within(prog, getFunctionPrologueEndAddress(f))
PROOF
<1> DEFINE beyond == {prog.rows[i].address : i \in
                        {j \in DOMAIN prog.rows :
                           prog.rows[j].address > prog.functions[f].start}}
<1>1. \A a \in beyond : Within(prog, a)
  BY ImagesAssumption
<1>2. beyond \subseteq Nat
  <2>1. \A a : Within(prog, a) => a \in Nat
    BY ImageFacts DEF Within, Addresses
  <2> HIDE DEF beyond
  <2> QED BY <1>1, <2>1
<1>3. CASE beyond = {}
  BY <1>3 DEF getFunctionPrologueEndAddress
<1>4. CASE beyond # {}
  <2> HIDE DEF beyond
  <2>1. \E a \in beyond : \A b \in beyond : a <= b
    BY <1>2, <1>4, LeastNat
  <2>2. (CHOOSE a \in beyond : \A b \in beyond : a <= b) \in beyond
    BY <2>1
  <2> QED BY <1>1, <2>2 DEF beyond, getFunctionPrologueEndAddress
<1> QED BY <1>3, <1>4

LEMMA LineColWithin ==
  ASSUME prog \in Programs, NEW p
  PROVE  getAddressFromLineCol(p) = NoAddress \/ Within(prog, getAddressFromLineCol(p))
PROOF
<1>1. CASE RowsOn(p) = {}
  BY <1>1 DEF getAddressFromLineCol
<1>2. CASE RowsOn(p) # {}
  <2>1. PICK R : R = RowsOn(p)
    OBVIOUS
  <2>2. R \subseteq 0 .. Len(prog.rows) /\ Len(prog.rows) \in Nat /\ R \subseteq DOMAIN prog.rows
    BY <2>1, ProgramsAssumption DEF RowsOn
  <2>3. (CHOOSE i \in R : \A j \in R : j <= i) \in R
    BY <1>2, <2>1, <2>2, GreatestBelow
  <2>4. Within(prog, LastRow(R).address)
    BY <2>2, <2>3, ImagesAssumption DEF LastRow
  <2> QED BY <1>2, <2>1, <2>4 DEF getAddressFromLineCol
<1> QED BY <1>1, <1>2

\* getFunctionName finds the function an address is in, if there is one.
LEMMA FunctionNameIs ==
  ASSUME prog \in Programs, NEW a \in Nat
  PROVE  /\ \A f \in Functions : a \in CodeOf(prog, f) => getFunctionName(a) = f
         /\ getFunctionName(a) # NoFunction =>
              getFunctionName(a) \in Functions /\ a \in CodeOf(prog, getFunctionName(a))
PROOF
<1> DEFINE below == {f \in Functions : prog.functions[f].start <= a}
           nearest == {f \in below : \A g \in below :
                                       prog.functions[g].start <= prog.functions[f].start}
           inside == {f \in nearest : a < prog.functions[f].end}
<1>1. \A f \in Functions : prog.functions[f].start \in Nat /\ prog.functions[f].end \in Nat
  <2>1. FunctionsLaidOut(prog)
    BY ImagesAssumption
  <2> QED BY <2>1, ImageFacts DEF FunctionsLaidOut, Functions, Addresses
<1>2. \A f \in inside : f \in Functions /\ a \in CodeOf(prog, f)
  BY <1>1 DEF CodeOf
<1>3. ASSUME NEW f \in Functions, a \in CodeOf(prog, f) PROVE f \in inside
  <2>1. prog.functions[f].start <= a /\ a < prog.functions[f].end
    BY <1>1, <1>3 DEF CodeOf
  <2>2. ASSUME NEW g \in below PROVE prog.functions[g].start <= prog.functions[f].start
    <3> SUFFICES ASSUME prog.functions[f].start < prog.functions[g].start PROVE FALSE
      BY <1>1
    <3>1. FunctionsLaidOut(prog)
      BY ImagesAssumption
    <3>2. /\ prog.functions[g].start \in CodeOf(prog, f)
          /\ prog.functions[g].start \in CodeOf(prog, g)
      BY <1>1, <2>1, <3>1 DEF CodeOf, FunctionsLaidOut, Functions
    <3>3. f = g
      BY <3>2, OneFunction
    <3> QED BY <1>1, <3>3
  <2> QED BY <2>1, <2>2
<1>4. getFunctionName(a) = IF inside = {} THEN NoFunction ELSE CHOOSE f \in inside : TRUE
  BY DEF getFunctionName
<1> HIDE DEF inside
<1>5. inside # {} => (CHOOSE f \in inside : TRUE) \in inside
  OBVIOUS
<1> QED BY <1>2, <1>3, <1>4, <1>5, OneFunction

-----------------------------------------------------------------------------
(***************************************************************************)
(* Steps of the debugger.                                                  *)
(***************************************************************************)
NestedInv == \A rank : Ranked(rank) => Nested(m, rank)

LEMMA NestedInvStep ==
  ASSUME IInv, InText, NestedInv, [Next]_vars
  PROVE  NestedInv'
PROOF
<1>1. prog \in Programs /\ prog' = prog /\ Balanced(m)
  BY EveryStep DEF IInv, InText
<1>2. ASSUME NEW rank, Ranked(rank)' PROVE Nested(m, rank)'
  <2>1. Ranked(rank)
    BY <1>1, <1>2 DEF Ranked, Calls, Functions
  <2>2. Nested(m, rank)
    BY <2>1 DEF NestedInv
  <2>3. m' = m \/ Moves(m')
    BY StepMoves
  <2>4. PICK q : q = m'
    OBVIOUS
  <2>5. Nested(q, rank)
    BY <1>1, <2>1, <2>2, <2>3, <2>4, NestedStep
  <2> QED BY <1>1, <2>4, <2>5 DEF Nested, Below, Functions
<1> QED BY <1>2 DEF NestedInv

LEMMA InitNestedInv == Init => NestedInv
PROOF
<1> SUFFICES ASSUME Init PROVE NestedInv
  OBVIOUS
<1>1. m \in [pc : {1}, values : {<<>>}, calls : {<<>>}, input : Inputs, alive : {TRUE},
            astray : {FALSE}]
  BY DEF Init, ProgramInit
<1>2. m.values = <<>> /\ m.calls = <<>>
  BY <1>1
<1>3. Len(<<>>) = 0
  OBVIOUS
<1>4. Len(m.values) = 0 /\ Len(m.calls) = 0
  BY <1>2, <1>3, Zenon
<1> QED BY <1>4 DEF NestedInv, Nested

LEMMA NonRecursiveRanked ==
  ASSUME prog \in Programs, NonRecursive
  PROVE  \E rank : Ranked(rank)
PROOF
<1>1. IsFiniteSet(Functions)
  BY ImagesAssumption DEF FunctionsLaidOut, Functions
<1>2. Cardinality(Functions) \in Nat
  BY <1>1, FS_CardinalityType
<1>3. PICK rank \in [Functions -> 1 .. Cardinality(Functions)] :
        \A fg \in Calls : rank[fg[2]] < rank[fg[1]]
  BY DEF NonRecursive
<1>4. \A f \in Functions : rank[f] \in Int
  BY <1>2, <1>3
<1> QED BY <1>3, <1>4 DEF Ranked

\* While the process runs freely it goes on, unless it is at a breakpoint.
LEMMA GoesOn ==
  ASSUME IInv, InText, Run, Signal(code) \in StepSignals
  PROVE  /\ m' = Executed(Instruction) /\ m.pc \notin Enabled(mBreakpoints)
         /\ UNCHANGED <<prog, code, mBreakpoints, copies, cmd, userBreaks>>
PROOF
<1>1. /\ m' = Stopped(code)
      /\ UNCHANGED <<prog, code, mBreakpoints, copies, cmd, userBreaks>>
  BY DEF Run
<1>2. m' = Executed(Instruction)
  BY <1>1 DEF Stopped, StepSignals
<1>3. code[m.pc] # "int3"
  BY DEF Signal, StepSignals
<1>4. Coherent(Now) /\ m.pc \in Addresses
  BY DEF Run, IInv, Alive, InText, Balanced
<1> QED BY <1>1, <1>2, <1>3, <1>4 DEF Coherent, Now

\* It stops at a breakpoint, at a fault, or for good.
LEMMA StopsWhere ==
  ASSUME IInv, InText, Run, Signal(code) \notin StepSignals
  PROVE  \/ ~mRunning'
         \/ m' = m /\ m.pc \in Enabled(mBreakpoints)
         \/ m' = m /\ Instruction.op = "fault"
PROOF
<1>1. /\ m.pc \in Addresses /\ m.pc \in Nat /\ Coherent(Now)
      /\ m = [pc |-> m.pc, values |-> m.values, calls |-> m.calls, input |-> m.input,
              alive |-> m.alive, astray |-> m.astray]
  BY ImageFacts DEF Run, IInv, Alive, InText, Balanced, Process
<1>2. PICK c : c = code /\ Wait(c)
  BY DEF Run, Stop
<1>3. CASE Signal(c) = "exit"
  BY <1>2, <1>3 DEF Wait
<1>4. CASE Signal(c) = "int3"
  <2>1. code[m.pc] = "int3"
    BY <1>2, <1>4 DEF Signal
  <2>2. m.pc \in Enabled(mBreakpoints)
    BY <1>1, <2>1 DEF Coherent, Now
  <2>3. PICK p : p = Stopped(c) /\ p = [m EXCEPT !.pc = m.pc + 1]
    BY <1>4 DEF Stopped
  <2>4. m' = [p EXCEPT !.pc = StopPc("int3", p.pc)] /\ p.pc = m.pc + 1
    BY <1>1, <1>2, <1>4, <2>3 DEF Wait
  <2>5. StopPc("int3", p.pc) = m.pc
    BY <1>1, <2>4 DEF StopPc
  <2>6. m' = m
    BY <1>1, <2>3, <2>4, <2>5
  <2> QED BY <2>2, <2>6
<1>5. CASE Signal(c) = "fault"
  <2>1. Instruction.op = "fault"
    BY <1>2, <1>5 DEF Signal
  <2>2. Stopped(c) = m
    BY <1>5, <2>1 DEF Stopped, Executed
  <2>3. m' = [m EXCEPT !.pc = m.pc]
    BY <1>2, <1>5, <2>2 DEF Wait, StopPc
  <2> QED BY <1>1, <2>1, <2>3
<1> QED BY <1>2, <1>3, <1>4, <1>5 DEF Signal, StepSignals

-----------------------------------------------------------------------------
(***************************************************************************)
(* Where the debugger stops the process is never a prologue.               *)
(***************************************************************************)
PlaceOrNone(a) == a = NoAddress \/ Within(prog, a)

PlacesInv ==
  /\ \A a \in userBreaks : Within(prog, a)
  /\ PlaceOrNone(cmd.temp) /\ PlaceOrNone(cmd.returnAddress)
  /\ mRunning /\ cmd.at \in {"prompt", "over"} => ~IsEnter(m.pc)

\* c has only places that are not prologues.
Placed(c) ==
  DOMAIN c = CmdFields /\ PlaceOrNone(c.temp) /\ PlaceOrNone(c.returnAddress)

LEMMA IdlePlaced == \A name : Placed(Idle(name))
PROOF
BY DEF Placed, Idle, CmdFields, PlaceOrNone

LEMMA KeptPlaced ==
  ASSUME NEW c, Placed(c), Kept(c), prog' = prog
  PROVE  PlaceOrNone(cmd.temp)' /\ PlaceOrNone(cmd.returnAddress)'
PROOF
<1>1. cmd'.temp = c.temp /\ cmd'.returnAddress = c.returnAddress
  BY DEF Kept, CmdFields
<1> QED BY <1>1 DEF Placed, PlaceOrNone

LEMMA SameBreaks ==
  ASSUME PlacesInv, UNCHANGED <<prog, userBreaks>>
  PROVE  (\A a \in userBreaks : Within(prog, a))'
PROOF
BY DEF PlacesInv

\* The place that getReturnAddress reads from the call stack.
LEMMA ReturnIsPlace ==
  ASSUME InText, Copied, mRunning
  PROVE  /\ getReturnAddress = IF Len(m.calls) = 0 THEN NoAddress ELSE m.calls[Len(m.calls)]
         /\ PlaceOrNone(getReturnAddress)
         /\ Len(m.calls) # 0 => Within(prog, getReturnAddress)
PROOF
<1>1. mRegs.R12 = Len(m.calls) /\ Len(m.calls) \in Nat
  BY DEF Copied, Registers, InText, Balanced, Process
<1>2. CASE Len(m.calls) = 0
  BY <1>1, <1>2 DEF getReturnAddress, PlaceOrNone
<1>3. CASE Len(m.calls) # 0
  <2>1. Len(m.calls) \in 1 .. Len(m.calls)
    BY <1>1, <1>3
  <2>2. ReturnPlace(m.calls[Len(m.calls)], Len(m.calls) > 1)
    BY <2>1 DEF InText, Balanced
  <2> QED BY <1>1, <1>3, <2>2 DEF getReturnAddress, ReturnPlace, PlaceOrNone
<1> QED BY <1>2, <1>3

LEMMA ContinuePlaces ==
  ASSUME IInv, PlacesInv, mRunning, UNCHANGED <<prog, userBreaks>>,
         NEW b, Coherent(b), NEW c, Placed(c), ContinueExecution(b, c)
  PROVE  PlacesInv'
PROOF
<1>1. DOMAIN c = CmdFields /\ mRunning = TRUE /\ IsProcess(m)
  BY DEF Placed, IInv, Alive
<1>2. Kept(c)
  BY <1>1, ContinueKeeps
<1>3. \/ Throw(c) /\ ~mRunning'
      \/ Goto(c, "running")
  BY <1>1, ContinueEffect
<1>4. ~mRunning' \/ cmd'.at = "running"
  BY <1>1, <1>3, GotoFields
<1> QED BY <1>2, <1>4, KeptPlaced, SameBreaks DEF PlacesInv

\* stepOut from where the debugger has stopped: to the place it returns to, which
\* has a breakpoint then, or it throws.
LEMMA StepOutGoes ==
  ASSUME IInv, InText, Copied, TypesInv, mRunning, UNCHANGED <<prog, userBreaks>>,
         NEW c, Placed(c), c.temp = NoAddress, StepOut(c)
  PROVE  \/ /\ Throw(c) /\ UNCHANGED <<m, copies>>
         \/ /\ Len(m.calls) # 0
            /\ \E b, d : /\ ContinueExecution(b, d) /\ Coherent(b)
                         /\ m.calls[Len(m.calls)] \in Enabled(b.table)
                         /\ d = c \/ d = [c EXCEPT !.temp = m.calls[Len(m.calls)]]
PROOF
<1>1. PICK a : a = getReturnAddress
  OBVIOUS
<1>2. Coherent(Now) /\ Enabled(mBreakpoints) \subseteq Addresses /\ NoAddress \notin Addresses
  BY NowhereMapped DEF IInv, Alive, Coherent, Now
<1>3. a \in Addresses => Len(m.calls) # 0 /\ a = m.calls[Len(m.calls)]
  BY <1>1, <1>2, ReturnIsPlace
<1>4. CASE a \in Enabled(mBreakpoints)
  <2>1. ContinueExecution(Now, c)
    BY <1>1, <1>2, <1>4 DEF StepOut
  <2>2. PICK b : b = Now
    OBVIOUS
  <2> QED BY <1>2, <1>3, <1>4, <2>1, <2>2 DEF Now
<1>5. CASE a \notin Addresses
  BY <1>1, <1>2, <1>5 DEF StepOut
<1>6. CASE a \notin Enabled(mBreakpoints) /\ a \in Addresses
  <2>1. PICK b, d : b = AddBreakpoint(Now, a) /\ d = [c EXCEPT !.temp = a]
    OBVIOUS
  <2>2. ContinueExecution(b, d)
    BY <1>1, <1>6, <2>1 DEF StepOut
  <2>3. PICK n : n = Now
    OBVIOUS
  <2>4. Coherent(b) /\ a \in Enabled(b.table)
    <3>1. Coherent(n) /\ b = AddBreakpoint(n, a)
      BY <1>2, <2>1, <2>3
    <3>2. Coherent(b) /\ Enabled(b.table) = Enabled(n.table) \cup {a}
      BY <1>6, <3>1, AddCoherent
    <3> QED BY <3>2
  <2> QED BY <1>3, <1>6, <2>1, <2>2, <2>4
<1> QED BY <1>4, <1>5, <1>6

LEMMA StepOutPlaces ==
  ASSUME IInv, InText, Copied, TypesInv, PlacesInv, mRunning, UNCHANGED <<prog, userBreaks>>,
         cmd.at \in {"prompt", "over"}, NEW c, Placed(c), c.temp = NoAddress, StepOut(c)
  PROVE  PlacesInv'
PROOF
<1>1. CASE Throw(c) /\ UNCHANGED <<m, copies>>
  <2>1. Kept(c)
    BY <1>1, ThrowKeeps DEF Placed
  <2> QED BY <1>1, <2>1, KeptPlaced, SameBreaks DEF PlacesInv, IsEnter, copies
<1>2. CASE Len(m.calls) # 0 /\ ~(Throw(c) /\ UNCHANGED <<m, copies>>)
  <2>1. PICK b, d : /\ ContinueExecution(b, d) /\ Coherent(b)
                    /\ d = c \/ d = [c EXCEPT !.temp = m.calls[Len(m.calls)]]
    BY <1>2, StepOutGoes
  <2>2. PlaceOrNone(m.calls[Len(m.calls)])
    BY <1>2, ReturnIsPlace
  <2>3. Placed(d)
    BY <2>1, <2>2 DEF Placed, CmdFields
  <2> QED BY <2>1, <2>3, ContinuePlaces
<1> QED BY <1>1, <1>2, StepOutGoes

\* One turn of stepFrom ends the loop only where the process has left the prologue.
LEMMA LoopEndsWithin ==
  ASSUME InText', mRunning', Copied', prog' = prog, prog \in Programs,
         PlaceOrNone(cmd.returnAddress),
         \/ mPc' = cmd.returnAddress
         \/ ~Same(cmd.column, cmd.lineInfo, getLineEntry(mPc'))
  PROVE  ~IsEnter(m.pc)'
PROOF
<1>1. mPc' = m'.pc /\ m'.pc \in Addresses
  BY DEF Copied, InText, Balanced, Addresses
<1>2. ASSUME Within(prog, mPc') PROVE ~IsEnter(m.pc)'
  BY <1>1, <1>2 DEF Within, IsEnter
<1>3. CASE mPc' = cmd.returnAddress
  <2>1. mPc' # NoAddress
    BY <1>1, NowhereMapped
  <2> QED BY <1>2, <1>3, <2>1 DEF PlaceOrNone
<1>4. CASE ~Same(cmd.column, cmd.lineInfo, getLineEntry(mPc'))
  <2>1. getLineEntry(mPc') # NoEntry
    BY <1>4 DEF Same, sameLine, sameColumn
  <2>2. RowsAt(mPc') # {}
    BY <2>1 DEF getLineEntry
  <2> QED BY <1>2, <2>2, RowsWithin
<1> QED BY <1>3, <1>4

LEMMA SetBreakpointPlaces ==
  ASSUME IInv, PlacesInv, Ready, NEW a, PlaceOrNone(a), NEW c, Placed(c), SetBreakpoint(a, c)
  PROVE  PlacesInv'
PROOF
<1>1. prog' = prog /\ UNCHANGED <<m, copies>> /\ prog \in Programs
  BY DEF SetBreakpoint, IInv
<1>2. (\A x \in userBreaks : Within(prog, x))'
  <2>1. userBreaks' = userBreaks \/ (a \in Addresses /\ userBreaks' = userBreaks \cup {a})
    BY DEF SetBreakpoint
  <2>2. a \in Addresses => Within(prog, a)
    BY <1>1, NowhereMapped DEF PlaceOrNone
  <2> QED BY <1>1, <2>1, <2>2 DEF PlacesInv
<1>3. Kept(c)
  <2>1. Throw(c) \/ cmd' = c
    BY DEF SetBreakpoint
  <2> QED BY <2>1, ThrowKeeps DEF Placed, Kept
<1> QED BY <1>1, <1>2, <1>3, KeptPlaced DEF PlacesInv, Ready, IsEnter, copies

LEMMA PlacesStep ==
  ASSUME IInv, InText, FreshInv, TypesInv, PlacesInv, [Next]_vars
  PROVE  PlacesInv'
PROOF
<1>1. /\ prog \in Programs /\ prog' = prog /\ Placed(cmd) /\ InText' /\ IInv' /\ FreshInv'
      /\ mRunning \in BOOLEAN
  BY EveryStep, StepRuns, StepKeepsIInv, FreshStep DEF IInv, Placed, PlacesInv, Alive
<1>2. CASE Attach
  <2>1. Kept(cmd) /\ cmd'.at = "start" /\ userBreaks' = userBreaks
    BY <1>1, <1>2, GotoKeeps DEF Attach, Placed
  <2> QED BY <1>1, <2>1, KeptPlaced, SameBreaks DEF PlacesInv
<1>3. CASE Start
  <2>1. userBreaks' = userBreaks /\ mRunning /\ Coherent(Now)
    BY <1>3 DEF Start, IInv, Alive
  <2>2. CASE Goto(cmd, "ended")
    <3>1. Kept(cmd) /\ cmd'.at = "ended"
      BY <1>1, <2>2, GotoKeeps DEF Placed
    <3> QED BY <1>1, <2>1, <3>1, KeptPlaced, SameBreaks DEF PlacesInv
  <2>3. CASE ~Goto(cmd, "ended")
    <3>1. PICK entry : entry = getFunctionPrologueEndAddress("entry")
      OBVIOUS
    <3>2. PICK b, d : b = AddBreakpoint(Now, entry) /\ d = [cmd EXCEPT !.temp = entry]
      OBVIOUS
    <3>3. ContinueExecution(b, d)
      BY <1>3, <2>3, <3>1, <3>2 DEF Start
    <3>4. "entry" \in Functions
      BY <1>1, ImagesAssumption DEF Functions
    <3>5. PlaceOrNone(entry)
      BY <1>1, <3>1, <3>4, PrologueEndWithin DEF PlaceOrNone
    <3>6. Placed(d)
      BY <1>1, <3>2, <3>5 DEF Placed, CmdFields
    <3>7. Coherent(b)
      BY <2>1, <3>2, AddCoherent
    <3> QED BY <1>1, <2>1, <3>3, <3>6, <3>7, ContinuePlaces
  <2> QED BY <2>2, <2>3
<1>4. CASE CmdContinue
  <2>1. PICK b : b = Now
    OBVIOUS
  <2>2. Coherent(b) /\ mRunning /\ ContinueExecution(b, Idle("continue")) /\ userBreaks' = userBreaks
    BY <1>4, <2>1 DEF CmdContinue, Ready, IInv, Alive
  <2> QED BY <1>1, <2>2, IdlePlaced, ContinuePlaces
<1>5. CASE CmdFinish
  <2>1. /\ Copied /\ mRunning /\ cmd.at = "prompt" /\ userBreaks' = userBreaks
        /\ StepOut(Idle("finish"))
    BY <1>5 DEF CmdFinish, Ready, FreshInv
  <2> QED BY <1>1, <2>1, IdlePlaced, IdleFields, StepOutPlaces
<1>6. CASE \E column \in BOOLEAN : CmdStep(column) \/ CmdNext(column)
  <2>1. Ready /\ UNCHANGED <<m, copies, userBreaks>>
    BY <1>6 DEF CmdStep, CmdNext, processVars
  <2>2. PlaceOrNone(getReturnAddress) /\ PlaceOrNone(NoAddress)
    BY <2>1, ReturnIsPlace DEF Ready, FreshInv, PlaceOrNone
  <2>3. PICK c : Placed(c) /\ (Throw(c) \/ Goto(c, "stepping"))
    <3>1. PICK c : /\ DOMAIN c = CmdFields /\ c.temp = NoAddress
                   /\ c.returnAddress \in {NoAddress, getReturnAddress}
                   /\ Throw(c) \/ Goto(c, "stepping")
      BY <1>6, StepsBegin
    <3>2. PlaceOrNone(c.returnAddress) /\ PlaceOrNone(c.temp)
      BY <2>2, <3>1
    <3> QED BY <3>1, <3>2 DEF Placed
  <2>4. Kept(c) /\ cmd'.at \in {"prompt", "stepping"}
    BY <2>3, GotoKeeps, ThrowKeeps DEF Placed
  <2> QED BY <1>1, <2>1, <2>3, <2>4, KeptPlaced, SameBreaks DEF PlacesInv, Ready, IsEnter, copies
<1>7. CASE \/ \E f \in Functions : CmdBreakFunction(f)
           \/ \E line \in Lines, column \in 1 .. 2 : CmdBreakLine(line, column)
  <2>1. PICK a, c : /\ DOMAIN c = CmdFields /\ c.temp = NoAddress /\ c.returnAddress = NoAddress
                    /\ Ready /\ SetBreakpoint(a, c)
                    /\ \/ \E f \in Functions : a = getFunctionPrologueEndAddress(f)
                       \/ a = NoAddress \/ \E p : a = getAddressFromLineCol(p)
    BY <1>7, BreaksBegin
  <2>2. Placed(c)
    BY <2>1 DEF Placed, PlaceOrNone
  <2>3. PlaceOrNone(a)
    BY <1>1, <2>1, PrologueEndWithin, LineColWithin DEF PlaceOrNone
  <2> QED BY <2>1, <2>2, <2>3, SetBreakpointPlaces
<1>8. CASE StepFrom
  <2>1. userBreaks' = userBreaks /\ mRunning = TRUE /\ IsProcess(m) /\ Coherent(Now)
    BY <1>8 DEF StepFrom, IInv, Alive
  <2>2. CASE Throw(cmd) /\ StepThrows(Now)
    <3>1. PICK b : b = Now
      OBVIOUS
    <3>2. ~mRunning'
      BY <1>1, <1>8, <2>1, <2>2, <3>1, StepEffect DEF StepFrom
    <3>3. Kept(cmd)
      BY <1>1, <2>2, ThrowKeeps DEF Placed
    <3> QED BY <1>1, <2>1, <3>2, <3>3, KeptPlaced, SameBreaks DEF PlacesInv
  <2>3. CASE cmd' = cmd
    <3>1. Kept(cmd) /\ cmd'.at = "stepping"
      BY <1>1, <1>8, <2>3 DEF Kept, Placed, StepFrom
    <3> QED BY <1>1, <2>1, <3>1, KeptPlaced, SameBreaks DEF PlacesInv
  <2>4. CASE /\ Goto(cmd, "over") \/ Goto(cmd, "prompt")
             /\ \/ ~mRunning' \/ mPc' = cmd.returnAddress
                \/ ~Same(cmd.column, cmd.lineInfo, getLineEntry(mPc'))
    <3>1. Kept(cmd) /\ cmd'.at \in {"over", "prompt"}
      BY <1>1, <2>4, GotoKeeps DEF Placed
    <3>2. mRunning' => ~IsEnter(m.pc)'
      BY <1>1, <2>4, <3>1, LoopEndsWithin DEF FreshInv, Placed
    <3> QED BY <1>1, <2>1, <3>1, <3>2, KeptPlaced, SameBreaks DEF PlacesInv
  <2> QED BY <1>8, <2>2, <2>3, <2>4 DEF StepFrom
<1>9. CASE StepOver
  <2>1. userBreaks' = userBreaks /\ cmd.at = "over" /\ cmd.temp = NoAddress /\ Copied
    BY <1>9 DEF StepOver, IInv, BetweenCommands, FreshInv
  <2>2. \/ mRunning /\ StepOut(cmd)
        \/ /\ UNCHANGED <<m, copies>>
           /\ Throw(cmd) \/ Goto(cmd, "stepping") \/ Goto(cmd, "prompt")
    BY <1>9 DEF StepOver
  <2>3. CASE mRunning /\ StepOut(cmd)
    BY <1>1, <2>1, <2>3, StepOutPlaces
  <2>4. CASE /\ UNCHANGED <<m, copies>>
             /\ Throw(cmd) \/ Goto(cmd, "stepping") \/ Goto(cmd, "prompt")
    <3>1. Kept(cmd) /\ cmd'.at \in {"stepping", "prompt"}
      BY <1>1, <2>4, GotoKeeps, ThrowKeeps DEF Placed
    <3> QED BY <1>1, <2>1, <2>4, <3>1, KeptPlaced, SameBreaks DEF PlacesInv, IsEnter, copies
  <2> QED BY <2>2, <2>3, <2>4
<1>10. CASE Run /\ Signal(code) \in StepSignals
  <2>1. UNCHANGED <<prog, cmd, userBreaks>> /\ cmd.at = "running"
    BY <1>10, GoesOn DEF Run
  <2> QED BY <2>1 DEF PlacesInv, PlaceOrNone
<1>11. CASE Run /\ Signal(code) \notin StepSignals
  <2>1. PICK c : c = [cmd EXCEPT !.temp = NoAddress]
    OBVIOUS
  <2>2. Placed(c)
    BY <1>1, <2>1 DEF Placed, CmdFields, PlaceOrNone
  <2>3. Throw(c) \/ \E where : Goto(c, where)
    BY <1>11, <2>1 DEF Run, Stop
  <2>4. Kept(c)
    BY <2>2, <2>3, GotoKeeps, ThrowKeeps DEF Placed
  <2>5. mRunning' => ~IsEnter(m.pc)'
    <3>1. CASE m' = m /\ m.pc \in Enabled(mBreakpoints)
      <4>1. m.pc \in userBreaks \/ (m.pc = cmd.temp /\ cmd.temp # NoAddress)
        BY <1>11, <3>1 DEF Run, IInv, WhileRunning
      <4>2. Within(prog, m.pc)
        BY <4>1 DEF PlacesInv, PlaceOrNone
      <4> QED BY <1>1, <3>1, <4>2 DEF Within, IsEnter
    <3>2. CASE m' = m /\ Instruction.op = "fault"
      BY <1>1, <3>2 DEF Instruction, IsEnter
    <3> QED BY <1>11, <3>1, <3>2, StopsWhere
  <2>6. userBreaks' = userBreaks
    BY <1>11 DEF Run
  <2> QED BY <1>1, <2>2, <2>4, <2>5, <2>6, KeptPlaced, SameBreaks DEF PlacesInv
<1>12. CASE UNCHANGED vars
  BY <1>12 DEF vars, processVars, copies, PlacesInv, PlaceOrNone, IsEnter
<1> QED BY <1>2, <1>3, <1>4, <1>5, <1>6, <1>7, <1>8, <1>9, <1>10, <1>11, <1>12
        DEF Next, Command, Work

-----------------------------------------------------------------------------
(***************************************************************************)
(* finish and next while they are carried out.  finish, and next in a      *)
(* function that was called, run to the return place a of the activation   *)
(* d, which has a breakpoint; next stays in the activation it was given in *)
(* or in those above it, until that one returns.                           *)
(***************************************************************************)
NamesInv ==
  /\ cmd.at \in {"attach", "start"} => cmd.name = "start"
  /\ cmd.at = "stepping" => cmd.name \in {"step", "next"}
  /\ cmd.at = "over" => cmd.name = "next"

RunsTo(d, a) ==
  /\ Deep(m, d, a) \/ Returned(m, d, a)
  /\ a \in Enabled(mBreakpoints) /\ cmd.temp \in {NoAddress, a}

FinishInv ==
  cmd.name = "finish" =>
    /\ cmd.at = "running" => \E a : RunsTo(cmd.depth, a)
    /\ Ready /\ cmd.ok =>
         mPc \in userBreaks \/ Instruction.op = "fault" \/ Len(m.calls) = cmd.depth - 1

InActivation ==
  /\ Deep(m, cmd.depth, cmd.returnAddress) /\ cmd.function \in Functions
  /\ OfFunction(m, cmd.depth, cmd.function)
HasReturned == Returned(m, cmd.depth, cmd.returnAddress)

NextInv ==
  cmd.name = "next" =>
    /\ cmd.at = "stepping" => InActivation
    /\ cmd.at = "over" /\ mRunning => InActivation \/ HasReturned
    /\ cmd.at = "running" => InActivation /\ \E e, a : e > cmd.depth /\ RunsTo(e, a)
    /\ Ready /\ cmd.ok => Len(m.calls) = cmd.depth \/ HasReturned

\* cmd' is c, up to where it is and the breakpoint it has put in.
Carried(c) ==
  /\ cmd'.name = c.name /\ cmd'.depth = c.depth
  /\ cmd'.returnAddress = c.returnAddress /\ cmd'.function = c.function

LEMMA KeptCarried == ASSUME NEW c, Kept(c) PROVE Carried(c)
PROOF
BY DEF Kept, Carried, CmdFields

\* stepOut fails, or lets the process run to the return place.
LEMMA StepOutRuns ==
  ASSUME IInv, InText, Copied, TypesInv, mRunning, UNCHANGED <<prog, userBreaks>>,
         NEW c, Placed(c), c.temp = NoAddress, StepOut(c)
  PROVE  /\ Carried(c)
         /\ \/ cmd'.at = "prompt" /\ cmd'.ok = FALSE
            \/ /\ cmd'.at = "running" /\ Len(m.calls) # 0
               /\ m.calls[Len(m.calls)] \in Enabled(mBreakpoints)'
               /\ cmd'.temp \in {NoAddress, m.calls[Len(m.calls)]}
PROOF
<1>1. CASE Throw(c)
  BY <1>1, ThrowKeeps, KeptCarried DEF Placed
<1>2. CASE ~Throw(c)
  <2>1. PICK b, d : /\ ContinueExecution(b, d) /\ Coherent(b) /\ Len(m.calls) # 0
                    /\ m.calls[Len(m.calls)] \in Enabled(b.table)
                    /\ d = c \/ d = [c EXCEPT !.temp = m.calls[Len(m.calls)]]
    BY <1>2, StepOutGoes
  <2>2. /\ DOMAIN d = CmdFields /\ d.temp \in {NoAddress, m.calls[Len(m.calls)]}
        /\ d.name = c.name /\ d.depth = c.depth
        /\ d.returnAddress = c.returnAddress /\ d.function = c.function
    BY <2>1 DEF Placed, CmdFields
  <2>3. Kept(d)
    BY <2>1, <2>2, ContinueKeeps
  <2>4. Carried(c) /\ cmd'.temp = d.temp
    BY <2>2, <2>3 DEF Kept, CmdFields, Carried
  <2>5. mRunning = TRUE /\ IsProcess(m) /\ prog' = prog
    BY DEF IInv, Alive
  <2>6. \/ Throw(d)
        \/ Goto(d, "running") /\ Enabled(mBreakpoints)' = Enabled(b.table)
    BY <2>1, <2>5, ContinueEffect
  <2>7. CASE Throw(d)
    BY <2>2, <2>4, <2>7, ThrowKeeps
  <2>8. CASE Goto(d, "running") /\ Enabled(mBreakpoints)' = Enabled(b.table)
    BY <2>1, <2>2, <2>4, <2>8, GotoKeeps
  <2> QED BY <2>6, <2>7, <2>8
<1> QED BY <1>1, <1>2

LEMMA NamesStep ==
  ASSUME IInv, InText, FreshInv, TypesInv, PlacesInv, NamesInv, [Next]_vars
  PROVE  NamesInv'
PROOF
<1>1. /\ DOMAIN cmd = CmdFields /\ Placed(cmd) /\ prog' = prog
  BY EveryStep DEF IInv, PlacesInv, Placed
<1>2. ASSUME cmd'.at \in {"prompt", "running", "ended"} PROVE NamesInv'
  BY <1>2 DEF NamesInv
<1>3. CASE Attach
  <2>1. cmd'.at = "start" /\ Kept(cmd) /\ cmd.name = "start"
    BY <1>1, <1>3, GotoKeeps DEF Attach, NamesInv
  <2> QED BY <2>1, KeptCarried DEF NamesInv, Carried
<1>4. CASE Start
  <2>1. \A t : DOMAIN [cmd EXCEPT !.temp = t] = CmdFields
    BY <1>1
  <2>2. \/ Goto(cmd, "ended")
        \/ \E b, t : ContinueExecution(b, [cmd EXCEPT !.temp = t])
    BY <1>4 DEF Start
  <2>3. CASE Goto(cmd, "ended")
    BY <1>1, <1>2, <2>3, GotoKeeps
  <2>4. CASE \E b, t : ContinueExecution(b, [cmd EXCEPT !.temp = t])
    BY <1>2, <2>1, <2>4, ContinueKeeps
  <2> QED BY <2>2, <2>3, <2>4
<1>5. CASE CmdContinue
  BY <1>2, <1>5, IdleFields, ContinueKeeps DEF CmdContinue
<1>6. CASE CmdFinish \/ (StepOver /\ StepOut(cmd) /\ mRunning)
  <2>1. /\ mRunning /\ Copied /\ UNCHANGED <<prog, userBreaks>>
        /\ \E c : Placed(c) /\ c.temp = NoAddress /\ StepOut(c)
    <3>1. CASE CmdFinish
      BY <3>1, IdlePlaced, IdleFields DEF CmdFinish, Ready, FreshInv
    <3>2. CASE StepOver /\ StepOut(cmd) /\ mRunning
      BY <1>1, <3>2 DEF StepOver, FreshInv, IInv, BetweenCommands
    <3> QED BY <1>6, <3>1, <3>2
  <2> QED BY <1>2, <2>1, StepOutRuns
<1>7. CASE \E column \in BOOLEAN : CmdStep(column) \/ CmdNext(column)
  <2>1. PICK c : /\ DOMAIN c = CmdFields /\ c.name \in {"step", "next"}
                 /\ Throw(c) \/ Goto(c, "stepping")
    BY <1>7, StepsBegin
  <2>2. Kept(c) /\ cmd'.at \in {"prompt", "stepping"}
    BY <2>1, GotoKeeps, ThrowKeeps
  <2>3. cmd'.name = c.name
    BY <2>2, KeptCarried DEF Carried
  <2> QED BY <2>1, <2>2, <2>3 DEF NamesInv
<1>8. CASE \/ \E f \in Functions : CmdBreakFunction(f)
           \/ \E line \in Lines, column \in 1 .. 2 : CmdBreakLine(line, column)
  <2>1. PICK a, c : DOMAIN c = CmdFields /\ c.at = "prompt" /\ SetBreakpoint(a, c)
    BY <1>8, BreaksBegin
  <2>2. Throw(c) \/ cmd' = c
    BY <2>1 DEF SetBreakpoint
  <2> QED BY <1>2, <2>1, <2>2, ThrowKeeps
<1>9. CASE StepFrom
  <2>1. \/ Throw(cmd) \/ cmd' = cmd \/ Goto(cmd, "prompt")
        \/ Goto(cmd, "over") /\ cmd.name = "next"
    BY <1>9 DEF StepFrom
  <2>2. CASE Goto(cmd, "over") /\ cmd.name = "next"
    <3>1. cmd'.at = "over" /\ cmd'.name = "next"
      BY <1>1, <2>2, GotoKeeps, KeptCarried DEF Carried
    <3> QED BY <3>1 DEF NamesInv
  <2>3. CASE Throw(cmd) \/ Goto(cmd, "prompt")
    BY <1>1, <1>2, <2>3, GotoKeeps, ThrowKeeps
  <2> QED BY <2>1, <2>2, <2>3 DEF NamesInv
<1>10. CASE StepOver /\ ~(StepOut(cmd) /\ mRunning)
  <2>1. \/ Throw(cmd) \/ Goto(cmd, "prompt")
        \/ Goto(cmd, "stepping") /\ cmd.name = "next"
    BY <1>10 DEF StepOver, NamesInv
  <2>2. CASE Goto(cmd, "stepping") /\ cmd.name = "next"
    <3>1. cmd'.at = "stepping" /\ cmd'.name = "next"
      BY <1>1, <2>2, GotoKeeps, KeptCarried DEF Carried
    <3> QED BY <3>1 DEF NamesInv
  <2> QED BY <1>1, <1>2, <2>1, <2>2, GotoKeeps, ThrowKeeps
<1>11. CASE Run
  <2>1. PICK c : c = [cmd EXCEPT !.temp = NoAddress]
    OBVIOUS
  <2>2. DOMAIN c = CmdFields /\ c.name = cmd.name
    BY <1>1, <2>1 DEF CmdFields
  <2>3. \/ cmd' = cmd \/ Throw(c) \/ Goto(c, "prompt") \/ Goto(c, "ended")
        \/ Goto(c, "over") /\ c.name = "next"
    BY <1>11, <2>1, <2>2 DEF Run, Stop
  <2>4. CASE Goto(c, "over") /\ c.name = "next"
    <3>1. cmd'.at = "over" /\ cmd'.name = "next"
      BY <2>2, <2>4, GotoKeeps, KeptCarried DEF Carried
    <3> QED BY <3>1 DEF NamesInv
  <2>5. CASE Throw(c) \/ Goto(c, "prompt") \/ Goto(c, "ended")
    BY <1>2, <2>2, <2>5, GotoKeeps, ThrowKeeps
  <2> QED BY <2>3, <2>4, <2>5 DEF NamesInv
<1>12. CASE UNCHANGED vars
  BY <1>12 DEF vars, NamesInv
<1> QED BY <1>3, <1>4, <1>5, <1>6, <1>7, <1>8, <1>9, <1>10, <1>11, <1>12
        DEF Next, Command, Work

\* What the invariants say of the process and the return places.
LEMMA NeverAtReturnPlace ==
  ASSUME IInv, InText, NestedInv, NonRecursive, NEW d, NEW a, Deep(m, d, a)
  PROVE  m.pc # a
PROOF
<1>1. prog \in Programs /\ Balanced(m)
  BY DEF IInv, InText
<1>2. PICK rank : Ranked(rank) /\ Nested(m, rank)
  BY <1>1, NonRecursiveRanked DEF NestedInv
<1> QED BY <1>1, <1>2, NotAtReturnPlace DEF Deep

\* In the function of an activation above it the process is not in one of its own.
LEMMA OwnFunction ==
  ASSUME IInv, InText, NestedInv, NonRecursive, NEW d \in 1 .. Len(m.calls),
         NEW f \in Functions, OfFunction(m, d, f), m.pc \in CodeOf(prog, f)
  PROVE  Len(m.calls) = d
PROOF
<1>1. prog \in Programs /\ Balanced(m) /\ Len(m.calls) \in Nat
  BY DEF IInv, InText, Balanced, Process
<1>2. PICK rank : Ranked(rank) /\ Nested(m, rank)
  BY <1>1, NonRecursiveRanked DEF NestedInv
<1> SUFFICES ASSUME d < Len(m.calls) PROVE FALSE
  BY <1>1
<1>3. m.calls[d + 1] \in CodeOf(prog, f) /\ d + 1 \in 1 .. Len(m.calls)
  BY <1>1 DEF OfFunction
<1>4. rank[f] < rank[f] /\ rank[f] \in Int
  BY <1>2, <1>3 DEF Nested, Below, Ranked
<1> QED BY <1>4

\* An activation over a step of the process: the function of an activation stays, and
\* above an activation that stays another one is left at most by one.
LEMMA ActivationStep ==
  ASSUME prog \in Programs, Balanced(m), NEW q, q = m \/ Moves(q),
         NEW d, NEW a, Deep(m, d, a)
  PROVE  /\ \/ Deep(q, d, a)
              /\ \A f \in Functions : OfFunction(m, d, f) => OfFunction(q, d, f)
            \/ Returned(q, d, a)
         /\ \A e, b : e > d /\ Deep(m, e, b) => ~Returned(q, d, a)
PROOF
<1>1. d \in Nat /\ Len(m.calls) \in Nat /\ d \in 1 .. Len(m.calls)
  BY DEF Balanced, Process, Deep
<1>2. CASE q = m
  BY <1>1, <1>2 DEF Returned, Deep
<1>3. CASE Moves(q)
  <2>1. Deep(q, d, a) \/ Returned(q, d, a)
    BY <1>3, DeepStep
  <2>2. ASSUME NEW f \in Functions, OfFunction(m, d, f), Deep(q, d, a)
        PROVE  OfFunction(q, d, f)
    BY <1>1, <1>3, <2>2, OfFunctionStep DEF Deep
  <2>3. ASSUME NEW e, NEW b, e > d, Deep(m, e, b) PROVE ~Returned(q, d, a)
    <3>1. Deep(q, e, b) \/ Returned(q, e, b)
      BY <1>3, <2>3, DeepStep
    <3>2. e \in Nat /\ e > d
      BY <1>1, <2>3 DEF Deep
    <3> QED BY <1>1, <3>1, <3>2 DEF Deep, Returned
  <2> QED BY <2>1, <2>2, <2>3
<1> QED BY <1>2, <1>3

CommandsInv ==
  /\ IInv /\ InText /\ FreshInv /\ TypesInv /\ NestedInv /\ PlacesInv /\ NamesInv
  /\ NonRecursive /\ FinishInv /\ NextInv

\* finish begins in the activation that it is to leave.
LEMMA CmdFinishStep ==
  ASSUME CommandsInv, CmdFinish, m' = m \/ Moves(m')
  PROVE  FinishInv' /\ NextInv'
PROOF
<1>1. /\ Copied /\ mRunning /\ UNCHANGED <<prog, userBreaks>> /\ StepOut(Idle("finish"))
      /\ IInv /\ InText /\ TypesInv /\ prog \in Programs /\ Balanced(m)
  BY DEF CommandsInv, CmdFinish, Ready, FreshInv, IInv, InText
<1>2. /\ Placed(Idle("finish")) /\ Idle("finish").temp = NoAddress
      /\ Idle("finish").name = "finish" /\ Idle("finish").depth = Len(m.calls)
  BY IdlePlaced DEF Idle
<1>3. PICK d, a : d = Len(m.calls) /\ a = m.calls[Len(m.calls)]
  OBVIOUS
<1>4. /\ cmd'.name = "finish" /\ cmd'.depth = d
      /\ \/ cmd'.at = "prompt" /\ cmd'.ok = FALSE
         \/ /\ cmd'.at = "running" /\ d # 0
            /\ a \in Enabled(mBreakpoints)' /\ cmd'.temp \in {NoAddress, a}
  BY <1>1, <1>2, <1>3, StepOutRuns DEF Carried
<1>5. CASE cmd'.at = "prompt" /\ cmd'.ok = FALSE
  BY <1>4, <1>5 DEF FinishInv, NextInv, Ready
<1>6. CASE /\ cmd'.at = "running" /\ d # 0
           /\ a \in Enabled(mBreakpoints)' /\ cmd'.temp \in {NoAddress, a}
  <2>1. Deep(m, d, a)
    BY <1>1, <1>3, <1>6 DEF Deep, Balanced, Process
  <2>2. PICK q : q = m'
    OBVIOUS
  <2>3. Deep(q, d, a) \/ Returned(q, d, a)
    BY <1>1, <2>1, <2>2, ActivationStep
  <2>4. RunsTo(d, a)'
    BY <1>6, <2>2, <2>3 DEF RunsTo, Deep, Returned
  <2> QED BY <1>4, <1>6, <2>4 DEF FinishInv, NextInv, Ready
<1> QED BY <1>4, <1>5, <1>6

\* next begins in an activation that has a return place.
LEMMA CmdNextStep ==
  ASSUME CommandsInv, NEW column, CmdNext(column)
  PROVE  FinishInv' /\ NextInv'
PROOF
<1>1. /\ Copied /\ Ready /\ UNCHANGED <<prog, m>> /\ prog \in Programs /\ InText /\ Balanced(m)
      /\ PlacesInv /\ mRunning
  BY DEF CommandsInv, CmdNext, Ready, FreshInv, IInv, InText, processVars
<1>2. PICK c : c = [Idle("next") EXCEPT !.column = column, !.lineInfo = getLineEntry(mPc),
                      !.returnAddress = getReturnAddress, !.function = getFunctionName(mPc)]
  OBVIOUS
<1>3. /\ DOMAIN c = CmdFields /\ c.name = "next" /\ c.depth = Len(m.calls)
      /\ c.returnAddress = getReturnAddress /\ c.function = getFunctionName(mPc)
  BY <1>2 DEF Idle, CmdFields
<1>4. IF c.function = NoFunction THEN Throw(c) ELSE Goto(c, "stepping")
  BY <1>2 DEF CmdNext
<1>5. CASE Throw(c)
  <2>1. cmd'.name = "next" /\ cmd'.at = "prompt" /\ cmd'.ok = FALSE
    BY <1>3, <1>5, ThrowKeeps, KeptCarried DEF Carried
  <2> QED BY <2>1 DEF FinishInv, NextInv, Ready
<1>6. CASE Goto(c, "stepping") /\ c.function # NoFunction
  <2>1. /\ cmd'.name = "next" /\ cmd'.at = "stepping" /\ cmd'.depth = Len(m.calls)
        /\ cmd'.returnAddress = getReturnAddress /\ cmd'.function = getFunctionName(mPc)
    BY <1>3, <1>6, GotoKeeps, KeptCarried DEF Carried
  <2>2. mPc = m.pc /\ mPc \in Nat
    BY <1>1, ImageFacts DEF Copied, Balanced
  <2>3. PICK f \in Functions : f = getFunctionName(mPc) /\ m.pc \in CodeOf(prog, f)
    BY <1>1, <1>3, <1>6, <2>2, FunctionNameIs
  <2>4. InFunction(prog, m.pc)
    BY <2>3 DEF InFunction, Functions
  <2>5. ~IsEnter(m.pc)
    BY <1>1 DEF PlacesInv, Ready
  <2>6. Len(m.calls) > 0 /\ Len(m.calls) \in Nat
    BY <1>1, <2>4, <2>5 DEF Balanced, IsEnter, Process
  <2>7. Deep(m, Len(m.calls), getReturnAddress)
    BY <1>1, <2>6, ReturnIsPlace DEF Deep
  <2>8. OfFunction(m, Len(m.calls), f)
    BY <2>3, <2>5, <2>6 DEF OfFunction
  <2>9. InActivation'
    BY <1>1, <2>1, <2>3, <2>7, <2>8 DEF InActivation, Deep, OfFunction, IsEnter, Functions
  <2> QED BY <2>1, <2>9 DEF FinishInv, NextInv, Ready
<1> QED BY <1>4, <1>5, <1>6

\* One turn of the loop of stepFrom.
LEMMA StepFromStep ==
  ASSUME CommandsInv, StepFrom, m' = m \/ Moves(m'), FreshInv'
  PROVE  FinishInv' /\ NextInv'
PROOF
<1>1. /\ DOMAIN cmd = CmdFields /\ prog' = prog /\ prog \in Programs /\ Balanced(m)
      /\ cmd.at = "stepping" /\ cmd.name \in {"step", "next"}
  BY DEF CommandsInv, IInv, InText, NamesInv, StepFrom
<1>2. Kept(cmd)
  BY <1>1, GotoKeeps, ThrowKeeps DEF StepFrom, Kept
<1>3. Carried(cmd)
  BY <1>2, KeptCarried
<1>4. CASE cmd.name # "next"
  BY <1>1, <1>3, <1>4 DEF Carried, FinishInv, NextInv
<1>5. CASE cmd.name = "next"
  <2>1. InActivation
    BY <1>1, <1>5 DEF CommandsInv, NextInv
  <2>2. PICK q, d, a, f : /\ q = m' /\ d = cmd.depth /\ a = cmd.returnAddress
                          /\ f = cmd.function
    OBVIOUS
  <2>3. \/ Deep(q, d, a) /\ OfFunction(q, d, f)
        \/ Returned(q, d, a)
    BY <1>1, <2>1, <2>2, ActivationStep DEF InActivation
  <2>4. InActivation' \/ HasReturned'
    BY <1>1, <1>3, <2>1, <2>2, <2>3
       DEF InActivation, HasReturned, Carried, Deep, Returned, OfFunction, IsEnter, Functions
  <2>5. \/ cmd'.at = "prompt" /\ cmd'.ok = FALSE
        \/ cmd'.at = "over"
        \/ cmd' = cmd /\ mRunning' /\ mPc' # cmd.returnAddress
    BY <1>1, <1>5, GotoKeeps, ThrowKeeps DEF StepFrom
  <2>6. CASE cmd' = cmd /\ mRunning' /\ mPc' # cmd.returnAddress
    <3>1. m'.pc # cmd.returnAddress
      BY <1>1, <2>6 DEF FreshInv, Copied
    <3>2. InActivation'
      BY <2>4, <2>6, <3>1 DEF HasReturned, Returned
    <3> QED BY <1>1, <1>5, <2>6, <3>2 DEF FinishInv, NextInv, Ready
  <2> QED BY <1>3, <1>5, <2>4, <2>5, <2>6 DEF FinishInv, NextInv, Ready, Carried
<1> QED BY <1>4, <1>5

\* The loops of stepOver: on in the own function, out of another one, or the end.
LEMMA StepOverStep ==
  ASSUME CommandsInv, StepOver, m' = m \/ Moves(m')
  PROVE  FinishInv' /\ NextInv'
PROOF
<1>1. /\ DOMAIN cmd = CmdFields /\ UNCHANGED <<prog, userBreaks>> /\ prog \in Programs
      /\ Balanced(m) /\ InText /\ IInv /\ TypesInv /\ PlacesInv /\ NestedInv /\ NonRecursive
      /\ cmd.at = "over" /\ cmd.name = "next" /\ cmd.temp = NoAddress /\ Copied
      /\ mRunning \in BOOLEAN
  BY DEF CommandsInv, IInv, Alive, InText, NamesInv, StepOver, FreshInv, BetweenCommands
<1>2. mRunning => InActivation \/ HasReturned
  BY <1>1 DEF CommandsInv, NextInv
<1>3. mRunning => mPc = m.pc /\ mPc \in Nat
  BY <1>1, ImageFacts DEF Copied, Balanced
<1>4. CASE ~mRunning
  <2>1. cmd'.at = "prompt" /\ cmd'.name = "next" /\ ~mRunning'
    BY <1>1, <1>4, GotoKeeps, KeptCarried DEF StepOver, Carried, copies
  <2> QED BY <2>1 DEF FinishInv, NextInv, Ready
<1>5. CASE mRunning /\ mPc = cmd.returnAddress
  <2>1. HasReturned
    BY <1>1, <1>2, <1>3, <1>5, NeverAtReturnPlace DEF InActivation
  <2>2. cmd'.at = "prompt" /\ Carried(cmd) /\ m' = m
    BY <1>1, <1>5, GotoKeeps, KeptCarried DEF StepOver
  <2> QED BY <1>1, <2>1, <2>2 DEF FinishInv, NextInv, HasReturned, Returned, Carried
<1>6. CASE mRunning /\ mPc # cmd.returnAddress
  <2>1. InActivation
    BY <1>2, <1>3, <1>6 DEF HasReturned, Returned
  <2>2. CASE getFunctionName(mPc) = NoFunction
    <3>1. cmd'.at = "prompt" /\ cmd'.ok = FALSE /\ cmd'.name = "next"
      BY <1>1, <1>6, <2>2, ThrowKeeps, KeptCarried DEF StepOver, Carried
    <3> QED BY <3>1 DEF FinishInv, NextInv, Ready
  <2>3. CASE getFunctionName(mPc) # NoFunction /\ getFunctionName(mPc) = cmd.function
    <3>1. m.pc \in CodeOf(prog, cmd.function)
      BY <1>1, <1>3, <1>6, <2>3, FunctionNameIs
    <3>2. Len(m.calls) = cmd.depth
      BY <1>1, <2>1, <3>1, OwnFunction DEF InActivation, Deep
    <3>3. Carried(cmd) /\ m' = m /\ cmd'.at \in {"stepping", "prompt"}
      BY <1>1, <1>6, <2>3, GotoKeeps, KeptCarried DEF StepOver
    <3>4. InActivation'
      BY <1>1, <2>1, <3>3 DEF InActivation, Carried, Deep, OfFunction, IsEnter, Functions
    <3> QED BY <1>1, <3>2, <3>3, <3>4 DEF FinishInv, NextInv, Carried
  <2>4. CASE getFunctionName(mPc) # NoFunction /\ getFunctionName(mPc) # cmd.function
    <3>1. StepOut(cmd) /\ Placed(cmd)
      BY <1>1, <1>6, <2>4 DEF StepOver, Placed, PlacesInv
    <3>2. PICK d, a, f, e, b : /\ d = cmd.depth /\ a = cmd.returnAddress /\ f = cmd.function
                               /\ e = Len(m.calls) /\ b = m.calls[Len(m.calls)]
      OBVIOUS
    <3>3. /\ Carried(cmd)
          /\ \/ cmd'.at = "prompt" /\ cmd'.ok = FALSE
             \/ /\ cmd'.at = "running" /\ b \in Enabled(mBreakpoints)'
                /\ cmd'.temp \in {NoAddress, b}
      BY <1>1, <1>6, <3>1, <3>2, StepOutRuns
    <3>4. d # e
      <4> SUFFICES ASSUME d = e PROVE FALSE
        OBVIOUS
      <4>1. ~IsEnter(m.pc)
        BY <1>1, <1>6 DEF PlacesInv
      <4>2. m.pc \in CodeOf(prog, f) /\ f \in Functions
        <5>1. Len(m.calls) \in Nat
          BY <1>1 DEF Balanced, Process
        <5>2. cmd.depth = Len(m.calls)
          BY <3>2
        <5>3. ~(cmd.depth < Len(m.calls))
          BY <5>1, <5>2
        <5> QED BY <2>1, <3>2, <4>1, <5>3 DEF InActivation, OfFunction
      <4> QED BY <1>1, <1>3, <1>6, <2>4, <3>2, <4>2, FunctionNameIs
    <3>5. /\ e > d /\ d \in 1 .. Len(m.calls) /\ Deep(m, e, b) /\ Deep(m, d, a)
          /\ f \in Functions /\ OfFunction(m, d, f)
      BY <1>1, <2>1, <3>2, <3>4 DEF InActivation, Deep, Balanced, Process
    <3>6. PICK q : q = m'
      OBVIOUS
    <3>7. Deep(q, d, a) /\ OfFunction(q, d, f) /\ (Deep(q, e, b) \/ Returned(q, e, b))
      BY <1>1, <3>5, <3>6, ActivationStep
    <3>8. InActivation'
      BY <1>1, <3>2, <3>3, <3>5, <3>6, <3>7
         DEF InActivation, Carried, Deep, OfFunction, IsEnter, Functions
    <3>9. CASE cmd'.at = "prompt" /\ cmd'.ok = FALSE
      BY <1>1, <3>3, <3>9 DEF FinishInv, NextInv, Ready, Carried
    <3>10. CASE /\ cmd'.at = "running" /\ b \in Enabled(mBreakpoints)'
                /\ cmd'.temp \in {NoAddress, b}
      <4>1. RunsTo(e, b)'
        BY <3>6, <3>7, <3>10 DEF RunsTo, Deep, Returned
      <4>2. cmd'.depth = d /\ cmd'.name = "next"
        BY <1>1, <3>2, <3>3 DEF Carried
      <4> QED BY <3>5, <3>8, <3>10, <4>1, <4>2 DEF FinishInv, NextInv, Ready
    <3> QED BY <3>3, <3>9, <3>10
  <2> QED BY <2>2, <2>3, <2>4
<1> QED BY <1>1, <1>4, <1>5, <1>6

\* The process on its way to a return place: it goes on, and does not pass it.
LEMMA RunsToStep ==
  ASSUME IInv, InText, Run, NEW d, NEW a, RunsTo(d, a)
  PROVE  Signal(code) \in StepSignals => Deep(m, d, a) /\ RunsTo(d, a)'
PROOF
<1> SUFFICES ASSUME Signal(code) \in StepSignals PROVE Deep(m, d, a) /\ RunsTo(d, a)'
  OBVIOUS
<1>1. /\ m' = Executed(Instruction) /\ m.pc \notin Enabled(mBreakpoints)
      /\ UNCHANGED <<prog, mBreakpoints, cmd>> /\ prog \in Programs /\ Balanced(m)
  BY GoesOn DEF IInv, InText
<1>5. Moves(m')
  BY <1>1 DEF Moves
<1>2. Deep(m, d, a)
  BY <1>1 DEF RunsTo, Returned
<1>3. PICK q : q = m'
  OBVIOUS
<1>4. Deep(q, d, a) \/ Returned(q, d, a)
  BY <1>1, <1>2, <1>3, <1>5, ActivationStep
<1> QED BY <1>1, <1>2, <1>3, <1>4 DEF RunsTo, Deep, Returned, Enabled

LEMMA RunStep ==
  ASSUME CommandsInv, Run, m' = m \/ Moves(m'), InText', FreshInv'
  PROVE  FinishInv' /\ NextInv'
PROOF
<1>1. /\ DOMAIN cmd = CmdFields /\ UNCHANGED <<prog, userBreaks>> /\ prog \in Programs
      /\ Balanced(m) /\ InText /\ IInv /\ NestedInv /\ NonRecursive
      /\ cmd.at = "running" /\ FinishInv /\ NextInv
  BY DEF CommandsInv, IInv, InText, Run
<1>2. CASE Signal(code) \in StepSignals
  <2>1. cmd' = cmd
    BY <1>1, <1>2, GoesOn
  <2>2. CASE cmd.name = "finish"
    <3>1. PICK a : RunsTo(cmd.depth, a)
      BY <1>1, <2>2 DEF FinishInv
    <3>2. RunsTo(cmd.depth, a)'
      <4>1. PICK d : d = cmd.depth
        OBVIOUS
      <4>2. RunsTo(d, a)'
        BY <1>1, <1>2, <3>1, <4>1, RunsToStep
      <4> QED BY <2>1, <4>1, <4>2 DEF RunsTo, Deep, Returned
    <3> QED BY <1>1, <2>1, <2>2, <3>2 DEF FinishInv, NextInv, Ready
  <2>3. CASE cmd.name = "next"
    <3>1. PICK e, b : e > cmd.depth /\ RunsTo(e, b) /\ InActivation
      BY <1>1, <2>3 DEF NextInv
    <3>2. Deep(m, e, b) /\ RunsTo(e, b)'
      BY <1>1, <1>2, <3>1, RunsToStep
    <3>3. PICK q, d, a, f : /\ q = m' /\ d = cmd.depth /\ a = cmd.returnAddress
                            /\ f = cmd.function
      OBVIOUS
    <3>4. Deep(q, d, a) /\ OfFunction(q, d, f)
      BY <1>1, <3>1, <3>2, <3>3, ActivationStep DEF InActivation
    <3>5. InActivation'
      BY <1>1, <2>1, <3>1, <3>3, <3>4 DEF InActivation, Deep, OfFunction, IsEnter, Functions
    <3> QED BY <1>1, <2>1, <2>3, <3>1, <3>2, <3>5 DEF FinishInv, NextInv, Ready
  <2> QED BY <2>1, <2>2, <2>3 DEF FinishInv, NextInv
<1>3. CASE Signal(code) \notin StepSignals
  <2>1. PICK c : c = [cmd EXCEPT !.temp = NoAddress]
    OBVIOUS
  <2>2. DOMAIN c = CmdFields
    BY <1>1, <2>1
  <2>3. /\ c.name = cmd.name /\ c.depth = cmd.depth
        /\ c.returnAddress = cmd.returnAddress /\ c.function = cmd.function
    BY <1>1, <2>1 DEF CmdFields
  <2>4. \/ Throw(c)
        \/ Goto(c, IF cmd.name = "next" THEN "over" ELSE "prompt")
        \/ Goto(c, "ended")
    BY <1>3, <2>1 DEF Run, Stop
  <2>5. /\ Carried(cmd)
        /\ \/ cmd'.at = "prompt" /\ cmd'.ok = FALSE
           \/ cmd'.at = IF cmd.name = "next" THEN "over" ELSE "prompt"
           \/ cmd'.at = "ended"
    BY <2>2, <2>3, <2>4, GotoKeeps, ThrowKeeps, KeptCarried DEF Carried
  <2>6. \/ ~mRunning'
        \/ m' = m /\ m.pc \in Enabled(mBreakpoints)
        \/ m' = m /\ Instruction.op = "fault"
    BY <1>1, <1>3, StopsWhere
  <2>7. CASE cmd.name = "finish"
    <3>1. PICK a : RunsTo(cmd.depth, a)
      BY <1>1, <2>7 DEF FinishInv
    <3>2. cmd'.name = "finish" /\ cmd'.depth = cmd.depth /\ cmd'.at \in {"prompt", "ended"}
      BY <2>5, <2>7 DEF Carried
    <3>3. CASE m' = m /\ m.pc \in Enabled(mBreakpoints)
      <4>1. m.pc \in userBreaks \/ m.pc = a
        BY <1>1, <3>1, <3>3 DEF RunsTo, IInv, WhileRunning
      <4>2. m.pc = a => Len(m.calls) = cmd.depth - 1
        BY <1>1, <3>1, NeverAtReturnPlace DEF RunsTo, Returned
      <4>3. Ready' => mPc' = m.pc
        BY <3>3 DEF Ready, FreshInv, Copied
      <4> QED BY <1>1, <3>2, <3>3, <4>1, <4>2, <4>3 DEF FinishInv, NextInv
    <3>4. CASE m' = m /\ Instruction.op = "fault"
      BY <1>1, <3>2, <3>4 DEF FinishInv, NextInv, Instruction
    <3>5. CASE ~mRunning'
      BY <3>2, <3>5 DEF FinishInv, NextInv, Ready
    <3> QED BY <2>6, <3>3, <3>4, <3>5
  <2>8. CASE cmd.name = "next"
    <3>1. InActivation
      BY <1>1, <2>8 DEF NextInv
    <3>2. /\ cmd'.name = "next"
          /\ \/ cmd'.at = "prompt" /\ cmd'.ok = FALSE
             \/ cmd'.at \in {"over", "ended"}
      BY <2>5, <2>8 DEF Carried
    <3>3. CASE m' = m
      <4>1. InActivation'
        BY <1>1, <2>5, <3>1, <3>3
           DEF InActivation, Carried, Deep, OfFunction, IsEnter, Functions
      <4> QED BY <3>2, <4>1 DEF FinishInv, NextInv, Ready
    <3>4. CASE ~mRunning'
      BY <3>2, <3>4 DEF FinishInv, NextInv, Ready
    <3> QED BY <2>6, <3>3, <3>4
  <2> QED BY <2>5, <2>7, <2>8 DEF FinishInv, NextInv, Carried
<1> QED BY <1>2, <1>3

LEMMA OtherCommands ==
  ASSUME cmd'.name \notin {"finish", "next"}
  PROVE  FinishInv' /\ NextInv'
PROOF
BY DEF FinishInv, NextInv

LEMMA CommandsStep ==
  ASSUME CommandsInv, [Next]_vars, InText', FreshInv', m' = m \/ Moves(m')
  PROVE  FinishInv' /\ NextInv'
PROOF
<1>1. DOMAIN cmd = CmdFields /\ prog' = prog /\ NamesInv
  BY EveryStep DEF CommandsInv, IInv
<1>2. ASSUME NEW c, DOMAIN c = CmdFields, c.name \notin {"finish", "next"},
             Kept(c) \/ cmd' = c
      PROVE  FinishInv' /\ NextInv'
  BY <1>2, OtherCommands, KeptCarried DEF Carried
<1>3. CASE Attach
  <2>1. cmd.name = "start" /\ Kept(cmd)
    BY <1>1, <1>3, GotoKeeps DEF Attach, NamesInv
  <2> QED BY <1>1, <1>2, <2>1
<1>4. CASE Start
  <2>1. PICK t : Goto(cmd, "ended") \/ \E b : ContinueExecution(b, [cmd EXCEPT !.temp = t])
    BY <1>4 DEF Start
  <2>2. PICK c : c = [cmd EXCEPT !.temp = t]
    OBVIOUS
  <2>3. DOMAIN c = CmdFields /\ c.name = "start" /\ cmd.name = "start"
    BY <1>1, <1>4, <2>2 DEF Start, NamesInv, CmdFields
  <2>4. Kept(cmd) \/ Kept(c)
    BY <1>1, <2>1, <2>2, <2>3, GotoKeeps, ContinueKeeps
  <2> QED BY <1>1, <1>2, <2>3, <2>4
<1>5. CASE CmdContinue
  <2>1. Idle("continue").name = "continue" /\ Kept(Idle("continue"))
    BY <1>5, IdleFields, ContinueKeeps DEF CmdContinue, Idle
  <2> QED BY <1>2, <2>1, IdleFields
<1>6. CASE CmdFinish
  BY <1>6, CmdFinishStep
<1>7. CASE \E column \in BOOLEAN : CmdStep(column)
  <2>1. PICK p, q : Goto([Idle("step") EXCEPT !.column = q, !.lineInfo = p], "stepping")
    BY <1>7 DEF CmdStep
  <2>2. PICK c : c = [Idle("step") EXCEPT !.column = q, !.lineInfo = p]
    OBVIOUS
  <2>3. DOMAIN c = CmdFields /\ c.name = "step"
    BY <2>2 DEF Idle, CmdFields
  <2> QED BY <1>2, <2>1, <2>2, <2>3, GotoKeeps
<1>8. CASE \E column \in BOOLEAN : CmdNext(column)
  BY <1>8, CmdNextStep
<1>9. CASE \/ \E f \in Functions : CmdBreakFunction(f)
           \/ \E line \in Lines, column \in 1 .. 2 : CmdBreakLine(line, column)
  <2>1. PICK a, c : DOMAIN c = CmdFields /\ c.name = "break" /\ SetBreakpoint(a, c)
    BY <1>9, BreaksBegin
  <2>2. Throw(c) \/ cmd' = c
    BY <2>1 DEF SetBreakpoint
  <2> QED BY <1>2, <2>1, <2>2, ThrowKeeps
<1>10. CASE StepFrom
  BY <1>10, StepFromStep
<1>11. CASE StepOver
  BY <1>11, StepOverStep
<1>12. CASE Run
  BY <1>12, RunStep
<1>13. CASE UNCHANGED vars
  BY <1>13 DEF vars, processVars, copies, CommandsInv, FinishInv, NextInv, Ready, RunsTo,
               InActivation, HasReturned, Deep, Returned, OfFunction, IsEnter, Functions,
               Instruction, Enabled
<1> QED BY <1>3, <1>4, <1>5, <1>6, <1>7, <1>8, <1>9, <1>10, <1>11, <1>12, <1>13
        DEF Next, Command, Work

-----------------------------------------------------------------------------
CarriedOut ==
  /\ DebuggerInv /\ NestedInv /\ PlacesInv /\ NamesInv
  /\ NonRecursive => FinishInv /\ NextInv

LEMMA CarriedOutHolds == Spec => []CarriedOut
PROOF
<1>1. Init => CarriedOut
  <2>1. Init => DebuggerInv
    BY InitIInv, InitInText, InitTypesInv DEF DebuggerInv, FreshInv, Init, Idle
  <2>2. Init => PlacesInv /\ NamesInv /\ FinishInv /\ NextInv
    BY DEF Init, Idle, PlacesInv, PlaceOrNone, NamesInv, FinishInv, NextInv
  <2> QED BY <2>1, <2>2, InitNestedInv DEF CarriedOut
<1>2. ASSUME CarriedOut, [Next]_vars PROVE CarriedOut'
  <2>1. /\ DebuggerInv /\ IInv /\ InText /\ FreshInv /\ TypesInv /\ NestedInv /\ PlacesInv
        /\ NamesInv
    BY <1>2 DEF CarriedOut, DebuggerInv
  <2>2. DebuggerInv' /\ InText' /\ FreshInv' /\ NestedInv' /\ PlacesInv' /\ NamesInv'
    BY <1>2, <2>1, InvariantStep, NestedInvStep, PlacesStep, NamesStep DEF DebuggerInv
  <2>3. ASSUME NonRecursive' PROVE FinishInv' /\ NextInv'
    <3>1. NonRecursive
      <4>1. prog' = prog
        BY <1>2, <2>1, EveryStep
      <4> QED BY <2>3, <4>1 DEF NonRecursive, Calls, Functions
    <3>2. CommandsInv
      BY <1>2, <2>1, <3>1 DEF CarriedOut, CommandsInv
    <3> QED BY <1>2, <2>1, <2>2, <3>2, StepMoves, CommandsStep
  <2> QED BY <2>2, <2>3 DEF CarriedOut
<1> QED BY <1>1, <1>2, PTL DEF Spec

\* Where no function calls itself, finish leaves the activation it was given in and no
\* other one, unless a breakpoint of the user or a fault comes first: the breakpoint at
\* the return place is not met before (debugger.cpp:186-201).
THEOREM FinishLeavesHolds == Spec => []FinishLeaves
PROOF
<1>1. CarriedOut => FinishLeaves
  BY DEF CarriedOut, FinishInv, FinishLeaves, Undisturbed
<1> QED BY <1>1, CarriedOutHolds, PTL

\* Where no function calls itself, next ends in the activation it was given in, or at
\* the place to which that one has returned, whatever was called in between and
\* whichever breakpoints stand there (debugger.cpp:204-239).
THEOREM NextStepsOverHolds == Spec => []NextStepsOver
PROOF
<1>1. CarriedOut => NextStepsOver
  <2>1. DebuggerInv => (Ready => mPc = m.pc)
    BY DEF DebuggerInv, FreshInv, Copied, Ready
  <2> QED BY <2>1 DEF CarriedOut, NextInv, NextStepsOver, Undisturbed, HasReturned, Returned
<1> QED BY <1>1, CarriedOutHolds, PTL
===============================================================================
