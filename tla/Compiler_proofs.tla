--------------------------- MODULE Compiler_proofs ----------------------------
(***************************************************************************)
(* Proofs about Compiler, for every set of programs: the type of the       *)
(* state; whatever the order of the words, the stacks of open blocks stay  *)
(* in step; in a file whose functions close their blocks every jump has a  *)
(* label to land on where it is written; the parser and the                *)
(* compiler agree on the function that is open; what is written after an   *)
(* exception has no code in it; a function that has been ended keeps the   *)
(* two stacks of the program balanced; no label of a block is placed       *)
(* twice; every call has one function to go to; and a well formed program  *)
(* is compiled without an exception.                                       *)
(***************************************************************************)
EXTENDS Compiler, SequenceFacts, FiniteSetTheorems

\* The stacks of open blocks and their counters.
Stacks == /\ while_label_ct \in Nat /\ if_label_ct \in Nat
          /\ while_labels \in Seq(Nat) /\ if_labels \in Seq(Nat)
          /\ has_else \in Seq(BOOLEAN)
          /\ BlocksInStep

\* Words inside a function are compiled into the unit of that function.
Units == /\ in_function \in DOMAIN functions \cup {""}
         /\ compile_unit \in DOMAIN functions \cup {NoUnit}
         /\ status \in {"compiling", "done", "error", "assertion", "crash"}
         /\ status = "compiling" /\ in_function # "" => compile_unit = in_function

Progress == pos \in 0 .. Len(src) /\ exit_status \in {-1, 0, 1} /\ src \in Programs

IInv == Stacks /\ Units /\ Progress

-----------------------------------------------------------------------------
\* A block with the next number is opened inside the others.
LEMMA PushBlock ==
  ASSUME NEW s \in Seq(Nat), NEW n \in Nat, Increasing(s), \A i \in DOMAIN s : s[i] < n
  PROVE  /\ Append(s, n) \in Seq(Nat)
         /\ Len(Append(s, n)) = Len(s) + 1
         /\ Increasing(Append(s, n))
         /\ \A i \in DOMAIN Append(s, n) : Append(s, n)[i] < n + 1
         /\ \A i \in DOMAIN s : Append(s, n)[i] = s[i] /\ i \in DOMAIN Append(s, n)
         /\ Append(s, n)[Len(s) + 1] = n
         /\ DOMAIN Append(s, n) = 1 .. Len(s) + 1
PROOF
<1>1. /\ Append(s, n) \in Seq(Nat)
      /\ Len(Append(s, n)) = Len(s) + 1
      /\ \A i \in 1 .. Len(s) : Append(s, n)[i] = s[i]
      /\ Append(s, n)[Len(s) + 1] = n
  BY AppendProperties
<1>2. Len(s) \in Nat /\ DOMAIN s = 1 .. Len(s) /\ DOMAIN Append(s, n) = 1 .. Len(s) + 1
  BY <1>1, LenProperties
<1>3. \A i \in DOMAIN s : s[i] \in Nat
  BY <1>2, ElementOfSeq
<1>4. \A i \in DOMAIN Append(s, n) : Append(s, n)[i] < n + 1
  BY <1>1, <1>2, <1>3
<1>5. Increasing(Append(s, n))
  BY <1>1, <1>2, <1>3 DEF Increasing
<1>6. \A i \in DOMAIN s : Append(s, n)[i] = s[i] /\ i \in DOMAIN Append(s, n)
  BY <1>1, <1>2
<1> QED BY <1>1, <1>2, <1>4, <1>5, <1>6, Zenon

\* A stack without its top.
LEMMA PopProperties ==
  ASSUME NEW S, NEW s \in Seq(S), s # <<>>
  PROVE  /\ Len(s) \in Nat \ {0}
         /\ DOMAIN s = 1 .. Len(s)
         /\ Len(s) \in DOMAIN s
         /\ Last(s) \in S
         /\ Front(s) \in Seq(S)
         /\ Len(Front(s)) = Len(s) - 1
         /\ DOMAIN Front(s) = 1 .. Len(s) - 1
         /\ \A i \in 1 .. Len(s) - 1 : Front(s)[i] = s[i]
PROOF
<1>1. Len(s) \in Nat \ {0}
  BY EmptySeq
<1>2. DOMAIN s = 1 .. Len(s)
  BY LenProperties
<1>3. \A i \in 1 .. Len(s) : s[i] \in S
  BY ElementOfSeq
<1>4. /\ SubSeq(s, 1, Len(s) - 1) \in Seq(S)
      /\ Len(SubSeq(s, 1, Len(s) - 1)) = Len(s) - 1
      /\ \A i \in 1 .. Len(s) - 1 : SubSeq(s, 1, Len(s) - 1)[i] = s[i]
  <2>1. \A n \in Nat \ {0} : (\A i \in 1 .. n : s[i] \in S) =>
          /\ SubSeq(s, 1, n - 1) \in Seq(S)
          /\ Len(SubSeq(s, 1, n - 1)) = n - 1
          /\ \A i \in 1 .. n - 1 : SubSeq(s, 1, n - 1)[i] = s[i]
    <3> SUFFICES ASSUME NEW n \in Nat \ {0}, \A i \in 1 .. n : s[i] \in S
                 PROVE  /\ SubSeq(s, 1, n - 1) \in Seq(S)
                        /\ Len(SubSeq(s, 1, n - 1)) = n - 1
                        /\ \A i \in 1 .. n - 1 : SubSeq(s, 1, n - 1)[i] = s[i]
      OBVIOUS
    <3>1. /\ SubSeq(s, 1, n - 1) \in Seq(S)
          /\ Len(SubSeq(s, 1, n - 1)) = (IF 1 <= n - 1 THEN (n - 1) - 1 + 1 ELSE 0)
          /\ \A i \in 1 .. (n - 1) - 1 + 1 : SubSeq(s, 1, n - 1)[i] = s[1 + i - 1]
      <4>1. \A i \in 1 .. n - 1 : s[i] \in S
        OBVIOUS
      <4> QED BY <4>1, SubSeqProperties
    <3> QED BY <3>1
  <2> QED BY <1>1, <1>3, <2>1, Zenon
<1>5. /\ Front(s) \in Seq(S)
      /\ Len(Front(s)) = Len(s) - 1
      /\ \A i \in 1 .. Len(s) - 1 : Front(s)[i] = s[i]
  BY <1>4, Zenon DEF Front
<1>6. DOMAIN Front(s) = 1 .. Len(s) - 1
  BY <1>5, LenProperties
<1>7. Last(s) \in S
  BY <1>1, <1>3 DEF Last
<1> QED BY <1>1, <1>2, <1>5, <1>6, <1>7

\* The innermost block is closed.
LEMMA PopBlock ==
  ASSUME NEW s \in Seq(Nat), NEW n \in Nat, s # <<>>, Increasing(s),
         \A i \in DOMAIN s : s[i] < n
  PROVE  /\ Increasing(Front(s))
         /\ \A i \in DOMAIN Front(s) : Front(s)[i] < n
PROOF
<1>1. /\ Len(s) \in Nat \ {0} /\ DOMAIN s = 1 .. Len(s)
      /\ DOMAIN Front(s) = 1 .. Len(s) - 1
      /\ \A i \in 1 .. Len(s) - 1 : Front(s)[i] = s[i]
  BY PopProperties
<1>2. \A i \in DOMAIN s : s[i] \in Nat
  BY <1>1, ElementOfSeq
<1>3. \A i \in DOMAIN Front(s) : i \in DOMAIN s /\ Front(s)[i] = s[i]
  BY <1>1
<1>4. Increasing(Front(s))
  BY <1>3 DEF Increasing
<1>5. \A i \in DOMAIN Front(s) : Front(s)[i] < n
  BY <1>3
<1> QED BY <1>4, <1>5

-----------------------------------------------------------------------------
\* Initially no block and no function is open.
LEMMA IInvInit == Init => IInv
PROOF
<1> SUFFICES ASSUME Init PROVE IInv
  OBVIOUS
<1>1. \A S : <<>> \in Seq(S) /\ Len(<<>>) = 0 /\ DOMAIN <<>> = {}
  BY EmptySeq
<1>2. Stacks
  BY <1>1 DEF Init, Stacks, BlocksInStep, Increasing
<1>3. Units
  BY DEF Init, Units
<1>4. Progress
  <2>1. Len(src) \in Nat
    BY ProgramsAssumption, LenProperties DEF Init
  <2>2. src \in Programs /\ pos = 0 /\ exit_status = -1
    BY DEF Init
  <2> QED BY <2>1, <2>2 DEF Progress
<1> QED BY <1>2, <1>3, <1>4 DEF IInv

\* Adding code to a unit declares no function.
LEMMA EmitDomain ==
  ASSUME NEW code, Emit(code)
  PROVE  DOMAIN functions' = DOMAIN functions
  BY DEF Emit

\* Words between two words of blocks leave the stacks alone.
LEMMA StacksUnchanged ==
  ASSUME Stacks, UNCHANGED <<whileVars, ifVars>>
  PROVE  Stacks'
PROOF
<1>1. /\ while_labels' = while_labels /\ while_label_ct' = while_label_ct
      /\ if_labels' = if_labels /\ if_label_ct' = if_label_ct /\ has_else' = has_else
  BY DEF whileVars, ifVars
<1> QED BY <1>1 DEF Stacks, BlocksInStep, Increasing

\* A step that only adds code to the unit opens and closes no function.
LEMMA UnitsUnchanged ==
  ASSUME Units, DOMAIN functions' = DOMAIN functions,
         UNCHANGED <<in_function, compile_unit, status>>
  PROVE  Units'
  BY DEF Units

\* An exception closes nothing, and nothing is compiled after it.
LEMMA FailKeeps ==
  ASSUME Stacks, Units, NEW how \in {"error", "crash"}, Fail(how)
  PROVE  Stacks' /\ Units'
PROOF
<1>1. Stacks'
  BY StacksUnchanged DEF Fail
<1>2. Units'
  BY DEF Fail, Units
<1> QED BY <1>1, <1>2

-----------------------------------------------------------------------------
\* The words of a loop.
LEMMA LoopWords ==
  ASSUME Stacks, Units, While \/ Do \/ EndWhile
  PROVE  Stacks' /\ Units'
PROOF
<1>1. CASE While
  <2>1. Units'
    BY <1>1, UnitsUnchanged, EmitDomain DEF While
  <2>2. /\ while_labels' = Append(while_labels, while_label_ct)
        /\ while_label_ct' = while_label_ct + 1
        /\ if_labels' = if_labels /\ if_label_ct' = if_label_ct /\ has_else' = has_else
    BY <1>1 DEF While, ifVars
  <2>3. /\ while_labels' \in Seq(Nat)
        /\ Increasing(while_labels')
        /\ \A i \in DOMAIN while_labels' : while_labels'[i] < while_label_ct'
    BY <2>2, PushBlock DEF Stacks, BlocksInStep
  <2> QED BY <2>1, <2>2, <2>3 DEF Stacks, BlocksInStep, Increasing
<1>2. CASE Do
  <2>1. CASE while_labels = <<>>
    BY <1>2, <2>1, FailKeeps DEF Do
  <2>2. CASE while_labels # <<>>
    BY <1>2, <2>2, UnitsUnchanged, EmitDomain, StacksUnchanged DEF Do
  <2> QED BY <2>1, <2>2
<1>3. CASE EndWhile
  <2>1. CASE while_labels = <<>>
    BY <1>3, <2>1, FailKeeps DEF EndWhile
  <2>2. CASE while_labels # <<>>
    <3>1. Units'
      BY <1>3, <2>2, UnitsUnchanged, EmitDomain DEF EndWhile
    <3>2. /\ while_labels' = Front(while_labels) /\ while_label_ct' = while_label_ct
          /\ if_labels' = if_labels /\ if_label_ct' = if_label_ct /\ has_else' = has_else
      BY <1>3, <2>2 DEF EndWhile, ifVars
    <3>3. /\ while_labels' \in Seq(Nat)
          /\ Increasing(while_labels')
          /\ \A i \in DOMAIN while_labels' : while_labels'[i] < while_label_ct'
      BY <2>2, <3>2, PopProperties, PopBlock DEF Stacks, BlocksInStep
    <3> QED BY <3>1, <3>2, <3>3 DEF Stacks, BlocksInStep, Increasing
  <2> QED BY <2>1, <2>2
<1> QED BY <1>1, <1>2, <1>3

\* The words of a branch.
LEMMA BranchWords ==
  ASSUME Stacks, Units, If \/ Else \/ EndIf
  PROVE  Stacks' /\ Units'
PROOF
<1>1. CASE If
  <2>1. Units'
    BY <1>1, UnitsUnchanged, EmitDomain DEF If
  <2>2. /\ if_labels' = Append(if_labels, if_label_ct)
        /\ if_label_ct' = if_label_ct + 1
        /\ has_else' = Append(has_else, FALSE)
        /\ while_labels' = while_labels /\ while_label_ct' = while_label_ct
    BY <1>1 DEF If, whileVars
  <2>3. /\ if_labels' \in Seq(Nat)
        /\ Len(if_labels') = Len(if_labels) + 1
        /\ Increasing(if_labels')
        /\ \A i \in DOMAIN if_labels' : if_labels'[i] < if_label_ct'
    BY <2>2, PushBlock DEF Stacks, BlocksInStep
  <2>4. has_else' \in Seq(BOOLEAN) /\ Len(has_else') = Len(has_else) + 1
    BY <2>2, AppendProperties DEF Stacks
  <2> QED BY <2>1, <2>2, <2>3, <2>4 DEF Stacks, BlocksInStep, Increasing
<1>2. CASE Else
  <2>1. CASE if_labels = <<>>
    BY <1>2, <2>1, FailKeeps DEF Else
  <2>2. CASE if_labels # <<>>
    <3>1. Units'
      BY <1>2, <2>2, UnitsUnchanged, EmitDomain DEF Else
    <3>2. /\ has_else' = [has_else EXCEPT ![Len(has_else)] = TRUE]
          /\ if_labels' = if_labels /\ if_label_ct' = if_label_ct
          /\ while_labels' = while_labels /\ while_label_ct' = while_label_ct
      BY <1>2, <2>2 DEF Else, whileVars
    <3>3. Len(has_else) \in 1 .. Len(has_else)
      BY <2>2, PopProperties DEF Stacks, BlocksInStep
    <3>4. has_else' \in Seq(BOOLEAN) /\ Len(has_else') = Len(has_else)
      BY <3>2, <3>3, ExceptSeq DEF Stacks
    <3> QED BY <3>1, <3>2, <3>4 DEF Stacks, BlocksInStep, Increasing
  <2> QED BY <2>1, <2>2
<1>3. CASE EndIf
  <2>1. CASE has_else = <<>>
    BY <1>3, <2>1, FailKeeps DEF EndIf
  <2>2. CASE has_else # <<>>
    <3>1. Units'
      BY <1>3, <2>2, UnitsUnchanged, EmitDomain DEF EndIf
    <3>2. /\ has_else' = Front(has_else) /\ if_labels' = Front(if_labels)
          /\ if_label_ct' = if_label_ct
          /\ while_labels' = while_labels /\ while_label_ct' = while_label_ct
      BY <1>3, <2>2 DEF EndIf, whileVars
    <3>3. has_else' \in Seq(BOOLEAN) /\ Len(has_else') = Len(has_else) - 1
          /\ Len(has_else) # 0
      BY <2>2, <3>2, PopProperties DEF Stacks
    <3>4. if_labels # <<>>
      BY <3>3, EmptySeq DEF Stacks, BlocksInStep
    <3>5. /\ if_labels' \in Seq(Nat)
          /\ Len(if_labels') = Len(if_labels) - 1
          /\ Increasing(if_labels')
          /\ \A i \in DOMAIN if_labels' : if_labels'[i] < if_label_ct'
      BY <3>2, <3>4, PopProperties, PopBlock DEF Stacks, BlocksInStep
    <3> QED BY <3>1, <3>2, <3>3, <3>5 DEF Stacks, BlocksInStep, Increasing
  <2> QED BY <2>1, <2>2
<1> QED BY <1>1, <1>2, <1>3

\* The other words inside a function.
LEMMA OtherWords ==
  ASSUME Stacks, Units, status = "compiling",
         EndFunction \/ Call \/ PushString \/ Plain \/ UndeclaredConst
  PROVE  Stacks' /\ Units'
PROOF
<1>1. CASE EndFunction
  <2>1. Stacks'
    BY <1>1, StacksUnchanged DEF EndFunction
  <2>2. Units'
    BY <1>1 DEF EndFunction, Units
  <2> QED BY <2>1, <2>2
<1>2. CASE Call
  <2>1. DOMAIN functions' = DOMAIN functions
    BY <1>2 DEF Call
  <2>2. UNCHANGED <<in_function, compile_unit, whileVars, ifVars, status>>
    BY <1>2 DEF Call
  <2> QED BY <2>1, <2>2, StacksUnchanged, UnitsUnchanged
<1>3. CASE PushString
  BY <1>3, StacksUnchanged, UnitsUnchanged, EmitDomain DEF PushString
<1>4. CASE Plain
  BY <1>4, StacksUnchanged, UnitsUnchanged, EmitDomain DEF Plain
<1>5. CASE UndeclaredConst
  BY <1>5, FailKeeps DEF UndeclaredConst
<1> QED BY <1>1, <1>2, <1>3, <1>4, <1>5

\* Words outside functions.
LEMMA WordsOutside ==
  ASSUME Stacks, Units, status = "compiling", in_function = "", OutsideFunction
  PROVE  Stacks' /\ Units'
PROOF
<1>1. CASE DeclareFunction
  <2>1. CASE word.params # <<>> \/ word.name \in DOMAIN functions
    BY <1>1, <2>1, FailKeeps DEF DeclareFunction
  <2>2. CASE ~(word.params # <<>> \/ word.name \in DOMAIN functions)
    <3>1. Stacks'
      BY <1>1, <2>2, StacksUnchanged DEF DeclareFunction
    <3>2. DOMAIN functions' = DOMAIN functions \cup {word.name}
      BY <1>1, <2>2 DEF DeclareFunction
    <3>3. /\ in_function' = word.name
          /\ \/ status' = "assertion" /\ compile_unit' = compile_unit
             \/ status' = status /\ compile_unit' = word.name
      BY <1>1, <2>2 DEF DeclareFunction
    <3> QED BY <3>1, <3>2, <3>3 DEF Units
  <2> QED BY <2>1, <2>2
<1>2. CASE AllocateMemory
  <2>1. CASE Fail("error")
    BY <2>1, FailKeeps
  <2>2. CASE UNCHANGED <<in_function, compile_unit, functions, whileVars, ifVars, status>>
    BY <2>2, StacksUnchanged, UnitsUnchanged
  <2> QED BY <1>2, <2>1, <2>2 DEF AllocateMemory
<1>3. CASE DeclareConst
  <2>1. CASE Fail("error")
    BY <2>1, FailKeeps
  <2>2. CASE UNCHANGED <<in_function, compile_unit, functions, whileVars, ifVars, status>>
    BY <2>2, StacksUnchanged, UnitsUnchanged
  <2> QED BY <1>3, <2>1, <2>2 DEF DeclareConst
<1>4. CASE NothingElseOutside
  BY <1>4, FailKeeps DEF NothingElseOutside
<1> QED BY <1>1, <1>2, <1>3, <1>4 DEF OutsideFunction

\* Every step of the compiler.
LEMMA IInvStep == IInv /\ [CompilerNext]_compilerVars => IInv'
PROOF
<1> SUFFICES ASSUME IInv, [CompilerNext]_compilerVars PROVE IInv'
  OBVIOUS
<1> USE DEF IInv
<1>1. CASE ReadWord
  <2>1. Stacks' /\ Units'
    <3>1. CASE in_function # "" /\ ParamsOK(word)
      BY <1>1, <3>1, LoopWords, BranchWords, OtherWords DEF ReadWord, InsideFunction
    <3>2. CASE in_function # "" /\ ~ParamsOK(word)
      BY <1>1, <3>2, FailKeeps DEF ReadWord, InsideFunction
    <3>3. CASE in_function = ""
      BY <1>1, <3>3, WordsOutside DEF ReadWord
    <3> QED BY <3>1, <3>2, <3>3
  <2>2. Progress'
    <3>1. Len(src) \in Nat
      BY ProgramsAssumption, LenProperties DEF Progress
    <3>2. pos < Len(src) /\ pos' = pos + 1 /\ src' = src /\ exit_status' = exit_status
      BY <1>1 DEF ReadWord, cliVars
    <3> QED BY <3>1, <3>2 DEF Progress
  <2> QED BY <2>1, <2>2
<1>2. CASE Finish
  <2>1. Progress'
    BY <1>2 DEF Finish, Progress, cliVars
  <2>2. Stacks' /\ Units'
    <3>1. CASE Fail("error") \/ Fail("crash")
      BY <3>1, FailKeeps
    <3>2. CASE ~(Fail("error") \/ Fail("crash"))
      <4>1. UNCHANGED <<in_function, compile_unit, whileVars, ifVars>> /\ status' = "done"
        BY <1>2, <3>2 DEF Finish
      <4>2. DOMAIN functions' = DOMAIN functions
        BY <1>2, <3>2 DEF Finish
      <4> QED BY <4>1, <4>2, StacksUnchanged DEF Units
    <3> QED BY <3>1, <3>2
  <2> QED BY <2>1, <2>2
<1>3. CASE WriteOutput
  <2>1. Stacks' /\ Units'
    BY <1>3, StacksUnchanged, UnitsUnchanged DEF WriteOutput
  <2>2. Progress'
    BY <1>3 DEF WriteOutput, Progress
  <2> QED BY <2>1, <2>2
<1>4. CASE UNCHANGED compilerVars
  <2>1. Stacks' /\ Units'
    BY <1>4, StacksUnchanged, UnitsUnchanged DEF compilerVars
  <2>2. Progress'
    BY <1>4 DEF compilerVars, Progress, cliVars
  <2> QED BY <2>1, <2>2
<1> QED BY <1>1, <1>2, <1>3, <1>4 DEF CompilerNext

\* The invariant holds of every run of the compiler.
LEMMA IInvHolds == CompilerSpec => []IInv
PROOF
<1>1. Init => IInv
  BY IInvInit
<1>2. IInv /\ [CompilerNext]_compilerVars => IInv'
  BY IInvStep
<1> QED BY <1>1, <1>2, PTL DEF CompilerSpec

\* The state has its types, for every set of programs.
THEOREM TypeCorrect == CompilerSpec => []TypeOK
PROOF
<1>1. IInv => TypeOK
  BY DEF IInv, Stacks, Units, Progress, TypeOK
<1> QED BY <1>1, IInvHolds, PTL

\* The stacks of open blocks stay in step for every sequence of words, well
\* nested or not.
THEOREM BlocksInStepHolds == CompilerSpec => []BlocksInStep
PROOF
<1>1. IInv => BlocksInStep
  BY DEF IInv, Stacks
<1> QED BY <1>1, IInvHolds, PTL

-----------------------------------------------------------------------------
\* A sequence, of whatever elements.
IsSeq(s) == \E S : s \in Seq(S)

\* The lines of all functions, the labels some lines place and the labels that
\* they jump to.
AllLines == UNION {ToSet(functions[f]) : f \in DOMAIN functions}
LabelsOf(ls) == {l.lab : l \in {m \in ls : m.ins = "LABEL"}}
TargetsOf(ls) == {l.d.v : l \in {m \in ls : m.ins \in {"JMP", "JE"}}}

\* Code without labels, jumps and calls.
StraightLine(l) == l.ins \notin {"LABEL", "JMP", "JE", "CALL"}
Straight(code) == IsSeq(code) /\ \A l \in ToSet(code) : StraightLine(l)

Sequences == \A f \in DOMAIN functions : IsSeq(functions[f])
CodeInv == InputComplete => Sequences

\* The labels that the words closing the open blocks will place.
EndsToCome == {<<"endwhile", while_labels[i]>> : i \in DOMAIN while_labels}
              \cup {<<IF has_else[i] THEN "endelse" ELSE "endif", if_labels[i]>> :
                      i \in DOMAIN if_labels}
\* The open function has placed every label it jumps to, but for those.
UnitLines == ToSet(functions[compile_unit])
TargetsKnown == TargetsOf(UnitLines) \subseteq LabelsOf(UnitLines) \cup EndsToCome
\* The loop that an elihw will close has its start.
LoopsPlaced == \A i \in DOMAIN while_labels :
                 <<"while", while_labels[i]>> \in LabelsOf(UnitLines)
Code == Sequences /\ TargetsKnown /\ LoopsPlaced

\* A step adds the lines E to the function u and leaves the others alone.
Extended(u, E) == /\ DOMAIN functions' = DOMAIN functions
                  /\ ToSet(functions'[u]) = ToSet(functions[u]) \cup E
                  /\ \A f \in DOMAIN functions : f # u => functions'[f] = functions[f]

\* The elements of a concatenation.
LEMMA ConcatElems ==
  ASSUME NEW s, NEW t, IsSeq(s), IsSeq(t)
  PROVE  IsSeq(s \o t) /\ ToSet(s \o t) = ToSet(s) \cup ToSet(t)
PROOF
<1>1. PICK S : s \in Seq(S)
  BY DEF IsSeq
<1>2. PICK T : t \in Seq(T)
  BY DEF IsSeq
<1> DEFINE U == S \cup T
<1>3. s \in Seq(U) /\ t \in Seq(U)
  BY <1>1, <1>2, SeqMonotonic
<1> HIDE DEF U
<1>4. /\ s \o t \in Seq(U)
      /\ Len(s \o t) = Len(s) + Len(t)
      /\ \A i \in 1 .. Len(s) + Len(t) :
           (s \o t)[i] = IF i <= Len(s) THEN s[i] ELSE t[i - Len(s)]
  BY <1>3, ConcatProperties
<1>5. /\ Len(s) \in Nat /\ DOMAIN s = 1 .. Len(s)
      /\ Len(t) \in Nat /\ DOMAIN t = 1 .. Len(t)
      /\ DOMAIN (s \o t) = 1 .. Len(s) + Len(t)
  BY <1>3, <1>4, LenProperties
<1>6. ASSUME NEW x \in ToSet(s \o t) PROVE x \in ToSet(s) \cup ToSet(t)
  <2>1. PICK i \in 1 .. Len(s) + Len(t) : x = (s \o t)[i]
    BY <1>5, <1>6 DEF ToSet
  <2>2. CASE i <= Len(s)
    BY <1>4, <1>5, <2>1, <2>2 DEF ToSet
  <2>3. CASE i > Len(s)
    BY <1>4, <1>5, <2>1, <2>3 DEF ToSet
  <2> QED BY <1>5, <2>1, <2>2, <2>3
<1>7. ASSUME NEW x \in ToSet(s) PROVE x \in ToSet(s \o t)
  <2>1. PICK i \in 1 .. Len(s) : x = s[i]
    BY <1>5, <1>7 DEF ToSet
  <2>2. i \in 1 .. Len(s) + Len(t) /\ (s \o t)[i] = x
    BY <1>4, <1>5, <2>1
  <2> QED BY <1>5, <2>2 DEF ToSet
<1>8. ASSUME NEW x \in ToSet(t) PROVE x \in ToSet(s \o t)
  <2>1. PICK i \in 1 .. Len(t) : x = t[i]
    BY <1>5, <1>8 DEF ToSet
  <2>2. Len(s) + i \in 1 .. Len(s) + Len(t) /\ (s \o t)[Len(s) + i] = x
    BY <1>4, <1>5, <2>1
  <2> QED BY <1>5, <2>2 DEF ToSet
<1> QED BY <1>4, <1>6, <1>7, <1>8 DEF IsSeq

\* Short sequences, given by their elements.
LEMMA ShortSequences ==
  /\ IsSeq(<<>>) /\ ToSet(<<>>) = {}
  /\ \A a : IsSeq(<<a>>) /\ ToSet(<<a>>) = {a}
  /\ \A a, b : IsSeq(<<a, b>>) /\ ToSet(<<a, b>>) = {a, b}
  /\ \A a, b, c : IsSeq(<<a, b, c>>) /\ ToSet(<<a, b, c>>) = {a, b, c}
  /\ \A a, b, c, d : IsSeq(<<a, b, c, d>>) /\ ToSet(<<a, b, c, d>>) = {a, b, c, d}
  /\ \A a, b, c, d, e : /\ IsSeq(<<a, b, c, d, e>>)
                        /\ ToSet(<<a, b, c, d, e>>) = {a, b, c, d, e}
PROOF
<1>1. IsSeq(<<>>) /\ ToSet(<<>>) = {}
  BY EmptySeq DEF IsSeq, ToSet
<1>2. ASSUME NEW a PROVE IsSeq(<<a>>) /\ ToSet(<<a>>) = {a}
  <2>1. IsSeq(<<a>>)
    <3>1. <<a>> \in Seq({a})
      OBVIOUS
    <3> QED BY <3>1 DEF IsSeq
  <2>2. DOMAIN <<a>> = {1}
    OBVIOUS
  <2>3. ToSet(<<a>>) = {a}
    BY <2>2 DEF ToSet
  <2> QED BY <2>1, <2>3
<1>3. ASSUME NEW a, NEW b PROVE IsSeq(<<a, b>>) /\ ToSet(<<a, b>>) = {a, b}
  <2>1. IsSeq(<<a, b>>)
    <3>1. <<a, b>> \in Seq({a, b})
      OBVIOUS
    <3> QED BY <3>1 DEF IsSeq
  <2>2. DOMAIN <<a, b>> = {1, 2}
    OBVIOUS
  <2>3. ToSet(<<a, b>>) = {a, b}
    BY <2>2 DEF ToSet
  <2> QED BY <2>1, <2>3
<1>4. ASSUME NEW a, NEW b, NEW c
      PROVE  IsSeq(<<a, b, c>>) /\ ToSet(<<a, b, c>>) = {a, b, c}
  <2>1. IsSeq(<<a, b, c>>)
    <3>1. <<a, b, c>> \in Seq({a, b, c})
      OBVIOUS
    <3> QED BY <3>1 DEF IsSeq
  <2>2. DOMAIN <<a, b, c>> = {1, 2, 3}
    OBVIOUS
  <2>3. ToSet(<<a, b, c>>) = {a, b, c}
    BY <2>2 DEF ToSet
  <2> QED BY <2>1, <2>3
<1>5. ASSUME NEW a, NEW b, NEW c, NEW d
      PROVE  IsSeq(<<a, b, c, d>>) /\ ToSet(<<a, b, c, d>>) = {a, b, c, d}
  <2>1. IsSeq(<<a, b, c, d>>)
    <3>1. <<a, b, c, d>> \in Seq({a, b, c, d})
      OBVIOUS
    <3> QED BY <3>1 DEF IsSeq
  <2>2. DOMAIN <<a, b, c, d>> = {1, 2, 3, 4}
    OBVIOUS
  <2>3. ToSet(<<a, b, c, d>>) = {a, b, c, d}
    BY <2>2 DEF ToSet
  <2> QED BY <2>1, <2>3
<1>6. ASSUME NEW a, NEW b, NEW c, NEW d, NEW e
      PROVE  /\ IsSeq(<<a, b, c, d, e>>)
             /\ ToSet(<<a, b, c, d, e>>) = {a, b, c, d, e}
  <2>1. IsSeq(<<a, b, c, d, e>>)
    <3>1. <<a, b, c, d, e>> \in Seq({a, b, c, d, e})
      OBVIOUS
    <3> QED BY <3>1 DEF IsSeq
  <2>2. DOMAIN <<a, b, c, d, e>> = {1, 2, 3, 4, 5}
    OBVIOUS
  <2>3. ToSet(<<a, b, c, d, e>>) = {a, b, c, d, e}
    BY <2>2 DEF ToSet
  <2> QED BY <2>1, <2>3
<1> QED BY <1>1, <1>2, <1>3, <1>4, <1>5, <1>6

\* Straight code of up to five lines, and put together.
LEMMA StraightCode ==
  /\ Straight(<<>>)
  /\ \A a : StraightLine(a) => Straight(<<a>>)
  /\ \A a, b : StraightLine(a) /\ StraightLine(b) => Straight(<<a, b>>)
  /\ \A a, b, c : StraightLine(a) /\ StraightLine(b) /\ StraightLine(c)
                  => Straight(<<a, b, c>>)
  /\ \A a, b, c, d : StraightLine(a) /\ StraightLine(b) /\ StraightLine(c)
                     /\ StraightLine(d) => Straight(<<a, b, c, d>>)
  /\ \A a, b, c, d, e : StraightLine(a) /\ StraightLine(b) /\ StraightLine(c)
                        /\ StraightLine(d) /\ StraightLine(e)
                        => Straight(<<a, b, c, d, e>>)
  /\ \A c, d : Straight(c) /\ Straight(d) => Straight(c \o d)
PROOF
<1>1. ASSUME NEW c, NEW d, Straight(c), Straight(d) PROVE Straight(c \o d)
  <2>1. IsSeq(c \o d) /\ ToSet(c \o d) = ToSet(c) \cup ToSet(d)
    BY <1>1, ConcatElems DEF Straight
  <2> QED BY <1>1, <2>1 DEF Straight
<1> QED BY <1>1, ShortSequences DEF Straight

\* A line for each of 1 .. n.
LEMMA StraightTable ==
  ASSUME NEW n \in Int, NEW T, \A i \in 1 .. n : T[i].ins = "PUSH" \/ T[i].ins = "POP",
         T = [i \in 1 .. n |-> T[i]]
  PROVE  Straight(T)
PROOF
<1>1. IsSeq(T)
  <2> DEFINE S == {T[i] : i \in 1 .. n}
  <2>1. CASE n \in Nat
    <3>1. T \in [1 .. n -> S]
      OBVIOUS
    <3>2. T \in Seq(S)
      BY <2>1, <3>1, SeqDef
    <3> QED BY <3>2 DEF IsSeq
  <2>2. CASE n < 0
    <3>1. 1 .. n = {} /\ 1 .. 0 = {}
      BY <2>2
    <3>2. T \in [1 .. 0 -> S]
      BY <3>1
    <3>3. T \in Seq(S)
      BY <3>2, SeqDef
    <3> QED BY <3>3 DEF IsSeq
  <2> QED BY <2>1, <2>2
<1>2. DOMAIN T = 1 .. n
  OBVIOUS
<1> QED BY <1>1, <1>2 DEF Straight, StraightLine, ToSet

\* The code of an operator has no labels and jumps.
LEMMA ArithmeticStraight ==
  ASSUME NEW o \in Arithmetic
  PROVE  Straight(ArithmeticCode(o))
PROOF
<1> USE DEF StraightLine, I0, I1, I2, PUSH, POP
<1>1. Straight(Pop2) /\ Straight(PushRAX) /\ Straight(DivCode)
  BY StraightCode DEF Pop2, PushRAX, DivCode
<1>2. /\ Straight(<<I2("ADD", Reg("RAX"), Reg("RBX"))>>)
      /\ Straight(<<I2("SUB", Reg("RAX"), Reg("RBX"))>>)
      /\ Straight(<<I1("MUL", Reg("RBX"))>>)
      /\ Straight(<<I2("MOV", Reg("RAX"), Reg("RDX"))>>)
      /\ Straight(<<PUSH(Reg("RDX"))>>)
      /\ Straight(<<I2("OR", Reg("RAX"), Reg("RBX"))>>)
      /\ Straight(<<I2("AND", Reg("RAX"), Reg("RBX"))>>)
  BY StraightCode
<1>3. \A c, d : Straight(c) /\ Straight(d) => Straight(c \o d)
  BY StraightCode
<1> HIDE DEF StraightLine, I0, I1, I2, PUSH, POP
<1>4. CASE o = "+"
  BY <1>1, <1>2, <1>3, <1>4 DEF ArithmeticCode
<1>5. CASE o = "-"
  BY <1>1, <1>2, <1>3, <1>5 DEF ArithmeticCode
<1>6. CASE o = "*"
  BY <1>1, <1>2, <1>3, <1>6 DEF ArithmeticCode
<1>7. CASE o = "/"
  BY <1>1, <1>2, <1>3, <1>7 DEF ArithmeticCode
<1>8. CASE o = "%"
  BY <1>1, <1>2, <1>3, <1>8 DEF ArithmeticCode
<1>9. CASE o = "divmod"
  BY <1>1, <1>2, <1>3, <1>9 DEF ArithmeticCode
<1>10. CASE o = "or"
  BY <1>1, <1>2, <1>3, <1>10 DEF ArithmeticCode
<1>11. CASE o = "&"
  BY <1>1, <1>2, <1>3, <1>11 DEF ArithmeticCode
<1> QED BY <1>4, <1>5, <1>6, <1>7, <1>8, <1>9, <1>10, <1>11 DEF Arithmetic

LEMMA CompareStraight ==
  ASSUME NEW o \in Comparisons
  PROVE  Straight(CompareCode(o))
PROOF
<1> USE DEF StraightLine, I1, I2, PUSH, POP
<1>1. SetInstruction(o) \notin {"LABEL", "JMP", "JE", "CALL"}
  BY DEF Comparisons, SetInstruction
<1>2. Straight(<<POP("RBX"), POP("RCX"), I2("XOR", Reg("RAX"), Reg("RAX")),
                 I2("CMP", Reg("RCX"), Reg("RBX")),
                 I1(SetInstruction(o), Reg("AL"))>>)
  BY <1>1, StraightCode
<1>3. Straight(PushRAX)
  BY StraightCode DEF PushRAX
<1> QED BY <1>2, <1>3, StraightCode, Zenon DEF CompareCode

LEMMA TransferStraight ==
  /\ \A i, ct \in Int : Straight(CopyCode(i, ct))
  /\ \A i, j \in Int : Straight(SwapCode(i, j))
  /\ \A n \in Int : Straight(SyscallCode(n))
  /\ \A size \in Sizes : Straight(ReadCode(size)) /\ Straight(WriteCode(size))
  /\ \A l : Straight(AddressCode(l))
PROOF
<1> USE DEF StraightLine, I0, I1, I2, PUSH, POP
<1>0. Straight(PushRAX)
  BY StraightCode DEF PushRAX
<1>1. ASSUME NEW i \in Int, NEW ct \in Int PROVE Straight(CopyCode(i, ct))
  <2>1. Straight(<<I2("MOV", Reg("RAX"), Stk(i * intsize))>>)
    BY StraightCode
  <2>2. Straight([k \in 1 .. ct |-> PUSH(Reg("RAX"))])
    <3> DEFINE T == [k \in 1 .. ct |-> PUSH(Reg("RAX"))]
    <3>1. T = [k \in 1 .. ct |-> T[k]] /\ \A k \in 1 .. ct : T[k].ins = "PUSH"
      OBVIOUS
    <3> HIDE DEF T
    <3>2. Straight(T)
      BY <3>1, StraightTable
    <3> QED BY <3>2 DEF T
  <2> QED BY <2>1, <2>2, StraightCode, Zenon DEF CopyCode
<1>2. ASSUME NEW i \in Int, NEW j \in Int PROVE Straight(SwapCode(i, j))
  BY StraightCode DEF SwapCode
<1>3. ASSUME NEW n \in Int PROVE Straight(SyscallCode(n))
  <2>1. Straight([i \in 1 .. n + 1 |-> POP(ArgOrder[i])])
    <3> DEFINE T == [i \in 1 .. n + 1 |-> POP(ArgOrder[i])]
    <3>1. T = [i \in 1 .. n + 1 |-> T[i]]
      OBVIOUS
    <3>2. \A x : POP(x).ins = "POP"
      OBVIOUS
    <3>3. \A i \in 1 .. n + 1 : T[i].ins = "POP"
      <4>1. \A i \in 1 .. n + 1 : T[i] = POP(ArgOrder[i])
        BY Zenon
      <4> QED BY <3>2, <4>1
    <3> HIDE DEF T
    <3>4. n + 1 \in Int
      OBVIOUS
    <3>5. Straight(T)
      BY <3>1, <3>3, <3>4, StraightTable
    <3> QED BY <3>5 DEF T
  <2>2. Straight(<<I0("SYSCALL")>>)
    BY StraightCode
  <2> QED BY <1>0, <2>1, <2>2, StraightCode, Zenon DEF SyscallCode
<1>4. ASSUME NEW size \in Sizes PROVE Straight(ReadCode(size)) /\ Straight(WriteCode(size))
  <2>1. /\ Straight(<<POP("RBX")>>)
        /\ Straight(<<I2("MOV", Reg(SizedRAX(size)), Ptr("RBX"))>>)
        /\ Straight(IF size = 8 THEN <<>> ELSE <<I2("XOR", Reg("RAX"), Reg("RAX"))>>)
    BY StraightCode
  <2>2. Straight(ReadCode(size))
    BY <1>0, <2>1, StraightCode, Zenon DEF ReadCode
  <2>3. Straight(WriteCode(size))
    BY StraightCode DEF WriteCode
  <2> QED BY <2>2, <2>3
<1>5. ASSUME NEW l PROVE Straight(AddressCode(l))
  <2>1. Straight(<<I2("LEA", Reg("RAX"), Lab(l))>>)
    BY StraightCode
  <2> QED BY <1>0, <2>1, StraightCode, Zenon DEF AddressCode
<1> QED BY <1>1, <1>2, <1>3, <1>4, <1>5

LEMMA PlainStraight ==
  ASSUME src \in Programs, pos \in 0 .. Len(src), pos < Len(src),
         ParamsOK(word), Plain
  PROVE  Straight(PlainCode(word))
PROOF
<1>1. word \in Word
  <2>1. src \in Seq(Word) /\ Len(src) \in Nat
    BY ProgramsAssumption, LenProperties
  <2>2. pos + 1 \in 1 .. Len(src)
    BY <2>1
  <2> QED BY <2>1, <2>2, ElementOfSeq DEF word
<1>2. word.params \in Seq(Int)
  BY <1>1 DEF Word
<1>3. CASE word.head = "int"
  <2>1. Straight(<<PUSH(Imm(word.params[1]))>>)
    BY StraightCode DEF StraightLine, PUSH, I1
  <2> QED BY <1>3, <2>1 DEF PlainCode
<1>4. CASE word.head = "@"
  BY <1>4, TransferStraight DEF PlainCode
<1>5. CASE word.head = "$"
  <2>1. Straight(<<PUSH(Imm(const_labels[word.name]))>>)
    BY StraightCode DEF StraightLine, PUSH, I1
  <2> QED BY <1>5, <2>1 DEF PlainCode
<1>6. CASE word.head = "id" /\ word.name \in Operators \ Structure
  <2>1. PlainCode(word) = OperatorCode(word.name, word.params)
    BY <1>6 DEF PlainCode
  <2>2. \A o \in Operators \ Structure, p \in Seq(Int) :
          /\ o = "copy" => Len(p) <= 2
          /\ o = "swap" => Len(p) <= 2
          /\ o = "syscall" => Len(p) = 1
          /\ o \in {"get", "set"} => Len(p) = 1 /\ p[1] \in Sizes
          => Straight(OperatorCode(o, p))
    <3> SUFFICES ASSUME NEW o \in Operators \ Structure, NEW p \in Seq(Int),
                        /\ o = "copy" => Len(p) <= 2
                        /\ o = "swap" => Len(p) <= 2
                        /\ o = "syscall" => Len(p) = 1
                        /\ o \in {"get", "set"} => Len(p) = 1 /\ p[1] \in Sizes
                 PROVE  Straight(OperatorCode(o, p))
      OBVIOUS
    <3>1. \A i \in 1 .. Len(p) : p[i] \in Int
      BY ElementOfSeq
    <3>2. Len(p) \in Nat
      BY LenProperties
    <3>3. \A i \in {1, 2} : \A d \in Int : Param(p, i, d) \in Int
      BY <3>1, <3>2 DEF Param
    <3>4. CASE o \in Arithmetic
      BY <3>4, ArithmeticStraight DEF OperatorCode, Arithmetic, Comparisons
    <3>5. CASE o \in Comparisons
      BY <3>5, CompareStraight DEF OperatorCode, Arithmetic, Comparisons
    <3>6. CASE o = "pop"
      <4>1. Straight(Pop1)
        BY StraightCode DEF Pop1, StraightLine, POP, I1
      <4> QED BY <3>6, <4>1 DEF OperatorCode, Arithmetic, Comparisons
    <3>7. CASE o = "copy"
      <4>1. Straight(CopyCode(Param(p, 1, 0), Param(p, 2, 1)))
        BY <3>3, TransferStraight
      <4> QED BY <3>7, <4>1 DEF OperatorCode, Arithmetic, Comparisons
    <3>8. CASE o = "swap"
      <4>1. Straight(SwapCode(Param(p, 1, 1), Param(p, 2, 0)))
        BY <3>3, TransferStraight
      <4> QED BY <3>8, <4>1 DEF OperatorCode, Arithmetic, Comparisons
    <3>9. CASE o = "syscall"
      <4>1. Straight(SyscallCode(p[1]))
        BY <3>1, <3>9, TransferStraight
      <4> QED BY <3>9, <4>1 DEF OperatorCode, Arithmetic, Comparisons
    <3>10. CASE o \in {"get", "set"}
      <4>1. Straight(ReadCode(p[1])) /\ Straight(WriteCode(p[1]))
        BY <3>10, TransferStraight
      <4> QED BY <3>10, <4>1 DEF OperatorCode, Arithmetic, Comparisons
    <3> QED BY <3>4, <3>5, <3>6, <3>7, <3>8, <3>9, <3>10
            DEF Operators, WithParams
  <2>3. /\ word.name = "copy" => Len(word.params) <= 2
        /\ word.name = "swap" => Len(word.params) <= 2
        /\ word.name = "syscall" => Len(word.params) = 1
        /\ word.name \in {"get", "set"} => Len(word.params) = 1 /\ word.params[1] \in Sizes
    BY <1>6 DEF ParamsOK
  <2> QED BY <1>2, <1>6, <2>1, <2>2, <2>3, Zenon
<1>7. \/ word.head \in {"int", "@"}
      \/ word.head = "id" /\ word.name \in Operators \ Structure
      \/ word.head = "$" /\ word.name \in DOMAIN const_labels
  BY Zenon DEF Plain
<1> QED BY <1>3, <1>4, <1>5, <1>6, <1>7

-----------------------------------------------------------------------------
\* Labels and targets of lines put together.
LEMMA LabelsAndTargets ==
  /\ \A A, B : /\ LabelsOf(A \cup B) = LabelsOf(A) \cup LabelsOf(B)
               /\ TargetsOf(A \cup B) = TargetsOf(A) \cup TargetsOf(B)
  /\ \A l : LabelsOf({Label(l)}) = {l} /\ TargetsOf({Label(l)}) = {}
  /\ \A l : \A op \in {"JMP", "JE"} : /\ LabelsOf({I1(op, Lab(l))}) = {}
                                     /\ TargetsOf({I1(op, Lab(l))}) = {l}
  /\ \A c : Straight(c) => LabelsOf(ToSet(c)) = {} /\ TargetsOf(ToSet(c)) = {}
  /\ \A n : LabelsOf({Loc(n)}) = {} /\ TargetsOf({Loc(n)}) = {}
PROOF
<1>0. ASSUME NEW x
      PROVE  /\ x.ins = "LABEL" => LabelsOf({x}) = {x.lab} /\ TargetsOf({x}) = {}
             /\ x.ins \in {"JMP", "JE"} => LabelsOf({x}) = {} /\ TargetsOf({x}) = {x.d.v}
  <2>1. {m \in {x} : m.ins = "LABEL"} = IF x.ins = "LABEL" THEN {x} ELSE {}
    OBVIOUS
  <2>2. {m \in {x} : m.ins \in {"JMP", "JE"}}
        = IF x.ins \in {"JMP", "JE"} THEN {x} ELSE {}
    OBVIOUS
  <2> QED BY <2>1, <2>2 DEF LabelsOf, TargetsOf
<1>1. \A A, B : LabelsOf(A \cup B) = LabelsOf(A) \cup LabelsOf(B)
  BY DEF LabelsOf
<1>2. \A A, B : TargetsOf(A \cup B) = TargetsOf(A) \cup TargetsOf(B)
  BY DEF TargetsOf
<1>3. \A l : LabelsOf({Label(l)}) = {l} /\ TargetsOf({Label(l)}) = {}
  BY <1>0 DEF Label
<1>4. ASSUME NEW l, NEW op \in {"JMP", "JE"}
      PROVE  /\ LabelsOf({I1(op, Lab(l))}) = {}
             /\ TargetsOf({I1(op, Lab(l))}) = {l}
  <2>1. I1(op, Lab(l)).ins = op /\ I1(op, Lab(l)).d.v = l
    BY DEF I1, Lab
  <2> QED BY <1>0, <2>1
<1>5. \A c : Straight(c) => LabelsOf(ToSet(c)) = {} /\ TargetsOf(ToSet(c)) = {}
  BY DEF Straight, StraightLine, LabelsOf, TargetsOf
<1>6. \A n : LabelsOf({Loc(n)}) = {} /\ TargetsOf({Loc(n)}) = {}
  BY DEF LabelsOf, TargetsOf, Loc
<1> QED BY <1>1, <1>2, <1>3, <1>4, <1>5, <1>6, Zenon

\* The code of the words that place a label or jump.
LEMMA BlockCode ==
  ASSUME NEW l, NEW m
  PROVE  /\ IsSeq(<<Label(m)>>)
         /\ LabelsOf(ToSet(<<Label(m)>>)) = {m}
         /\ TargetsOf(ToSet(<<Label(m)>>)) = {}
         /\ IsSeq(<<I1("JMP", Lab(l)), Label(m)>>)
         /\ LabelsOf(ToSet(<<I1("JMP", Lab(l)), Label(m)>>)) = {m}
         /\ TargetsOf(ToSet(<<I1("JMP", Lab(l)), Label(m)>>)) = {l}
         /\ IsSeq(Pop1 \o <<I2("CMP", Reg("RAX"), Imm(0)), I1("JE", Lab(l))>>)
         /\ LabelsOf(ToSet(Pop1 \o <<I2("CMP", Reg("RAX"), Imm(0)), I1("JE", Lab(l))>>)) = {}
         /\ TargetsOf(ToSet(Pop1 \o <<I2("CMP", Reg("RAX"), Imm(0)), I1("JE", Lab(l))>>)) = {l}
PROOF
<1>1. ToSet(<<Label(m)>>) = {Label(m)} /\ IsSeq(<<Label(m)>>)
  BY ShortSequences, Zenon
<1>2. LabelsOf({Label(m)}) = {m} /\ TargetsOf({Label(m)}) = {}
  BY LabelsAndTargets, Zenon
<1>3. /\ IsSeq(<<I1("JMP", Lab(l)), Label(m)>>)
      /\ ToSet(<<I1("JMP", Lab(l)), Label(m)>>) = {I1("JMP", Lab(l)), Label(m)}
  BY ShortSequences, Zenon
<1>4. {I1("JMP", Lab(l)), Label(m)} = {I1("JMP", Lab(l))} \cup {Label(m)}
  OBVIOUS
<1>5. /\ LabelsOf({I1("JMP", Lab(l)), Label(m)})
         = LabelsOf({I1("JMP", Lab(l))}) \cup LabelsOf({Label(m)})
      /\ TargetsOf({I1("JMP", Lab(l)), Label(m)})
         = TargetsOf({I1("JMP", Lab(l))}) \cup TargetsOf({Label(m)})
  <2>1. \A A, B : /\ LabelsOf(A \cup B) = LabelsOf(A) \cup LabelsOf(B)
                  /\ TargetsOf(A \cup B) = TargetsOf(A) \cup TargetsOf(B)
    BY LabelsAndTargets, Zenon
  <2> QED BY <1>4, <2>1
<1>6. /\ LabelsOf({I1("JMP", Lab(l))}) = {} /\ TargetsOf({I1("JMP", Lab(l))}) = {l}
      /\ LabelsOf({I1("JE", Lab(l))}) = {} /\ TargetsOf({I1("JE", Lab(l))}) = {l}
  BY LabelsAndTargets
<1> DEFINE CMP == I2("CMP", Reg("RAX"), Imm(0))
           JE == I1("JE", Lab(l))
<1>7. Straight(Pop1) /\ Straight(<<CMP>>)
  BY StraightCode DEF StraightLine, Pop1, POP, I1, I2
<1>8. /\ IsSeq(<<CMP, JE>>) /\ ToSet(<<CMP, JE>>) = {CMP, JE}
      /\ ToSet(<<CMP>>) = {CMP}
  BY ShortSequences, Zenon
<1>9. IsSeq(Pop1 \o <<CMP, JE>>)
      /\ ToSet(Pop1 \o <<CMP, JE>>) = ToSet(Pop1) \cup {CMP, JE}
  <2>1. IsSeq(Pop1)
    BY <1>7 DEF Straight
  <2> QED BY <1>8, <2>1, ConcatElems
<1> HIDE DEF CMP, JE
<1>10. Straight(Pop1 \o <<CMP>>)
       /\ ToSet(Pop1 \o <<CMP>>) = ToSet(Pop1) \cup {CMP}
  BY <1>7, <1>8, StraightCode, ConcatElems DEF Straight
<1>11. ToSet(Pop1 \o <<CMP, JE>>) = ToSet(Pop1 \o <<CMP>>) \cup {JE}
  BY <1>9, <1>10
<1>12. /\ LabelsOf(ToSet(Pop1 \o <<CMP>>) \cup {JE})
          = LabelsOf(ToSet(Pop1 \o <<CMP>>)) \cup LabelsOf({JE})
       /\ TargetsOf(ToSet(Pop1 \o <<CMP>>) \cup {JE})
          = TargetsOf(ToSet(Pop1 \o <<CMP>>)) \cup TargetsOf({JE})
       /\ LabelsOf(ToSet(Pop1 \o <<CMP>>)) = {} /\ TargetsOf(ToSet(Pop1 \o <<CMP>>)) = {}
  <2>1. \A A, B : /\ LabelsOf(A \cup B) = LabelsOf(A) \cup LabelsOf(B)
                  /\ TargetsOf(A \cup B) = TargetsOf(A) \cup TargetsOf(B)
    BY LabelsAndTargets, Zenon
  <2>2. LabelsOf(ToSet(Pop1 \o <<CMP>>)) = {} /\ TargetsOf(ToSet(Pop1 \o <<CMP>>)) = {}
    BY <1>10, LabelsAndTargets, Zenon
  <2> QED BY <2>1, <2>2, Zenon
<1>13. /\ LabelsOf(ToSet(Pop1 \o <<CMP, JE>>)) = {} \cup LabelsOf({JE})
       /\ TargetsOf(ToSet(Pop1 \o <<CMP, JE>>)) = {} \cup TargetsOf({JE})
  BY <1>11, <1>12
<1>14. /\ LabelsOf(ToSet(Pop1 \o <<CMP, JE>>)) = {}
       /\ TargetsOf(ToSet(Pop1 \o <<CMP, JE>>)) = {l}
  BY <1>6, <1>13 DEF JE
<1> QED BY <1>1, <1>2, <1>3, <1>5, <1>6, <1>9, <1>14 DEF CMP, JE

\* One function is given other code, with the lines E added.
LEMMA ReplaceUnit ==
  ASSUME Sequences, NEW u \in DOMAIN functions, NEW code, NEW E,
         IsSeq(code), ToSet(code) = ToSet(functions[u]) \cup E,
         functions' = [functions EXCEPT ![u] = code]
  PROVE  Sequences' /\ AllLines' = AllLines \cup E /\ Extended(u, E)
PROOF
<1>1. /\ DOMAIN functions' = DOMAIN functions
      /\ functions'[u] = code
      /\ \A f \in DOMAIN functions : f # u => functions'[f] = functions[f]
  OBVIOUS
<1>2. Sequences'
  BY <1>1 DEF Sequences
<1>3. \A x : x \in AllLines' <=> \E f \in DOMAIN functions : x \in ToSet(functions'[f])
  BY <1>1 DEF AllLines, ToSet
<1>4. \A x : x \in AllLines <=> \E f \in DOMAIN functions : x \in ToSet(functions[f])
  BY DEF AllLines
<1>5. \A x : x \in AllLines' <=> x \in AllLines \cup E
  <2>1. ASSUME NEW x \in AllLines' PROVE x \in AllLines \cup E
    <3>1. PICK f \in DOMAIN functions : x \in ToSet(functions'[f])
      BY <1>3, <2>1
    <3>2. CASE f = u
      BY <1>1, <1>4, <3>1, <3>2
    <3>3. CASE f # u
      BY <1>1, <1>4, <3>1, <3>3
    <3> QED BY <3>2, <3>3
  <2>2. ASSUME NEW x \in AllLines PROVE x \in AllLines'
    <3>1. PICK f \in DOMAIN functions : x \in ToSet(functions[f])
      BY <1>4, <2>2
    <3>2. x \in ToSet(functions'[f])
      BY <1>1, <3>1
    <3> QED BY <1>3, <3>2
  <2>3. ASSUME NEW x \in E PROVE x \in AllLines'
    BY <1>1, <1>3, <2>3
  <2> QED BY <2>1, <2>2, <2>3
<1>6. Extended(u, E)
  BY <1>1 DEF Extended
<1> QED BY <1>2, <1>5, <1>6

\* A function is added.
LEMMA AddUnit ==
  ASSUME Sequences, NEW u, u \notin DOMAIN functions, NEW code, IsSeq(code),
         functions' = [f \in DOMAIN functions \cup {u} |->
                         IF f = u THEN code ELSE functions[f]]
  PROVE  Sequences' /\ AllLines' = AllLines \cup ToSet(code)
PROOF
<1>1. /\ DOMAIN functions' = DOMAIN functions \cup {u}
      /\ functions'[u] = code
      /\ \A f \in DOMAIN functions : functions'[f] = functions[f]
  OBVIOUS
<1>2. Sequences'
  BY <1>1 DEF Sequences
<1>3. \A x : x \in AllLines' <=> \E f \in DOMAIN functions \cup {u} : x \in ToSet(functions'[f])
  BY <1>1 DEF AllLines, ToSet
<1>4. \A x : x \in AllLines <=> \E f \in DOMAIN functions : x \in ToSet(functions[f])
  BY DEF AllLines
<1>5. \A x : x \in AllLines' <=> x \in AllLines \cup ToSet(code)
  BY <1>1, <1>3, <1>4
<1> QED BY <1>2, <1>5

\* Lines E are added to the open function, with the labels L and the targets T: no
\* jump is left without a target, and the start of every open loop is placed.
LEMMA CodeGrows ==
  ASSUME Code, NEW E, Sequences', UnitLines' = UnitLines \cup E,
         NEW L, NEW T, LabelsOf(E) = L, TargetsOf(E) = T,
         EndsToCome \subseteq EndsToCome' \cup L,
         T \subseteq LabelsOf(UnitLines) \cup L \cup EndsToCome',
         \A i \in DOMAIN while_labels' :
           <<"while", while_labels'[i]>> \in LabelsOf(UnitLines) \cup L
  PROVE  Code'
PROOF
<1>1. /\ LabelsOf(UnitLines \cup E) = LabelsOf(UnitLines) \cup L
      /\ TargetsOf(UnitLines \cup E) = TargetsOf(UnitLines) \cup T
  BY LabelsAndTargets
<1>2. /\ LabelsOf(UnitLines)' = LabelsOf(UnitLines \cup E)
      /\ TargetsOf(UnitLines)' = TargetsOf(UnitLines \cup E)
  BY DEF LabelsOf, TargetsOf
<1>3. /\ LabelsOf(UnitLines)' = LabelsOf(UnitLines) \cup L
      /\ TargetsOf(UnitLines)' = TargetsOf(UnitLines) \cup T
  BY <1>1, <1>2, Zenon
<1>4. TargetsOf(UnitLines)' \subseteq LabelsOf(UnitLines)' \cup EndsToCome'
  BY <1>3 DEF Code, TargetsKnown
<1>5. TargetsKnown'
  BY <1>4 DEF TargetsKnown
<1>6. \A i \in DOMAIN while_labels' : <<"while", while_labels'[i]>> \in LabelsOf(UnitLines)'
  BY <1>3
<1>7. LoopsPlaced'
  BY <1>6 DEF LoopsPlaced
<1> QED BY <1>5, <1>7 DEF Code

\* The open blocks stay what they are.
LEMMA BlocksUnchanged ==
  ASSUME UNCHANGED <<whileVars, ifVars>>
  PROVE  EndsToCome' = EndsToCome /\ while_labels' = while_labels
  BY DEF EndsToCome, whileVars, ifVars

\* Lines without labels and jumps.
LEMMA UnlabelledGrows ==
  ASSUME Code, NEW E, LabelsOf(E) = {}, TargetsOf(E) = {},
         Sequences', Extended(compile_unit, E), compile_unit' = compile_unit,
         UNCHANGED <<whileVars, ifVars>>
  PROVE  Code'
PROOF
<1>1. UnitLines' = UnitLines \cup E
  BY DEF UnitLines, Extended, ToSet
<1>2. EndsToCome' = EndsToCome /\ while_labels' = while_labels
  BY BlocksUnchanged
<1>3. \A i \in DOMAIN while_labels' :
        <<"while", while_labels'[i]>> \in LabelsOf(UnitLines) \cup {}
  BY <1>2 DEF Code, LoopsPlaced
<1> QED BY <1>1, <1>2, <1>3, CodeGrows

\* No code is added.
LEMMA CodeUnchanged ==
  ASSUME Code, functions' = functions, compile_unit' = compile_unit,
         UNCHANGED <<whileVars, ifVars>>
  PROVE  Code'
PROOF
<1>1. Sequences' /\ UnitLines' = UnitLines \cup {}
  BY DEF Code, Sequences, UnitLines
<1>2. LabelsOf({}) = {} /\ TargetsOf({}) = {}
  BY DEF LabelsOf, TargetsOf
<1>3. EndsToCome' = EndsToCome /\ while_labels' = while_labels
  BY BlocksUnchanged
<1>4. \A i \in DOMAIN while_labels' :
        <<"while", while_labels'[i]>> \in LabelsOf(UnitLines) \cup {}
  BY <1>3 DEF Code, LoopsPlaced
<1> QED BY <1>1, <1>2, <1>3, <1>4, CodeGrows

\* What append_asm adds is the code and its .loc.
LEMMA EmitLines ==
  ASSUME Sequences, compile_unit \in DOMAIN functions, NEW code, IsSeq(code), Emit(code)
  PROVE  /\ Sequences'
         /\ AllLines' = AllLines \cup ({Loc(pos + 1)} \cup ToSet(code))
         /\ Extended(compile_unit, {Loc(pos + 1)} \cup ToSet(code))
         /\ LabelsOf({Loc(pos + 1)} \cup ToSet(code)) = LabelsOf(ToSet(code))
         /\ TargetsOf({Loc(pos + 1)} \cup ToSet(code)) = TargetsOf(ToSet(code))
PROOF
<1> DEFINE c == functions[compile_unit] \o <<Loc(pos + 1)>> \o code
<1>1. IsSeq(<<Loc(pos + 1)>>) /\ ToSet(<<Loc(pos + 1)>>) = {Loc(pos + 1)}
  BY ShortSequences, Zenon
<1>2. IsSeq(functions[compile_unit])
  BY DEF Sequences
<1>3. /\ IsSeq(functions[compile_unit] \o <<Loc(pos + 1)>>)
      /\ ToSet(functions[compile_unit] \o <<Loc(pos + 1)>>)
         = ToSet(functions[compile_unit]) \cup {Loc(pos + 1)}
  BY <1>1, <1>2, ConcatElems
<1>4. IsSeq(c) /\ ToSet(c) = ToSet(functions[compile_unit]) \cup {Loc(pos + 1)} \cup ToSet(code)
  BY <1>3, ConcatElems
<1>5. functions' = [functions EXCEPT ![compile_unit] = c]
  BY DEF Emit
<1> HIDE DEF c
<1>6. ToSet(c) = ToSet(functions[compile_unit]) \cup ({Loc(pos + 1)} \cup ToSet(code))
  BY <1>4
<1>7. /\ Sequences' /\ AllLines' = AllLines \cup ({Loc(pos + 1)} \cup ToSet(code))
      /\ Extended(compile_unit, {Loc(pos + 1)} \cup ToSet(code))
  BY <1>4, <1>5, <1>6, ReplaceUnit
<1>8. /\ LabelsOf({Loc(pos + 1)} \cup ToSet(code))
         = LabelsOf({Loc(pos + 1)}) \cup LabelsOf(ToSet(code))
      /\ TargetsOf({Loc(pos + 1)} \cup ToSet(code))
         = TargetsOf({Loc(pos + 1)}) \cup TargetsOf(ToSet(code))
      /\ LabelsOf({Loc(pos + 1)}) = {} /\ TargetsOf({Loc(pos + 1)}) = {}
  <2>1. \A A, B : /\ LabelsOf(A \cup B) = LabelsOf(A) \cup LabelsOf(B)
                  /\ TargetsOf(A \cup B) = TargetsOf(A) \cup TargetsOf(B)
    BY LabelsAndTargets, Zenon
  <2>2. LabelsOf({Loc(pos + 1)}) = {} /\ TargetsOf({Loc(pos + 1)}) = {}
    BY LabelsAndTargets, Zenon
  <2> QED BY <2>1, <2>2, Zenon
<1> QED BY <1>7, <1>8

\* The words of blocks and of straight code, together with the blocks that
\* they open and close.
LEMMA EmitStep ==
  ASSUME Code, compile_unit \in DOMAIN functions, compile_unit' = compile_unit,
         NEW code, IsSeq(code), Emit(code),
         NEW L, NEW T, LabelsOf(ToSet(code)) = L, TargetsOf(ToSet(code)) = T,
         EndsToCome \subseteq EndsToCome' \cup L,
         T \subseteq LabelsOf(UnitLines) \cup L \cup EndsToCome',
         \A i \in DOMAIN while_labels' :
           <<"while", while_labels'[i]>> \in LabelsOf(UnitLines) \cup L
  PROVE  Code'
PROOF
<1> DEFINE E == {Loc(pos + 1)} \cup ToSet(code)
<1>1. Sequences' /\ Extended(compile_unit, E) /\ LabelsOf(E) = L /\ TargetsOf(E) = T
  BY EmitLines DEF Code
<1> HIDE DEF E
<1>2. UnitLines' = UnitLines \cup E
  BY <1>1 DEF UnitLines, Extended, ToSet
<1> QED BY <1>1, <1>2, CodeGrows

\* The words of a loop: do jumps behind the innermost open loop, elihw jumps to
\* its start and places the label behind it.
LEMMA LoopCode ==
  ASSUME Stacks, Code, compile_unit \in DOMAIN functions, While \/ Do \/ EndWhile
  PROVE  Code'
PROOF
<1>0. compile_unit' = compile_unit
  BY DEF While, Do, EndWhile, Fail
<1>1. CASE While
  <2>1. /\ while_labels' = Append(while_labels, while_label_ct)
        /\ if_labels' = if_labels /\ has_else' = has_else
        /\ Emit(<<Label(<<"while", while_label_ct>>)>>)
    BY <1>1 DEF While, ifVars
  <2>2. /\ DOMAIN while_labels' = 1 .. Len(while_labels) + 1
        /\ Len(while_labels) \in Nat /\ DOMAIN while_labels = 1 .. Len(while_labels)
        /\ \A i \in DOMAIN while_labels : while_labels'[i] = while_labels[i]
        /\ while_labels'[Len(while_labels) + 1] = while_label_ct
    BY <2>1, PushBlock, LenProperties DEF Stacks, BlocksInStep
  <2>3. EndsToCome \subseteq EndsToCome'
    BY <2>1, <2>2 DEF EndsToCome
  <2>4. \A i \in DOMAIN while_labels' : i \in DOMAIN while_labels \/ i = Len(while_labels) + 1
    BY <2>2
  <2>5. \A i \in DOMAIN while_labels' : <<"while", while_labels'[i]>>
          \in LabelsOf(UnitLines) \cup {<<"while", while_label_ct>>}
    BY <2>2, <2>4 DEF Code, LoopsPlaced
  <2> DEFINE code == <<Label(<<"while", while_label_ct>>)>>
  <2>6. /\ IsSeq(code) /\ LabelsOf(ToSet(code)) = {<<"while", while_label_ct>>}
        /\ TargetsOf(ToSet(code)) = {} /\ Emit(code)
    BY <2>1, BlockCode
  <2> HIDE DEF code
  <2> QED BY <2>3, <2>5, <2>6, <1>0, EmitStep
<1>2. CASE Do
  <2>1. CASE while_labels = <<>>
    BY <1>2, <2>1, <1>0, CodeUnchanged DEF Do, Fail
  <2>2. CASE while_labels # <<>>
    <3> DEFINE end == <<"endwhile", Last(while_labels)>>
               code == Pop1 \o <<I2("CMP", Reg("RAX"), Imm(0)), I1("JE", Lab(end))>>
    <3>1. Emit(code) /\ UNCHANGED <<whileVars, ifVars>>
      BY <1>2, <2>2 DEF Do
    <3>2. EndsToCome' = EndsToCome /\ while_labels' = while_labels
      BY <3>1, BlocksUnchanged
    <3>3. end \in EndsToCome
      BY <2>2, PopProperties DEF Stacks, EndsToCome, Last
    <3> HIDE DEF end
    <3>4. IsSeq(code) /\ LabelsOf(ToSet(code)) = {} /\ TargetsOf(ToSet(code)) = {end}
      BY BlockCode
    <3> HIDE DEF code
    <3>5. \A i \in DOMAIN while_labels' :
            <<"while", while_labels'[i]>> \in LabelsOf(UnitLines) \cup {}
      BY <3>2 DEF Code, LoopsPlaced
    <3> QED BY <3>1, <3>2, <3>3, <3>4, <3>5, <1>0, EmitStep
  <2> QED BY <2>1, <2>2
<1>3. CASE EndWhile
  <2>1. CASE while_labels = <<>>
    BY <1>3, <2>1, <1>0, CodeUnchanged DEF EndWhile, Fail
  <2>2. CASE while_labels # <<>>
    <3> DEFINE start == <<"while", Last(while_labels)>>
               end == <<"endwhile", Last(while_labels)>>
               code == <<I1("JMP", Lab(start)), Label(end)>>
    <3>1. /\ Emit(code) /\ while_labels' = Front(while_labels)
          /\ if_labels' = if_labels /\ has_else' = has_else
      BY <1>3, <2>2 DEF EndWhile, ifVars
    <3>2. /\ DOMAIN while_labels = 1 .. Len(while_labels) /\ Len(while_labels) \in Nat \ {0}
          /\ DOMAIN while_labels' = 1 .. Len(while_labels) - 1
          /\ \A i \in 1 .. Len(while_labels) - 1 : while_labels'[i] = while_labels[i]
      BY <2>2, <3>1, PopProperties DEF Stacks
    <3>3. \A i \in DOMAIN while_labels :
            \/ i \in DOMAIN while_labels' /\ while_labels'[i] = while_labels[i]
            \/ while_labels[i] = Last(while_labels)
      BY <3>2 DEF Last
    <3>4. EndsToCome \subseteq EndsToCome' \cup {end}
      BY <3>1, <3>3 DEF EndsToCome
    <3>5. start \in LabelsOf(UnitLines)
      BY <3>2 DEF Code, LoopsPlaced, Last
    <3>6. \A i \in DOMAIN while_labels' :
            <<"while", while_labels'[i]>> \in LabelsOf(UnitLines) \cup {end}
      BY <3>2 DEF Code, LoopsPlaced
    <3> HIDE DEF start, end
    <3>7. IsSeq(code) /\ LabelsOf(ToSet(code)) = {end} /\ TargetsOf(ToSet(code)) = {start}
      BY BlockCode
    <3> HIDE DEF code
    <3> QED BY <3>1, <3>4, <3>5, <3>6, <3>7, <1>0, EmitStep
  <2> QED BY <2>1, <2>2
<1> QED BY <1>1, <1>2, <1>3

\* The words of a branch: if jumps to the end of the branch; else jumps to the
\* end of the other one instead and places the end of the first; fi places the
\* end that is left.
LEMMA BranchCode ==
  ASSUME Stacks, Code, compile_unit \in DOMAIN functions, If \/ Else \/ EndIf
  PROVE  Code'
PROOF
<1>u. compile_unit' = compile_unit
  BY DEF If, Else, EndIf, Fail
<1> DEFINE EndOf(i) == <<IF has_else[i] THEN "endelse" ELSE "endif", if_labels[i]>>
<1>0. /\ DOMAIN if_labels = 1 .. Len(if_labels) /\ Len(if_labels) \in Nat
      /\ DOMAIN has_else = 1 .. Len(if_labels) /\ Len(has_else) = Len(if_labels)
  BY LenProperties DEF Stacks, BlocksInStep
<1>1. CASE If
  <2> DEFINE end == <<"endif", if_label_ct>>
             code == Pop1 \o <<I2("CMP", Reg("RAX"), Imm(0)), I1("JE", Lab(end))>>
  <2>1. /\ Emit(code) /\ while_labels' = while_labels
        /\ if_labels' = Append(if_labels, if_label_ct)
        /\ has_else' = Append(has_else, FALSE)
    BY <1>1 DEF If, whileVars
  <2>2. /\ DOMAIN if_labels' = 1 .. Len(if_labels) + 1
        /\ \A i \in DOMAIN if_labels : if_labels'[i] = if_labels[i]
        /\ if_labels'[Len(if_labels) + 1] = if_label_ct
    BY <2>1, PushBlock DEF Stacks, BlocksInStep
  <2>3. /\ \A i \in DOMAIN has_else : has_else'[i] = has_else[i]
        /\ has_else'[Len(if_labels) + 1] = FALSE
    <3>1. \A s \in Seq(BOOLEAN) :
            /\ \A i \in 1 .. Len(s) : Append(s, FALSE)[i] = s[i]
            /\ Append(s, FALSE)[Len(s) + 1] = FALSE
      BY AppendProperties
    <3>2. /\ \A i \in 1 .. Len(has_else) : Append(has_else, FALSE)[i] = has_else[i]
          /\ Append(has_else, FALSE)[Len(has_else) + 1] = FALSE
      BY <3>1, Zenon DEF Stacks
    <3> QED BY <1>0, <2>1, <3>2, Zenon
  <2>4. EndsToCome \subseteq EndsToCome'
    <3>1. \A i \in DOMAIN if_labels : /\ i \in DOMAIN if_labels'
                                      /\ if_labels'[i] = if_labels[i]
                                      /\ has_else'[i] = has_else[i]
      BY <1>0, <2>2, <2>3
    <3> QED BY <2>1, <3>1 DEF EndsToCome
  <2>5. end \in EndsToCome'
    <3>1. Len(if_labels) + 1 \in DOMAIN if_labels'
      BY <1>0, <2>2
    <3> QED BY <2>2, <2>3, <3>1 DEF EndsToCome
  <2>6. \A i \in DOMAIN while_labels' :
          <<"while", while_labels'[i]>> \in LabelsOf(UnitLines) \cup {}
    BY <2>1 DEF Code, LoopsPlaced
  <2> HIDE DEF end
  <2>7. IsSeq(code) /\ LabelsOf(ToSet(code)) = {} /\ TargetsOf(ToSet(code)) = {end}
    BY BlockCode
  <2> HIDE DEF code
  <2> QED BY <2>1, <2>4, <2>5, <2>6, <2>7, <1>u, EmitStep
<1>2. CASE Else
  <2>1. CASE if_labels = <<>>
    BY <1>2, <2>1, <1>u, CodeUnchanged DEF Else, Fail
  <2>2. CASE if_labels # <<>>
    <3> DEFINE n == Len(if_labels)
               new == <<"endelse", Last(if_labels)>>
               old == <<"endif", Last(if_labels)>>
               code == <<I1("JMP", Lab(new)), Label(old)>>
    <3>1. /\ Emit(code) /\ while_labels' = while_labels /\ if_labels' = if_labels
          /\ has_else' = [has_else EXCEPT ![Len(has_else)] = TRUE]
      BY <1>2, <2>2 DEF Else, whileVars
    <3>2. n \in DOMAIN if_labels /\ if_labels[n] = Last(if_labels)
      BY <2>2, PopProperties DEF Stacks, Last
    <3>3. /\ has_else'[n] = TRUE
          /\ \A i \in DOMAIN if_labels : i # n => has_else'[i] = has_else[i]
      BY <1>0, <3>1, <3>2
    <3>4. new \in EndsToCome'
      BY <3>1, <3>2, <3>3 DEF EndsToCome
    <3>5. EndsToCome \subseteq EndsToCome' \cup {old}
      <4>1. ASSUME NEW i \in DOMAIN if_labels PROVE EndOf(i) \in EndsToCome' \cup {old}
        <5>1. CASE i = n
          BY <3>2, <3>4, <5>1
        <5>2. CASE i # n
          BY <3>1, <3>3, <5>2 DEF EndsToCome
        <5> QED BY <5>1, <5>2
      <4>2. \A i \in DOMAIN while_labels : <<"endwhile", while_labels[i]>> \in EndsToCome'
        BY <3>1 DEF EndsToCome
      <4> QED BY <4>1, <4>2 DEF EndsToCome
    <3>6. \A i \in DOMAIN while_labels' :
            <<"while", while_labels'[i]>> \in LabelsOf(UnitLines) \cup {old}
      BY <3>1 DEF Code, LoopsPlaced
    <3> HIDE DEF new, old
    <3>7. IsSeq(code) /\ LabelsOf(ToSet(code)) = {old} /\ TargetsOf(ToSet(code)) = {new}
      BY BlockCode
    <3> HIDE DEF code
    <3> QED BY <3>1, <3>4, <3>5, <3>6, <3>7, <1>u, EmitStep
  <2> QED BY <2>1, <2>2
<1>3. CASE EndIf
  <2>1. CASE has_else = <<>>
    BY <1>3, <2>1, <1>u, CodeUnchanged DEF EndIf, Fail
  <2>2. CASE has_else # <<>>
    <3> DEFINE end == <<IF Last(has_else) THEN "endelse" ELSE "endif", Last(if_labels)>>
               code == <<Label(end)>>
    <3>1. /\ Emit(code) /\ while_labels' = while_labels
          /\ if_labels' = Front(if_labels) /\ has_else' = Front(has_else)
      BY <1>3, <2>2 DEF EndIf, whileVars
    <3>2. /\ Len(has_else) # 0
          /\ \A i \in 1 .. Len(has_else) - 1 : has_else'[i] = has_else[i]
      BY <2>2, <3>1, PopProperties DEF Stacks
    <3>3. if_labels # <<>>
      BY <1>0, <3>2, EmptySeq
    <3>4. /\ DOMAIN if_labels' = 1 .. Len(if_labels) - 1
          /\ \A i \in 1 .. Len(if_labels) - 1 : if_labels'[i] = if_labels[i]
      BY <3>1, <3>3, PopProperties DEF Stacks
    <3>5. \A i \in DOMAIN if_labels :
            \/ /\ i \in DOMAIN if_labels'
               /\ if_labels'[i] = if_labels[i] /\ has_else'[i] = has_else[i]
            \/ i = Len(if_labels)
      BY <1>0, <3>2, <3>4
    <3>6. EndOf(Len(if_labels)) = end
      BY <1>0 DEF Last
    <3>7. EndsToCome \subseteq EndsToCome' \cup {end}
      <4>1. ASSUME NEW i \in DOMAIN if_labels PROVE EndOf(i) \in EndsToCome' \cup {end}
        <5>1. CASE i = Len(if_labels)
          BY <3>6, <5>1
        <5>2. CASE i # Len(if_labels)
          BY <3>5, <5>2 DEF EndsToCome
        <5> QED BY <5>1, <5>2
      <4>2. \A i \in DOMAIN while_labels : <<"endwhile", while_labels[i]>> \in EndsToCome'
        BY <3>1 DEF EndsToCome
      <4> QED BY <4>1, <4>2 DEF EndsToCome
    <3>8. \A i \in DOMAIN while_labels' :
            <<"while", while_labels'[i]>> \in LabelsOf(UnitLines) \cup {end}
      BY <3>1 DEF Code, LoopsPlaced
    <3> HIDE DEF end
    <3>9. IsSeq(code) /\ LabelsOf(ToSet(code)) = {end} /\ TargetsOf(ToSet(code)) = {}
      BY BlockCode
    <3> HIDE DEF code
    <3> QED BY <3>1, <3>7, <3>8, <3>9, <1>u, EmitStep
  <2> QED BY <2>1, <2>2
<1> QED BY <1>1, <1>2, <1>3

\* The words of blocks add lines to the open function, or fail.
LEMMA BlockExtends ==
  ASSUME Sequences, compile_unit \in DOMAIN functions,
         While \/ Do \/ EndWhile \/ If \/ Else \/ EndIf
  PROVE  \/ Fail("crash")
         \/ Sequences' /\ \E E : Extended(compile_unit, E)
PROOF
<1>1. ASSUME NEW code, Emit(code), IsSeq(code)
      PROVE  Sequences' /\ \E E : Extended(compile_unit, E)
  BY <1>1, EmitLines
<1>2. /\ \A m : IsSeq(<<Label(m)>>)
      /\ \A l, m : IsSeq(<<I1("JMP", Lab(l)), Label(m)>>)
      /\ \A l : IsSeq(Pop1 \o <<I2("CMP", Reg("RAX"), Imm(0)), I1("JE", Lab(l))>>)
  BY BlockCode
<1>3. CASE While
  BY <1>1, <1>2, <1>3, Zenon DEF While
<1>4. CASE Do
  BY <1>1, <1>2, <1>4, Zenon DEF Do
<1>5. CASE EndWhile
  BY <1>1, <1>2, <1>5, Zenon DEF EndWhile
<1>6. CASE If
  BY <1>1, <1>2, <1>6, Zenon DEF If
<1>7. CASE Else
  BY <1>1, <1>2, <1>7, Zenon DEF Else
<1>8. CASE EndIf
  BY <1>1, <1>2, <1>8, Zenon DEF EndIf
<1> QED BY <1>3, <1>4, <1>5, <1>6, <1>7, <1>8

\* The other words inside a function add lines without labels and jumps.
LEMMA OtherLines ==
  ASSUME Progress, Sequences, compile_unit \in DOMAIN functions, pos < Len(src), ParamsOK(word),
         EndFunction \/ Call \/ PushString \/ Plain
  PROVE  \E E : /\ Sequences' /\ Extended(compile_unit, E)
                /\ LabelsOf(E) = {} /\ TargetsOf(E) = {}
                /\ UNCHANGED <<whileVars, ifVars>>
PROOF
<1>0. ASSUME NEW c, Emit(c), Straight(c)
      PROVE  \E E : /\ Sequences' /\ Extended(compile_unit, E)
                    /\ LabelsOf(E) = {} /\ TargetsOf(E) = {}
  <2>1. IsSeq(c) /\ LabelsOf(ToSet(c)) = {} /\ TargetsOf(ToSet(c)) = {}
    BY <1>0, LabelsAndTargets DEF Straight
  <2> DEFINE E == {Loc(pos + 1)} \cup ToSet(c)
  <2>2. /\ Sequences' /\ Extended(compile_unit, E)
        /\ LabelsOf(E) = {} /\ TargetsOf(E) = {}
    BY <1>0, <2>1, EmitLines
  <2> QED BY <2>2
<1>1. CASE EndFunction
  <2>1. Straight(Epilogue)
    BY StraightCode DEF Epilogue, StraightLine, I0, I2, PUSH, I1
  <2>2. functions' = [functions EXCEPT ![compile_unit] =
                        functions[compile_unit] \o Epilogue]
        /\ UNCHANGED <<whileVars, ifVars>>
    BY <1>1 DEF EndFunction
  <2>3. /\ IsSeq(functions[compile_unit] \o Epilogue)
        /\ ToSet(functions[compile_unit] \o Epilogue)
           = ToSet(functions[compile_unit]) \cup ToSet(Epilogue)
    BY <2>1, ConcatElems DEF Straight, Sequences
  <2>4. Sequences' /\ Extended(compile_unit, ToSet(Epilogue))
    BY <2>2, <2>3, ReplaceUnit
  <2>5. LabelsOf(ToSet(Epilogue)) = {} /\ TargetsOf(ToSet(Epilogue)) = {}
    BY <2>1, LabelsAndTargets
  <2> QED BY <2>2, <2>4, <2>5
<1>2. CASE Call
  <2> DEFINE callee == IF word.head = "#" THEN "#" \o word.name ELSE word.name
             loc == IF word.head = "#" THEN <<>> ELSE <<Loc(pos + 1)>>
             call == <<I1("CALL", Lab(<<"func", callee>>))>>
  <2>1. functions' = [functions EXCEPT ![compile_unit] =
                        functions[compile_unit] \o loc \o call]
        /\ UNCHANGED <<whileVars, ifVars>>
    BY <1>2 DEF Call
  <2>2. IsSeq(loc) /\ IsSeq(call)
    <3>1. loc \in {<<>>, <<Loc(pos + 1)>>}
      OBVIOUS
    <3>2. IsSeq(call)
      BY ShortSequences, Zenon
    <3> QED BY <3>1, <3>2, ShortSequences
  <2>3. LabelsOf(ToSet(loc \o call)) = {} /\ TargetsOf(ToSet(loc \o call)) = {}
    <3>1. /\ \A l \in ToSet(loc) : l = Loc(pos + 1)
          /\ \A l \in ToSet(call) : l = I1("CALL", Lab(<<"func", callee>>))
      <4>1. \A l \in ToSet(loc) : l = Loc(pos + 1)
        <5>1. ToSet(<<>>) = {} /\ ToSet(<<Loc(pos + 1)>>) = {Loc(pos + 1)}
          BY ShortSequences, Zenon
        <5>2. loc \in {<<>>, <<Loc(pos + 1)>>}
          OBVIOUS
        <5> HIDE DEF loc
        <5> QED BY <5>1, <5>2
      <4>2. ToSet(call) = {I1("CALL", Lab(<<"func", callee>>))}
        BY ShortSequences, Zenon
      <4> HIDE DEF callee, loc, call
      <4> QED BY <4>1, <4>2
    <3> HIDE DEF callee, loc, call
    <3>2. \A l \in ToSet(loc \o call) : l.ins \in {"LOC", "CALL"}
      BY <2>2, <3>1, ConcatElems DEF Loc, I1
    <3> QED BY <3>2 DEF LabelsOf, TargetsOf
  <2> HIDE DEF callee, loc, call
  <2>4. /\ IsSeq(functions[compile_unit] \o loc)
        /\ ToSet(functions[compile_unit] \o loc) = ToSet(functions[compile_unit]) \cup ToSet(loc)
    BY <2>2, ConcatElems DEF Sequences
  <2>5. /\ IsSeq(functions[compile_unit] \o loc \o call)
        /\ ToSet(functions[compile_unit] \o loc \o call)
           = ToSet(functions[compile_unit]) \cup ToSet(loc) \cup ToSet(call)
    BY <2>2, <2>4, ConcatElems
  <2>6. ToSet(loc \o call) = ToSet(loc) \cup ToSet(call)
    BY <2>2, ConcatElems
  <2>7. ToSet(functions[compile_unit] \o loc \o call)
        = ToSet(functions[compile_unit]) \cup ToSet(loc \o call)
    BY <2>5, <2>6
  <2>8. Sequences' /\ Extended(compile_unit, ToSet(loc \o call))
    BY <2>1, <2>5, <2>7, ReplaceUnit
  <2> QED BY <2>1, <2>3, <2>8
<1>3. CASE PushString
  <2>1. \A l : Straight(AddressCode(l))
    BY TransferStraight
  <2>2. UNCHANGED <<whileVars, ifVars>>
    BY <1>3 DEF PushString
  <2>3. \E l : Emit(AddressCode(l))
    BY <1>3 DEF PushString
  <2> QED BY <1>0, <2>1, <2>2, <2>3
<1>4. CASE Plain
  <2>1. Straight(PlainCode(word))
    BY <1>4, PlainStraight DEF Progress
  <2>2. Emit(PlainCode(word)) /\ UNCHANGED <<whileVars, ifVars>>
    BY <1>4 DEF Plain
  <2> QED BY <1>0, <2>1, <2>2
<1> QED BY <1>1, <1>2, <1>3, <1>4

\* Words outside functions add no code but a prologue.
LEMMA SequencesOutside ==
  ASSUME Sequences, OutsideFunction
  PROVE  Sequences'
PROOF
<1>1. CASE DeclareFunction /\ ~Fail("error")
  <2>1. /\ word.name \notin DOMAIN functions
        /\ \E c \in {<<>>, Prologue} :
             functions' = [f \in DOMAIN functions \cup {word.name} |->
                             IF f = word.name THEN c ELSE functions[f]]
    BY <1>1 DEF DeclareFunction
  <2>2. PICK c \in {<<>>, Prologue} :
          functions' = [f \in DOMAIN functions \cup {word.name} |->
                          IF f = word.name THEN c ELSE functions[f]]
    BY <2>1
  <2>3. IsSeq(c)
    BY ShortSequences DEF Prologue
  <2> QED BY <2>1, <2>2, <2>3, AddUnit
<1>2. CASE ~(DeclareFunction /\ ~Fail("error"))
  <2>1. functions' = functions
    BY <1>2 DEF OutsideFunction, AllocateMemory, DeclareConst, NothingElseOutside, Fail
  <2> QED BY <2>1 DEF Sequences
<1> QED BY <1>1, <1>2

-----------------------------------------------------------------------------
LEMMA CodeInvInit == Init => CodeInv
BY DEF Init, CodeInv, Sequences

\* Every step of the compiler.
LEMMA CodeInvStep == IInv /\ CodeInv /\ [CompilerNext]_compilerVars => CodeInv'
PROOF
<1> SUFFICES ASSUME IInv, CodeInv, [CompilerNext]_compilerVars PROVE CodeInv'
  OBVIOUS
<1>0. ASSUME Sequences, functions' = functions PROVE Sequences'
  BY <1>0 DEF Sequences
<1>1. CASE ReadWord
  <2>1. Sequences
    BY <1>1 DEF ReadWord, CodeInv, InputComplete
  <2>2. CASE in_function # "" /\ ParamsOK(word)
    <3>1. compile_unit \in DOMAIN functions /\ pos < Len(src) /\ Progress /\ InsideFunction
      BY <1>1, <2>2 DEF IInv, Units, ReadWord
    <3>2. CASE While \/ Do \/ EndWhile \/ If \/ Else \/ EndIf
      BY <1>0, <2>1, <3>1, <3>2, BlockExtends DEF Fail, CodeInv
    <3>3. CASE EndFunction \/ Call \/ PushString \/ Plain
      BY <2>1, <2>2, <3>1, <3>3, OtherLines DEF CodeInv
    <3>4. CASE UndeclaredConst
      BY <1>0, <2>1, <3>4 DEF UndeclaredConst, Fail, CodeInv
    <3> QED BY <2>2, <3>1, <3>2, <3>3, <3>4 DEF InsideFunction
  <2>3. CASE in_function # "" /\ ~ParamsOK(word)
    BY <1>0, <1>1, <2>1, <2>3 DEF ReadWord, InsideFunction, Fail, CodeInv
  <2>4. CASE in_function = ""
    BY <1>1, <2>1, <2>4, SequencesOutside DEF ReadWord, CodeInv
  <2> QED BY <2>2, <2>3, <2>4
<1>2. CASE Finish
  <2>1. Sequences
    BY <1>2 DEF Finish, CodeInv, InputComplete
  <2>2. CASE Fail("error") \/ Fail("crash")
    BY <1>0, <2>1, <2>2 DEF Fail, CodeInv
  <2>3. CASE ~(Fail("error") \/ Fail("crash"))
    <3>1. /\ compile_unit' = compile_unit /\ status' = "done"
          /\ compile_unit = NoUnit => functions' = functions
      BY <1>2, <2>3 DEF Finish
    <3> QED BY <1>0, <2>1, <3>1 DEF CodeInv, InputComplete
  <2> QED BY <2>2, <2>3
<1>3. CASE WriteOutput \/ UNCHANGED compilerVars
  BY <1>0, <1>3 DEF WriteOutput, compilerVars, CodeInv, InputComplete
<1> QED BY <1>1, <1>2, <1>3 DEF CompilerNext

-----------------------------------------------------------------------------

\* The word that is read is a word.
LEMMA WordIsWord ==
  ASSUME src \in Programs, pos \in 0 .. Len(src), pos < Len(src)
  PROVE  word \in Word
PROOF
<1>1. src \in Seq(Word) /\ Len(src) \in Nat
  BY ProgramsAssumption, LenProperties
<1>2. pos + 1 \in 1 .. Len(src)
  BY <1>1
<1> QED BY <1>1, <1>2, ElementOfSeq DEF word

-----------------------------------------------------------------------------
\* What a word inside a function does to the compiler's record of functions.
LEMMA InsideKeepsDomain ==
  ASSUME InsideFunction
  PROVE  /\ DOMAIN functions' = DOMAIN functions
         /\ status' \in {status, "error", "crash"}
         /\ \/ UNCHANGED <<in_function, compile_unit>>
            \/ in_function' = "" /\ compile_unit' = NoUnit
PROOF
<1>1. CASE ~ParamsOK(word)
  BY <1>1 DEF InsideFunction, Fail
<1>2. CASE While \/ Do \/ EndWhile
  BY <1>2, EmitDomain DEF While, Do, EndWhile, Fail
<1>3. CASE If \/ Else \/ EndIf
  BY <1>3, EmitDomain DEF If, Else, EndIf, Fail
<1>4. CASE EndFunction
  BY <1>4 DEF EndFunction
<1>5. CASE Call
  BY <1>5 DEF Call
<1>6. CASE PushString \/ Plain \/ UndeclaredConst
  BY <1>6, EmitDomain DEF PushString, Plain, UndeclaredConst, Fail
<1> QED BY <1>1, <1>2, <1>3, <1>4, <1>5, <1>6 DEF InsideFunction

\* The parser's record of the function it is in (Parser.py:36-45, 158) and the
\* compiler's (main.py:294-312) agree after every word of every program without a
\* lone "#" outside a function, and the exception of funcdef never comes.  The
\* property is inductive: a function named "" is never forgotten.
THEOREM OneUnitHolds == CompilerSpec => []OneUnit
PROOF
<1>1. Init => OneUnit
  BY DEF Init, OneUnit
<1>2. OneUnit /\ [CompilerNext]_compilerVars => OneUnit'
  <2> SUFFICES ASSUME OneUnit, [CompilerNext]_compilerVars, "" \notin (DOMAIN functions)'
               PROVE  /\ status' # "assertion"
                      /\ status' = "compiling" =>
                           IF in_function' = "" THEN compile_unit' = NoUnit
                           ELSE compile_unit' = in_function'
    BY DEF OneUnit
  <2>1. CASE ReadWord /\ in_function # ""
    <3>1. InsideFunction /\ status = "compiling"
      BY <2>1 DEF ReadWord
    <3>2. DOMAIN functions' = DOMAIN functions
      BY <3>1, InsideKeepsDomain
    <3>3. /\ status # "assertion" /\ compile_unit = in_function
      BY <2>1, <3>1, <3>2 DEF OneUnit
    <3> QED BY <2>1, <3>1, <3>3, InsideKeepsDomain
  <2>2. CASE ReadWord /\ in_function = ""
    <3>1. OutsideFunction /\ status = "compiling"
      BY <2>2 DEF ReadWord
    <3>2. DOMAIN functions \subseteq DOMAIN functions'
      BY <3>1 DEF OutsideFunction, DeclareFunction, AllocateMemory, DeclareConst,
                  NothingElseOutside, Fail
    <3>3. compile_unit = NoUnit
      BY <2>2, <3>1, <3>2 DEF OneUnit
    <3>4. CASE DeclareFunction
      BY <2>2, <3>1, <3>3, <3>4 DEF DeclareFunction, Fail
    <3>5. CASE AllocateMemory \/ DeclareConst \/ NothingElseOutside
      BY <2>2, <3>1, <3>3, <3>5 DEF AllocateMemory, DeclareConst, NothingElseOutside, Fail
    <3> QED BY <3>1, <3>4, <3>5 DEF OutsideFunction
  <2>3. CASE Finish
    BY <2>3 DEF Finish, Fail
  <2>4. CASE WriteOutput
    BY <2>4 DEF WriteOutput, OneUnit
  <2>5. CASE UNCHANGED compilerVars
    BY <2>5 DEF compilerVars, OneUnit
  <2> QED BY <2>1, <2>2, <2>3, <2>4, <2>5 DEF CompilerNext
<1> QED BY <1>1, <1>2, PTL DEF CompilerSpec

-----------------------------------------------------------------------------
\* Only the sizes of segments.
Sizing(code) == IsSeq(code) /\ \A l \in ToSet(code) : l.ins = "LCOMM"

\* Until the end of the input nothing else is outside functions, and the file is
\* written once, after the last word.
FileInv == /\ status # "done" => Sizing(asm)
           /\ output # NoOutput => output = asm /\ exit_status # -1
           /\ status = "compiling" => exit_status = -1

LEMMA SegmentSizes ==
  ASSUME NEW l, NEW size
  PROVE  Sizing(Segment(l, size))
PROOF
<1>1. \A a, b : /\ IsSeq(<<a, b>>) /\ ToSet(<<a, b>>) = {a, b}
  BY ShortSequences
<1>2. \A x, n : Lcomm(x, n).ins = "LCOMM"
  BY DEF Lcomm
<1> QED BY <1>1, <1>2 DEF Sizing, Segment

LEMMA SizingGrows ==
  ASSUME NEW c, NEW d, Sizing(c), Sizing(d)
  PROVE  Sizing(c \o d)
PROOF
<1>1. IsSeq(c \o d) /\ ToSet(c \o d) = ToSet(c) \cup ToSet(d)
  BY ConcatElems DEF Sizing
<1> QED BY <1>1 DEF Sizing

LEMMA FileInvStep == FileInv /\ [CompilerNext]_compilerVars => FileInv'
PROOF
<1> SUFFICES ASSUME FileInv, [CompilerNext]_compilerVars PROVE FileInv'
  OBVIOUS
<1>1. CASE ReadWord
  <2>1. status = "compiling" /\ output' = output /\ exit_status' = exit_status
    BY <1>1 DEF ReadWord, cliVars
  <2>2. exit_status' = -1 /\ output' = NoOutput
    BY <2>1 DEF FileInv
  <2>3. Sizing(asm) /\ status' \in {"compiling", "error", "crash", "assertion"}
    <3>1. CASE in_function # ""
      BY <1>1, <2>1, <3>1, InsideKeepsDomain DEF ReadWord, FileInv
    <3>2. CASE in_function = ""
      BY <1>1, <2>1, <3>2 DEF ReadWord, OutsideFunction, DeclareFunction, AllocateMemory,
                              DeclareConst, NothingElseOutside, Fail, FileInv
    <3> QED BY <3>1, <3>2
  <2>4. asm' = asm \/ \E l, size : asm' = asm \o Segment(l, size)
    <3>1. CASE in_function # ""
      <4>1. CASE ~ParamsOK(word)
        BY <1>1, <3>1, <4>1 DEF ReadWord, InsideFunction, Fail
      <4>2. CASE While \/ Do \/ EndWhile \/ If \/ Else \/ EndIf
        BY <4>2 DEF While, Do, EndWhile, If, Else, EndIf, Fail
      <4>3. CASE EndFunction \/ Call \/ PushString \/ Plain \/ UndeclaredConst
        BY <4>3 DEF EndFunction, Call, PushString, Plain, UndeclaredConst, Fail
      <4> QED BY <1>1, <3>1, <4>1, <4>2, <4>3 DEF ReadWord, InsideFunction
    <3>2. CASE in_function = ""
      <4>1. CASE DeclareFunction \/ DeclareConst \/ NothingElseOutside
        BY <4>1 DEF DeclareFunction, DeclareConst, NothingElseOutside, Fail
      <4>2. CASE AllocateMemory
        BY <4>2 DEF AllocateMemory, Fail
      <4> QED BY <1>1, <3>2, <4>1, <4>2 DEF ReadWord, OutsideFunction
    <3> QED BY <3>1, <3>2
  <2>5. Sizing(asm')
    BY <2>3, <2>4, SegmentSizes, SizingGrows
  <2> QED BY <2>2, <2>3, <2>5 DEF FileInv, Sizing
<1>2. CASE Finish
  <2>1. /\ status = "compiling" /\ output' = output /\ exit_status' = exit_status
    BY <1>2 DEF Finish, cliVars
  <2>2. exit_status' = -1 /\ output' = NoOutput
    BY <2>1 DEF FileInv
  <2>3. status' = "done" \/ (status' \in {"error", "crash"} /\ asm' = asm)
    BY <1>2 DEF Finish, Fail
  <2> QED BY <2>1, <2>2, <2>3 DEF FileInv, Sizing
<1>3. CASE WriteOutput
  <2>1. /\ status' = status /\ asm' = asm /\ status # "compiling" /\ exit_status = -1
        /\ exit_status' \in {0, 1} /\ (output' = output \/ output' = asm)
    BY <1>3 DEF WriteOutput
  <2>2. exit_status' # -1 /\ output = NoOutput
    BY <2>1 DEF FileInv
  <2> QED BY <2>1, <2>2 DEF FileInv, Sizing
<1>4. CASE UNCHANGED compilerVars
  BY <1>4 DEF compilerVars, cliVars, FileInv, Sizing
<1> QED BY <1>1, <1>2, <1>3, <1>4 DEF CompilerNext

\* Whatever had been compiled before an exception, the file that the command line
\* writes all the same holds only the sizes of segments (main.py:503-509).
THEOREM FailedFileIsEmptyHolds == CompilerSpec => []FailedFileIsEmpty
PROOF
<1>1. Init => FileInv
  BY SegmentSizes DEF Init, FileInv
<1>2. FileInv => FailedFileIsEmpty
  BY DEF FileInv, FailedFileIsEmpty, Sizing, ToSet
<1> QED BY <1>1, <1>2, FileInvStep, PTL DEF CompilerSpec

-----------------------------------------------------------------------------
\* Code that leaves the stack of return places where it is.
Keeps(code) == IsSeq(code) /\ \A l \in ToSet(code) : ~MovesR12(l)

\* A function that is being compiled, and one that has been ended, line by line.
Opens(code) == \A i \in 1 .. 3 : code[i] = Prologue[i]
UnitFramed(code) == /\ IsSeq(code) /\ Len(code) >= 3
                    /\ Opens(code)
                    /\ \A i \in 4 .. Len(code) : ~MovesR12(code[i])
Framed(code) == /\ IsSeq(code) /\ Len(code) >= 7
                /\ Opens(code)
                /\ \A i \in 4 .. Len(code) - 4 : ~MovesR12(code[i])
                /\ \A i \in 1 .. 4 : code[Len(code) - 4 + i] = Epilogue[i]

\* The open function has its prologue, all others have both ends.  No word has
\* the name that stands for no unit.
FrameInv == /\ NoUnit \notin DOMAIN functions
            /\ status # "assertion" =>
                 \A f \in DOMAIN functions :
                   IF f = compile_unit THEN status = "compiling" => UnitFramed(functions[f])
                   ELSE Framed(functions[f])

\* u is s and then t, element by element.
Joined(s, t, u) ==
  /\ IsSeq(u)
  /\ Len(s) \in Nat /\ Len(t) \in Nat
  /\ Len(u) = Len(s) + Len(t)
  /\ \A i \in 1 .. Len(s) : u[i] = s[i]
  /\ \A i \in 1 .. Len(t) : u[Len(s) + i] = t[i]
  /\ \A i \in 1 .. Len(t) : t[i] \in ToSet(t)

LEMMA ConcatAt ==
  ASSUME NEW s, NEW t, IsSeq(s), IsSeq(t)
  PROVE  Joined(s, t, s \o t)
PROOF
<1>1. PICK S : s \in Seq(S)
  BY DEF IsSeq
<1>2. PICK T : t \in Seq(T)
  BY DEF IsSeq
<1> DEFINE U == S \cup T
<1>3. s \in Seq(U) /\ t \in Seq(U)
  BY <1>1, <1>2, SeqMonotonic
<1> HIDE DEF U
<1>4. /\ s \o t \in Seq(U)
      /\ Len(s \o t) = Len(s) + Len(t)
      /\ \A i \in 1 .. Len(s) + Len(t) :
           (s \o t)[i] = IF i <= Len(s) THEN s[i] ELSE t[i - Len(s)]
  BY <1>3, ConcatProperties
<1>5. Len(s) \in Nat /\ Len(t) \in Nat /\ DOMAIN t = 1 .. Len(t)
  BY <1>3, LenProperties
<1>6. \A i \in 1 .. Len(s) : (s \o t)[i] = s[i]
  BY <1>4, <1>5
<1>7. \A i \in 1 .. Len(t) : (s \o t)[Len(s) + i] = t[i]
  <2> SUFFICES ASSUME NEW i \in 1 .. Len(t) PROVE (s \o t)[Len(s) + i] = t[i]
    OBVIOUS
  <2>1. Len(s) + i \in 1 .. Len(s) + Len(t) /\ ~(Len(s) + i <= Len(s))
    BY <1>5
  <2>2. (Len(s) + i) - Len(s) = i
    BY <1>5
  <2> QED BY <1>4, <2>1, <2>2
<1>8. \A i \in 1 .. Len(t) : t[i] \in ToSet(t)
  BY <1>5 DEF ToSet
<1> QED BY <1>4, <1>5, <1>6, <1>7, <1>8 DEF IsSeq, Joined

\* A word adds code that keeps the return places.
LEMMA UnitGrows ==
  ASSUME NEW c, NEW d, UnitFramed(c), Keeps(d)
  PROVE  UnitFramed(c \o d)
PROOF
<1>1. IsSeq(c) /\ IsSeq(d)
  BY DEF UnitFramed, Keeps
<1>2. PICK e : e = c \o d /\ Joined(c, d, e)
  BY <1>1, ConcatAt
<1>3. Opens(e)
  BY <1>2 DEF UnitFramed, Opens, Joined
<1>4. ASSUME NEW i \in 4 .. Len(e) PROVE ~MovesR12(e[i])
  <2>1. CASE i <= Len(c)
    <3>1. i \in 4 .. Len(c) /\ e[i] = c[i]
      BY <1>2, <2>1 DEF Joined
    <3> QED BY <3>1 DEF UnitFramed
  <2>2. CASE ~(i <= Len(c))
    <3>1. i - Len(c) \in 1 .. Len(d) /\ Len(c) + (i - Len(c)) = i
      BY <1>2, <2>2 DEF Joined
    <3>2. e[i] \in ToSet(d)
      BY <1>2, <3>1 DEF Joined
    <3> QED BY <3>2 DEF Keeps
  <2> QED BY <2>1, <2>2
<1>5. UnitFramed(e)
  BY <1>2, <1>3, <1>4 DEF UnitFramed, Joined
<1> QED BY <1>2, <1>5

\* The end of a function completes it.
LEMMA UnitEnds ==
  ASSUME NEW c, UnitFramed(c)
  PROVE  Framed(c \o Epilogue)
PROOF
<1>1. IsSeq(c) /\ IsSeq(Epilogue) /\ Len(Epilogue) = 4
  BY ShortSequences DEF Epilogue, UnitFramed
<1>2. PICK e : e = c \o Epilogue /\ Joined(c, Epilogue, e)
  BY <1>1, ConcatAt
<1>3. IsSeq(e) /\ Len(e) = Len(c) + 4 /\ Len(e) >= 7 /\ Len(e) - 4 = Len(c)
  BY <1>1, <1>2 DEF UnitFramed, Joined
<1>4. Opens(e)
  BY <1>2 DEF UnitFramed, Opens, Joined
<1>5. ASSUME NEW i \in 4 .. Len(e) - 4 PROVE ~MovesR12(e[i])
  <2>1. i \in 4 .. Len(c) /\ i \in 1 .. Len(c)
    BY <1>3
  <2>2. e[i] = c[i]
    BY <1>2, <2>1 DEF Joined
  <2> QED BY <2>1, <2>2 DEF UnitFramed
<1>6. \A i \in 1 .. 4 : e[Len(e) - 4 + i] = Epilogue[i]
  BY <1>1, <1>2, <1>3 DEF Joined
<1>7. Framed(e)
  BY <1>3, <1>4, <1>5, <1>6 DEF Framed
<1> QED BY <1>2, <1>7

\* What the property says of the code of a function.
LEMMA FramedMeans ==
  ASSUME NEW code, Framed(code)
  PROVE  /\ Len(code) >= 7
         /\ SubSeq(code, 1, 3) = Prologue
         /\ SubSeq(code, Len(code) - 3, Len(code)) = Epilogue
         /\ \A i \in 4 .. Len(code) - 4 : ~MovesR12(code[i])
PROOF
<1>1. PICK S : code \in Seq(S)
  BY DEF Framed, IsSeq
<1> DEFINE n == Len(code)
<1>2. n \in Nat /\ n >= 7
  BY <1>1, LenProperties DEF Framed
<1>3. \A i \in 1 .. n : code[i] \in S
  BY <1>1, ElementOfSeq
<1>4. SubSeq(code, 1, 3) = Prologue
  <2>1. \A i \in 1 .. 3 : code[i] \in S
    BY <1>2, <1>3
  <2>2. /\ SubSeq(code, 1, 3) \in Seq(S) /\ Len(SubSeq(code, 1, 3)) = 3
        /\ \A i \in 1 .. 3 : SubSeq(code, 1, 3)[i] = code[i]
    BY <2>1, SubSeqProperties
  <2>3. DOMAIN SubSeq(code, 1, 3) = 1 .. 3
    BY <2>2, LenProperties
  <2>4. SubSeq(code, 1, 3) = [i \in 1 .. 3 |-> SubSeq(code, 1, 3)[i]]
    BY <2>2, <2>3, SeqDef
  <2>5. Prologue = [i \in 1 .. 3 |-> Prologue[i]]
    BY DEF Prologue
  <2>6. \A i \in 1 .. 3 : SubSeq(code, 1, 3)[i] = Prologue[i]
    BY <2>2 DEF Framed, Opens
  <2> HIDE DEF n
  <2>7. [i \in 1 .. 3 |-> SubSeq(code, 1, 3)[i]] = [i \in 1 .. 3 |-> Prologue[i]]
    BY <2>6, Zenon
  <2> QED BY <2>4, <2>5, <2>7, Zenon
<1>5. SubSeq(code, n - 3, n) = Epilogue
  <2> DEFINE e == SubSeq(code, n - 3, n)
  <2>1. \A i \in n - 3 .. n : code[i] \in S
    BY <1>2, <1>3
  <2>2. /\ e \in Seq(S) /\ Len(e) = 4
        /\ \A i \in 1 .. 4 : e[i] = code[n - 4 + i]
    <3>1. n - 3 \in Int /\ n \in Int /\ n - (n - 3) + 1 = 4 /\ n - 3 <= n
      BY <1>2
    <3>2. /\ e \in Seq(S) /\ Len(e) = n - (n - 3) + 1
          /\ \A i \in 1 .. n - (n - 3) + 1 : e[i] = code[(n - 3) + i - 1]
      BY <1>2, <2>1, <3>1, SubSeqProperties
    <3>3. \A i \in 1 .. 4 : (n - 3) + i - 1 = n - 4 + i
      BY <1>2
    <3> QED BY <3>1, <3>2, <3>3
  <2> HIDE DEF e
  <2>3. DOMAIN e = 1 .. 4
    BY <2>2, LenProperties
  <2>4. e = [i \in 1 .. 4 |-> e[i]]
    BY <2>2, <2>3, SeqDef
  <2>5. Epilogue = [i \in 1 .. 4 |-> Epilogue[i]]
    BY DEF Epilogue
  <2>6. \A i \in 1 .. 4 : e[i] = Epilogue[i]
    BY <2>2 DEF Framed
  <2>7. [i \in 1 .. 4 |-> e[i]] = [i \in 1 .. 4 |-> Epilogue[i]]
    BY <2>6, Zenon
  <2>8. e = Epilogue
    BY <2>4, <2>5, <2>7, Zenon
  <2> QED BY <2>8 DEF e
<1> QED BY <1>2, <1>4, <1>5 DEF Framed

-----------------------------------------------------------------------------
\* Code of up to five lines, and put together.
LEMMA KeepsCode ==
  /\ Keeps(<<>>)
  /\ \A a : ~MovesR12(a) => Keeps(<<a>>)
  /\ \A a, b : ~MovesR12(a) /\ ~MovesR12(b) => Keeps(<<a, b>>)
  /\ \A a, b, c : ~MovesR12(a) /\ ~MovesR12(b) /\ ~MovesR12(c)
                  => Keeps(<<a, b, c>>)
  /\ \A a, b, c, d : ~MovesR12(a) /\ ~MovesR12(b) /\ ~MovesR12(c)
                     /\ ~MovesR12(d) => Keeps(<<a, b, c, d>>)
  /\ \A a, b, c, d, e : ~MovesR12(a) /\ ~MovesR12(b) /\ ~MovesR12(c)
                        /\ ~MovesR12(d) /\ ~MovesR12(e)
                        => Keeps(<<a, b, c, d, e>>)
  /\ \A c, d : Keeps(c) /\ Keeps(d) => Keeps(c \o d)
PROOF
<1>1. ASSUME NEW c, NEW d, Keeps(c), Keeps(d) PROVE Keeps(c \o d)
  <2>1. IsSeq(c \o d) /\ ToSet(c \o d) = ToSet(c) \cup ToSet(d)
    BY <1>1, ConcatElems DEF Keeps
  <2> QED BY <1>1, <2>1 DEF Keeps
<1> QED BY <1>1, ShortSequences DEF Keeps

\* A line for each of 1 .. n.
LEMMA KeepsTable ==
  ASSUME NEW n \in Int, NEW T, \A i \in 1 .. n : ~MovesR12(T[i]),
         T = [i \in 1 .. n |-> T[i]]
  PROVE  Keeps(T)
PROOF
<1>1. IsSeq(T)
  <2> DEFINE S == {T[i] : i \in 1 .. n}
  <2>1. CASE n \in Nat
    <3>1. T \in [1 .. n -> S]
      OBVIOUS
    <3>2. T \in Seq(S)
      BY <2>1, <3>1, SeqDef
    <3> QED BY <3>2 DEF IsSeq
  <2>2. CASE n < 0
    <3>1. 1 .. n = {} /\ 1 .. 0 = {}
      BY <2>2
    <3>2. T \in [1 .. 0 -> S]
      BY <3>1
    <3>3. T \in Seq(S)
      BY <3>2, SeqDef
    <3> QED BY <3>3 DEF IsSeq
  <2> QED BY <2>1, <2>2
<1>2. DOMAIN T = 1 .. n
  OBVIOUS
<1> QED BY <1>1, <1>2 DEF Keeps, ToSet

\* The code of an operator leaves R12 alone.
LEMMA ArithmeticKeeps ==
  ASSUME NEW o \in Arithmetic
  PROVE  Keeps(ArithmeticCode(o))
PROOF
<1> USE DEF MovesR12, Reg, Stk, Ptr, Imm, Lab, I0, I1, I2, PUSH, POP
<1>1. Keeps(Pop2) /\ Keeps(PushRAX) /\ Keeps(DivCode)
  BY KeepsCode DEF Pop2, PushRAX, DivCode
<1>2. /\ Keeps(<<I2("ADD", Reg("RAX"), Reg("RBX"))>>)
      /\ Keeps(<<I2("SUB", Reg("RAX"), Reg("RBX"))>>)
      /\ Keeps(<<I1("MUL", Reg("RBX"))>>)
      /\ Keeps(<<I2("MOV", Reg("RAX"), Reg("RDX"))>>)
      /\ Keeps(<<PUSH(Reg("RDX"))>>)
      /\ Keeps(<<I2("OR", Reg("RAX"), Reg("RBX"))>>)
      /\ Keeps(<<I2("AND", Reg("RAX"), Reg("RBX"))>>)
  BY KeepsCode
<1>3. \A c, d : Keeps(c) /\ Keeps(d) => Keeps(c \o d)
  BY KeepsCode
<1> HIDE DEF MovesR12, Reg, Stk, Ptr, Imm, Lab, I0, I1, I2, PUSH, POP
<1>4. CASE o = "+"
  BY <1>1, <1>2, <1>3, <1>4 DEF ArithmeticCode
<1>5. CASE o = "-"
  BY <1>1, <1>2, <1>3, <1>5 DEF ArithmeticCode
<1>6. CASE o = "*"
  BY <1>1, <1>2, <1>3, <1>6 DEF ArithmeticCode
<1>7. CASE o = "/"
  BY <1>1, <1>2, <1>3, <1>7 DEF ArithmeticCode
<1>8. CASE o = "%"
  BY <1>1, <1>2, <1>3, <1>8 DEF ArithmeticCode
<1>9. CASE o = "divmod"
  BY <1>1, <1>2, <1>3, <1>9 DEF ArithmeticCode
<1>10. CASE o = "or"
  BY <1>1, <1>2, <1>3, <1>10 DEF ArithmeticCode
<1>11. CASE o = "&"
  BY <1>1, <1>2, <1>3, <1>11 DEF ArithmeticCode
<1> QED BY <1>4, <1>5, <1>6, <1>7, <1>8, <1>9, <1>10, <1>11 DEF Arithmetic

LEMMA CompareKeeps ==
  ASSUME NEW o \in Comparisons
  PROVE  Keeps(CompareCode(o))
PROOF
<1> USE DEF MovesR12, Reg, Stk, Ptr, Imm, Lab, I1, I2, PUSH, POP
<1>1. Keeps(<<POP("RBX"), POP("RCX"), I2("XOR", Reg("RAX"), Reg("RAX")),
                 I2("CMP", Reg("RCX"), Reg("RBX")),
                 I1(SetInstruction(o), Reg("AL"))>>)
  BY KeepsCode
<1>2. Keeps(PushRAX)
  BY KeepsCode DEF PushRAX
<1> QED BY <1>1, <1>2, KeepsCode, Zenon DEF CompareCode

LEMMA TransferKeeps ==
  /\ \A i, ct \in Int : Keeps(CopyCode(i, ct))
  /\ \A i, j \in Int : Keeps(SwapCode(i, j))
  /\ \A n \in Int : n < 7 => Keeps(SyscallCode(n))
  /\ \A size \in Sizes : Keeps(ReadCode(size)) /\ Keeps(WriteCode(size))
  /\ \A l : Keeps(AddressCode(l))
PROOF
<1> USE DEF MovesR12, Reg, Stk, Ptr, Imm, Lab, I0, I1, I2, PUSH, POP
<1>0. Keeps(PushRAX)
  BY KeepsCode DEF PushRAX
<1>1. ASSUME NEW i \in Int, NEW ct \in Int PROVE Keeps(CopyCode(i, ct))
  <2>1. Keeps(<<I2("MOV", Reg("RAX"), Stk(i * intsize))>>)
    BY KeepsCode
  <2>2. Keeps([k \in 1 .. ct |-> PUSH(Reg("RAX"))])
    <3> DEFINE T == [k \in 1 .. ct |-> PUSH(Reg("RAX"))]
    <3>1. T = [k \in 1 .. ct |-> T[k]] /\ \A k \in 1 .. ct : ~MovesR12(T[k])
      OBVIOUS
    <3> HIDE DEF T
    <3>2. Keeps(T)
      BY <3>1, KeepsTable
    <3> QED BY <3>2 DEF T
  <2> QED BY <2>1, <2>2, KeepsCode, Zenon DEF CopyCode
<1>2. ASSUME NEW i \in Int, NEW j \in Int PROVE Keeps(SwapCode(i, j))
  BY KeepsCode DEF SwapCode
<1>3. ASSUME NEW n \in Int, n < 7 PROVE Keeps(SyscallCode(n))
  <2>1. Keeps([i \in 1 .. n + 1 |-> POP(ArgOrder[i])])
    <3> DEFINE T == [i \in 1 .. n + 1 |-> POP(ArgOrder[i])]
    <3>1. T = [i \in 1 .. n + 1 |-> T[i]]
      OBVIOUS
    <3>2. \A x : x # "R12" => ~MovesR12(POP(x))
      OBVIOUS
    <3>3. \A i \in 1 .. n + 1 : ~MovesR12(T[i])
      <4>1. \A i \in 1 .. n + 1 : T[i] = POP(ArgOrder[i])
        BY Zenon
      <4>2. \A i \in 1 .. 7 : ArgOrder[i] # "R12"
        BY DEF ArgOrder
      <4>3. \A i \in 1 .. n + 1 : i \in 1 .. 7
        BY <1>3
      <4> QED BY <3>2, <4>1, <4>2, <4>3, Zenon
    <3> HIDE DEF T
    <3>4. n + 1 \in Int
      OBVIOUS
    <3>5. Keeps(T)
      BY <3>1, <3>3, <3>4, KeepsTable
    <3> QED BY <3>5 DEF T
  <2>2. Keeps(<<I0("SYSCALL")>>)
    BY KeepsCode
  <2> QED BY <1>0, <2>1, <2>2, KeepsCode, Zenon DEF SyscallCode
<1>4. ASSUME NEW size \in Sizes PROVE Keeps(ReadCode(size)) /\ Keeps(WriteCode(size))
  <2>1. /\ Keeps(<<POP("RBX")>>)
        /\ Keeps(<<I2("MOV", Reg(SizedRAX(size)), Ptr("RBX"))>>)
        /\ Keeps(IF size = 8 THEN <<>> ELSE <<I2("XOR", Reg("RAX"), Reg("RAX"))>>)
    <3>1. SizedRAX(size) # "R12"
      BY DEF SizedRAX, Sizes
    <3> QED BY <3>1, KeepsCode
  <2>2. Keeps(ReadCode(size))
    BY <1>0, <2>1, KeepsCode, Zenon DEF ReadCode
  <2>3. Keeps(WriteCode(size))
    BY KeepsCode DEF WriteCode
  <2> QED BY <2>2, <2>3
<1>5. ASSUME NEW l PROVE Keeps(AddressCode(l))
  <2>1. Keeps(<<I2("LEA", Reg("RAX"), Lab(l))>>)
    BY KeepsCode
  <2> QED BY <1>0, <2>1, KeepsCode, Zenon DEF AddressCode
<1> QED BY <1>1, <1>2, <1>3, <1>4, <1>5

LEMMA PlainKeeps ==
  ASSUME src \in Programs, pos \in 0 .. Len(src), pos < Len(src),
         ParamsOK(word), Plain
  PROVE  Keeps(PlainCode(word))
PROOF
<1>1. word \in Word
  BY WordIsWord
<1>2. word.params \in Seq(Int)
  BY <1>1 DEF Word
<1>3. CASE word.head = "int"
  <2>1. Keeps(<<PUSH(Imm(word.params[1]))>>)
    BY KeepsCode DEF MovesR12, PUSH, I1, Imm, Reg
  <2> QED BY <1>3, <2>1 DEF PlainCode
<1>4. CASE word.head = "@"
  BY <1>4, TransferKeeps DEF PlainCode
<1>5. CASE word.head = "$"
  <2>1. Keeps(<<PUSH(Imm(const_labels[word.name]))>>)
    BY KeepsCode DEF MovesR12, PUSH, I1, Imm, Reg
  <2> QED BY <1>5, <2>1 DEF PlainCode
<1>6. CASE word.head = "id" /\ word.name \in Operators \ Structure
  <2>1. PlainCode(word) = OperatorCode(word.name, word.params)
    BY <1>6 DEF PlainCode
  <2>2. \A o \in Operators \ Structure, p \in Seq(Int) :
          /\ o = "copy" => Len(p) <= 2
          /\ o = "swap" => Len(p) <= 2
          /\ o = "syscall" => Len(p) = 1 /\ p[1] < 7
          /\ o \in {"get", "set"} => Len(p) = 1 /\ p[1] \in Sizes
          => Keeps(OperatorCode(o, p))
    <3> SUFFICES ASSUME NEW o \in Operators \ Structure, NEW p \in Seq(Int),
                        /\ o = "copy" => Len(p) <= 2
                        /\ o = "swap" => Len(p) <= 2
                        /\ o = "syscall" => Len(p) = 1 /\ p[1] < 7
                        /\ o \in {"get", "set"} => Len(p) = 1 /\ p[1] \in Sizes
                 PROVE  Keeps(OperatorCode(o, p))
      OBVIOUS
    <3>1. \A i \in 1 .. Len(p) : p[i] \in Int
      BY ElementOfSeq
    <3>2. Len(p) \in Nat
      BY LenProperties
    <3>3. \A i \in {1, 2} : \A d \in Int : Param(p, i, d) \in Int
      BY <3>1, <3>2 DEF Param
    <3>4. CASE o \in Arithmetic
      BY <3>4, ArithmeticKeeps DEF OperatorCode, Arithmetic, Comparisons
    <3>5. CASE o \in Comparisons
      BY <3>5, CompareKeeps DEF OperatorCode, Arithmetic, Comparisons
    <3>6. CASE o = "pop"
      <4>1. Keeps(Pop1)
        BY KeepsCode DEF Pop1, MovesR12, POP, I1, Reg
      <4> QED BY <3>6, <4>1 DEF OperatorCode, Arithmetic, Comparisons
    <3>7. CASE o = "copy"
      <4>1. Keeps(CopyCode(Param(p, 1, 0), Param(p, 2, 1)))
        BY <3>3, TransferKeeps
      <4> QED BY <3>7, <4>1 DEF OperatorCode, Arithmetic, Comparisons
    <3>8. CASE o = "swap"
      <4>1. Keeps(SwapCode(Param(p, 1, 1), Param(p, 2, 0)))
        BY <3>3, TransferKeeps
      <4> QED BY <3>8, <4>1 DEF OperatorCode, Arithmetic, Comparisons
    <3>9. CASE o = "syscall"
      <4>1. Keeps(SyscallCode(p[1]))
        <5>1. p[1] \in Int /\ p[1] < 7
          BY <3>1, <3>9
        <5> QED BY <5>1, TransferKeeps
      <4> QED BY <3>9, <4>1 DEF OperatorCode, Arithmetic, Comparisons
    <3>10. CASE o \in {"get", "set"}
      <4>1. Keeps(ReadCode(p[1])) /\ Keeps(WriteCode(p[1]))
        BY <3>10, TransferKeeps
      <4> QED BY <3>10, <4>1 DEF OperatorCode, Arithmetic, Comparisons
    <3> QED BY <3>4, <3>5, <3>6, <3>7, <3>8, <3>9, <3>10
            DEF Operators, WithParams
  <2>3. /\ word.name = "copy" => Len(word.params) <= 2
        /\ word.name = "swap" => Len(word.params) <= 2
        /\ word.name = "syscall" => Len(word.params) = 1 /\ word.params[1] < 7
        /\ word.name \in {"get", "set"} => Len(word.params) = 1 /\ word.params[1] \in Sizes
    <3>1. Len(ArgOrder) = 7
      BY DEF ArgOrder
    <3> QED BY <1>6, <3>1 DEF ParamsOK
  <2> QED BY <1>2, <1>6, <2>1, <2>2, <2>3, Zenon
<1>7. \/ word.head \in {"int", "@"}
      \/ word.head = "id" /\ word.name \in Operators \ Structure
      \/ word.head = "$" /\ word.name \in DOMAIN const_labels
  BY Zenon DEF Plain
<1> QED BY <1>3, <1>4, <1>5, <1>6, <1>7

-----------------------------------------------------------------------------
\* A word inside a function adds to its unit, and keeps the return places.
LEMMA UnitStep ==
  ASSUME NEW loc, NEW code, Keeps(loc), Keeps(code), FrameInv, status = "compiling",
         compile_unit \in DOMAIN functions,
         functions' = [functions EXCEPT ![compile_unit] = @ \o loc \o code],
         UNCHANGED <<compile_unit, status>>
  PROVE  FrameInv'
PROOF
<1>1. UnitFramed(functions[compile_unit])
  BY DEF FrameInv
<1>2. UnitFramed(functions[compile_unit] \o loc)
  BY <1>1, UnitGrows
<1>3. UnitFramed(functions[compile_unit] \o loc \o code)
  BY <1>2, UnitGrows
<1>4. functions'[compile_unit] = functions[compile_unit] \o loc \o code
  BY Zenon
<1>5. UnitFramed(functions'[compile_unit])
  BY <1>3, <1>4
<1>6. NoUnit \notin DOMAIN functions' /\ DOMAIN functions' = DOMAIN functions
  BY DEF FrameInv
<1>7. \A f \in DOMAIN functions : f # compile_unit =>
        functions'[f] = functions[f] /\ Framed(functions[f])
  BY DEF FrameInv
<1>8. \A f \in DOMAIN functions' : IF f = compile_unit' THEN UnitFramed(functions'[f])
                                   ELSE Framed(functions'[f])
  BY <1>5, <1>6, <1>7
<1> QED BY <1>6, <1>8 DEF FrameInv

LEMMA EmitKeeps ==
  ASSUME NEW code, Keeps(code), FrameInv, status = "compiling",
         compile_unit \in DOMAIN functions, Emit(code), UNCHANGED <<compile_unit, status>>
  PROVE  FrameInv'
PROOF
<1>1. Keeps(<<Loc(pos + 1)>>)
  BY KeepsCode DEF Loc, MovesR12
<1>2. functions' = [functions EXCEPT ![compile_unit] = @ \o <<Loc(pos + 1)>> \o code]
  BY DEF Emit
<1> QED BY <1>1, <1>2, UnitStep

\* Steps that leave the functions alone.
LEMMA FrameUnchanged ==
  ASSUME FrameInv, UNCHANGED <<functions, compile_unit>>,
         status' = status \/ status' \in {"error", "crash", "done"},
         status # "assertion" \/ status' = "assertion"
  PROVE  FrameInv'
  BY DEF FrameInv

\* The words of blocks.
LEMMA BlockFrames ==
  ASSUME FrameInv, status = "compiling", compile_unit \in DOMAIN functions,
         While \/ Do \/ EndWhile \/ If \/ Else \/ EndIf
  PROVE  FrameInv'
PROOF
<1>1. \A l : ~MovesR12(Label(l))
  BY DEF MovesR12, Label
<1>2. \A l, op : ~MovesR12(I1(op, Lab(l)))
  BY DEF MovesR12, I1, Lab, Reg
<1>3. /\ ~MovesR12(POP("RAX"))
      /\ ~MovesR12(I2("CMP", Reg("RAX"), Imm(0)))
  BY DEF MovesR12, I1, I2, POP, Reg
<1>4. Keeps(Pop1)
  BY <1>3, KeepsCode DEF Pop1
<1>5. \A l : Keeps(Pop1 \o <<I2("CMP", Reg("RAX"), Imm(0)), I1("JE", Lab(l))>>)
  <2> SUFFICES ASSUME NEW l
               PROVE Keeps(Pop1 \o <<I2("CMP", Reg("RAX"), Imm(0)), I1("JE", Lab(l))>>)
    OBVIOUS
  <2>1. Keeps(<<I2("CMP", Reg("RAX"), Imm(0)), I1("JE", Lab(l))>>)
    BY <1>2, <1>3, KeepsCode
  <2> QED BY <1>4, <2>1, KeepsCode, Zenon
<1>6. \A l : Keeps(<<Label(l)>>)
  BY <1>1, KeepsCode
<1>7. \A l, m : Keeps(<<I1("JMP", Lab(l)), Label(m)>>)
  BY <1>1, <1>2, KeepsCode
<1>8. CASE While
  BY <1>6, <1>8, EmitKeeps DEF While
<1>9. CASE Do
  <2>1. CASE Fail("crash")
    BY <2>1, FrameUnchanged DEF Fail
  <2>2. CASE ~Fail("crash")
    BY <1>5, <1>9, <2>2, EmitKeeps DEF Do
  <2> QED BY <2>1, <2>2
<1>10. CASE EndWhile
  <2>1. CASE Fail("crash")
    BY <2>1, FrameUnchanged DEF Fail
  <2>2. CASE ~Fail("crash")
    BY <1>7, <1>10, <2>2, EmitKeeps DEF EndWhile
  <2> QED BY <2>1, <2>2
<1>11. CASE If
  BY <1>5, <1>11, EmitKeeps DEF If
<1>12. CASE Else
  <2>1. CASE Fail("crash")
    BY <2>1, FrameUnchanged DEF Fail
  <2>2. CASE ~Fail("crash")
    BY <1>7, <1>12, <2>2, EmitKeeps DEF Else
  <2> QED BY <2>1, <2>2
<1>13. CASE EndIf
  <2>1. CASE Fail("crash")
    BY <2>1, FrameUnchanged DEF Fail
  <2>2. CASE ~Fail("crash")
    BY <1>6, <1>13, <2>2, EmitKeeps DEF EndIf
  <2> QED BY <2>1, <2>2
<1> QED BY <1>8, <1>9, <1>10, <1>11, <1>12, <1>13

\* The other words inside a function.
LEMMA OtherFrames ==
  ASSUME FrameInv, Progress, pos < Len(src), ParamsOK(word), status = "compiling",
         compile_unit \in DOMAIN functions,
         EndFunction \/ Call \/ PushString \/ Plain \/ UndeclaredConst
  PROVE  FrameInv'
PROOF
<1>1. CASE EndFunction
  <2>1. /\ functions' = [functions EXCEPT ![compile_unit] = @ \o Epilogue]
        /\ compile_unit' = NoUnit /\ status' = status
    BY <1>1 DEF EndFunction
  <2>2. functions'[compile_unit] = functions[compile_unit] \o Epilogue
    BY <2>1, Zenon
  <2>3. Framed(functions'[compile_unit])
    BY <2>2, UnitEnds DEF FrameInv
  <2>4. \A f \in DOMAIN functions : f # compile_unit =>
          functions'[f] = functions[f] /\ Framed(functions[f])
    BY <2>1 DEF FrameInv
  <2>5. DOMAIN functions' = DOMAIN functions
    BY <2>1
  <2> QED BY <2>1, <2>3, <2>4, <2>5 DEF FrameInv
<1>2. CASE Call
  <2>1. UNCHANGED <<compile_unit, status>>
    BY <1>2 DEF Call
  <2>2. PICK loc \in {<<>>, <<Loc(pos + 1)>>} : \E callee :
          functions' = [functions EXCEPT ![compile_unit] =
                          @ \o loc \o <<I1("CALL", Lab(<<"func", callee>>))>>]
    BY <1>2 DEF Call
  <2>3. PICK callee :
          functions' = [functions EXCEPT ![compile_unit] =
                          @ \o loc \o <<I1("CALL", Lab(<<"func", callee>>))>>]
    BY <2>2
  <2>4. Keeps(loc)
    BY KeepsCode DEF Loc, MovesR12
  <2>5. Keeps(<<I1("CALL", Lab(<<"func", callee>>))>>)
    BY KeepsCode DEF MovesR12, I1, Lab, Reg
  <2> QED BY <2>1, <2>3, <2>4, <2>5, UnitStep
<1>3. CASE PushString
  BY <1>3, TransferKeeps, EmitKeeps DEF PushString
<1>4. CASE Plain
  <2>1. Keeps(PlainCode(word))
    BY <1>4, PlainKeeps DEF Progress
  <2> QED BY <1>4, <2>1, EmitKeeps DEF Plain
<1>5. CASE UndeclaredConst
  BY <1>5, FrameUnchanged DEF UndeclaredConst, Fail
<1> QED BY <1>1, <1>2, <1>3, <1>4, <1>5

\* Words outside functions.
LEMMA FramesOutside ==
  ASSUME FrameInv, Units, Progress, pos < Len(src), status = "compiling", OutsideFunction
  PROVE  FrameInv'
PROOF
<1>1. CASE DeclareFunction
  <2>1. CASE Fail("error")
    BY <2>1, FrameUnchanged DEF Fail
  <2>2. CASE ~Fail("error")
    <3>1. word.name # NoUnit
      BY WordIsWord DEF Progress, Word
    <3>2. DOMAIN functions' = DOMAIN functions \cup {word.name}
      BY <1>1, <2>2 DEF DeclareFunction
    <3>3. NoUnit \notin DOMAIN functions'
      BY <3>1, <3>2 DEF FrameInv
    <3>4. CASE compile_unit # NoUnit
      <4>1. status' = "assertion"
        BY <1>1, <2>2, <3>4 DEF DeclareFunction
      <4> QED BY <3>3, <4>1 DEF FrameInv
    <3>5. CASE compile_unit = NoUnit
      <4>1. /\ functions' = [f \in DOMAIN functions \cup {word.name} |->
                               IF f = word.name THEN Prologue ELSE functions[f]]
            /\ compile_unit' = word.name /\ status' = status
        BY <1>1, <2>2, <3>5 DEF DeclareFunction
      <4>2. UnitFramed(Prologue)
        <5>1. IsSeq(Prologue) /\ Len(Prologue) = 3
          BY ShortSequences DEF Prologue
        <5> QED BY <5>1 DEF UnitFramed, Opens
      <4>3. \A f \in DOMAIN functions : Framed(functions[f])
        BY <3>5 DEF FrameInv
      <4> QED BY <3>3, <4>1, <4>2, <4>3 DEF FrameInv
    <3> QED BY <3>4, <3>5
  <2> QED BY <2>1, <2>2
<1>2. CASE AllocateMemory \/ DeclareConst \/ NothingElseOutside
  <2>1. /\ UNCHANGED <<functions, compile_unit>>
        /\ status' = status \/ status' \in {"error", "crash"}
    BY <1>2 DEF AllocateMemory, DeclareConst, NothingElseOutside, Fail
  <2> QED BY <2>1, FrameUnchanged
<1> QED BY <1>1, <1>2 DEF OutsideFunction

\* Every step of the compiler.
LEMMA FrameInvStep == IInv /\ FrameInv /\ [CompilerNext]_compilerVars => FrameInv'
PROOF
<1> SUFFICES ASSUME IInv, FrameInv, [CompilerNext]_compilerVars PROVE FrameInv'
  OBVIOUS
<1>1. CASE ReadWord
  <2>1. status = "compiling" /\ pos < Len(src) /\ Units /\ Progress
    BY <1>1 DEF ReadWord, IInv
  <2>2. CASE in_function # "" /\ ParamsOK(word)
    <3>1. compile_unit \in DOMAIN functions
      BY <2>1, <2>2 DEF Units
    <3> QED BY <1>1, <2>1, <2>2, <3>1, BlockFrames, OtherFrames
            DEF ReadWord, InsideFunction
  <2>3. CASE in_function # "" /\ ~ParamsOK(word)
    BY <1>1, <2>1, <2>3, FrameUnchanged DEF ReadWord, InsideFunction, Fail
  <2>4. CASE in_function = ""
    BY <1>1, <2>1, <2>4, FramesOutside DEF ReadWord
  <2> QED BY <2>2, <2>3, <2>4
<1>2. CASE Finish
  <2>1. CASE Fail("error") \/ Fail("crash")
    BY <1>2, <2>1, FrameUnchanged DEF Finish, Fail
  <2>2. CASE ~(Fail("error") \/ Fail("crash"))
    <3>1. /\ status' = "done" /\ compile_unit' = compile_unit
          /\ DOMAIN functions' = DOMAIN functions
          /\ \A f \in DOMAIN functions : f # compile_unit => functions'[f] = functions[f]
      BY <1>2, <2>2 DEF Finish
    <3>2. status = "compiling"
      BY <1>2 DEF Finish
    <3> QED BY <3>1, <3>2 DEF FrameInv
  <2> QED BY <2>1, <2>2
<1>3. CASE WriteOutput
  BY <1>3, FrameUnchanged DEF WriteOutput
<1>4. CASE UNCHANGED compilerVars
  BY <1>4, FrameUnchanged DEF compilerVars
<1> QED BY <1>1, <1>2, <1>3, <1>4 DEF CompilerNext

\* A function that has been ended stores its return place in call_stack first and
\* takes it back last, and nothing in between moves R12, for every set of programs,
\* whatever the words of its body are (main.py:293-312).
THEOREM FunctionsFramedHolds == CompilerSpec => []FunctionsFramed
PROOF
<1>1. Init => IInv /\ FrameInv
  BY IInvInit DEF Init, FrameInv
<1>2. IInv /\ FrameInv /\ [CompilerNext]_compilerVars => (IInv /\ FrameInv)'
  BY IInvStep, FrameInvStep
<1>3. FrameInv => FunctionsFramed
  <2> SUFFICES ASSUME FrameInv, status # "assertion", NEW f \in DOMAIN functions \ {compile_unit}
               PROVE  /\ Len(functions[f]) >= 7
                      /\ SubSeq(functions[f], 1, 3) = Prologue
                      /\ SubSeq(functions[f], Len(functions[f]) - 3, Len(functions[f])) = Epilogue
                      /\ \A i \in 4 .. Len(functions[f]) - 4 : ~MovesR12(functions[f][i])
    BY DEF FunctionsFramed
  <2>1. Framed(functions[f])
    BY DEF FrameInv
  <2> QED BY <2>1, FramedMeans
<1> QED BY <1>1, <1>2, <1>3, PTL DEF CompilerSpec

-----------------------------------------------------------------------------
(***************************************************************************)
(* The labels of blocks: whatever the order of the block words, and though *)
(* the functions share the counters, no label of a loop and no end of an   *)
(* if with an else is placed twice.                                        *)
(***************************************************************************)
BlockLabel(l) == l.ins = "LABEL" /\ l.lab[1] \in {"while", "endwhile", "endelse"}

\* The label can have been placed: its block has been opened, and closed if the
\* label is at the end of it.
GivenBy(l, whiles, whileCt, ifs, ifCt) ==
  /\ l[1] = "while" => l[2] \in Nat /\ l[2] < whileCt
  /\ l[1] = "endwhile" => /\ l[2] \in Nat /\ l[2] < whileCt
                          /\ \A i \in DOMAIN whiles : whiles[i] # l[2]
  /\ l[1] = "endelse" => /\ l[2] \in Nat /\ l[2] < ifCt
                         /\ \A i \in DOMAIN ifs : ifs[i] # l[2]
Given(l) == GivenBy(l, while_labels, while_label_ct, if_labels, if_label_ct)
GivenNext(l) == GivenBy(l, while_labels', while_label_ct', if_labels', if_label_ct')

Once == \A f, g \in DOMAIN functions :
          \A i \in 1 .. Len(functions[f]), j \in 1 .. Len(functions[g]) :
            BlockLabel(functions[f][i]) /\ functions[f][i] = functions[g][j]
            => f = g /\ i = j
OnlyGiven == \A f \in DOMAIN functions : \A i \in 1 .. Len(functions[f]) :
               functions[f][i].ins = "LABEL" => Given(functions[f][i].lab)
LabelInv == InputComplete => Once /\ OnlyGiven

\* Code with at most one label of a block, one that has not been placed.
NewLabel(code) ==
  /\ IsSeq(code)
  /\ \A i, j \in 1 .. Len(code) : BlockLabel(code[i]) /\ BlockLabel(code[j]) => i = j
  /\ \A i \in 1 .. Len(code) : BlockLabel(code[i]) => ~Given(code[i].lab)
NoLabel(code) == IsSeq(code) /\ \A i \in 1 .. Len(code) : code[i].ins # "LABEL"

\* Lines are added to a function.
LEMMA LabelStep ==
  ASSUME Sequences, Once, OnlyGiven, NEW u \in DOMAIN functions,
         NEW loc, NEW code, NoLabel(loc), NewLabel(code),
         \A i \in 1 .. Len(code) : code[i].ins = "LABEL" => GivenNext(code[i].lab),
         \A l : Given(l) => GivenNext(l),
         functions' = [functions EXCEPT ![u] = @ \o loc \o code]
  PROVE  Once' /\ OnlyGiven'
PROOF
<1>1. IsSeq(functions[u])
  BY DEF Sequences
<1>2. PICK d : d = functions[u] \o loc /\ Joined(functions[u], loc, d)
  BY <1>1, ConcatAt DEF NoLabel
<1>3. PICK e : e = d \o code /\ Joined(d, code, e)
  <2>1. IsSeq(d) /\ IsSeq(code)
    BY <1>2 DEF NewLabel, Joined
  <2> QED BY <2>1, ConcatAt
<1>4. /\ DOMAIN functions' = DOMAIN functions
      /\ functions'[u] = e
      /\ \A f \in DOMAIN functions : f # u => functions'[f] = functions[f]
  <2>1. functions'[u] = functions[u] \o loc \o code
    BY Zenon
  <2> QED BY <1>2, <1>3, <2>1
<1> DEFINE old == functions[u]
<1>5. /\ Len(old) \in Nat /\ Len(d) \in Nat /\ Len(code) \in Nat
      /\ Len(d) >= Len(old)
      /\ Len(e) = Len(d) + Len(code)
  BY <1>2, <1>3 DEF Joined
\* Where a label of the new code comes from.
<1>6. ASSUME NEW p \in 1 .. Len(e), e[p].ins = "LABEL"
      PROVE  \/ p \in 1 .. Len(old) /\ e[p] = old[p]
             \/ p - Len(d) \in 1 .. Len(code) /\ e[p] = code[p - Len(d)]
  <2>1. CASE p \in 1 .. Len(old)
    <3>1. p \in 1 .. Len(d)
      BY <1>5, <2>1
    <3>2. e[p] = d[p]
      BY <1>3, <3>1 DEF Joined
    <3>3. d[p] = old[p]
      BY <1>2, <2>1 DEF Joined
    <3> QED BY <2>1, <3>2, <3>3
  <2>2. CASE p \in Len(old) + 1 .. Len(d)
    <3>1. p \in 1 .. Len(d) /\ p - Len(old) \in 1 .. Len(loc) /\ Len(old) + (p - Len(old)) = p
      BY <1>2, <1>5, <2>2 DEF Joined
    <3>2. e[p] = d[p]
      BY <1>3, <3>1 DEF Joined
    <3>3. d[p] = loc[p - Len(old)]
      BY <1>2, <3>1 DEF Joined
    <3> QED BY <1>6, <3>1, <3>2, <3>3 DEF NoLabel
  <2>3. CASE p \in Len(d) + 1 .. Len(e)
    <3>1. p - Len(d) \in 1 .. Len(code) /\ Len(d) + (p - Len(d)) = p
      BY <1>5, <2>3
    <3>2. e[p] = code[p - Len(d)]
      BY <1>3, <3>1 DEF Joined
    <3> QED BY <3>1, <3>2
  <2> QED BY <1>5, <2>1, <2>2, <2>3
<1> HIDE DEF old
\* A label in any function after the step.
<1>7. ASSUME NEW f \in DOMAIN functions, NEW p \in 1 .. Len(functions'[f]),
             functions'[f][p].ins = "LABEL"
      PROVE  \/ p \in 1 .. Len(functions[f]) /\ functions'[f][p] = functions[f][p]
             \/ /\ f = u /\ p - Len(d) \in 1 .. Len(code)
                /\ functions'[f][p] = code[p - Len(d)]
  <2>1. CASE f = u
    BY <1>4, <1>6, <1>7, <2>1 DEF old
  <2>2. CASE f # u
    BY <1>4, <1>7, <2>2
  <2> QED BY <2>1, <2>2, Zenon
<1>8. \A f \in DOMAIN functions : \A p \in 1 .. Len(functions'[f]) :
        functions'[f][p].ins = "LABEL" => GivenNext(functions'[f][p].lab)
  <2> SUFFICES ASSUME NEW f \in DOMAIN functions, NEW p \in 1 .. Len(functions'[f]),
                      functions'[f][p].ins = "LABEL"
               PROVE  GivenNext(functions'[f][p].lab)
    OBVIOUS
  <2> QED BY <1>7 DEF OnlyGiven
<1>9. \A f, g \in DOMAIN functions' :
        \A p \in 1 .. Len(functions'[f]), q \in 1 .. Len(functions'[g]) :
          BlockLabel(functions'[f][p]) /\ functions'[f][p] = functions'[g][q]
          => f = g /\ p = q
  <2> TAKE f, g \in DOMAIN functions'
  <2> TAKE p \in 1 .. Len(functions'[f]), q \in 1 .. Len(functions'[g])
  <2> HAVE BlockLabel(functions'[f][p]) /\ functions'[f][p] = functions'[g][q]
  <2>0. f \in DOMAIN functions /\ g \in DOMAIN functions
    BY <1>4
  <2>1. PICK l : l = functions'[f][p] /\ l = functions'[g][q]
    OBVIOUS
  <2>2. l.ins = "LABEL" /\ BlockLabel(l)
    BY <2>1 DEF BlockLabel
  <2> DEFINE Old(h, r) == r \in 1 .. Len(functions[h]) /\ l = functions[h][r]
             New(h, r) == h = u /\ r - Len(d) \in 1 .. Len(code) /\ l = code[r - Len(d)]
  <2>3. (Old(f, p) \/ New(f, p)) /\ (Old(g, q) \/ New(g, q))
    BY <1>7, <2>0, <2>1, <2>2
  <2>4. CASE Old(f, p) /\ Old(g, q)
    <3>1. /\ p \in 1 .. Len(functions[f]) /\ q \in 1 .. Len(functions[g])
          /\ BlockLabel(functions[f][p]) /\ functions[f][p] = functions[g][q]
      BY <2>2, <2>4
    <3> QED BY <2>0, <3>1 DEF Once
  <2>5. CASE New(f, p) /\ New(g, q)
    <3>1. p - Len(d) = q - Len(d)
      BY <2>2, <2>5 DEF NewLabel
    <3>2. p = q
      BY <1>5, <3>1
    <3> QED BY <2>5, <3>2
  <2>6. \A h, k \in DOMAIN functions, r, s \in Nat : Old(h, r) /\ New(k, s) => FALSE
    BY <2>2 DEF OnlyGiven, NewLabel
  <2>7. p \in Nat /\ q \in Nat
    OBVIOUS
  <2> QED BY <2>0, <2>3, <2>4, <2>5, <2>6, <2>7
<1>10. OnlyGiven'
  BY <1>4, <1>8 DEF OnlyGiven, Given, GivenNext
<1>11. Once'
  BY <1>9 DEF Once, BlockLabel
<1> QED BY <1>10, <1>11

\* What append_asm adds for a word.
LEMMA EmitLabels ==
  ASSUME Sequences, Once, OnlyGiven, compile_unit \in DOMAIN functions,
         NEW code, NewLabel(code), Emit(code),
         \A i \in 1 .. Len(code) : code[i].ins = "LABEL" => GivenNext(code[i].lab),
         \A l : Given(l) => GivenNext(l)
  PROVE  Once' /\ OnlyGiven'
PROOF
<1>1. NoLabel(<<Loc(pos + 1)>>)
  <2>1. IsSeq(<<Loc(pos + 1)>>)
    BY ShortSequences
  <2>2. \A l : l = Loc(pos + 1) => l.ins # "LABEL"
    BY DEF Loc
  <2> QED BY <2>1, <2>2 DEF NoLabel
<1>2. functions' = [functions EXCEPT ![compile_unit] = @ \o <<Loc(pos + 1)>> \o code]
  BY DEF Emit
<1> QED BY <1>1, <1>2, LabelStep

\* Straight code has no labels.
LEMMA StraightHasNoLabel ==
  ASSUME NEW code, Straight(code)
  PROVE  NoLabel(code) /\ NewLabel(code)
PROOF
<1>1. PICK S : code \in Seq(S)
  BY DEF Straight, IsSeq
<1>2. DOMAIN code = 1 .. Len(code)
  BY <1>1, LenProperties
<1>3. \A i \in 1 .. Len(code) : code[i].ins # "LABEL"
  BY <1>2 DEF Straight, StraightLine, ToSet
<1> QED BY <1>3 DEF Straight, NoLabel, NewLabel, BlockLabel

\* The open blocks stay what they are.
LEMMA GivenUnchanged ==
  ASSUME UNCHANGED <<whileVars, ifVars>>
  PROVE  \A l : Given(l) <=> GivenNext(l)
PROOF
<1>1. /\ while_labels' = while_labels /\ while_label_ct' = while_label_ct
      /\ if_labels' = if_labels /\ if_label_ct' = if_label_ct
  BY DEF whileVars, ifVars
<1> QED BY <1>1 DEF Given, GivenNext

\* Steps that add no code.
LEMMA LabelsUnchanged ==
  ASSUME Once, OnlyGiven, functions' = functions, UNCHANGED <<whileVars, ifVars>>
  PROVE  Once' /\ OnlyGiven'
PROOF
<1>1. /\ while_labels' = while_labels /\ while_label_ct' = while_label_ct
      /\ if_labels' = if_labels /\ if_label_ct' = if_label_ct
  BY DEF whileVars, ifVars
<1>2. Once'
  BY DEF Once, BlockLabel
<1>3. OnlyGiven'
  BY <1>1 DEF OnlyGiven, Given
<1> QED BY <1>2, <1>3

\* Code of a label alone, and of a jump and a label.
LEMMA LabelCode ==
  /\ \A l : /\ IsSeq(<<Label(l)>>) /\ Len(<<Label(l)>>) = 1
            /\ <<Label(l)>>[1] = Label(l)
  /\ \A l, m : /\ IsSeq(<<I1("JMP", Lab(m)), Label(l)>>)
               /\ Len(<<I1("JMP", Lab(m)), Label(l)>>) = 2
               /\ <<I1("JMP", Lab(m)), Label(l)>>[1].ins # "LABEL"
               /\ <<I1("JMP", Lab(m)), Label(l)>>[2] = Label(l)
  BY ShortSequences DEF I1

\* One label is placed.
OneLabel(code, l) == /\ IsSeq(code)
                     /\ \E k \in 1 .. Len(code) :
                          /\ code[k] = Label(l)
                          /\ \A i \in 1 .. Len(code) : i # k => code[i].ins # "LABEL"

LEMMA OneLabelCode ==
  /\ \A l : OneLabel(<<Label(l)>>, l)
  /\ \A l, m : OneLabel(<<I1("JMP", Lab(m)), Label(l)>>, l)
PROOF
<1>1. ASSUME NEW l PROVE OneLabel(<<Label(l)>>, l)
  BY LabelCode DEF OneLabel
<1>2. ASSUME NEW l, NEW m PROVE OneLabel(<<I1("JMP", Lab(m)), Label(l)>>, l)
  <2> DEFINE c == <<I1("JMP", Lab(m)), Label(l)>>
  <2>1. IsSeq(c) /\ Len(c) = 2 /\ c[1].ins # "LABEL" /\ c[2] = Label(l)
    BY LabelCode
  <2> HIDE DEF c
  <2>2. OneLabel(c, l)
    BY <2>1 DEF OneLabel
  <2> QED BY <2>2 DEF c
<1> QED BY <1>1, <1>2

LEMMA OneLabelStep ==
  ASSUME Sequences, Once, OnlyGiven, compile_unit \in DOMAIN functions,
         NEW code, NEW l, OneLabel(code, l), Emit(code),
         l[1] \in {"while", "endwhile", "endelse"} => ~Given(l), GivenNext(l),
         \A m : Given(m) => GivenNext(m)
  PROVE  Once' /\ OnlyGiven'
PROOF
<1>1. PICK k \in 1 .. Len(code) :
        /\ code[k] = Label(l)
        /\ \A i \in 1 .. Len(code) : i # k => code[i].ins # "LABEL"
  BY DEF OneLabel
<1>2. \A i \in 1 .. Len(code) : code[i].ins = "LABEL" => i = k /\ code[i].lab = l
  BY <1>1 DEF Label
<1>3. NewLabel(code)
  BY <1>2 DEF NewLabel, BlockLabel, OneLabel
<1>4. \A i \in 1 .. Len(code) : code[i].ins = "LABEL" => GivenNext(code[i].lab)
  BY <1>2
<1> QED BY <1>3, <1>4, EmitLabels

\* A label that is given stays given: the words of blocks only count up, and
\* close blocks that were open.
LEMMA GivenGrows ==
  ASSUME Stacks, while_labels' \in Seq(Nat), if_labels' \in Seq(Nat),
         while_label_ct' \in Nat, if_label_ct' \in Nat,
         while_label_ct' >= while_label_ct, if_label_ct' >= if_label_ct,
         \A i \in DOMAIN while_labels' :
           \/ while_labels'[i] = while_label_ct
           \/ \E k \in DOMAIN while_labels : while_labels[k] = while_labels'[i],
         \A i \in DOMAIN if_labels' :
           \/ if_labels'[i] = if_label_ct
           \/ \E k \in DOMAIN if_labels : if_labels[k] = if_labels'[i]
  PROVE  \A m : Given(m) => GivenNext(m)
PROOF
<1> SUFFICES ASSUME NEW m, Given(m) PROVE GivenNext(m)
  OBVIOUS
<1>0. while_label_ct \in Nat /\ if_label_ct \in Nat
  BY DEF Stacks
<1>1. ASSUME m[1] = "while" PROVE m[2] \in Nat /\ m[2] < while_label_ct'
  BY <1>0, <1>1 DEF Given, GivenBy
<1>2. ASSUME m[1] = "endwhile"
      PROVE  /\ m[2] \in Nat /\ m[2] < while_label_ct'
             /\ \A i \in DOMAIN while_labels' : while_labels'[i] # m[2]
  <2>1. /\ m[2] \in Nat /\ m[2] < while_label_ct
        /\ \A i \in DOMAIN while_labels : while_labels[i] # m[2]
    BY <1>2 DEF Given, GivenBy
  <2>2. m[2] # while_label_ct /\ m[2] < while_label_ct'
    BY <1>0, <2>1
  <2> QED BY <2>1, <2>2
<1>3. ASSUME m[1] = "endelse"
      PROVE  /\ m[2] \in Nat /\ m[2] < if_label_ct'
             /\ \A i \in DOMAIN if_labels' : if_labels'[i] # m[2]
  <2>1. /\ m[2] \in Nat /\ m[2] < if_label_ct
        /\ \A i \in DOMAIN if_labels : if_labels[i] # m[2]
    BY <1>3 DEF Given, GivenBy
  <2>2. m[2] # if_label_ct /\ m[2] < if_label_ct'
    BY <1>0, <2>1
  <2> QED BY <2>1, <2>2
<1> QED BY <1>1, <1>2, <1>3 DEF GivenNext, GivenBy

\* Code without labels.
LEMMA UnlabelledCode ==
  ASSUME NEW code, IsSeq(code), LabelsOf(ToSet(code)) = {}
  PROVE  NoLabel(code) /\ NewLabel(code)
PROOF
<1>1. PICK S : code \in Seq(S)
  BY DEF IsSeq
<1>2. DOMAIN code = 1 .. Len(code)
  BY <1>1, LenProperties
<1>3. \A i \in 1 .. Len(code) : code[i].ins # "LABEL"
  BY <1>2 DEF LabelsOf, ToSet
<1> QED BY <1>3 DEF NoLabel, NewLabel, BlockLabel

LEMMA UnlabelledStep ==
  ASSUME Sequences, Once, OnlyGiven, compile_unit \in DOMAIN functions,
         NEW code, NoLabel(code), Emit(code), \A m : Given(m) => GivenNext(m)
  PROVE  Once' /\ OnlyGiven'
PROOF
<1>1. NewLabel(code)
  BY DEF NoLabel, NewLabel, BlockLabel
<1>2. \A i \in 1 .. Len(code) : code[i].ins = "LABEL" => GivenNext(code[i].lab)
  BY DEF NoLabel
<1> QED BY <1>1, <1>2, EmitLabels

-----------------------------------------------------------------------------
\* The words of a loop.
LEMMA LoopLabels ==
  ASSUME Stacks, Sequences, Once, OnlyGiven, compile_unit \in DOMAIN functions,
         While \/ Do \/ EndWhile
  PROVE  Once' /\ OnlyGiven'
PROOF
<1>0. /\ DOMAIN while_labels = 1 .. Len(while_labels) /\ Len(while_labels) \in Nat
      /\ while_label_ct \in Nat /\ if_label_ct \in Nat /\ if_labels \in Seq(Nat)
      /\ \A i \in DOMAIN while_labels : while_labels[i] \in Nat
  BY LenProperties, ElementOfSeq DEF Stacks
<1>1. CASE While
  <2> DEFINE l == <<"while", while_label_ct>>
  <2>1. /\ Emit(<<Label(l)>>)
        /\ while_labels' = Append(while_labels, while_label_ct)
        /\ while_label_ct' = while_label_ct + 1
        /\ if_labels' = if_labels /\ if_label_ct' = if_label_ct
    BY <1>1 DEF While, ifVars
  <2>2. /\ while_labels' \in Seq(Nat)
        /\ \A i \in DOMAIN while_labels : while_labels'[i] = while_labels[i]
        /\ while_labels'[Len(while_labels) + 1] = while_label_ct
        /\ DOMAIN while_labels' = 1 .. Len(while_labels) + 1
    BY <2>1, PushBlock DEF Stacks, BlocksInStep
  <2>3. \A i \in DOMAIN while_labels' :
          \/ while_labels'[i] = while_label_ct
          \/ \E k \in DOMAIN while_labels : while_labels[k] = while_labels'[i]
    BY <1>0, <2>2
  <2>4. \A m : Given(m) => GivenNext(m)
    <3>1. \A i \in DOMAIN if_labels' : \E k \in DOMAIN if_labels : if_labels[k] = if_labels'[i]
      BY <2>1
    <3>2. if_labels' \in Seq(Nat) /\ if_label_ct' \in Nat /\ while_label_ct' \in Nat
          /\ while_label_ct' >= while_label_ct /\ if_label_ct' >= if_label_ct
      BY <1>0, <2>1
    <3> QED BY <2>2, <2>3, <3>1, <3>2, GivenGrows
  <2>5. l[1] = "while" /\ l[2] = while_label_ct
    OBVIOUS
  <2> HIDE DEF l
  <2>6. ~Given(l)
    BY <1>0, <2>5 DEF Given, GivenBy
  <2>7. GivenNext(l)
    <3>1. l[2] \in Nat /\ l[2] < while_label_ct'
      BY <1>0, <2>1, <2>5
    <3> QED BY <2>5, <3>1 DEF GivenNext, GivenBy
  <2>8. OneLabel(<<Label(l)>>, l)
    BY OneLabelCode
  <2> QED BY <2>1, <2>4, <2>6, <2>7, <2>8, OneLabelStep
<1>2. CASE Do
  <2>1. CASE while_labels = <<>>
    BY <1>2, <2>1, LabelsUnchanged DEF Do, Fail
  <2>2. CASE while_labels # <<>>
    <3> DEFINE l == <<"endwhile", Last(while_labels)>>
               code == Pop1 \o <<I2("CMP", Reg("RAX"), Imm(0)), I1("JE", Lab(l))>>
    <3>1. Emit(code) /\ UNCHANGED <<whileVars, ifVars>>
      BY <1>2, <2>2 DEF Do
    <3> HIDE DEF l
    <3>4. IsSeq(code) /\ LabelsOf(ToSet(code)) = {}
      BY BlockCode
    <3> HIDE DEF code
    <3>2. NoLabel(code)
      BY <3>4, UnlabelledCode
    <3>3. \A m : Given(m) => GivenNext(m)
      BY <3>1, GivenUnchanged
    <3> QED BY <3>1, <3>2, <3>3, UnlabelledStep
  <2> QED BY <2>1, <2>2
<1>3. CASE EndWhile
  <2>1. CASE while_labels = <<>>
    BY <1>3, <2>1, LabelsUnchanged DEF EndWhile, Fail
  <2>2. CASE while_labels # <<>>
    <3> DEFINE n == Len(while_labels)
               top == Last(while_labels)
               l == <<"endwhile", top>>
               start == <<"while", top>>
    <3>1. /\ Emit(<<I1("JMP", Lab(start)), Label(l)>>)
          /\ while_labels' = Front(while_labels) /\ while_label_ct' = while_label_ct
          /\ if_labels' = if_labels /\ if_label_ct' = if_label_ct
      BY <1>3, <2>2 DEF EndWhile, ifVars
    <3>2. /\ n \in DOMAIN while_labels /\ while_labels[n] = top
          /\ while_labels' \in Seq(Nat)
          /\ DOMAIN while_labels' = 1 .. n - 1
          /\ \A i \in 1 .. n - 1 : while_labels'[i] = while_labels[i]
      BY <2>2, <3>1, PopProperties DEF Stacks, Last
    <3>3. top \in Nat /\ top < while_label_ct
      BY <1>0, <3>2 DEF Stacks, BlocksInStep
    <3>4. \A i \in DOMAIN while_labels' : while_labels'[i] # top
      <4> SUFFICES ASSUME NEW i \in DOMAIN while_labels' PROVE while_labels'[i] # top
        OBVIOUS
      <4>1. i \in DOMAIN while_labels /\ i < n /\ while_labels'[i] = while_labels[i]
        BY <1>0, <3>2
      <4>2. while_labels[i] < while_labels[n]
        BY <3>2, <4>1 DEF Stacks, BlocksInStep, Increasing
      <4> QED BY <1>0, <3>2, <4>1, <4>2
    <3>5. \A i \in DOMAIN while_labels' :
            \E k \in DOMAIN while_labels : while_labels[k] = while_labels'[i]
      <4>1. \A i \in DOMAIN while_labels' :
              i \in DOMAIN while_labels /\ while_labels[i] = while_labels'[i]
        BY <1>0, <3>2
      <4> QED BY <4>1
    <3>6. \A m : Given(m) => GivenNext(m)
      <4>1. \A i \in DOMAIN if_labels' : \E k \in DOMAIN if_labels : if_labels[k] = if_labels'[i]
        BY <3>1
      <4>2. if_labels' \in Seq(Nat) /\ if_label_ct' \in Nat /\ while_label_ct' \in Nat
            /\ while_label_ct' >= while_label_ct /\ if_label_ct' >= if_label_ct
        BY <1>0, <3>1
      <4> QED BY <3>2, <3>5, <4>1, <4>2, GivenGrows
    <3>7. l[1] = "endwhile" /\ l[2] = top
      OBVIOUS
    <3> HIDE DEF l, start
    <3>8. ~Given(l)
      BY <3>2, <3>7 DEF Given, GivenBy
    <3>9. GivenNext(l)
      <4>1. l[2] \in Nat /\ l[2] < while_label_ct'
        BY <3>1, <3>3, <3>7
      <4>2. \A i \in DOMAIN while_labels' : while_labels'[i] # l[2]
        BY <3>4, <3>7
      <4> QED BY <3>7, <4>1, <4>2 DEF GivenNext, GivenBy
    <3>10. OneLabel(<<I1("JMP", Lab(start)), Label(l)>>, l)
      BY OneLabelCode
    <3> QED BY <3>1, <3>6, <3>8, <3>9, <3>10, OneLabelStep
  <2> QED BY <2>1, <2>2
<1> QED BY <1>1, <1>2, <1>3

\* The words of a branch.
LEMMA BranchLabels ==
  ASSUME Stacks, Sequences, Once, OnlyGiven, compile_unit \in DOMAIN functions,
         If \/ Else \/ EndIf
  PROVE  Once' /\ OnlyGiven'
PROOF
<1>0. /\ DOMAIN if_labels = 1 .. Len(if_labels) /\ Len(if_labels) \in Nat
      /\ DOMAIN has_else = 1 .. Len(if_labels) /\ Len(has_else) = Len(if_labels)
      /\ while_label_ct \in Nat /\ if_label_ct \in Nat /\ while_labels \in Seq(Nat)
      /\ \A i \in DOMAIN if_labels : if_labels[i] \in Nat
  BY LenProperties, ElementOfSeq DEF Stacks, BlocksInStep
<1>1. CASE If
  <2> DEFINE l == <<"endif", if_label_ct>>
             code == Pop1 \o <<I2("CMP", Reg("RAX"), Imm(0)), I1("JE", Lab(l))>>
  <2>1. /\ Emit(code)
        /\ if_labels' = Append(if_labels, if_label_ct)
        /\ if_label_ct' = if_label_ct + 1
        /\ while_labels' = while_labels /\ while_label_ct' = while_label_ct
    BY <1>1 DEF If, whileVars
  <2>2. /\ if_labels' \in Seq(Nat)
        /\ \A i \in DOMAIN if_labels : if_labels'[i] = if_labels[i]
        /\ if_labels'[Len(if_labels) + 1] = if_label_ct
        /\ DOMAIN if_labels' = 1 .. Len(if_labels) + 1
    BY <2>1, PushBlock DEF Stacks, BlocksInStep
  <2>3. \A i \in DOMAIN if_labels' :
          \/ if_labels'[i] = if_label_ct
          \/ \E k \in DOMAIN if_labels : if_labels[k] = if_labels'[i]
    BY <1>0, <2>2
  <2>4. \A m : Given(m) => GivenNext(m)
    <3>1. \A i \in DOMAIN while_labels' :
            \E k \in DOMAIN while_labels : while_labels[k] = while_labels'[i]
      BY <2>1
    <3>2. while_labels' \in Seq(Nat) /\ if_label_ct' \in Nat /\ while_label_ct' \in Nat
          /\ while_label_ct' >= while_label_ct /\ if_label_ct' >= if_label_ct
      BY <1>0, <2>1
    <3> QED BY <2>2, <2>3, <3>1, <3>2, GivenGrows
  <2> HIDE DEF l
  <2>5. IsSeq(code) /\ LabelsOf(ToSet(code)) = {}
    BY BlockCode
  <2> HIDE DEF code
  <2>6. NoLabel(code)
    BY <2>5, UnlabelledCode
  <2> QED BY <2>1, <2>4, <2>6, UnlabelledStep
<1>2. CASE Else
  <2>1. CASE if_labels = <<>>
    BY <1>2, <2>1, LabelsUnchanged DEF Else, Fail
  <2>2. CASE if_labels # <<>>
    <3> DEFINE l == <<"endif", Last(if_labels)>>
               new == <<"endelse", Last(if_labels)>>
    <3>1. /\ Emit(<<I1("JMP", Lab(new)), Label(l)>>)
          /\ while_labels' = while_labels /\ while_label_ct' = while_label_ct
          /\ if_labels' = if_labels /\ if_label_ct' = if_label_ct
      BY <1>2, <2>2 DEF Else, whileVars
    <3>2. \A m : Given(m) => GivenNext(m)
      BY <3>1 DEF Given, GivenNext
    <3>3. l[1] = "endif"
      OBVIOUS
    <3> HIDE DEF l, new
    <3>4. l[1] \notin {"while", "endwhile", "endelse"} /\ GivenNext(l)
      BY <3>3 DEF GivenNext, GivenBy
    <3>5. OneLabel(<<I1("JMP", Lab(new)), Label(l)>>, l)
      BY OneLabelCode
    <3> QED BY <3>1, <3>2, <3>4, <3>5, OneLabelStep
  <2> QED BY <2>1, <2>2
<1>3. CASE EndIf
  <2>1. CASE has_else = <<>>
    BY <1>3, <2>1, LabelsUnchanged DEF EndIf, Fail
  <2>2. CASE has_else # <<>>
    <3> DEFINE n == Len(if_labels)
               top == Last(if_labels)
               l == <<IF Last(has_else) THEN "endelse" ELSE "endif", top>>
    <3>1. /\ Emit(<<Label(l)>>)
          /\ if_labels' = Front(if_labels) /\ if_label_ct' = if_label_ct
          /\ while_labels' = while_labels /\ while_label_ct' = while_label_ct
      BY <1>3, <2>2 DEF EndIf, whileVars
    <3>2. Len(has_else) # 0
      BY <2>2, PopProperties DEF Stacks
    <3>3. if_labels # <<>>
      BY <1>0, <3>2, EmptySeq
    <3>4. /\ n \in DOMAIN if_labels /\ if_labels[n] = top
          /\ if_labels' \in Seq(Nat)
          /\ DOMAIN if_labels' = 1 .. n - 1
          /\ \A i \in 1 .. n - 1 : if_labels'[i] = if_labels[i]
      BY <3>1, <3>3, PopProperties DEF Stacks, Last
    <3>5. top \in Nat /\ top < if_label_ct
      BY <1>0, <3>4 DEF Stacks, BlocksInStep
    <3>6. \A i \in DOMAIN if_labels' : if_labels'[i] # top
      <4> SUFFICES ASSUME NEW i \in DOMAIN if_labels' PROVE if_labels'[i] # top
        OBVIOUS
      <4>1. i \in DOMAIN if_labels /\ i < n /\ if_labels'[i] = if_labels[i]
        BY <1>0, <3>4
      <4>2. if_labels[i] < if_labels[n]
        BY <3>4, <4>1 DEF Stacks, BlocksInStep, Increasing
      <4> QED BY <1>0, <3>4, <4>1, <4>2
    <3>7. \A i \in DOMAIN if_labels' : \E k \in DOMAIN if_labels : if_labels[k] = if_labels'[i]
      <4>1. \A i \in DOMAIN if_labels' : i \in DOMAIN if_labels /\ if_labels[i] = if_labels'[i]
        BY <1>0, <3>4
      <4> QED BY <4>1
    <3>8. \A m : Given(m) => GivenNext(m)
      <4>1. \A i \in DOMAIN while_labels' :
              \E k \in DOMAIN while_labels : while_labels[k] = while_labels'[i]
        BY <3>1
      <4>2. while_labels' \in Seq(Nat) /\ if_label_ct' \in Nat /\ while_label_ct' \in Nat
            /\ while_label_ct' >= while_label_ct /\ if_label_ct' >= if_label_ct
        BY <1>0, <3>1
      <4> QED BY <3>4, <3>7, <4>1, <4>2, GivenGrows
    <3>9. l[1] \in {"endelse", "endif"} /\ l[2] = top
      OBVIOUS
    <3> HIDE DEF l
    <3>10. l[1] \in {"while", "endwhile", "endelse"} => ~Given(l)
      BY <3>4, <3>9 DEF Given, GivenBy
    <3>11. GivenNext(l)
      <4>1. l[2] \in Nat /\ l[2] < if_label_ct'
        BY <3>1, <3>5, <3>9
      <4>2. \A i \in DOMAIN if_labels' : if_labels'[i] # l[2]
        BY <3>6, <3>9
      <4> QED BY <3>9, <4>1, <4>2 DEF GivenNext, GivenBy
    <3>12. OneLabel(<<Label(l)>>, l)
      BY OneLabelCode
    <3> QED BY <3>1, <3>8, <3>10, <3>11, <3>12, OneLabelStep
  <2> QED BY <2>1, <2>2
<1> QED BY <1>1, <1>2, <1>3

\* The other words inside a function place no label of a block.
LEMMA OtherLabels ==
  ASSUME Progress, Sequences, Once, OnlyGiven, compile_unit \in DOMAIN functions,
         pos < Len(src), ParamsOK(word),
         EndFunction \/ Call \/ PushString \/ Plain \/ UndeclaredConst
  PROVE  Once' /\ OnlyGiven'
PROOF
<1>0. \A c : Emit(c) /\ Straight(c) /\ UNCHANGED <<whileVars, ifVars>> => Once' /\ OnlyGiven'
  <2> SUFFICES ASSUME NEW c, Emit(c), Straight(c), UNCHANGED <<whileVars, ifVars>>
               PROVE  Once' /\ OnlyGiven'
    OBVIOUS
  <2>1. NoLabel(c)
    BY StraightHasNoLabel
  <2>2. \A m : Given(m) => GivenNext(m)
    BY GivenUnchanged
  <2> QED BY <2>1, <2>2, UnlabelledStep
<1>00. \A loc, c : /\ NoLabel(loc) /\ NoLabel(c) /\ UNCHANGED <<whileVars, ifVars>>
                   /\ functions' = [functions EXCEPT ![compile_unit] = @ \o loc \o c]
                   => Once' /\ OnlyGiven'
  <2> SUFFICES ASSUME NEW loc, NEW c, NoLabel(loc), NoLabel(c),
                      UNCHANGED <<whileVars, ifVars>>,
                      functions' = [functions EXCEPT ![compile_unit] = @ \o loc \o c]
               PROVE  Once' /\ OnlyGiven'
    OBVIOUS
  <2>1. NewLabel(c)
    BY DEF NoLabel, NewLabel, BlockLabel
  <2>2. \A m : Given(m) => GivenNext(m)
    BY GivenUnchanged
  <2>3. \A i \in 1 .. Len(c) : c[i].ins = "LABEL" => GivenNext(c[i].lab)
    BY DEF NoLabel
  <2> QED BY <2>1, <2>2, <2>3, LabelStep
<1>1. CASE EndFunction
  <2>1. NoLabel(Epilogue) /\ NoLabel(<<>>)
    BY StraightCode, StraightHasNoLabel DEF Epilogue, StraightLine, I0, I2, PUSH, I1
  <2>2. functions[compile_unit] \o <<>> = functions[compile_unit]
    <3>1. PICK S : functions[compile_unit] \in Seq(S)
      BY DEF Sequences, IsSeq
    <3> QED BY <3>1, ConcatEmptySeq
  <2>3. functions' = [functions EXCEPT ![compile_unit] = @ \o <<>> \o Epilogue]
        /\ UNCHANGED <<whileVars, ifVars>>
    BY <1>1, <2>2 DEF EndFunction
  <2> QED BY <1>00, <2>1, <2>3
<1>2. CASE Call
  <2> DEFINE callee == IF word.head = "#" THEN "#" \o word.name ELSE word.name
             loc == IF word.head = "#" THEN <<>> ELSE <<Loc(pos + 1)>>
             call == <<I1("CALL", Lab(<<"func", callee>>))>>
  <2>1. functions' = [functions EXCEPT ![compile_unit] =
                        functions[compile_unit] \o loc \o call]
        /\ UNCHANGED <<whileVars, ifVars>>
    BY <1>2 DEF Call
  <2>2. NoLabel(loc) /\ NoLabel(call)
    <3>1. IsSeq(loc) /\ IsSeq(call)
      BY ShortSequences
    <3>2. \A i \in 1 .. Len(loc) : loc[i].ins = "LOC"
      BY DEF Loc
    <3>3. \A i \in 1 .. Len(call) : call[i].ins = "CALL"
      BY DEF I1
    <3> QED BY <3>1, <3>2, <3>3 DEF NoLabel
  <2> HIDE DEF callee, loc, call
  <2> QED BY <1>00, <2>1, <2>2
<1>3. CASE PushString
  <2>1. \A l : Straight(AddressCode(l))
    BY TransferStraight
  <2> QED BY <1>0, <1>3, <2>1 DEF PushString
<1>4. CASE Plain
  <2>1. Straight(PlainCode(word))
    BY <1>4, PlainStraight DEF Progress
  <2> QED BY <1>0, <1>4, <2>1 DEF Plain
<1>5. CASE UndeclaredConst
  BY <1>5, LabelsUnchanged DEF UndeclaredConst, Fail
<1> QED BY <1>1, <1>2, <1>3, <1>4, <1>5

\* Words outside functions place no label of a block: a new function starts with
\* a prologue, or is never compiled.
LEMMA LabelsOutside ==
  ASSUME Once, OnlyGiven, OutsideFunction
  PROVE  Once' /\ OnlyGiven'
PROOF
<1>1. CASE DeclareFunction
  <2>1. CASE Fail("error")
    BY <2>1, LabelsUnchanged DEF Fail
  <2>2. CASE ~Fail("error")
    <3>1. /\ word.name \notin DOMAIN functions
          /\ UNCHANGED <<whileVars, ifVars>>
          /\ \E c \in {<<>>, Prologue} :
               functions' = [f \in DOMAIN functions \cup {word.name} |->
                               IF f = word.name THEN c ELSE functions[f]]
      BY <1>1, <2>2 DEF DeclareFunction
    <3>2. PICK c \in {<<>>, Prologue} :
            functions' = [f \in DOMAIN functions \cup {word.name} |->
                            IF f = word.name THEN c ELSE functions[f]]
      BY <3>1
    <3>3. Straight(c)
      BY StraightCode DEF Prologue, StraightLine, POP, I1, I2
    <3>4. \A i \in 1 .. Len(c) : c[i].ins # "LABEL"
      BY <3>3, StraightHasNoLabel DEF NoLabel
    <3> HIDE DEF word
    <3>5. \A f \in DOMAIN functions' : \A i \in 1 .. Len(functions'[f]) :
            functions'[f][i].ins = "LABEL" =>
              f \in DOMAIN functions /\ functions'[f] = functions[f]
      BY <3>2, <3>4
    <3>6. OnlyGiven'
      <4>1. \A m : Given(m) => GivenNext(m)
        BY <3>1, GivenUnchanged
      <4>2. \A f \in DOMAIN functions' : \A i \in 1 .. Len(functions'[f]) :
              functions'[f][i].ins = "LABEL" => GivenNext(functions'[f][i].lab)
        BY <3>5, <4>1 DEF OnlyGiven
      <4> QED BY <4>2 DEF OnlyGiven, Given, GivenNext
    <3>7. \A f, g \in DOMAIN functions' :
            \A p \in 1 .. Len(functions'[f]), q \in 1 .. Len(functions'[g]) :
              BlockLabel(functions'[f][p]) /\ functions'[f][p] = functions'[g][q]
              => f = g /\ p = q
      <4> TAKE f, g \in DOMAIN functions'
      <4> TAKE p \in 1 .. Len(functions'[f]), q \in 1 .. Len(functions'[g])
      <4> HAVE BlockLabel(functions'[f][p]) /\ functions'[f][p] = functions'[g][q]
      <4>1. functions'[f][p].ins = "LABEL" /\ functions'[g][q].ins = "LABEL"
        BY DEF BlockLabel
      <4>2. /\ f \in DOMAIN functions /\ functions'[f] = functions[f]
            /\ g \in DOMAIN functions /\ functions'[g] = functions[g]
        BY <3>5, <4>1
      <4> QED BY <4>2 DEF Once
    <3> QED BY <3>6, <3>7 DEF Once, BlockLabel
  <2> QED BY <2>1, <2>2
<1>2. CASE AllocateMemory \/ DeclareConst \/ NothingElseOutside
  <2>1. functions' = functions /\ UNCHANGED <<whileVars, ifVars>>
    BY <1>2 DEF AllocateMemory, DeclareConst, NothingElseOutside, Fail
  <2> QED BY <2>1, LabelsUnchanged
<1> QED BY <1>1, <1>2 DEF OutsideFunction

-----------------------------------------------------------------------------
\* Every step of the compiler.
LEMMA LabelInvStep ==
  IInv /\ CodeInv /\ LabelInv /\ [CompilerNext]_compilerVars => LabelInv'
PROOF
<1> SUFFICES ASSUME IInv, CodeInv, LabelInv, [CompilerNext]_compilerVars PROVE LabelInv'
  OBVIOUS
<1>1. CASE ReadWord
  <2>1. Sequences /\ Once /\ OnlyGiven
    BY <1>1 DEF ReadWord, CodeInv, LabelInv, InputComplete
  <2>2. CASE in_function # "" /\ ParamsOK(word)
    <3>1. compile_unit \in DOMAIN functions
      BY <1>1, <2>2 DEF IInv, Units, ReadWord
    <3>2. Once' /\ OnlyGiven'
      BY <1>1, <2>1, <2>2, <3>1, LoopLabels, BranchLabels, OtherLabels
         DEF ReadWord, InsideFunction, IInv
    <3> QED BY <3>2 DEF LabelInv
  <2>3. CASE in_function # "" /\ ~ParamsOK(word)
    BY <1>1, <2>1, <2>3, LabelsUnchanged DEF ReadWord, InsideFunction, Fail, LabelInv
  <2>4. CASE in_function = ""
    BY <1>1, <2>1, <2>4, LabelsOutside DEF ReadWord, LabelInv
  <2> QED BY <2>2, <2>3, <2>4
<1>2. CASE Finish
  <2>1. Once /\ OnlyGiven
    BY <1>2 DEF Finish, LabelInv, InputComplete
  <2>2. CASE Fail("error") \/ Fail("crash")
    BY <2>1, <2>2, LabelsUnchanged DEF Fail, LabelInv
  <2>3. CASE ~(Fail("error") \/ Fail("crash"))
    <3>1. /\ UNCHANGED <<compile_unit, whileVars, ifVars>> /\ status' = "done"
          /\ compile_unit = NoUnit => functions' = functions
      BY <1>2, <2>3 DEF Finish
    <3>2. CASE compile_unit = NoUnit
      BY <2>1, <3>1, <3>2, LabelsUnchanged DEF LabelInv
    <3>3. CASE compile_unit # NoUnit
      BY <3>1, <3>3 DEF LabelInv, InputComplete
    <3> QED BY <3>2, <3>3
  <2> QED BY <2>2, <2>3
<1>3. CASE WriteOutput
  BY <1>3, LabelsUnchanged DEF WriteOutput, LabelInv, InputComplete
<1>4. CASE UNCHANGED compilerVars
  BY <1>4, LabelsUnchanged DEF compilerVars, LabelInv, InputComplete
<1> QED BY <1>1, <1>2, <1>3, <1>4 DEF CompilerNext

\* No start or end of a loop and no end of an if with an else is placed twice, in
\* one function or in two, for every set of programs and whatever the order of the
\* words, though all functions share the counters (main.py:220-256).
THEOREM BlockLabelsOnceHolds == CompilerSpec => []BlockLabelsOnce
PROOF
<1>1. Init => IInv /\ CodeInv /\ LabelInv
  <2>1. Init => Once /\ OnlyGiven
    BY DEF Init, Once, OnlyGiven
  <2> QED BY <2>1, IInvInit, CodeInvInit DEF LabelInv
<1>2. IInv /\ CodeInv /\ LabelInv /\ [CompilerNext]_compilerVars
      => (IInv /\ CodeInv /\ LabelInv)'
  BY IInvStep, CodeInvStep, LabelInvStep
<1>3. CodeInv /\ LabelInv => BlockLabelsOnce
  <2> SUFFICES ASSUME Sequences, Once, NEW x \in Lines, NEW y \in Lines,
                      BlockLabel(LineAt(x)), LineAt(x) = LineAt(y)
               PROVE  x = y
    BY DEF CodeInv, LabelInv, BlockLabelsOnce, BlockLabel
  <2>1. PICK f \in DOMAIN functions : x \in {f} \X DOMAIN functions[f]
    BY DEF Lines
  <2>2. PICK g \in DOMAIN functions : y \in {g} \X DOMAIN functions[g]
    BY DEF Lines
  <2>3. PICK i \in DOMAIN functions[f] : x = <<f, i>>
    BY <2>1
  <2>4. PICK j \in DOMAIN functions[g] : y = <<g, j>>
    BY <2>2
  <2>5. \A h \in DOMAIN functions : DOMAIN functions[h] = 1 .. Len(functions[h])
    BY LenProperties DEF Sequences, IsSeq
  <2>6. BlockLabel(functions[f][i]) /\ functions[f][i] = functions[g][j]
    BY <2>3, <2>4 DEF LineAt
  <2> QED BY <2>3, <2>4, <2>5, <2>6 DEF Once
<1> QED BY <1>1, <1>2, <1>3, PTL DEF CompilerSpec

-----------------------------------------------------------------------------
(***************************************************************************)
(* Calls.  The code of a function places no label of a function and calls  *)
(* only what has been noted; what has been noted is emitted, each once.    *)
(***************************************************************************)
FuncLabel(f) == Label(<<"func", f>>)
KnownLine(l, called) ==
  /\ l.ins = "LABEL" => l.lab[1] \in {"while", "endwhile", "endif", "endelse"}
  /\ l.ins = "CALL" => \E f \in called : l.d.v = <<"func", f>>
KnownCode(code, called) == \A l \in ToSet(code) : KnownLine(l, called)

Distinct(s) == IsSeq(s) /\ \A i, j \in DOMAIN s : s[i] = s[j] => i = j
CallsKnown == /\ Distinct(functions_called)
              /\ IsSeq(strings)
              /\ \A l \in AllLines : KnownLine(l, ToSet(functions_called))
CallInv == (InputComplete => CallsKnown) /\ CallsLand

\* A line stands at one place of the code.
Single(code, l) == \E j \in DOMAIN code :
                     code[j] = l /\ \A i \in DOMAIN code : code[i] = l => i = j

\* The indices of a sequence.
LEMMA SeqDomain ==
  ASSUME NEW s, IsSeq(s)
  PROVE  /\ Len(s) \in Nat /\ DOMAIN s = 1 .. Len(s)
         /\ s \in Seq(ToSet(s))
PROOF
<1>1. PICK S : s \in Seq(S)
  BY DEF IsSeq
<1>2. Len(s) \in Nat /\ DOMAIN s = 1 .. Len(s) /\ s \in [1 .. Len(s) -> S]
  BY <1>1, LenProperties
<1>3. s \in [1 .. Len(s) -> ToSet(s)]
  BY <1>2 DEF ToSet
<1>4. s \in Seq(ToSet(s))
  BY <1>2, <1>3, FunctionIsSequence
<1> QED BY <1>2, <1>4

\* What is distinct stays so with one more element.
LEMMA DistinctAppend ==
  ASSUME NEW s, Distinct(s), NEW x, x \notin ToSet(s)
  PROVE  Distinct(Append(s, x)) /\ ToSet(Append(s, x)) = ToSet(s) \cup {x}
PROOF
<1> DEFINE S == ToSet(s) \cup {x}
           t == Append(s, x)
<1>1. Len(s) \in Nat /\ DOMAIN s = 1 .. Len(s) /\ s \in Seq(S)
  <2>1. s \in Seq(ToSet(s)) /\ ToSet(s) \subseteq S
    BY SeqDomain DEF Distinct
  <2> QED BY <2>1, SeqDomain, SeqMonotonic DEF Distinct
<1>2. /\ t \in Seq(S) /\ Len(t) = Len(s) + 1 /\ t[Len(s) + 1] = x
      /\ \A i \in 1 .. Len(s) : t[i] = s[i]
  BY <1>1, AppendProperties
<1>3. DOMAIN t = 1 .. Len(s) + 1
  BY <1>2, LenProperties
<1> HIDE DEF S, t
<1>4. \A i \in 1 .. Len(s) : t[i] \in ToSet(s)
  BY <1>1, <1>2 DEF ToSet
<1>5. \A i, j \in DOMAIN t : t[i] = t[j] => i = j
  <2> SUFFICES ASSUME NEW i \in DOMAIN t, NEW j \in DOMAIN t, t[i] = t[j] PROVE i = j
    OBVIOUS
  <2>1. CASE i \in 1 .. Len(s) /\ j \in 1 .. Len(s)
    BY <1>1, <1>2, <2>1 DEF Distinct
  <2>2. CASE i = Len(s) + 1 \/ j = Len(s) + 1
    BY <1>1, <1>2, <1>3, <1>4, <2>2
  <2> QED BY <1>1, <1>3, <2>1, <2>2
<1>6. ToSet(t) = ToSet(s) \cup {x}
  <2>1. ASSUME NEW y \in ToSet(t) PROVE y \in ToSet(s) \cup {x}
    <3>1. PICK i \in DOMAIN t : y = t[i]
      BY <2>1 DEF ToSet
    <3> QED BY <1>1, <1>2, <1>3, <1>4, <3>1
  <2>2. ASSUME NEW y \in ToSet(s) PROVE y \in ToSet(t)
    <3>1. PICK i \in DOMAIN s : y = s[i]
      BY <2>2 DEF ToSet
    <3>2. i \in DOMAIN t /\ t[i] = y
      BY <1>1, <1>2, <1>3, <3>1
    <3> QED BY <3>2 DEF ToSet
  <2>3. x \in ToSet(t)
    <3>1. Len(s) + 1 \in DOMAIN t
      BY <1>1, <1>3
    <3> QED BY <1>2, <3>1 DEF ToSet
  <2> QED BY <2>1, <2>2, <2>3
<1>7. IsSeq(t)
  BY <1>2 DEF IsSeq
<1> QED BY <1>5, <1>6, <1>7 DEF Distinct, t

\* A line that stands at one place of one part stands at one place of the whole.
LEMMA SingleJoined ==
  ASSUME NEW s, NEW t, IsSeq(s), IsSeq(t), NEW l
  PROVE  /\ Single(s, l) /\ l \notin ToSet(t) => Single(s \o t, l)
         /\ l \notin ToSet(s) /\ Single(t, l) => Single(s \o t, l)
PROOF
<1>1. PICK u : u = s \o t /\ Joined(s, t, u)
  BY ConcatAt
<1>2. /\ DOMAIN s = 1 .. Len(s) /\ DOMAIN t = 1 .. Len(t) /\ DOMAIN u = 1 .. Len(u)
      /\ Len(s) \in Nat /\ Len(t) \in Nat /\ Len(u) = Len(s) + Len(t)
  BY <1>1, SeqDomain DEF Joined
<1>3. \A i \in DOMAIN u : \/ i \in DOMAIN s /\ u[i] = s[i]
                          \/ i - Len(s) \in DOMAIN t /\ u[i] = t[i - Len(s)]
  <2> TAKE i \in DOMAIN u
  <2>1. CASE i <= Len(s)
    BY <1>1, <1>2, <2>1 DEF Joined
  <2>2. CASE ~(i <= Len(s))
    <3>1. i - Len(s) \in 1 .. Len(t) /\ Len(s) + (i - Len(s)) = i
      BY <1>2, <2>2
    <3>2. u[Len(s) + (i - Len(s))] = t[i - Len(s)]
      BY <1>1, <3>1 DEF Joined
    <3> QED BY <1>2, <3>1, <3>2
  <2> QED BY <2>1, <2>2
<1>4. ASSUME Single(s, l), l \notin ToSet(t) PROVE Single(u, l)
  <2>1. PICK j \in DOMAIN s : s[j] = l /\ \A i \in DOMAIN s : s[i] = l => i = j
    BY <1>4 DEF Single
  <2>2. j \in DOMAIN u /\ u[j] = l
    BY <1>1, <1>2, <2>1 DEF Joined
  <2>3. \A i \in DOMAIN u : u[i] = l => i = j
    BY <1>3, <1>4, <2>1 DEF ToSet
  <2> QED BY <2>2, <2>3 DEF Single
<1>5. ASSUME l \notin ToSet(s), Single(t, l) PROVE Single(u, l)
  <2>1. PICK j \in DOMAIN t : t[j] = l /\ \A i \in DOMAIN t : t[i] = l => i = j
    BY <1>5 DEF Single
  <2>2. Len(s) + j \in DOMAIN u /\ u[Len(s) + j] = l
    BY <1>1, <1>2, <2>1 DEF Joined
  <2>3. \A i \in DOMAIN u : u[i] = l => i = Len(s) + j
    <3> TAKE i \in DOMAIN u
    <3> HAVE u[i] = l
    <3>1. i - Len(s) \in DOMAIN t /\ t[i - Len(s)] = l
      BY <1>3, <1>5 DEF ToSet
    <3>2. i - Len(s) = j
      BY <2>1, <3>1
    <3> QED BY <1>2, <3>2
  <2> QED BY <2>2, <2>3 DEF Single
<1> QED BY <1>1, <1>4, <1>5

-----------------------------------------------------------------------------
\* The code of one function in the file.
FileLines == AllLines \cup {FuncLabel(f) : f \in DOMAIN functions}
                      \cup {Label(<<"funcend", f>>) : f \in DOMAIN functions}

LEMMA FuncLabels ==
  /\ \A f : FuncLabel(f).ins = "LABEL" /\ FuncLabel(f).lab = <<"func", f>>
            /\ FuncLabel(f).lab[1] = "func"
  /\ \A f, g : FuncLabel(f) = FuncLabel(g) => f = g
  /\ \A f, g : FuncLabel(f) # Label(<<"funcend", g>>)
  /\ \A f, c : ~KnownLine(FuncLabel(f), c)
PROOF
<1>1. \A f : FuncLabel(f).ins = "LABEL" /\ FuncLabel(f).lab = <<"func", f>>
  BY DEF FuncLabel, Label
<1>2. \A f : <<"func", f>>[1] = "func" /\ <<"func", f>>[2] = f
  OBVIOUS
<1>3. \A f : <<"funcend", f>>[1] = "funcend" /\ Label(<<"funcend", f>>).lab = <<"funcend", f>>
  BY DEF Label
<1>4. ASSUME NEW f, NEW g, FuncLabel(f) = FuncLabel(g) PROVE f = g
  <2>1. <<"func", f>> = <<"func", g>>
    BY <1>1, <1>4
  <2> QED BY <1>2, <2>1
<1>5. ASSUME NEW f, NEW g PROVE FuncLabel(f) # Label(<<"funcend", g>>)
  <2>1. FuncLabel(f).lab[1] = "func"
    BY <1>1, <1>2
  <2>2. Label(<<"funcend", g>>).lab[1] = "funcend"
    BY <1>3
  <2> QED BY <2>1, <2>2
<1>6. \A f, c : ~KnownLine(FuncLabel(f), c)
  BY <1>1, <1>2 DEF KnownLine
<1> QED BY <1>1, <1>2, <1>4, <1>5, <1>6

LEMMA FunctionCodeLines ==
  ASSUME Sequences, CallsKnown, NEW f \in DOMAIN functions
  PROVE  /\ FunctionCode(f) \in Seq(FileLines)
         /\ Single(FunctionCode(f), FuncLabel(f))
         /\ \A g : g # f => FuncLabel(g) \notin ToSet(FunctionCode(f))
PROOF
<1> DEFINE a == <<FuncLabel(f)>>
           b == functions[f]
           z == <<Label(<<"funcend", f>>)>>
<1>1. FunctionCode(f) = (a \o b) \o z
  BY DEF FunctionCode, FuncLabel
<1>2. /\ IsSeq(a) /\ ToSet(a) = {FuncLabel(f)}
      /\ IsSeq(z) /\ ToSet(z) = {Label(<<"funcend", f>>)}
      /\ IsSeq(b) /\ ToSet(b) \subseteq AllLines
  BY ShortSequences, Zenon DEF Sequences, AllLines
<1>3. \A g : FuncLabel(g) \notin ToSet(b)
  BY <1>2, FuncLabels, Zenon DEF CallsKnown
<1>4. Single(a, FuncLabel(f))
  <2>1. DOMAIN a = {1} /\ a[1] = FuncLabel(f)
    OBVIOUS
  <2> HIDE DEF a
  <2> QED BY <2>1 DEF Single
<1> HIDE DEF a, b, z
<1>5. IsSeq(a \o b) /\ ToSet(a \o b) = ToSet(a) \cup ToSet(b) /\ Single(a \o b, FuncLabel(f))
  BY <1>2, <1>3, <1>4, ConcatElems, SingleJoined
<1>6. \A g : FuncLabel(g) \notin ToSet(z)
  BY <1>2, FuncLabels
<1>7. /\ IsSeq((a \o b) \o z) /\ ToSet((a \o b) \o z) = ToSet(a) \cup ToSet(b) \cup ToSet(z)
      /\ Single((a \o b) \o z, FuncLabel(f))
  BY <1>2, <1>5, <1>6, ConcatElems, SingleJoined
<1>8. \A g : g # f => FuncLabel(g) \notin ToSet((a \o b) \o z)
  BY <1>2, <1>3, <1>6, <1>7, FuncLabels
<1>9. ToSet((a \o b) \o z) \subseteq FileLines
  BY <1>2, <1>7 DEF FileLines
<1>10. (a \o b) \o z \in Seq(FileLines)
  BY <1>7, <1>9, SeqDomain, SeqMonotonic
<1> QED BY <1>1, <1>7, <1>8, <1>10

\* The code of functions one after the other.
LEMMA BodiesLines ==
  ASSUME Sequences, CallsKnown, NEW fs, Distinct(fs), ToSet(fs) \subseteq DOMAIN functions,
         NEW b, b = FlattenSeq([i \in DOMAIN fs |-> FunctionCode(fs[i])])
  PROVE  b \in Seq(FileLines) /\ \A f \in ToSet(fs) : Single(b, FuncLabel(f))
PROOF
<1> DEFINE n == Len(fs)
           Codes(k) == [i \in 1 .. k |-> FunctionCode(fs[i])]
           Done(k) == /\ FlattenSeq(Codes(k)) \in Seq(FileLines)
                      /\ \A i \in 1 .. k : Single(FlattenSeq(Codes(k)), FuncLabel(fs[i]))
                      /\ \A i \in k + 1 .. n : FuncLabel(fs[i]) \notin ToSet(FlattenSeq(Codes(k)))
           T == {k \in Nat : k <= n => Done(k)}
<1>1. n \in Nat /\ DOMAIN fs = 1 .. n
  BY SeqDomain DEF Distinct
<1>2. \A i \in 1 .. n : /\ fs[i] \in DOMAIN functions
                        /\ FunctionCode(fs[i]) \in Seq(FileLines)
  BY <1>1, FunctionCodeLines DEF ToSet
<1>3. ASSUME NEW k \in Nat, k <= n
      PROVE  /\ Codes(k) \in Seq(Seq(FileLines)) /\ Len(Codes(k)) = k
             /\ \A i \in 1 .. k : Codes(k)[i] = FunctionCode(fs[i])
  <2>1. Codes(k) \in [1 .. k -> Seq(FileLines)]
    BY <1>1, <1>2, <1>3
  <2> QED BY <2>1, FunctionIsSequence
<1>4. 0 \in T
  <2>1. Codes(0) = <<>>
    BY <1>1, <1>3, EmptySeq
  <2>2. FlattenSeq(Codes(0)) = <<>> /\ ToSet(<<>>) = {} /\ <<>> \in Seq(FileLines)
    BY <2>1, FlattenEmpty, ShortSequences, EmptySeq
  <2>3. Done(0)
    <3>1. 1 .. 0 = {}
      OBVIOUS
    <3> QED BY <2>2, <3>1
  <2> QED BY <2>3
<1>5. ASSUME NEW k \in Nat, k \in T PROVE k + 1 \in T
  <2> SUFFICES ASSUME k + 1 <= n PROVE Done(k + 1)
    OBVIOUS
  <2> DEFINE c == Codes(k)
             d == Codes(k + 1)
             s == FlattenSeq(c)
             t == FunctionCode(fs[k + 1])
  <2>1. Done(k) /\ k + 1 \in 1 .. n /\ k + 1 \in Nat
    BY <1>1, <1>5
  <2>2. c \in Seq(Seq(FileLines)) /\ Len(c) = k
        /\ \A i \in 1 .. k : c[i] = FunctionCode(fs[i])
    BY <1>1, <1>3
  <2>3. d \in Seq(Seq(FileLines)) /\ Len(d) = k + 1
        /\ \A i \in 1 .. k + 1 : d[i] = FunctionCode(fs[i])
    BY <1>1, <1>3, <2>1
  <2>4. /\ t \in Seq(FileLines) /\ fs[k + 1] \in DOMAIN functions
        /\ Single(t, FuncLabel(fs[k + 1]))
        /\ \A g : g # fs[k + 1] => FuncLabel(g) \notin ToSet(t)
    BY <1>2, <2>1, FunctionCodeLines
  <2>5. /\ s \in Seq(FileLines)
        /\ \A i \in 1 .. k : Single(s, FuncLabel(fs[i]))
        /\ \A i \in k + 1 .. n : FuncLabel(fs[i]) \notin ToSet(s)
    BY <2>1
  <2> HIDE DEF c, d, t
  <2>6. d = Append(c, t)
    <3>1. \A i \in 1 .. Len(c) : d[i] = c[i]
      BY <2>2, <2>3
    <3>2. d[Len(c) + 1] = t
      BY <2>2, <2>3 DEF t
    <3> QED BY <2>2, <2>3, <2>4, <3>1, <3>2, OneMore
  <2>7. FlattenSeq(d) = s \o t
    BY <2>2, <2>4, <2>6, FlattenAppend
  <2> HIDE DEF s
  <2>8. IsSeq(s) /\ IsSeq(t) /\ s \o t \in Seq(FileLines)
    BY <2>4, <2>5, ConcatProperties DEF IsSeq
  <2>9. ToSet(s \o t) = ToSet(s) \cup ToSet(t)
    BY <2>8, ConcatElems
  <2>10. \A i \in 1 .. n : i # k + 1 => fs[i] # fs[k + 1]
    BY <1>1, <2>1 DEF Distinct
  <2>11. \A i \in 1 .. n : i # k + 1 => FuncLabel(fs[i]) \notin ToSet(t)
    BY <2>4, <2>10
  <2>12. ASSUME NEW i \in 1 .. k + 1 PROVE Single(s \o t, FuncLabel(fs[i]))
    <3>1. CASE i = k + 1
      BY <1>1, <2>1, <2>4, <2>5, <2>8, <3>1, SingleJoined
    <3>2. CASE i # k + 1
      <4>1. i \in 1 .. k /\ i \in 1 .. n
        BY <1>1, <2>1, <3>2
      <4> QED BY <2>5, <2>8, <2>11, <3>2, <4>1, SingleJoined
    <3> QED BY <3>1, <3>2
  <2>13. ASSUME NEW i \in k + 2 .. n PROVE FuncLabel(fs[i]) \notin ToSet(s \o t)
    <3>1. i \in k + 1 .. n /\ i \in 1 .. n /\ i # k + 1
      BY <1>1
    <3> QED BY <2>5, <2>9, <2>11, <3>1
  <2>14. k + 1 + 1 = k + 2
    OBVIOUS
  <2> HIDE DEF t
  <2>15. FlattenSeq(Codes(k + 1)) = s \o t
    BY <2>7 DEF d
  <2> HIDE DEF Codes
  <2> QED BY <2>8, <2>12, <2>13, <2>14, <2>15
<1>6. Done(n)
  <2>1. n \in T
    BY <1>1, <1>4, <1>5, AllNat
  <2> QED BY <1>1, <2>1
<1>7. b = FlattenSeq(Codes(n))
  BY <1>1
<1> QED BY <1>1, <1>6, <1>7 DEF ToSet

\* The strings have neither calls nor labels.
LEMMA StringLines ==
  ASSUME IsSeq(strings)
  PROVE  IsSeq(StringData) /\ \A l \in ToSet(StringData) : l.ins \in {"QUAD", "DATA"}
PROOF
<1> DEFINE q(i) == Quad(StringLabel(i), Len(strings[i]))
           d(i) == Data(StringLabel(i) \o <<"ptr">>, strings[i])
           S == {q(i) : i \in DOMAIN strings} \cup {d(i) : i \in DOMAIN strings}
           s == [i \in DOMAIN strings |-> <<q(i), d(i)>>]
           n == Len(strings)
<1>1. n \in Nat /\ DOMAIN strings = 1 .. n
  BY SeqDomain
<1>2. \A i : q(i).ins = "QUAD" /\ d(i).ins = "DATA"
  BY DEF Quad, Data
<1>3. StringData = FlattenSeq(s)
  BY DEF StringData
<1> HIDE DEF q, d
<1>4. \A l \in S : l.ins \in {"QUAD", "DATA"}
  BY <1>2
<1>5. \A i \in 1 .. n : q(i) \in S /\ d(i) \in S
  BY <1>1
<1> HIDE DEF S
<1>6. \A x, y \in S : <<x, y>> \in Seq(S)
  OBVIOUS
<1>7. s \in [1 .. n -> Seq(S)]
  BY <1>1, <1>5, <1>6
<1> HIDE DEF s
<1>8. FlattenSeq(s) \in Seq(S)
  BY <1>1, <1>7, FunctionIsSequence, FlattenInSeq
<1>9. \A l \in ToSet(FlattenSeq(s)) : l \in S
  BY <1>8, ElementOfSeq, LenProperties DEF ToSet
<1> QED BY <1>3, <1>4, <1>8, <1>9 DEF IsSeq

\* _start places its label and calls entry.
LEMMA StartLines ==
  /\ IsSeq(StartCode)
  /\ \A l \in ToSet(StartCode) : l.ins = "CALL" => l.d.v = <<"func", "entry">>
  /\ \A l \in ToSet(StartCode) : ~IsJump(l)
  /\ \A f : FuncLabel(f) \notin ToSet(StartCode)
PROOF
<1> DEFINE a == <<Label(<<"_start">>), PUSH(Reg("R12")), I2("MOV", Reg("RBP"), Reg("RSP")),
                  I2("ADD", Reg("RSP"), Imm(32)),
                  I2("LEA", Reg("R12"), Lab(<<"call", "stack">>)),
                  I1("CALL", Lab(<<"func", "entry">>)), I0("LEAVE"), POP("R12"),
                  I2("MOV", Reg("RAX"), Imm(60)), I2("XOR", Reg("RDI"), Reg("RDI")),
                  I0("SYSCALL")>>
<1>1. \A i \in 1 .. 11 : \/ i = 1 /\ a[i] = Label(<<"_start">>)
                         \/ i = 6 /\ a[i] = I1("CALL", Lab(<<"func", "entry">>))
                         \/ a[i].ins \notin {"LABEL", "CALL", "JMP", "JE"}
  BY DEF PUSH, POP, I0, I1, I2
<1>2. DOMAIN a = 1 .. 11 /\ IsSeq(a)
  <2>1. DOMAIN a = 1 .. 11 /\ a = [i \in 1 .. 11 |-> a[i]]
    OBVIOUS
  <2> HIDE DEF a
  <2>2. a \in [1 .. 11 -> {a[i] : i \in 1 .. 11}]
    BY <2>1
  <2>3. a \in Seq({a[i] : i \in 1 .. 11})
    BY <2>2, FunctionIsSequence
  <2> QED BY <2>1, <2>3 DEF IsSeq
<1>3. Label(<<"_start">>).ins = "LABEL" /\ Label(<<"_start">>).lab[1] = "_start"
  BY DEF Label
<1>4. /\ I1("CALL", Lab(<<"func", "entry">>)).d.v = <<"func", "entry">>
      /\ I1("CALL", Lab(<<"func", "entry">>)).ins = "CALL"
  BY DEF I1, Lab
<1>5. StartCode = a
  BY DEF StartCode
<1> HIDE DEF a
<1>6. ASSUME NEW l \in ToSet(a)
      PROVE  /\ l.ins = "CALL" => l.d.v = <<"func", "entry">>
             /\ ~IsJump(l)
             /\ \A f : l # FuncLabel(f)
  <2>1. PICK i \in 1 .. 11 : l = a[i]
    BY <1>2, <1>6 DEF ToSet
  <2>2. CASE l = Label(<<"_start">>)
    BY <1>3, <2>2, FuncLabels DEF IsJump
  <2>3. CASE l = I1("CALL", Lab(<<"func", "entry">>))
    BY <1>4, <2>3, FuncLabels DEF IsJump
  <2>4. CASE l.ins \notin {"LABEL", "CALL", "JMP", "JE"}
    BY <2>4, FuncLabels DEF IsJump
  <2> QED BY <1>1, <2>1, <2>2, <2>3, <2>4
<1> QED BY <1>2, <1>5, <1>6

-----------------------------------------------------------------------------
\* The strings are a sequence, and so is what was called, after every word.
LEMMA StringsGrow ==
  ASSUME IsSeq(strings), Progress, pos < Len(src), PushString
  PROVE  IsSeq(strings')
PROOF
<1>1. PICK S : strings \in Seq(S)
  BY DEF IsSeq
<1> DEFINE T == S \cup {word.params}
<1>2. strings \in Seq(T) /\ word.params \in T
  BY <1>1, SeqMonotonic
<1>3. Append(strings, word.params) \in Seq(T)
  BY <1>2, AppendProperties
<1>4. strings' \in Seq(T)
  BY <1>2, <1>3 DEF PushString
<1> QED BY <1>4 DEF IsSeq

\* Known lines are added.
LEMMA KnownGrows ==
  ASSUME CallsKnown, NEW E, AllLines' = AllLines \cup E,
         Distinct(functions_called'), IsSeq(strings'),
         ToSet(functions_called) \subseteq ToSet(functions_called'),
         \A l \in E : KnownLine(l, ToSet(functions_called'))
  PROVE  CallsKnown'
PROOF
<1>1. \A l \in AllLines' : KnownLine(l, ToSet(functions_called'))
  BY DEF CallsKnown, KnownLine
<1>2. ToSet(functions_called)' = ToSet(functions_called')
  BY DEF ToSet
<1>3. Distinct(functions_called)' /\ IsSeq(strings)'
  BY DEF Distinct, IsSeq
<1> QED BY <1>1, <1>2, <1>3 DEF CallsKnown, KnownLine

LEMMA KnownUnchanged ==
  ASSUME CallsKnown, UNCHANGED <<functions, functions_called, strings>>
  PROVE  CallsKnown'
  BY DEF CallsKnown, AllLines, ToSet, Distinct, IsSeq, KnownLine

LEMMA EmitKnown ==
  ASSUME Sequences, CallsKnown, compile_unit \in DOMAIN functions, NEW code, IsSeq(code),
         Emit(code), KnownCode(code, ToSet(functions_called)),
         functions_called' = functions_called, IsSeq(strings')
  PROVE  CallsKnown'
PROOF
<1>1. AllLines' = AllLines \cup ({Loc(pos + 1)} \cup ToSet(code))
  BY EmitLines
<1>2. KnownLine(Loc(pos + 1), ToSet(functions_called))
  BY DEF KnownLine, Loc
<1> DEFINE E == {Loc(pos + 1)} \cup ToSet(code)
<1>3. \A l \in E : KnownLine(l, ToSet(functions_called'))
  BY <1>2 DEF KnownCode
<1>4. Distinct(functions_called') /\ ToSet(functions_called) \subseteq ToSet(functions_called')
  BY DEF CallsKnown
<1>5. AllLines' = AllLines \cup E
  BY <1>1
<1> HIDE DEF E
<1> QED BY <1>3, <1>4, <1>5, KnownGrows

\* Lines that are neither labels nor calls, and the code of the words of blocks.
LEMMA KnownCodes ==
  /\ \A c, called : Straight(c) => IsSeq(c) /\ KnownCode(c, called)
  /\ \A m, called : m[1] \in {"while", "endwhile", "endif", "endelse"}
       => IsSeq(<<Label(m)>>) /\ KnownCode(<<Label(m)>>, called)
  /\ \A l, m, called : m[1] \in {"while", "endwhile", "endif", "endelse"}
       => /\ IsSeq(<<I1("JMP", Lab(l)), Label(m)>>)
          /\ KnownCode(<<I1("JMP", Lab(l)), Label(m)>>, called)
  /\ \A l, called :
       /\ IsSeq(Pop1 \o <<I2("CMP", Reg("RAX"), Imm(0)), I1("JE", Lab(l))>>)
       /\ KnownCode(Pop1 \o <<I2("CMP", Reg("RAX"), Imm(0)), I1("JE", Lab(l))>>, called)
PROOF
<1>1. \A c, called : Straight(c) => IsSeq(c) /\ KnownCode(c, called)
  BY DEF Straight, StraightLine, KnownCode, KnownLine
<1>2. \A m, called : m[1] \in {"while", "endwhile", "endif", "endelse"}
                     => KnownLine(Label(m), called)
  BY DEF KnownLine, Label
<1>3. \A l, called : /\ KnownLine(I1("JMP", Lab(l)), called)
                     /\ KnownLine(I1("JE", Lab(l)), called)
                     /\ KnownLine(I2("CMP", Reg("RAX"), Imm(0)), called)
                     /\ KnownLine(POP("RAX"), called)
  BY DEF KnownLine, I1, I2, POP
<1>4. \A a : IsSeq(<<a>>) /\ ToSet(<<a>>) = {a}
  BY ShortSequences, Zenon
<1>5. \A a, b : IsSeq(<<a, b>>) /\ ToSet(<<a, b>>) = {a, b}
  BY ShortSequences, Zenon
<1>6. ASSUME NEW l, NEW called
      PROVE  /\ IsSeq(Pop1 \o <<I2("CMP", Reg("RAX"), Imm(0)), I1("JE", Lab(l))>>)
             /\ KnownCode(Pop1 \o <<I2("CMP", Reg("RAX"), Imm(0)), I1("JE", Lab(l))>>, called)
  <2> DEFINE cmp == I2("CMP", Reg("RAX"), Imm(0))
             je == I1("JE", Lab(l))
  <2>1. KnownLine(cmp, called) /\ KnownLine(je, called) /\ KnownLine(POP("RAX"), called)
    BY <1>3
  <2>2. IsSeq(Pop1) /\ ToSet(Pop1) = {POP("RAX")}
    BY <1>4 DEF Pop1
  <2> HIDE DEF cmp, je
  <2>3. IsSeq(<<cmp, je>>) /\ ToSet(<<cmp, je>>) = {cmp, je}
    BY <1>5
  <2>4. /\ IsSeq(Pop1 \o <<cmp, je>>)
        /\ ToSet(Pop1 \o <<cmp, je>>) = ToSet(Pop1) \cup ToSet(<<cmp, je>>)
    BY <2>2, <2>3, ConcatElems
  <2>5. KnownCode(Pop1 \o <<cmp, je>>, called)
    BY <2>1, <2>2, <2>3, <2>4 DEF KnownCode
  <2> QED BY <2>4, <2>5 DEF cmp, je
<1>7. \A m, called : m[1] \in {"while", "endwhile", "endif", "endelse"}
       => IsSeq(<<Label(m)>>) /\ KnownCode(<<Label(m)>>, called)
  BY <1>2, <1>4 DEF KnownCode
<1>8. ASSUME NEW l, NEW m, NEW called, m[1] \in {"while", "endwhile", "endif", "endelse"}
      PROVE  /\ IsSeq(<<I1("JMP", Lab(l)), Label(m)>>)
             /\ KnownCode(<<I1("JMP", Lab(l)), Label(m)>>, called)
  <2>1. ToSet(<<I1("JMP", Lab(l)), Label(m)>>) = {I1("JMP", Lab(l)), Label(m)}
    BY <1>5
  <2>2. KnownLine(I1("JMP", Lab(l)), called) /\ KnownLine(Label(m), called)
    BY <1>2, <1>3, <1>8
  <2> QED BY <1>5, <2>1, <2>2 DEF KnownCode
<1> QED BY <1>1, <1>6, <1>7, <1>8

\* The words of blocks.
LEMMA BlocksKnown ==
  ASSUME Sequences, CallsKnown, compile_unit \in DOMAIN functions,
         While \/ Do \/ EndWhile \/ If \/ Else \/ EndIf
  PROVE  CallsKnown'
PROOF
<1>0. \A c : /\ IsSeq(c) /\ KnownCode(c, ToSet(functions_called)) /\ Emit(c)
             /\ UNCHANGED <<functions_called, strings>>
             => CallsKnown'
  BY EmitKnown DEF CallsKnown, IsSeq
<1>1. CASE Fail("crash")
  BY <1>1, KnownUnchanged DEF Fail, declVars
<1>2. CASE ~Fail("crash") /\ While
  <2>1. /\ Emit(<<Label(<<"while", while_label_ct>>)>>)
        /\ UNCHANGED <<functions_called, strings>>
    BY <1>2 DEF While, declVars
  <2> QED BY <1>0, <2>1, KnownCodes
<1>3. CASE ~Fail("crash") /\ Do
  <2>1. PICK l : /\ Emit(Pop1 \o <<I2("CMP", Reg("RAX"), Imm(0)), I1("JE", Lab(l))>>)
                 /\ UNCHANGED <<functions_called, strings>>
    BY <1>3 DEF Do, declVars
  <2> QED BY <1>0, <2>1, KnownCodes
<1>4. CASE ~Fail("crash") /\ EndWhile
  <2>1. PICK l : \E n : /\ Emit(<<I1("JMP", Lab(l)), Label(<<"endwhile", n>>)>>)
                        /\ UNCHANGED <<functions_called, strings>>
    BY <1>4 DEF EndWhile, declVars
  <2> QED BY <1>0, <2>1, KnownCodes
<1>5. CASE ~Fail("crash") /\ If
  <2>1. PICK l : /\ Emit(Pop1 \o <<I2("CMP", Reg("RAX"), Imm(0)), I1("JE", Lab(l))>>)
                 /\ UNCHANGED <<functions_called, strings>>
    BY <1>5 DEF If, declVars
  <2> QED BY <1>0, <2>1, KnownCodes
<1>6. CASE ~Fail("crash") /\ Else
  <2>1. PICK l : \E n : /\ Emit(<<I1("JMP", Lab(l)), Label(<<"endif", n>>)>>)
                        /\ UNCHANGED <<functions_called, strings>>
    BY <1>6 DEF Else, declVars
  <2> QED BY <1>0, <2>1, KnownCodes
<1>7. CASE ~Fail("crash") /\ EndIf
  <2>1. PICK m : /\ Emit(<<Label(m)>>) /\ m[1] \in {"endif", "endelse"}
                 /\ UNCHANGED <<functions_called, strings>>
    BY <1>7 DEF EndIf, declVars
  <2> QED BY <1>0, <2>1, KnownCodes
<1> QED BY <1>1, <1>2, <1>3, <1>4, <1>5, <1>6, <1>7

\* A call notes the function that it calls.
LEMMA CallKnown ==
  ASSUME Sequences, CallsKnown, compile_unit \in DOMAIN functions, Call
  PROVE  CallsKnown'
PROOF
<1> DEFINE callee == IF word.head = "#" THEN "#" \o word.name ELSE word.name
           loc == IF word.head = "#" THEN <<>> ELSE <<Loc(pos + 1)>>
           line == I1("CALL", Lab(<<"func", callee>>))
           old == functions[compile_unit]
<1>1. /\ functions' = [functions EXCEPT ![compile_unit] = old \o loc \o <<line>>]
      /\ functions_called' = IF callee \in ToSet(functions_called) THEN functions_called
                             ELSE Append(functions_called, callee)
      /\ strings' = strings
  BY DEF Call
<1>2. line.ins = "CALL" /\ line.d.v = <<"func", callee>>
  BY DEF I1, Lab
<1>3. loc \in {<<>>, <<Loc(pos + 1)>>}
  OBVIOUS
<1>4. Loc(pos + 1).ins = "LOC"
  BY DEF Loc
<1> HIDE DEF callee, loc, line, old
<1>5. IsSeq(<<line>>) /\ ToSet(<<line>>) = {line}
  BY ShortSequences, Zenon
<1>6. IsSeq(loc) /\ ToSet(loc) \subseteq {Loc(pos + 1)}
  BY <1>3, ShortSequences
<1>7. IsSeq(old)
  BY DEF Sequences, old
<1>8. IsSeq(old \o loc) /\ ToSet(old \o loc) = ToSet(old) \cup ToSet(loc)
  BY <1>6, <1>7, ConcatElems
<1>9. /\ IsSeq(old \o loc \o <<line>>)
      /\ ToSet(old \o loc \o <<line>>) = ToSet(old) \cup (ToSet(loc) \cup {line})
  BY <1>5, <1>8, ConcatElems
<1>10. AllLines' = AllLines \cup (ToSet(loc) \cup {line})
  BY <1>1, <1>9, ReplaceUnit DEF old
<1>11. /\ Distinct(functions_called')
       /\ ToSet(functions_called) \subseteq ToSet(functions_called')
       /\ callee \in ToSet(functions_called')
  BY <1>1, DistinctAppend DEF CallsKnown
<1>12. \A l \in ToSet(loc) \cup {line} : KnownLine(l, ToSet(functions_called'))
  BY <1>2, <1>4, <1>6, <1>11 DEF KnownLine
<1>13. IsSeq(strings')
  BY <1>1 DEF CallsKnown
<1> QED BY <1>10, <1>11, <1>12, <1>13, KnownGrows

\* The other words inside a function.
LEMMA OthersKnown ==
  ASSUME Progress, Sequences, CallsKnown, compile_unit \in DOMAIN functions,
         pos < Len(src), ParamsOK(word),
         EndFunction \/ Call \/ PushString \/ Plain \/ UndeclaredConst
  PROVE  CallsKnown'
PROOF
<1>1. CASE EndFunction
  <2>1. Straight(Epilogue)
    BY StraightCode DEF Epilogue, StraightLine, I0, I2, PUSH, I1
  <2>2. /\ functions' = [functions EXCEPT ![compile_unit] =
                           functions[compile_unit] \o Epilogue]
        /\ UNCHANGED <<functions_called, strings>>
    BY <1>1 DEF EndFunction, declVars
  <2>3. /\ IsSeq(functions[compile_unit] \o Epilogue)
        /\ ToSet(functions[compile_unit] \o Epilogue)
           = ToSet(functions[compile_unit]) \cup ToSet(Epilogue)
    BY <2>1, ConcatElems DEF Straight, Sequences
  <2>4. AllLines' = AllLines \cup ToSet(Epilogue)
    BY <2>2, <2>3, ReplaceUnit
  <2>5. \A l \in ToSet(Epilogue) : KnownLine(l, ToSet(functions_called'))
    BY <2>1, KnownCodes DEF KnownCode
  <2>6. /\ Distinct(functions_called') /\ IsSeq(strings')
        /\ ToSet(functions_called) \subseteq ToSet(functions_called')
    BY <2>2 DEF CallsKnown
  <2> QED BY <2>4, <2>5, <2>6, KnownGrows
<1>2. CASE Call
  BY <1>2, CallKnown
<1>3. CASE PushString
  <2>1. \A l : Straight(AddressCode(l))
    BY TransferStraight
  <2>2. IsSeq(strings')
    BY <1>3, StringsGrow DEF CallsKnown
  <2>3. PICK l : Emit(AddressCode(l)) /\ functions_called' = functions_called
    BY <1>3 DEF PushString, declVars
  <2> QED BY <2>1, <2>2, <2>3, KnownCodes, EmitKnown
<1>4. CASE Plain
  <2>1. Straight(PlainCode(word))
    BY <1>4, PlainStraight DEF Progress
  <2>2. Emit(PlainCode(word)) /\ UNCHANGED <<functions_called, strings>>
    BY <1>4 DEF Plain, declVars
  <2>3. IsSeq(strings')
    BY <2>2 DEF CallsKnown
  <2> QED BY <2>1, <2>2, <2>3, KnownCodes, EmitKnown
<1>5. CASE UndeclaredConst
  BY <1>5, KnownUnchanged DEF UndeclaredConst, Fail, declVars
<1> QED BY <1>1, <1>2, <1>3, <1>4, <1>5

\* Words outside functions.
LEMMA OutsideKnown ==
  ASSUME Sequences, CallsKnown, OutsideFunction
  PROVE  CallsKnown'
PROOF
<1>1. CASE DeclareFunction /\ ~Fail("error")
  <2>1. /\ word.name \notin DOMAIN functions
        /\ UNCHANGED <<functions_called, strings>>
        /\ \E c \in {<<>>, Prologue} :
             functions' = [f \in DOMAIN functions \cup {word.name} |->
                             IF f = word.name THEN c ELSE functions[f]]
    BY <1>1 DEF DeclareFunction, declVars
  <2>2. PICK c \in {<<>>, Prologue} :
          functions' = [f \in DOMAIN functions \cup {word.name} |->
                          IF f = word.name THEN c ELSE functions[f]]
    BY <2>1
  <2>3. Straight(c)
    BY StraightCode DEF Prologue, StraightLine, POP, I1, I2
  <2>4. AllLines' = AllLines \cup ToSet(c)
    BY <2>1, <2>2, <2>3, AddUnit DEF Straight
  <2>5. \A l \in ToSet(c) : KnownLine(l, ToSet(functions_called'))
    BY <2>3, KnownCodes DEF KnownCode
  <2>6. /\ Distinct(functions_called') /\ IsSeq(strings')
        /\ ToSet(functions_called) \subseteq ToSet(functions_called')
    BY <2>1 DEF CallsKnown
  <2> QED BY <2>4, <2>5, <2>6, KnownGrows
<1>2. CASE ~(DeclareFunction /\ ~Fail("error"))
  <2>1. UNCHANGED <<functions, functions_called, strings>>
    BY <1>2 DEF OutsideFunction, DeclareFunction, AllocateMemory, DeclareConst,
                NothingElseOutside, Fail, declVars
  <2> QED BY <2>1, KnownUnchanged
<1> QED BY <1>1, <1>2

-----------------------------------------------------------------------------
\* In the file every call has one function to go to.
LEMMA FileLands ==
  ASSUME Sequences, CallsKnown, Sizing(asm),
         ToSet(functions_called) \subseteq DOMAIN functions, "entry" \in DOMAIN functions,
         NEW file, file = asm \o StringData \o StartCode \o Bodies,
         NEW i \in DOMAIN file, file[i].ins = "CALL"
  PROVE  Single(file, Label(file[i].d.v))
PROOF
<1> DEFINE fs == EmittedFunctions
<1>1. /\ Distinct(fs) /\ ToSet(fs) \subseteq DOMAIN functions
      /\ ToSet(functions_called) \subseteq ToSet(fs) /\ "entry" \in ToSet(fs)
  BY DistinctAppend DEF CallsKnown, EmittedFunctions
<1>2. /\ Bodies \in Seq(FileLines)
      /\ \A f \in ToSet(fs) : Single(Bodies, FuncLabel(f))
  BY <1>1, BodiesLines DEF Bodies
<1> HIDE DEF fs
<1> DEFINE a == asm \o StringData
           b == a \o StartCode
<1>3. IsSeq(a) /\ ToSet(a) = ToSet(asm) \cup ToSet(StringData)
  BY StringLines, ConcatElems DEF Sizing, CallsKnown
<1>4. IsSeq(b) /\ ToSet(b) = ToSet(a) \cup ToSet(StartCode)
  BY <1>3, StartLines, ConcatElems
<1>5. file = b \o Bodies
  OBVIOUS
<1> HIDE DEF a, b
<1>6. IsSeq(Bodies) /\ ToSet(file) = ToSet(b) \cup ToSet(Bodies)
  BY <1>2, <1>4, <1>5, ConcatElems DEF IsSeq
<1>7. \A l \in ToSet(a) : l.ins \in {"LCOMM", "QUAD", "DATA"}
  BY <1>3, StringLines DEF Sizing, CallsKnown
<1>8. \A f : FuncLabel(f) \notin ToSet(b)
  BY <1>4, <1>7, StartLines, FuncLabels
<1>9. \A f \in ToSet(fs) : Single(file, FuncLabel(f))
  BY <1>2, <1>4, <1>5, <1>6, <1>8, SingleJoined
<1>10. \A l \in ToSet(Bodies) : l.ins = "CALL" => l \in AllLines
  <2>1. ToSet(Bodies) \subseteq FileLines
    BY <1>2, ElementOfSeq, LenProperties DEF ToSet
  <2>2. \A f : Label(<<"funcend", f>>).ins = "LABEL"
    BY DEF Label
  <2> QED BY <2>1, <2>2, FuncLabels DEF FileLines
<1>11. \E f \in ToSet(fs) : file[i].d.v = <<"func", f>>
  <2>1. file[i] \in ToSet(b) \cup ToSet(Bodies)
    BY <1>6 DEF ToSet
  <2>2. CASE file[i] \in ToSet(Bodies)
    BY <1>1, <1>10, <2>2 DEF CallsKnown, KnownLine
  <2>3. CASE file[i] \in ToSet(b)
    BY <1>1, <1>4, <1>7, <2>3, StartLines
  <2> QED BY <2>1, <2>2, <2>3
<1> QED BY <1>9, <1>11 DEF FuncLabel

\* Every step of the compiler.
LEMMA CallInvStep ==
  IInv /\ CodeInv /\ FileInv /\ CallInv /\ [CompilerNext]_compilerVars => CallInv'
PROOF
<1> SUFFICES ASSUME IInv, CodeInv, FileInv, CallInv, [CompilerNext]_compilerVars
             PROVE  CallInv'
  OBVIOUS
<1>1. CASE ReadWord
  <2>1. Sequences /\ CallsKnown /\ status = "compiling"
    BY <1>1 DEF ReadWord, CodeInv, CallInv, InputComplete
  <2>2. CallsKnown'
    <3>1. CASE in_function # "" /\ ParamsOK(word)
      <4>1. compile_unit \in DOMAIN functions
        BY <1>1, <3>1 DEF IInv, Units, ReadWord
      <4> QED BY <1>1, <2>1, <3>1, <4>1, BlocksKnown, OthersKnown
              DEF ReadWord, InsideFunction, IInv
    <3>2. CASE in_function # "" /\ ~ParamsOK(word)
      BY <1>1, <2>1, <3>2, KnownUnchanged DEF ReadWord, InsideFunction, Fail, declVars
    <3>3. CASE in_function = ""
      BY <1>1, <2>1, <3>3, OutsideKnown DEF ReadWord
    <3> QED BY <3>1, <3>2, <3>3
  <2>3. status' # "done"
    <3>1. CASE in_function # ""
      BY <1>1, <2>1, <3>1, InsideKeepsDomain DEF ReadWord
    <3>2. CASE in_function = ""
      BY <1>1, <2>1, <3>2 DEF ReadWord, OutsideFunction, DeclareFunction, AllocateMemory,
                              DeclareConst, NothingElseOutside, Fail
    <3> QED BY <3>1, <3>2
  <2> QED BY <2>2, <2>3 DEF CallInv, CallsLand
<1>2. CASE Finish
  <2>1. Sequences /\ CallsKnown /\ Sizing(asm)
    BY <1>2 DEF Finish, CodeInv, CallInv, InputComplete, FileInv
  <2>2. CASE Fail("error") \/ Fail("crash")
    <3>1. CallsKnown'
      BY <2>1, <2>2, KnownUnchanged DEF Fail, declVars
    <3> QED BY <2>2, <3>1 DEF Fail, CallInv, CallsLand
  <2>3. CASE ~(Fail("error") \/ Fail("crash")) /\ compile_unit # NoUnit
    BY <1>2, <2>3 DEF Finish, CallInv, CallsLand, InputComplete
  <2>4. CASE ~(Fail("error") \/ Fail("crash")) /\ compile_unit = NoUnit
    <3>1. /\ ToSet(functions_called) \subseteq DOMAIN functions
          /\ "entry" \in DOMAIN functions
          /\ functions_called' = EmittedFunctions
          /\ asm' = asm \o StringData \o StartCode \o Bodies
          /\ UNCHANGED <<functions, strings>>
      BY <1>2, <2>4 DEF Finish
    <3>2. /\ Distinct(functions_called')
          /\ ToSet(functions_called) \subseteq ToSet(functions_called')
      BY <2>1, <3>1, DistinctAppend DEF CallsKnown, EmittedFunctions
    <3>3. CallsKnown'
      <4> DEFINE E == {l \in AllLines : FALSE}
      <4>1. AllLines' = AllLines \cup E /\ IsSeq(strings')
        BY <2>1, <3>1 DEF AllLines, CallsKnown
      <4>2. \A l \in E : KnownLine(l, ToSet(functions_called'))
        OBVIOUS
      <4> HIDE DEF E
      <4> QED BY <2>1, <3>2, <4>1, <4>2, KnownGrows
    <3>4. ASSUME NEW i \in DOMAIN asm', asm'[i].ins = "CALL"
          PROVE  Cardinality({j \in DOMAIN asm' : asm'[j] = Label(asm'[i].d.v)}) = 1
      <4>1. Single(asm', Label(asm'[i].d.v))
        BY <2>1, <3>1, <3>4, FileLands
      <4>2. PICK j : {k \in DOMAIN asm' : asm'[k] = Label(asm'[i].d.v)} = {j}
        BY <4>1 DEF Single
      <4> QED BY <4>2, FS_Singleton
    <3> QED BY <3>3, <3>4 DEF CallInv, CallsLand
  <2> QED BY <2>2, <2>3, <2>4
<1>3. CASE WriteOutput \/ UNCHANGED compilerVars
  <2>1. UNCHANGED <<functions, functions_called, strings, asm, status, compile_unit>>
    BY <1>3 DEF WriteOutput, compilerVars, declVars
  <2>2. CallsKnown => CallsKnown'
    BY <2>1, KnownUnchanged
  <2> QED BY <2>1, <2>2 DEF CallInv, CallsLand, InputComplete
<1> QED BY <1>1, <1>2, <1>3 DEF CompilerNext

\* Initially nothing is called and no code is written.
LEMMA FileCallInit == Init => FileInv /\ CallInv
PROOF
<1> SUFFICES ASSUME Init PROVE FileInv /\ CallInv
  OBVIOUS
<1>1. FileInv
  BY SegmentSizes DEF Init, FileInv
<1>2. functions_called = <<>> /\ strings = <<>> /\ AllLines = {} /\ status = "compiling"
  BY DEF Init, AllLines
<1>3. IsSeq(<<>>) /\ DOMAIN <<>> = {}
  BY ShortSequences
<1> QED BY <1>1, <1>2, <1>3 DEF CallInv, CallsKnown, Distinct, CallsLand

\* In the file that is written every call has exactly one function to go to, for
\* every set of programs (Parser.py:191-193, main.py:195-210, 471-483), unless a
\* function is open at the end of the input.
THEOREM CallsLandHolds == CompilerSpec => []CallsLand
PROOF
<1>1. Init => IInv /\ CodeInv /\ FileInv /\ CallInv
  BY IInvInit, CodeInvInit, FileCallInit
<1>2. IInv /\ CodeInv /\ FileInv /\ CallInv /\ [CompilerNext]_compilerVars
      => (IInv /\ CodeInv /\ FileInv /\ CallInv)'
  BY IInvStep, CodeInvStep, FileInvStep, CallInvStep
<1>3. CallInv => CallsLand
  BY DEF CallInv
<1> QED BY <1>1, <1>2, <1>3, PTL DEF CompilerSpec

-----------------------------------------------------------------------------
(***************************************************************************)
(* Jumps.  A function of a program that closes its blocks is begun and     *)
(* ended with no block open.  While it is open it has placed the labels    *)
(* it jumps to, but for those of its open blocks; so when it is ended it   *)
(* has placed all of them, and what is written holds whole functions.      *)
(***************************************************************************)
Landed(f) == TargetsOf(ToSet(functions[f])) \subseteq LabelsOf(ToSet(functions[f]))

\* As many blocks are open as have been opened and not closed.
Depths == /\ Len(while_labels) = Times("while", pos) - Times("elihw", pos)
          /\ Len(if_labels) = Times("if", pos) - Times("fi", pos)
JumpsKnown ==
  /\ Depths
  /\ IF compile_unit = NoUnit THEN while_labels = <<>> /\ if_labels = <<>> ELSE Code
  /\ \A f \in DOMAIN functions \ {compile_unit} : Landed(f)
JumpInv == /\ status = "compiling" /\ BlocksClosed => JumpsKnown
           /\ JumpsLand

\* Counting the words of blocks, one word after the other.
LEMMA TimesNext ==
  ASSUME Progress, pos < Len(src), NEW n
  PROVE  /\ Times(n, pos) \in Nat
         /\ Times(n, pos + 1) = IF Is("id", n) THEN Times(n, pos) + 1 ELSE Times(n, pos)
PROOF
<1> DEFINE S == {i \in 1 .. pos : src[i].head = "id" /\ src[i].name = n}
           T == {i \in 1 .. pos + 1 : src[i].head = "id" /\ src[i].name = n}
<1>1. pos \in Nat
  BY DEF Progress
<1>2. IsFiniteSet(1 .. pos)
  BY <1>1, FS_Interval
<1>3. IsFiniteSet(S)
  BY <1>2, FS_Subset
<1>4. Cardinality(S) \in Nat
  BY <1>3, FS_CardinalityType
<1>5. T = IF Is("id", n) THEN S \cup {pos + 1} ELSE S
  BY <1>1 DEF Is, word
<1>6. pos + 1 \notin S
  BY <1>1
<1>7. Times(n, pos) = Cardinality(S) /\ Times(n, pos + 1) = Cardinality(T)
  BY DEF Times
<1> HIDE DEF S, T
<1>8. Cardinality(S \cup {pos + 1}) = Cardinality(S) + 1
  BY <1>3, <1>6, FS_AddElement
<1> QED BY <1>4, <1>5, <1>7, <1>8

\* The stacks grow and shrink with the words of blocks.
LEMMA DepthsNext ==
  ASSUME Stacks, Progress, Depths, ReadWord, status' = "compiling"
  PROVE  Depths'
PROOF
<1> DEFINE Grows(n) == IF Is("id", n) THEN Times(n, pos) + 1 ELSE Times(n, pos)
           Kept == UNCHANGED <<while_labels, if_labels>>
           Other == \A n \in {"while", "elihw", "if", "fi"} : ~Is("id", n)
<1>1. pos < Len(src) /\ pos' = pos + 1 /\ src' = src
  BY DEF ReadWord
<1>2. \A n : Times(n, pos)' = Times(n, pos + 1)
  BY <1>1 DEF Times
<1>3. \A n : Times(n, pos)' = Grows(n) /\ Times(n, pos) \in Nat
  BY <1>1, <1>2, TimesNext
<1>4. ASSUME Kept, Other PROVE Depths'
  BY <1>3, <1>4 DEF Depths
<1>5. CASE in_function = ""
  <2>1. OutsideFunction
    BY <1>5 DEF ReadWord
  <2>2. word.head \in {"#", "@", "$"} /\ Kept
    BY <2>1 DEF OutsideFunction, DeclareFunction, AllocateMemory, DeclareConst,
                NothingElseOutside, Fail, whileVars, ifVars
  <2> QED BY <1>4, <2>2 DEF Is
<1>6. CASE in_function # ""
  <2>1. InsideFunction /\ ParamsOK(word)
    BY <1>6 DEF ReadWord, InsideFunction, Fail
  <2>2. CASE While
    <3>1. Len(while_labels') = Len(while_labels) + 1 /\ if_labels' = if_labels
      BY <2>2, AppendProperties DEF While, Stacks, ifVars
    <3>2. Is("id", "while") /\ ~Is("id", "elihw") /\ ~Is("id", "if") /\ ~Is("id", "fi")
      BY <2>2 DEF While, Is
    <3> QED BY <1>3, <3>1, <3>2, LenProperties DEF Depths, Stacks
  <2>3. CASE EndWhile
    <3>1. /\ Len(while_labels') = Len(while_labels) - 1 /\ if_labels' = if_labels
          /\ Len(while_labels) \in Nat
      BY <2>3, PopProperties DEF EndWhile, Stacks, ifVars, Fail
    <3>2. ~Is("id", "while") /\ Is("id", "elihw") /\ ~Is("id", "if") /\ ~Is("id", "fi")
      BY <2>3 DEF EndWhile, Is
    <3> QED BY <1>3, <3>1, <3>2 DEF Depths
  <2>4. CASE If
    <3>1. Len(if_labels') = Len(if_labels) + 1 /\ while_labels' = while_labels
      BY <2>4, AppendProperties DEF If, Stacks, whileVars
    <3>2. ~Is("id", "while") /\ ~Is("id", "elihw") /\ Is("id", "if") /\ ~Is("id", "fi")
      BY <2>4 DEF If, Is
    <3> QED BY <1>3, <3>1, <3>2, LenProperties DEF Depths, Stacks
  <2>5. CASE EndIf
    <3>1. /\ has_else # <<>> /\ if_labels' = Front(if_labels) /\ while_labels' = while_labels
      BY <2>5 DEF EndIf, Fail, whileVars
    <3>2. if_labels # <<>>
      BY <3>1, LenProperties, EmptySeq DEF Stacks, BlocksInStep
    <3>3. Len(if_labels') = Len(if_labels) - 1 /\ Len(if_labels) \in Nat
      BY <3>1, <3>2, PopProperties DEF Stacks
    <3>4. ~Is("id", "while") /\ ~Is("id", "elihw") /\ ~Is("id", "if") /\ Is("id", "fi")
      BY <2>5 DEF EndIf, Is
    <3> QED BY <1>3, <3>1, <3>3, <3>4 DEF Depths
  <2>6. CASE Do \/ Else
    <3>1. Kept
      BY <2>6 DEF Do, Else, Fail, whileVars, ifVars
    <3>2. Other
      BY <2>6 DEF Do, Else, Is
    <3> QED BY <1>4, <3>1, <3>2
  <2>7. CASE EndFunction \/ Call \/ PushString \/ Plain
    <3>1. Kept
      BY <2>7 DEF EndFunction, Call, PushString, Plain, whileVars, ifVars
    <3>2. Other
      BY <2>7 DEF EndFunction, Call, PushString, Plain, Is, Operators, Structure
    <3> QED BY <1>4, <3>1, <3>2
  <2>8. CASE UndeclaredConst
    BY <2>8 DEF UndeclaredConst, Fail
  <2> QED BY <2>1, <2>2, <2>3, <2>4, <2>5, <2>6, <2>7, <2>8 DEF InsideFunction
<1> QED BY <1>5, <1>6

\* A function that is left alone keeps its jumps and labels.
LEMMA LandedKept ==
  ASSUME NEW f, functions'[f] = functions[f], Landed(f)
  PROVE  Landed(f)'
BY DEF Landed, TargetsOf, LabelsOf, ToSet

\* Words outside functions begin a function, with no block open.
LEMMA JumpsOutside ==
  ASSUME Progress, Sequences, FrameInv, JumpsKnown, OutsideFunction, status = "compiling",
         pos < Len(src), status' = "compiling", Depths'
  PROVE  JumpsKnown'
PROOF
<1>2. CASE DeclareFunction
  <2>1. /\ compile_unit = NoUnit /\ compile_unit' = word.name
        /\ word.name \notin DOMAIN functions
        /\ functions' = [f \in DOMAIN functions \cup {word.name} |->
                           IF f = word.name THEN Prologue ELSE functions[f]]
        /\ UNCHANGED <<whileVars, ifVars>>
    BY <1>2 DEF DeclareFunction, Fail
  <2>2. word.name # NoUnit
    BY WordIsWord DEF Progress, Word
  <2>3. while_labels = <<>> /\ if_labels = <<>>
    BY <2>1 DEF JumpsKnown
  <2>4. Straight(Prologue)
    BY StraightCode DEF Prologue, StraightLine, POP, I1, I2
  <2>5. LabelsOf(ToSet(Prologue)) = {} /\ TargetsOf(ToSet(Prologue)) = {}
    BY <2>4, LabelsAndTargets
  <2>6. functions'[word.name] = Prologue
    BY <2>1
  <2>7. UnitLines' = ToSet(Prologue)
    BY <2>1, <2>6 DEF UnitLines, ToSet
  <2>8. TargetsKnown'
    BY <2>5, <2>7 DEF TargetsKnown, TargetsOf
  <2>9. LoopsPlaced'
    <3>1. while_labels' = <<>>
      BY <2>1, <2>3 DEF whileVars
    <3>2. \A i \in DOMAIN while_labels' :
            <<"while", while_labels'[i]>> \in LabelsOf(UnitLines)'
      BY <3>1
    <3> QED BY <3>2 DEF LoopsPlaced
  <2>10. Sequences'
    BY SequencesOutside
  <2>11. ASSUME NEW f \in DOMAIN functions' \ {compile_unit'} PROVE Landed(f)'
    <3>1. f \in DOMAIN functions /\ functions'[f] = functions[f]
      BY <2>1, <2>11
    <3>2. f # NoUnit
      BY <3>1 DEF FrameInv
    <3> QED BY <2>1, <3>1, <3>2, LandedKept DEF JumpsKnown
  <2> QED BY <2>1, <2>2, <2>8, <2>9, <2>10, <2>11 DEF JumpsKnown, Code
<1>3. CASE ~DeclareFunction
  <2>1. UNCHANGED <<functions, compile_unit, whileVars, ifVars>>
    BY <1>3 DEF OutsideFunction, AllocateMemory, DeclareConst, NothingElseOutside, Fail
  <2>2. Code => Code'
    BY <2>1, CodeUnchanged
  <2>3. while_labels' = while_labels /\ if_labels' = if_labels
    BY <2>1 DEF whileVars, ifVars
  <2>4. \A f : Landed(f) => Landed(f)'
    BY <2>1, LandedKept
  <2> QED BY <2>1, <2>2, <2>3, <2>4 DEF JumpsKnown
<1> QED BY <1>2, <1>3

\* The end of a function of a program that closes its blocks: none is open.
LEMMA JumpsEnd ==
  ASSUME IInv, JumpsKnown, BlocksClosed, pos < Len(src), compile_unit \in DOMAIN functions,
         compile_unit # NoUnit, EndFunction, ParamsOK(word), pos' = pos + 1, src' = src, Depths'
  PROVE  JumpsKnown'
PROOF
<1>1. UNCHANGED <<while_labels, if_labels>> /\ compile_unit' = NoUnit
  BY DEF EndFunction, whileVars, ifVars
<1>2. while_labels = <<>> /\ if_labels = <<>>
  <2>1. src[pos + 1].head = "#" /\ src[pos + 1].name = "" /\ pos + 1 \in DOMAIN src
    <3>1. pos + 1 \in DOMAIN src
      <4>1. src \in Seq(Word) /\ pos \in Nat
        BY ProgramsAssumption DEF IInv, Progress
      <4>2. DOMAIN src = 1 .. Len(src) /\ Len(src) \in Nat
        BY <4>1, LenProperties
      <4> QED BY <4>1, <4>2
    <3>2. Is("#", "")
      BY DEF EndFunction
    <3> QED BY <3>1, <3>2 DEF Is, word
  <2>2. Times("while", pos + 1) = Times("elihw", pos + 1) /\ Times("if", pos + 1) = Times("fi", pos + 1)
    BY <2>1 DEF BlocksClosed
  <2>3. \A n : Times(n, pos + 1) = Times(n, pos) /\ Times(n, pos) \in Nat
    <3>1. \A n : ~Is("id", n)
      BY <2>1 DEF Is, word
    <3> QED BY <3>1, TimesNext DEF IInv
  <2>4. Len(while_labels) = 0 /\ Len(if_labels) = 0
    BY <2>2, <2>3 DEF JumpsKnown, Depths
  <2> QED BY <2>4, EmptySeq DEF IInv, Stacks
<1>3. EndsToCome = {}
  BY <1>2 DEF EndsToCome
<1>4. Code
  BY DEF JumpsKnown
<1>5. PICK E : /\ Extended(compile_unit, E) /\ LabelsOf(E) = {} /\ TargetsOf(E) = {}
  BY <1>4, OtherLines DEF Code, IInv
<1>6. ASSUME NEW f \in DOMAIN functions' PROVE Landed(f)'
  <2> DEFINE ls == ToSet(functions[f])
  <2>1. CASE f = compile_unit
    <3>1. TargetsOf(ls) \subseteq LabelsOf(ls)
      BY <1>3, <1>4, <2>1 DEF Code, TargetsKnown, UnitLines
    <3>2. TargetsOf(ls \cup E) = TargetsOf(ls) /\ LabelsOf(ls \cup E) = LabelsOf(ls)
      <4>1. /\ LabelsOf(ls \cup E) = LabelsOf(ls) \cup LabelsOf(E)
            /\ TargetsOf(ls \cup E) = TargetsOf(ls) \cup TargetsOf(E)
        BY LabelsAndTargets, Zenon
      <4> HIDE DEF ls
      <4> QED BY <1>5, <4>1
    <3>3. ToSet(functions'[f]) = ls \cup E
      BY <1>5, <2>1 DEF Extended
    <3> HIDE DEF ls
    <3>4. TargetsOf(ToSet(functions'[f])) \subseteq LabelsOf(ToSet(functions'[f]))
      BY <3>1, <3>2, <3>3
    <3>5. /\ TargetsOf(ToSet(functions[f]))' = TargetsOf(ToSet(functions'[f]))
          /\ LabelsOf(ToSet(functions[f]))' = LabelsOf(ToSet(functions'[f]))
      BY DEF TargetsOf, LabelsOf, ToSet
    <3> QED BY <3>4, <3>5 DEF Landed
  <2>2. CASE f # compile_unit
    <3>1. f \in DOMAIN functions /\ functions'[f] = functions[f]
      BY <1>5, <2>2 DEF Extended
    <3> QED BY <2>2, <3>1, LandedKept DEF JumpsKnown
  <2> QED BY <2>1, <2>2
<1> QED BY <1>1, <1>2, <1>6 DEF JumpsKnown

\* The other words of a function: the function stays open.
LEMMA JumpsInside ==
  ASSUME IInv, JumpsKnown, pos < Len(src), compile_unit \in DOMAIN functions,
         compile_unit # NoUnit, ParamsOK(word), ~Fail("crash"), Depths',
         \/ While \/ Do \/ EndWhile \/ If \/ Else \/ EndIf
         \/ Call \/ PushString \/ Plain
  PROVE  JumpsKnown'
PROOF
<1>1. Code
  BY DEF JumpsKnown
<1>2. compile_unit' = compile_unit
  BY DEF While, Do, EndWhile, If, Else, EndIf, Call, PushString, Plain, Fail
<1>3. Code' /\ \E E : Extended(compile_unit, E)
  <2>1. CASE While \/ Do \/ EndWhile \/ If \/ Else \/ EndIf
    BY <1>1, <2>1, LoopCode, BranchCode, BlockExtends DEF Code, IInv
  <2>2. CASE Call \/ PushString \/ Plain
    <3>1. PICK E : /\ Sequences' /\ Extended(compile_unit, E)
                   /\ LabelsOf(E) = {} /\ TargetsOf(E) = {}
                   /\ UNCHANGED <<whileVars, ifVars>>
      BY <1>1, <2>2, OtherLines DEF Code, IInv
    <3>2. Code'
      BY <1>1, <1>2, <3>1, UnlabelledGrows
    <3> QED BY <3>1, <3>2
  <2> QED BY <2>1, <2>2
<1>4. ASSUME NEW f \in DOMAIN functions' \ {compile_unit'} PROVE Landed(f)'
  <2>1. f \in DOMAIN functions \ {compile_unit} /\ functions'[f] = functions[f]
    BY <1>2, <1>3, <1>4 DEF Extended
  <2> QED BY <2>1, LandedKept DEF JumpsKnown
<1> QED BY <1>2, <1>3, <1>4 DEF JumpsKnown

LEMMA JumpsRead ==
  ASSUME IInv, Sequences, FrameInv, BlocksClosed, JumpsKnown, ReadWord, status' = "compiling"
  PROVE  JumpsKnown'
PROOF
<1>1. /\ pos < Len(src) /\ pos' = pos + 1 /\ src' = src /\ status = "compiling"
      /\ Progress /\ Stacks
  BY DEF ReadWord, IInv
<1>2. Depths'
  BY <1>1, DepthsNext DEF JumpsKnown
<1>3. CASE in_function = ""
  BY <1>1, <1>2, <1>3, JumpsOutside DEF ReadWord
<1>4. CASE in_function # ""
  <2>1. InsideFunction /\ ParamsOK(word) /\ ~Fail("crash") /\ ~UndeclaredConst
    BY <1>4 DEF ReadWord, InsideFunction, UndeclaredConst, Fail
  <2>2. compile_unit = in_function /\ compile_unit \in DOMAIN functions
    BY <1>1, <1>4 DEF IInv, Units
  <2>3. compile_unit # NoUnit
    BY <2>2 DEF FrameInv
  <2>4. CASE EndFunction
    BY <1>1, <1>2, <2>1, <2>2, <2>3, <2>4, JumpsEnd
  <2>5. CASE ~EndFunction
    BY <1>1, <1>2, <2>1, <2>2, <2>3, <2>5, JumpsInside DEF InsideFunction
  <2> QED BY <2>4, <2>5
<1> QED BY <1>3, <1>4

-----------------------------------------------------------------------------
\* The lines of sequences put together are theirs.
LEMMA FlattenElems ==
  ASSUME NEW S, NEW s \in Seq(Seq(S))
  PROVE  ToSet(FlattenSeq(s)) = UNION {ToSet(s[i]) : i \in 1 .. Len(s)}
PROOF
<1> DEFINE Elems(t) == UNION {ToSet(t[i]) : i \in 1 .. Len(t)}
           T == {k \in Nat : \A t \in Seq(Seq(S)) :
                   Len(t) = k => ToSet(FlattenSeq(t)) = Elems(t)}
<1>1. 0 \in T
  <2> SUFFICES ASSUME NEW t \in Seq(Seq(S)), Len(t) = 0 PROVE ToSet(FlattenSeq(t)) = Elems(t)
    OBVIOUS
  <2>1. t = <<>>
    BY EmptySeq
  <2>2. ToSet(FlattenSeq(t)) = {}
    BY <2>1, FlattenEmpty, ShortSequences
  <2> QED BY <2>2
<1>2. ASSUME NEW k \in Nat, k \in T PROVE k + 1 \in T
  <2> SUFFICES ASSUME NEW t \in Seq(Seq(S)), Len(t) = k + 1
               PROVE  ToSet(FlattenSeq(t)) = Elems(t)
    OBVIOUS
  <2>1. t # <<>>
    BY EmptySeq
  <2>2. PICK u \in Seq(Seq(S)), x \in Seq(S) : t = Append(u, x)
    BY <2>1, SequenceEmptyOrAppend
  <2>3. Len(u) = k
    BY <2>2, AppendProperties, LenProperties
  <2>4. ToSet(FlattenSeq(u)) = Elems(u)
    BY <1>2, <2>3
  <2>5. FlattenSeq(t) = FlattenSeq(u) \o x /\ IsSeq(FlattenSeq(u)) /\ IsSeq(x)
    BY <2>2, FlattenAppend, FlattenInSeq DEF IsSeq
  <2>6. ToSet(FlattenSeq(t)) = ToSet(FlattenSeq(u)) \cup ToSet(x)
    BY <2>5, ConcatElems
  <2>7. t[k + 1] = x /\ \A i \in 1 .. k : t[i] = u[i]
    BY <2>2, <2>3, AppendProperties
  <2>8. Elems(t) = Elems(u) \cup ToSet(x)
    <3>1. 1 .. k + 1 = (1 .. k) \cup {k + 1}
      OBVIOUS
    <3>2. {ToSet(t[i]) : i \in 1 .. k + 1} = {ToSet(u[i]) : i \in 1 .. k} \cup {ToSet(x)}
      BY <2>7, <3>1
    <3> QED BY <2>3, <3>2
  <2> QED BY <2>4, <2>6, <2>8
<1>3. Len(s) \in T
  BY <1>1, <1>2, AllNat, LenProperties
<1> QED BY <1>3

\* The bodies that are written are whole functions.
LEMMA BodiesElems ==
  ASSUME Sequences, CallsKnown, NEW fs, Distinct(fs), ToSet(fs) \subseteq DOMAIN functions,
         NEW b, b = FlattenSeq([i \in DOMAIN fs |-> FunctionCode(fs[i])])
  PROVE  ToSet(b) = UNION {ToSet(FunctionCode(f)) : f \in ToSet(fs)}
PROOF
<1> DEFINE s == [i \in DOMAIN fs |-> FunctionCode(fs[i])]
<1>1. Len(fs) \in Nat /\ DOMAIN fs = 1 .. Len(fs)
  BY SeqDomain DEF Distinct
<1>2. \A i \in 1 .. Len(fs) : FunctionCode(fs[i]) \in Seq(FileLines)
  BY <1>1, FunctionCodeLines DEF ToSet
<1>3. s \in [1 .. Len(fs) -> Seq(FileLines)]
  BY <1>1, <1>2
<1>4. s \in Seq(Seq(FileLines)) /\ Len(s) = Len(fs)
  BY <1>1, <1>3, FunctionIsSequence
<1>5. \A i \in 1 .. Len(fs) : s[i] = FunctionCode(fs[i])
  BY <1>1
<1> HIDE DEF s
<1>6. ToSet(FlattenSeq(s)) = UNION {ToSet(s[i]) : i \in 1 .. Len(s)}
  BY <1>4, FlattenElems
<1>7. {ToSet(s[i]) : i \in 1 .. Len(s)} = {ToSet(FunctionCode(f)) : f \in ToSet(fs)}
  <2>1. \A i \in 1 .. Len(s) : fs[i] \in ToSet(fs) /\ ToSet(s[i]) = ToSet(FunctionCode(fs[i]))
    BY <1>1, <1>4, <1>5 DEF ToSet
  <2>2. \A f \in ToSet(fs) : \E i \in 1 .. Len(s) : ToSet(s[i]) = ToSet(FunctionCode(f))
    <3> SUFFICES ASSUME NEW f \in ToSet(fs)
                 PROVE  \E i \in 1 .. Len(s) : ToSet(s[i]) = ToSet(FunctionCode(f))
      OBVIOUS
    <3>1. PICK i \in DOMAIN fs : fs[i] = f
      BY DEF ToSet
    <3> QED BY <1>1, <1>4, <2>1, <3>1
  <2> QED BY <2>1, <2>2
<1> QED BY <1>6, <1>7 DEF s

\* In a file of functions that have placed what they jump to, every jump lands.
LEMMA FileJumps ==
  ASSUME Sequences, CallsKnown, Sizing(asm),
         ToSet(functions_called) \subseteq DOMAIN functions, "entry" \in DOMAIN functions,
         \A f \in DOMAIN functions : Landed(f),
         NEW file, file = asm \o StringData \o StartCode \o Bodies
  PROVE  LandsIn(file)
PROOF
<1> DEFINE fs == EmittedFunctions
<1>1. Distinct(fs) /\ ToSet(fs) \subseteq DOMAIN functions
  BY DistinctAppend DEF CallsKnown, EmittedFunctions
<1>2. /\ IsSeq(Bodies)
      /\ ToSet(Bodies) = UNION {ToSet(FunctionCode(f)) : f \in ToSet(fs)}
  BY <1>1, BodiesLines, BodiesElems DEF Bodies, IsSeq
<1>3. ASSUME NEW f \in ToSet(fs)
      PROVE  ToSet(FunctionCode(f)) = {Label(<<"func", f>>), Label(<<"funcend", f>>)}
                                      \cup ToSet(functions[f])
  <2> DEFINE a == <<Label(<<"func", f>>)>>
             z == <<Label(<<"funcend", f>>)>>
             c == functions[f]
  <2>1. /\ IsSeq(a) /\ ToSet(a) = {Label(<<"func", f>>)}
        /\ IsSeq(z) /\ ToSet(z) = {Label(<<"funcend", f>>)} /\ IsSeq(c)
    BY <1>1, ShortSequences, Zenon DEF Sequences
  <2>2. FunctionCode(f) = (a \o c) \o z
    BY DEF FunctionCode
  <2> HIDE DEF a, c, z
  <2>3. IsSeq(a \o c) /\ ToSet(a \o c) = ToSet(a) \cup ToSet(c)
    BY <2>1, ConcatElems
  <2>4. ToSet((a \o c) \o z) = ToSet(a) \cup ToSet(c) \cup ToSet(z)
    BY <2>1, <2>3, ConcatElems
  <2>5. ToSet(FunctionCode(f)) = {Label(<<"func", f>>), Label(<<"funcend", f>>)} \cup ToSet(c)
    BY <2>1, <2>2, <2>4
  <2> QED BY <2>5 DEF c
<1> HIDE DEF fs
<1> DEFINE a == asm \o StringData
           b == a \o StartCode
<1>4. IsSeq(a) /\ ToSet(a) = ToSet(asm) \cup ToSet(StringData)
  BY StringLines, ConcatElems DEF Sizing, CallsKnown
<1>5. IsSeq(b) /\ ToSet(b) = ToSet(a) \cup ToSet(StartCode)
  BY <1>4, StartLines, ConcatElems
<1>6. file = b \o Bodies
  OBVIOUS
<1>7. \A l \in ToSet(a) : ~IsJump(l)
  BY <1>4, StringLines DEF Sizing, CallsKnown, IsJump
<1> HIDE DEF a, b
<1>8. ToSet(file) = ToSet(b) \cup ToSet(Bodies)
  BY <1>2, <1>5, <1>6, ConcatElems
<1>9. \A l \in ToSet(b) : ~IsJump(l)
  BY <1>5, <1>7, StartLines
<1> SUFFICES ASSUME NEW i \in DOMAIN file, IsJump(file[i])
             PROVE  \E j \in DOMAIN file : file[j].ins = "LABEL" /\ file[j].lab = file[i].d.v
  BY DEF LandsIn
<1>10. file[i] \in ToSet(Bodies)
  BY <1>8, <1>9 DEF ToSet
<1>11. PICK f \in ToSet(fs) : file[i] \in ToSet(FunctionCode(f))
  BY <1>2, <1>10
<1>12. file[i] \in ToSet(functions[f])
  <2>1. \A l : Label(l).ins = "LABEL"
    BY DEF Label
  <2>2. \A l : ~IsJump(Label(l))
    BY <2>1 DEF IsJump
  <2> QED BY <1>3, <1>11, <2>2
<1>13. PICK m \in ToSet(functions[f]) : m.ins = "LABEL" /\ m.lab = file[i].d.v
  <2>1. file[i].d.v \in TargetsOf(ToSet(functions[f]))
    BY <1>12 DEF TargetsOf, IsJump
  <2>2. f \in DOMAIN functions
    BY <1>1 DEF fs
  <2>3. file[i].d.v \in LabelsOf(ToSet(functions[f]))
    BY <2>1, <2>2 DEF Landed
  <2> QED BY <2>3 DEF LabelsOf
<1>14. m \in ToSet(file)
  BY <1>2, <1>3, <1>8, <1>13
<1> QED BY <1>13, <1>14 DEF ToSet

\* In a function that has placed the labels it jumps to every jump lands.
LEMMA FunctionJumps ==
  ASSUME NEW f \in DOMAIN functions, Landed(f)
  PROVE  LandsIn(functions[f])
PROOF
<1> SUFFICES ASSUME NEW i \in DOMAIN functions[f], IsJump(functions[f][i])
             PROVE  \E j \in DOMAIN functions[f] :
                      /\ functions[f][j].ins = "LABEL"
                      /\ functions[f][j].lab = functions[f][i].d.v
  BY DEF LandsIn
<1>1. functions[f][i].d.v \in TargetsOf(ToSet(functions[f]))
  BY DEF TargetsOf, IsJump, ToSet
<1>2. functions[f][i].d.v \in LabelsOf(ToSet(functions[f]))
  BY <1>1 DEF Landed
<1>3. PICK m \in ToSet(functions[f]) : m.ins = "LABEL" /\ m.lab = functions[f][i].d.v
  BY <1>2 DEF LabelsOf
<1> QED BY <1>3 DEF ToSet

-----------------------------------------------------------------------------
\* Every step of the compiler.
LEMMA JumpInvStep ==
  /\ IInv /\ CodeInv /\ FileInv /\ CallInv /\ FrameInv /\ JumpInv
  /\ [CompilerNext]_compilerVars
  => JumpInv'
PROOF
<1> SUFFICES ASSUME IInv, CodeInv, FileInv, CallInv, FrameInv, JumpInv,
                    [CompilerNext]_compilerVars
             PROVE  JumpInv'
  OBVIOUS
<1>0. src' = src => (BlocksClosed' <=> BlocksClosed)
  BY DEF BlocksClosed, Times
<1>1. CASE ReadWord
  <2>1. Sequences /\ status = "compiling" /\ src' = src
    BY <1>1 DEF ReadWord, CodeInv, InputComplete
  <2>2. status' # "done"
    <3>1. CASE in_function # ""
      BY <1>1, <2>1, <3>1, InsideKeepsDomain DEF ReadWord
    <3>2. CASE in_function = ""
      BY <1>1, <2>1, <3>2 DEF ReadWord, OutsideFunction, DeclareFunction, AllocateMemory,
                              DeclareConst, NothingElseOutside, Fail
    <3> QED BY <3>1, <3>2
  <2> QED BY <1>0, <1>1, <2>1, <2>2, JumpsRead DEF JumpInv, JumpsLand
<1>2. CASE Finish
  <2>1. /\ Sequences /\ CallsKnown /\ Sizing(asm) /\ status = "compiling" /\ src' = src
        /\ status' # "compiling"
    BY <1>2 DEF Finish, CodeInv, CallInv, InputComplete, FileInv, Fail
  <2> SUFFICES ASSUME status' = "done", compile_unit' = NoUnit, BlocksClosed
               PROVE  LandsIn(asm') /\ \A f \in DOMAIN functions' : LandsIn(functions'[f])
    BY <1>0, <2>1 DEF JumpInv, JumpsLand, InputComplete, LandsIn
  <2>2. /\ ToSet(functions_called) \subseteq DOMAIN functions
        /\ "entry" \in DOMAIN functions
        /\ asm' = asm \o StringData \o StartCode \o Bodies
        /\ functions' = functions /\ compile_unit = NoUnit
    BY <1>2, <2>1 DEF Finish, Fail
  <2>3. \A f \in DOMAIN functions : Landed(f)
    BY <2>1, <2>2 DEF JumpInv, JumpsKnown, FrameInv
  <2> QED BY <2>1, <2>2, <2>3, FileJumps, FunctionJumps
<1>3. CASE WriteOutput
  <2>1. UNCHANGED <<src, pos, functions, asm, status, compile_unit>> /\ status # "compiling"
    BY <1>3 DEF WriteOutput
  <2> QED BY <1>0, <2>1 DEF JumpInv, JumpsLand, InputComplete, LandsIn
<1>4. CASE UNCHANGED compilerVars
  <2>1. /\ UNCHANGED <<src, pos, functions, asm, status, compile_unit, whileVars, ifVars>>
    BY <1>4 DEF compilerVars
  <2>2. JumpsLand => JumpsLand'
    BY <1>0, <2>1 DEF JumpsLand, InputComplete, LandsIn
  <2>3. JumpsKnown => JumpsKnown'
    <3>1. Code => Code'
      BY <2>1, CodeUnchanged
    <3>2. \A f : Landed(f) => Landed(f)'
      BY <2>1, LandedKept
    <3>3. Depths => Depths'
      BY <2>1 DEF Depths, Times, whileVars, ifVars
    <3>4. while_labels' = while_labels /\ if_labels' = if_labels
      BY <2>1 DEF whileVars, ifVars
    <3> QED BY <2>1, <3>1, <3>2, <3>3, <3>4 DEF JumpsKnown
  <2> QED BY <1>0, <2>1, <2>2, <2>3 DEF JumpInv
<1> QED BY <1>1, <1>2, <1>3, <1>4 DEF CompilerNext

\* In the file every jump has its label, and has it in its own function, for every
\* set of programs and however their blocks cross (main.py:220-256, 482-483), if
\* every function closes as many blocks as it opens and none is open at the end.
THEOREM JumpsLandHolds == CompilerSpec => []JumpsLand
PROOF
<1>1. Init => IInv /\ CodeInv /\ FileInv /\ CallInv /\ FrameInv /\ JumpInv
  <2> SUFFICES ASSUME Init PROVE JumpInv /\ FrameInv
    BY IInvInit, CodeInvInit, FileCallInit
  <2>1. /\ functions = [f \in {} |-> <<>>] /\ compile_unit = NoUnit /\ pos = 0
        /\ while_labels = <<>> /\ if_labels = <<>> /\ status = "compiling"
    BY DEF Init
  <2>2. \A n : Times(n, pos) = 0
    <3>1. \A n : {i \in 1 .. pos : src[i].head = "id" /\ src[i].name = n} = {}
      BY <2>1
    <3> QED BY <3>1, FS_EmptySet DEF Times
  <2>3. JumpsKnown
    BY <2>1, <2>2, EmptySeq DEF JumpsKnown, Depths
  <2> QED BY <2>1, <2>3 DEF JumpInv, JumpsLand, FrameInv
<1>2. /\ IInv /\ CodeInv /\ FileInv /\ CallInv /\ FrameInv /\ JumpInv
      /\ [CompilerNext]_compilerVars
      => (IInv /\ CodeInv /\ FileInv /\ CallInv /\ FrameInv /\ JumpInv)'
  BY IInvStep, CodeInvStep, FileInvStep, CallInvStep, FrameInvStep, JumpInvStep
<1>3. JumpInv => JumpsLand
  BY DEF JumpInv
<1> QED BY <1>1, <1>2, <1>3, PTL DEF CompilerSpec

-----------------------------------------------------------------------------
(***************************************************************************)
(* The open blocks of a program, word by word.                             *)
(***************************************************************************)
Nests(p, n, f) == f = [i \in 0 .. n |-> IF i = 0 THEN <<>> ELSE BlocksAfter(f[i - 1], p[i])]

LEMMA NestsExist ==
  ASSUME NEW p, NEW n \in Nat
  PROVE  \E f : Nests(p, n, f)
PROOF
<1> DEFINE T == {k \in Nat : \E f : Nests(p, k, f)}
<1>1. 0 \in T
  <2> DEFINE g == [i \in 0 .. 0 |-> <<>>]
  <2>1. Nests(p, 0, g)
    BY DEF Nests
  <2> QED BY <2>1
<1>2. ASSUME NEW k \in Nat, k \in T PROVE k + 1 \in T
  <2>1. PICK f : Nests(p, k, f)
    BY <1>2
  <2> DEFINE g == [i \in 0 .. k + 1 |-> IF i <= k THEN f[i] ELSE BlocksAfter(f[i - 1], p[i])]
  <2>2. ASSUME NEW i \in 0 .. k + 1
        PROVE  g[i] = IF i = 0 THEN <<>> ELSE BlocksAfter(g[i - 1], p[i])
    <3>1. CASE i <= k
      <4>1. g[i] = f[i] /\ i \in 0 .. k
        BY <3>1
      <4>2. f[i] = IF i = 0 THEN <<>> ELSE BlocksAfter(f[i - 1], p[i])
        BY <2>1, <4>1 DEF Nests
      <4>3. i # 0 => g[i - 1] = f[i - 1]
        BY <3>1
      <4> QED BY <4>1, <4>2, <4>3
    <3>2. CASE i = k + 1
      <4>1. i # 0 /\ ~(i <= k) /\ g[i - 1] = f[i - 1]
        BY <3>2
      <4>2. g[i] = BlocksAfter(f[i - 1], p[i])
        BY <4>1
      <4> QED BY <4>1, <4>2
    <3> QED BY <3>1, <3>2
  <2>3. g = [i \in 0 .. k + 1 |-> IF i = 0 THEN <<>> ELSE BlocksAfter(g[i - 1], p[i])]
    BY <2>2
  <2> HIDE DEF g
  <2>4. Nests(p, k + 1, g)
    BY <2>3 DEF Nests
  <2> QED BY <2>4
<1>3. Nat \subseteq T
  BY <1>1, <1>2, AllNat
<1> QED BY <1>3

LEMMA OpenBlocksAre ==
  ASSUME NEW p, Len(p) \in Nat
  PROVE  /\ OpenBlocks(p)[0] = <<>>
         /\ \A i \in 1 .. Len(p) : OpenBlocks(p)[i] = BlocksAfter(OpenBlocks(p)[i - 1], p[i])
PROOF
<1> DEFINE g == CHOOSE f : f = [i \in 0 .. Len(p) |-> IF i = 0 THEN <<>>
                                                    ELSE BlocksAfter(f[i - 1], p[i])]
<1>1. OpenBlocks(p) = g
  BY DEF OpenBlocks
<1>2. \E f : f = [i \in 0 .. Len(p) |-> IF i = 0 THEN <<>> ELSE BlocksAfter(f[i - 1], p[i])]
  BY NestsExist DEF Nests
<1>3. g = [i \in 0 .. Len(p) |-> IF i = 0 THEN <<>> ELSE BlocksAfter(g[i - 1], p[i])]
  BY <1>2
<1> HIDE DEF g
<1>4. \A i \in 0 .. Len(p) : g[i] = IF i = 0 THEN <<>> ELSE BlocksAfter(g[i - 1], p[i])
  BY <1>3
<1>5. g[0] = <<>>
  BY <1>4
<1>6. \A i \in 1 .. Len(p) : g[i] = BlocksAfter(g[i - 1], p[i])
  BY <1>4
<1> QED BY <1>1, <1>5, <1>6

\* What fits nowhere leaves a mark for good.
LEMMA NeverBad ==
  ASSUME NEW p, Len(p) \in Nat, WellNested(p), NEW i \in 0 .. Len(p)
  PROVE  OpenBlocks(p)[i] # Bad
PROOF
<1> DEFINE n == Len(p)
           OB == OpenBlocks(p)
           T == {k \in Nat : k <= n => OB[n - k] # Bad}
<1>1. \A j \in 1 .. n : OB[j] = BlocksAfter(OB[j - 1], p[j])
  BY OpenBlocksAre
<1>2. OB[n] = <<>>
  BY DEF WellNested
<1>3. n \in Nat
  OBVIOUS
<1> HIDE DEF n, OB
<1>4. 0 \in T
  <2>1. n - 0 = n /\ <<>> # Bad
    BY <1>3 DEF Bad
  <2> QED BY <1>2, <2>1
<1>5. ASSUME NEW k \in Nat, k \in T PROVE k + 1 \in T
  <2> SUFFICES ASSUME k + 1 <= n, OB[n - (k + 1)] = Bad PROVE FALSE
    OBVIOUS
  <2> DEFINE j == n - k
  <2>1. j \in 1 .. n /\ j - 1 = n - (k + 1) /\ k <= n
    BY <1>3
  <2>2. OB[j] # Bad
    BY <1>5, <2>1
  <2> HIDE DEF j
  <2>3. OB[j] = BlocksAfter(OB[j - 1], p[j])
    BY <1>1, <2>1
  <2>4. OB[j - 1] = Bad
    BY <2>1
  <2> QED BY <2>2, <2>3, <2>4 DEF BlocksAfter
<1>6. Nat \subseteq T
  BY <1>4, <1>5, AllNat
<1> DEFINE k == n - i
<1>7. k \in Nat /\ k <= n /\ n - k = i
  BY <1>3 DEF n
<1> HIDE DEF k
<1>8. OB[n - k] # Bad
  BY <1>6, <1>7
<1> QED BY <1>7, <1>8 DEF OB

-----------------------------------------------------------------------------
(***************************************************************************)
(* Blocks within a function body, and how many there are of a kind.        *)
(***************************************************************************)
BlockNames == {"fn", "while", "if", "else"}
NestedBlocks(b) == b \in Seq(BlockNames) /\ \A i \in DOMAIN b : b[i] = "fn" <=> i = 1
BlocksOf(b, kinds) == {i \in DOMAIN b : b[i] \in kinds}
Count(b, kinds) == Cardinality(BlocksOf(b, kinds))

LEMMA CountAppend ==
  ASSUME NEW s \in Seq(BlockNames), NEW x \in BlockNames, NEW kinds
  PROVE  /\ Count(s, kinds) \in Nat
         /\ Count(Append(s, x), kinds) = IF x \in kinds THEN Count(s, kinds) + 1
                                         ELSE Count(s, kinds)
PROOF
<1> DEFINE t == Append(s, x)
           n == Len(s)
<1>1. /\ n \in Nat /\ DOMAIN s = 1 .. n
      /\ DOMAIN t = 1 .. n + 1 /\ t[n + 1] = x /\ \A i \in 1 .. n : t[i] = s[i]
  BY AppendProperties, LenProperties
<1> HIDE DEF t, n
<1>2. IsFiniteSet(1 .. n)
  BY <1>1, FS_Interval
<1>3. BlocksOf(s, kinds) \in SUBSET (1 .. n)
  BY <1>1 DEF BlocksOf
<1>4. IsFiniteSet(BlocksOf(s, kinds))
  BY <1>2, <1>3, FS_Subset
<1>5. Count(s, kinds) \in Nat
  BY <1>4, FS_CardinalityType DEF Count
<1>6. CASE x \in kinds
  <2>1. BlocksOf(t, kinds) = BlocksOf(s, kinds) \cup {n + 1} /\ n + 1 \notin BlocksOf(s, kinds)
    BY <1>1, <1>6 DEF BlocksOf
  <2>2. Cardinality(BlocksOf(s, kinds) \cup {n + 1}) = Cardinality(BlocksOf(s, kinds)) + 1
    BY <1>4, <2>1, FS_AddElement
  <2> QED BY <1>5, <1>6, <2>1, <2>2 DEF Count, t
<1>7. CASE x \notin kinds
  <2>1. BlocksOf(t, kinds) = BlocksOf(s, kinds)
    BY <1>1, <1>7 DEF BlocksOf
  <2> QED BY <1>5, <1>7, <2>1 DEF Count, t
<1> QED BY <1>6, <1>7

LEMMA NoBlocks ==
  /\ NestedBlocks(<<>>) /\ \A kinds : Count(<<>>, kinds) = 0
  /\ NestedBlocks(<<"fn">>) /\ <<"fn">> # <<>>
  /\ \A kinds : "fn" \notin kinds => Count(<<"fn">>, kinds) = 0
PROOF
<1>1. NestedBlocks(<<>>)
  BY DEF NestedBlocks
<1>2. \A kinds : Count(<<>>, kinds) = 0
  <2>1. \A kinds : BlocksOf(<<>>, kinds) = {}
    BY DEF BlocksOf
  <2> QED BY <2>1, FS_EmptySet DEF Count
<1>3. NestedBlocks(<<"fn">>) /\ <<"fn">> # <<>>
  BY DEF NestedBlocks, BlockNames
<1>4. \A kinds : "fn" \notin kinds => Count(<<"fn">>, kinds) = 0
  <2>1. \A kinds : "fn" \notin kinds => BlocksOf(<<"fn">>, kinds) = {}
    BY DEF BlocksOf
  <2> QED BY <2>1, FS_EmptySet DEF Count
<1> QED BY <1>1, <1>2, <1>3, <1>4

LEMMA OpenBlock ==
  ASSUME NEW b, NestedBlocks(b), b # <<>>, NEW x \in BlockNames \ {"fn"}
  PROVE  NestedBlocks(Append(b, x)) /\ Append(b, x) # <<>>
PROOF
<1> DEFINE t == Append(b, x)
           n == Len(b)
<1>1. /\ n \in Nat /\ DOMAIN b = 1 .. n /\ t \in Seq(BlockNames)
      /\ DOMAIN t = 1 .. n + 1 /\ t[n + 1] = x /\ \A i \in 1 .. n : t[i] = b[i]
  BY AppendProperties, LenProperties DEF NestedBlocks
<1>2. n # 0
  BY EmptySeq DEF NestedBlocks
<1> HIDE DEF t, n
<1>3. ASSUME NEW i \in DOMAIN t PROVE t[i] = "fn" <=> i = 1
  <2>1. CASE i = n + 1
    BY <1>1, <1>2, <2>1
  <2>2. CASE i \in 1 .. n
    BY <1>1, <2>2 DEF NestedBlocks
  <2> QED BY <1>1, <2>1, <2>2
<1>4. t # <<>>
  BY <1>1
<1> QED BY <1>1, <1>3, <1>4 DEF NestedBlocks, t

\* The innermost block is a block of its function, or the function body.
LEMMA CloseBlock ==
  ASSUME NEW b, NestedBlocks(b), b # <<>>
  PROVE  /\ Last(b) \in BlockNames
         /\ Front(b) \in Seq(BlockNames) /\ b = Append(Front(b), Last(b))
         /\ Last(b) = "fn" => b = <<"fn">>
         /\ Last(b) # "fn" => NestedBlocks(Front(b)) /\ Front(b) # <<>>
PROOF
<1> DEFINE n == Len(b)
           f == Front(b)
<1>1. b \in Seq(BlockNames) /\ DOMAIN b = 1 .. n
  BY LenProperties DEF NestedBlocks
<1>2. /\ n \in Nat \ {0} /\ Last(b) \in BlockNames
      /\ f \in Seq(BlockNames) /\ Len(f) = n - 1 /\ DOMAIN f = 1 .. n - 1
      /\ \A i \in 1 .. n - 1 : f[i] = b[i]
  BY <1>1, PopProperties
<1>3. Last(b) = b[n]
  BY DEF Last
<1> HIDE DEF n, f
<1>4. b = Append(f, Last(b))
  <2>1. Len(b) = Len(f) + 1 /\ b[Len(f) + 1] = Last(b) /\ \A i \in 1 .. Len(f) : b[i] = f[i]
    BY <1>2, <1>3 DEF n
  <2> QED BY <1>1, <1>2, <2>1, OneMore
<1>5. n \in DOMAIN b
  BY <1>1, <1>2
<1>6. Last(b) = "fn" <=> n = 1
  BY <1>3, <1>5 DEF NestedBlocks
<1>7. ASSUME Last(b) = "fn" PROVE b = <<"fn">>
  <2>1. Len(f) = 0
    BY <1>2, <1>6, <1>7
  <2>2. f = <<>>
    BY <1>2, <2>1, EmptySeq
  <2> QED BY <1>4, <1>7, <2>2
<1>8. ASSUME Last(b) # "fn" PROVE NestedBlocks(f) /\ f # <<>>
  <2>1. n # 1 /\ n - 1 # 0
    BY <1>2, <1>6, <1>8
  <2>2. f # <<>>
    BY <1>2, <2>1
  <2>3. \A i \in DOMAIN f : f[i] = "fn" <=> i = 1
    BY <1>1, <1>2 DEF NestedBlocks
  <2> QED BY <1>2, <2>2, <2>3 DEF NestedBlocks
<1> QED BY <1>2, <1>4, <1>7, <1>8 DEF f

\* Which word leaves which blocks open.
OpenAfter(s, w, c) ==
  /\ w.head = "#" /\ w.name = "" => Last(s) = "fn" /\ c = <<>>
  /\ w.head = "id" /\ w.name \in {"while", "if"} => c = Append(s, w.name)
  /\ w.head = "id" /\ w.name = "do" => Last(s) = "while" /\ c = s
  /\ w.head = "id" /\ w.name = "elihw" => Last(s) = "while" /\ c = Front(s)
  /\ w.head = "id" /\ w.name = "else" => Last(s) = "if" /\ c = Append(Front(s), "else")
  /\ w.head = "id" /\ w.name = "fi" => Last(s) \in {"if", "else"} /\ c = Front(s)
  /\ (w.head # "#" \/ w.name # "") /\ (w.head # "id" \/ w.name \notin Structure) => c = s

LEMMA BlocksInsideAre ==
  ASSUME NEW s, NEW w \in Word, NEW c, c = BlocksInside(s, w), c # Bad
  PROVE  OpenAfter(s, w, c)
PROOF
<1>1. CASE w.head = "#" /\ w.name = ""
  BY <1>1 DEF BlocksInside, IsId, OpenAfter
<1>2. CASE w.head = "id" /\ w.name \in {"while", "if"}
  BY <1>2 DEF BlocksInside, IsId, Structure, OpenAfter
<1>3. CASE w.head = "id" /\ w.name = "do"
  BY <1>3 DEF BlocksInside, IsId, Structure, OpenAfter
<1>4. CASE w.head = "id" /\ w.name = "elihw"
  BY <1>4 DEF BlocksInside, IsId, Structure, OpenAfter
<1>5. CASE w.head = "id" /\ w.name = "else"
  BY <1>5 DEF BlocksInside, IsId, Structure, OpenAfter
<1>6. CASE w.head = "id" /\ w.name = "fi"
  BY <1>6 DEF BlocksInside, IsId, Structure, OpenAfter
<1>7. CASE (w.head # "#" \/ w.name # "") /\ (w.head # "id" \/ w.name \notin Structure)
  <2>1. c = s
    BY <1>7 DEF BlocksInside, IsId, Structure
  <2> QED BY <1>7, <2>1 DEF Structure, OpenAfter
<1> QED BY <1>1, <1>2, <1>3, <1>4, <1>5, <1>6, <1>7 DEF Structure

-----------------------------------------------------------------------------
(***************************************************************************)
(* The names declared by the first n words.                                *)
(***************************************************************************)
DeclaredBy(p, n, h) == {p[i].name : i \in {j \in Declarations(p, h) : j <= n}}

LEMMA DeclaredAtEnds ==
  ASSUME NEW p, Len(p) \in Nat, NEW h
  PROVE  DeclaredBy(p, 0, h) = {} /\ DeclaredBy(p, Len(p), h) = Names(p, h)
PROOF
<1>1. Declarations(p, h) \subseteq 1 .. Len(p)
  BY DEF Declarations
<1>2. /\ {j \in Declarations(p, h) : j <= 0} = {}
      /\ {j \in Declarations(p, h) : j <= Len(p)} = Declarations(p, h)
  BY <1>1
<1> QED BY <1>2 DEF DeclaredBy, Names

\* A declaration adds its name, once; other words add none.
OneDeclaration(p, n, h) ==
  /\ OpenBlocks(p)[n] = <<>> /\ p[n + 1].head = h =>
       /\ DeclaredBy(p, n + 1, h) = DeclaredBy(p, n, h) \cup {p[n + 1].name}
       /\ DeclaredOnce(p, h) => p[n + 1].name \notin DeclaredBy(p, n, h)
  /\ OpenBlocks(p)[n] # <<>> \/ p[n + 1].head # h =>
       DeclaredBy(p, n + 1, h) = DeclaredBy(p, n, h)

LEMMA DeclaredNext ==
  ASSUME NEW p, Len(p) \in Nat, NEW n \in Nat, n + 1 <= Len(p), NEW h
  PROVE  OneDeclaration(p, n, h)
PROOF
<1> DEFINE m == n + 1
           D == Declarations(p, h)
<1>1. m \in 1 .. Len(p) /\ m - 1 = n /\ ~(m <= n)
  OBVIOUS
<1>2. D \subseteq 1 .. Len(p)
  BY DEF Declarations
<1>3. m \in D <=> OpenBlocks(p)[n] = <<>> /\ p[m].head = h
  BY <1>1 DEF Declarations
<1>4. \A j \in D : j <= m <=> j <= n \/ j = m
  BY <1>1, <1>2
<1> HIDE DEF m, D
<1>5. DeclaredBy(p, n, h) = {p[i].name : i \in {j \in D : j <= n}}
  BY DEF DeclaredBy, D
<1>6. DeclaredBy(p, m, h) = {p[i].name : i \in {j \in D : j <= m}}
  BY DEF DeclaredBy, D
<1>7. CASE m \in D
  <2>1. {j \in D : j <= m} = {j \in D : j <= n} \cup {m}
    BY <1>1, <1>4, <1>7
  <2>2. DeclaredBy(p, m, h) = DeclaredBy(p, n, h) \cup {p[m].name}
    BY <1>5, <1>6, <2>1
  <2>3. ASSUME DeclaredOnce(p, h), p[m].name \in DeclaredBy(p, n, h) PROVE FALSE
    <3>1. PICK j \in D : j <= n /\ p[m].name = p[j].name
      BY <1>5, <2>3
    <3>2. m = j
      BY <1>7, <2>3, <3>1 DEF DeclaredOnce, D
    <3> QED BY <1>1, <3>1, <3>2
  <2> QED BY <1>3, <1>7, <2>2, <2>3 DEF OneDeclaration, m
<1>8. CASE m \notin D
  <2>1. {j \in D : j <= m} = {j \in D : j <= n}
    BY <1>4, <1>8
  <2>2. DeclaredBy(p, m, h) = DeclaredBy(p, n, h)
    BY <1>5, <1>6, <2>1
  <2> QED BY <1>3, <1>8, <2>2 DEF OneDeclaration, m
<1> QED BY <1>7, <1>8

-----------------------------------------------------------------------------
(***************************************************************************)
(* What the compiler knows of a well formed program.                       *)
(***************************************************************************)
\* b are the open blocks of the program.
NestingKnown(b, function, unit, whiles, ifs) ==
  /\ NestedBlocks(b)
  /\ function = "" <=> b = <<>>
  /\ unit = IF function = "" THEN NoUnit ELSE function
  /\ Len(whiles) = Count(b, {"while"})
  /\ Len(ifs) = Count(b, {"if", "else"})
NamesKnown(n, names, segments, consts, called) ==
  /\ names = DeclaredBy(src, n, "#")
  /\ segments = DeclaredBy(src, n, "@")
  /\ consts = DeclaredBy(src, n, "$")
  /\ Distinct(called) /\ ToSet(called) \subseteq Names(src, "#")
WellInv ==
  WellFormed(src, Operators) =>
    /\ status \in {"compiling", "done"}
    /\ status = "compiling" =>
         /\ NestingKnown(OpenBlocks(src)[pos], in_function, compile_unit, while_labels, if_labels)
         /\ NamesKnown(pos, DOMAIN functions, memory_segments, DOMAIN const_labels, functions_called)

\* Names for these, for the sake of the prover: it mixes no empty string with numbers.
Outside == in_function = ""
InUnit == in_function # "" /\ compile_unit = in_function

LEMMA WellInit == Init => WellInv
PROOF
<1> SUFFICES ASSUME Init PROVE WellInv
  OBVIOUS
<1>1. src \in Seq(Word) /\ Len(src) \in Nat
  BY ProgramsAssumption, LenProperties DEF Init
<1>2. OpenBlocks(src)[pos] = <<>>
  BY <1>1, OpenBlocksAre DEF Init
<1>3. NestingKnown(<<>>, in_function, compile_unit, while_labels, if_labels)
  <2>1. Len(while_labels) = 0 /\ Len(if_labels) = 0
    BY DEF Init
  <2> QED BY <2>1, NoBlocks DEF Init, NestingKnown
<1>4. NamesKnown(pos, DOMAIN functions, memory_segments, DOMAIN const_labels, functions_called)
  <2>1. DOMAIN functions = {} /\ memory_segments = {} /\ DOMAIN const_labels = {} /\ pos = 0
    BY DEF Init
  <2>2. functions_called = <<>>
    BY DEF Init
  <2>3. IsSeq(<<>>) /\ DOMAIN <<>> = {} /\ ToSet(<<>>) = {}
    BY ShortSequences
  <2>4. ToSet(functions_called) = {} /\ Distinct(functions_called)
    BY <2>2, <2>3 DEF Distinct
  <2> QED BY <1>1, <2>1, <2>4, DeclaredAtEnds DEF NamesKnown
<1> QED BY <1>2, <1>3, <1>4 DEF Init, WellInv

\* What the grammar says of the next word.
LEMMA NextWordFits ==
  ASSUME src \in Programs, pos \in 0 .. Len(src), pos < Len(src), WellFormed(src, Operators)
  PROVE  /\ word \in Word
         /\ Len(src) \in Nat /\ pos \in Nat /\ pos + 1 <= Len(src) /\ pos + 1 \in 1 .. Len(src)
         /\ OpenBlocks(src)[pos] # Bad /\ OpenBlocks(src)[pos + 1] # Bad
         /\ OpenBlocks(src)[pos + 1] = BlocksAfter(OpenBlocks(src)[pos], word)
         /\ IF OpenBlocks(src)[pos] = <<>> THEN DeclarationFits(word) ELSE OperatorFits(word)
PROOF
<1>1. word \in Word /\ Len(src) \in Nat
  BY ProgramsAssumption, LenProperties, WordIsWord
<1> DEFINE n == pos + 1
<1>2. pos \in Nat /\ n <= Len(src) /\ n \in 1 .. Len(src) /\ n - 1 = pos /\ n \in 0 .. Len(src)
  BY <1>1
<1>3. WellNested(src) /\ ParametersFit(src)
  BY DEF WellFormed
<1> HIDE DEF n
<1>4. OpenBlocks(src)[pos] # Bad /\ OpenBlocks(src)[n] # Bad
  BY <1>1, <1>2, <1>3, NeverBad
<1>5. OpenBlocks(src)[n] = BlocksAfter(OpenBlocks(src)[n - 1], src[n])
  BY <1>1, <1>2, OpenBlocksAre
<1>6. IF OpenBlocks(src)[n - 1] = <<>> THEN DeclarationFits(src[n]) ELSE OperatorFits(src[n])
  BY <1>2, <1>3 DEF ParametersFit
<1>7. src[n] = word
  BY DEF word, n
<1> QED BY <1>1, <1>2, <1>4, <1>5, <1>6, <1>7 DEF n

\* Outside functions every word of a well formed program is a declaration, and is accepted.
LEMMA WellOutside ==
  ASSUME IInv, WellInv, WellFormed(src, Operators), ReadWord, Outside
  PROVE  WellInv'
PROOF
<1> DEFINE b == OpenBlocks(src)[pos]
           c == OpenBlocks(src)[pos + 1]
<1>1. /\ status = "compiling" /\ pos < Len(src) /\ pos' = pos + 1 /\ OutsideFunction
      /\ src' = src /\ src \in Programs /\ pos \in 0 .. Len(src)
  BY DEF ReadWord, IInv, Progress, Outside
<1>2. /\ NestingKnown(b, in_function, compile_unit, while_labels, if_labels)
      /\ NamesKnown(pos, DOMAIN functions, memory_segments, DOMAIN const_labels, functions_called)
  BY <1>1 DEF WellInv
<1>3. b = <<>> /\ compile_unit = NoUnit
  BY <1>2 DEF NestingKnown, Outside
<1>4. /\ word \in Word /\ Len(src) \in Nat /\ pos \in Nat /\ pos + 1 <= Len(src)
      /\ b # Bad /\ c # Bad /\ c = BlocksAfter(b, word) /\ DeclarationFits(word)
  BY <1>1, <1>3, NextWordFits
<1>5. c = BlocksOutside(word)
  BY <1>3, <1>4 DEF BlocksAfter
<1>6. /\ word.head \in {"#", "@", "$"}
      /\ word.head = "#" => word.name # "" /\ c = <<"fn">>
      /\ word.head # "#" => c = <<>>
  BY <1>4, <1>5 DEF BlocksOutside
<1>7. \A h \in {"#", "@", "$"} :
        /\ word.head = h => /\ DeclaredBy(src, pos + 1, h) = DeclaredBy(src, pos, h) \cup {word.name}
                            /\ word.name \notin DeclaredBy(src, pos, h)
        /\ word.head # h => DeclaredBy(src, pos + 1, h) = DeclaredBy(src, pos, h)
  <2> SUFFICES ASSUME NEW h \in {"#", "@", "$"}
               PROVE  /\ word.head = h =>
                           /\ DeclaredBy(src, pos + 1, h) = DeclaredBy(src, pos, h) \cup {word.name}
                           /\ word.name \notin DeclaredBy(src, pos, h)
                      /\ word.head # h => DeclaredBy(src, pos + 1, h) = DeclaredBy(src, pos, h)
    OBVIOUS
  <2>1. DeclaredOnce(src, h)
    BY DEF WellFormed
  <2>2. word = src[pos + 1]
    BY DEF word
  <2>3. OpenBlocks(src)[pos] = <<>>
    BY <1>3
  <2> HIDE DEF b, c
  <2>4. OneDeclaration(src, pos, h)
    BY <1>4, DeclaredNext
  <2> QED BY <2>1, <2>2, <2>3, <2>4 DEF OneDeclaration
<1> HIDE DEF b, c
<1>8. CASE word.head = "#"
  <2>1. word.params = <<>> /\ word.name \notin DOMAIN functions
    BY <1>2, <1>4, <1>7, <1>8 DEF DeclarationFits, NamesKnown
  <2>2. DeclareFunction
    BY <1>1, <1>8 DEF OutsideFunction, AllocateMemory, DeclareConst, NothingElseOutside
  <2>3. /\ in_function' = word.name /\ compile_unit' = word.name /\ status' = status
        /\ DOMAIN functions' = DOMAIN functions \cup {word.name}
        /\ memory_segments' = memory_segments /\ const_labels' = const_labels
        /\ functions_called' = functions_called
        /\ while_labels' = while_labels /\ if_labels' = if_labels
    BY <1>3, <2>1, <2>2 DEF DeclareFunction, declVars, whileVars, ifVars
  <2>4. NestingKnown(c, in_function', compile_unit', while_labels', if_labels')
    BY <1>2, <1>3, <1>6, <1>8, <2>3, NoBlocks DEF NestingKnown
  <2>5. NamesKnown(pos + 1, DOMAIN functions', memory_segments', DOMAIN const_labels', functions_called')
    BY <1>2, <1>7, <1>8, <2>3 DEF NamesKnown
  <2> QED BY <1>1, <2>3, <2>4, <2>5 DEF WellInv, NestingKnown, NamesKnown, c
<1>9. CASE word.head = "@"
  <2>1. Len(word.params) = 1 /\ ~(word.params[1] <= 0) /\ word.name \notin memory_segments
    <3>1. Len(word.params) = 1 /\ word.params[1] > 0
      BY <1>4, <1>9 DEF DeclarationFits
    <3>2. word.params \in Seq(Int)
      BY <1>4 DEF Word
    <3>3. word.params[1] \in Int
      BY <3>1, <3>2
    <3> QED BY <1>2, <1>7, <1>9, <3>1, <3>3 DEF NamesKnown
  <2>2. AllocateMemory
    BY <1>1, <1>9 DEF OutsideFunction, DeclareFunction, DeclareConst, NothingElseOutside
  <2>3. /\ in_function' = in_function /\ compile_unit' = compile_unit /\ status' = status
        /\ functions' = functions
        /\ memory_segments' = memory_segments \cup {word.name} /\ const_labels' = const_labels
        /\ functions_called' = functions_called
        /\ while_labels' = while_labels /\ if_labels' = if_labels
    BY <2>1, <2>2 DEF AllocateMemory, whileVars, ifVars
  <2>4. NestingKnown(c, in_function', compile_unit', while_labels', if_labels')
    BY <1>2, <1>3, <1>6, <1>9, <2>3 DEF NestingKnown, Outside
  <2>5. NamesKnown(pos + 1, DOMAIN functions', memory_segments', DOMAIN const_labels', functions_called')
    BY <1>2, <1>7, <1>9, <2>3 DEF NamesKnown
  <2> QED BY <1>1, <2>3, <2>4, <2>5 DEF WellInv, NestingKnown, NamesKnown, c
<1>10. CASE word.head = "$"
  <2>1. Len(word.params) = 1 /\ word.name \notin DOMAIN const_labels
    BY <1>2, <1>4, <1>7, <1>10 DEF DeclarationFits, NamesKnown
  <2>2. DeclareConst
    BY <1>1, <1>10 DEF OutsideFunction, DeclareFunction, AllocateMemory, NothingElseOutside
  <2>3. /\ in_function' = in_function /\ compile_unit' = compile_unit /\ status' = status
        /\ functions' = functions
        /\ memory_segments' = memory_segments
        /\ DOMAIN const_labels' = DOMAIN const_labels \cup {word.name}
        /\ functions_called' = functions_called
        /\ while_labels' = while_labels /\ if_labels' = if_labels
    BY <2>1, <2>2 DEF DeclareConst, whileVars, ifVars
  <2>4. NestingKnown(c, in_function', compile_unit', while_labels', if_labels')
    BY <1>2, <1>3, <1>6, <1>10, <2>3 DEF NestingKnown, Outside
  <2>5. NamesKnown(pos + 1, DOMAIN functions', memory_segments', DOMAIN const_labels', functions_called')
    BY <1>2, <1>7, <1>10, <2>3 DEF NamesKnown
  <2> QED BY <1>1, <2>3, <2>4, <2>5 DEF WellInv, NestingKnown, NamesKnown, c
<1> QED BY <1>6, <1>8, <1>9, <1>10

\* A word within a function has the parameters that the compiler asks for.
LEMMA FittingIsOK ==
  ASSUME NEW w \in Word, OperatorFits(w)
  PROVE  ParamsOK(w)
PROOF
<1>1. w.params \in Seq(Int) /\ Len(w.params) \in Nat /\ DOMAIN w.params = 1 .. Len(w.params)
  BY LenProperties DEF Word
<1>2. CASE w.head \in {"int", "str"}
  BY <1>2 DEF ParamsOK
<1>3. CASE w.head = "id" /\ w.name \in {"copy", "swap"}
  <2>1. Len(w.params) <= 2 /\ \A i \in DOMAIN w.params : w.params[i] >= 0
    BY <1>3 DEF OperatorFits, IsId
  <2>2. Param(w.params, 1, 0) >= 0
    <3>1. CASE Len(w.params) >= 1
      <4>1. 1 \in DOMAIN w.params
        BY <1>1, <3>1
      <4> QED BY <2>1, <3>1, <4>1 DEF Param
    <3>2. CASE ~(Len(w.params) >= 1)
      BY <3>2 DEF Param
    <3> QED BY <3>1, <3>2
  <2>3. CASE w.name = "copy"
    BY <1>3, <2>1, <2>2, <2>3 DEF ParamsOK
  <2>4. CASE w.name = "swap"
    BY <1>3, <2>1, <2>4 DEF ParamsOK
  <2> QED BY <1>3, <2>3, <2>4
<1>4. CASE w.head = "id" /\ w.name = "syscall"
  <2>1. Len(w.params) = 1 /\ w.params[1] \in 0 .. 6
    BY <1>4 DEF OperatorFits, IsId
  <2>2. w.params[1] < Len(ArgOrder)
    BY <2>1 DEF ArgOrder
  <2> QED BY <1>4, <2>1, <2>2 DEF ParamsOK
<1>5. CASE w.head = "id" /\ w.name \in {"get", "set"}
  <2>1. Len(w.params) = 1 /\ w.params[1] \in {1, 2, 4, 8}
    BY <1>5 DEF OperatorFits, IsId
  <2> QED BY <1>5, <2>1 DEF ParamsOK, Sizes
<1>6. CASE w.head \notin {"int", "str", "id"} \/ (w.head = "id" /\ w.name \notin WithParams)
  <2>1. w.params = <<>>
    BY <1>6 DEF OperatorFits, IsId, WithParams
  <2> QED BY <1>6, <2>1 DEF ParamsOK, WithParams
<1> QED BY <1>2, <1>3, <1>4, <1>5, <1>6 DEF WithParams

\* Where a block of a kind is the innermost one, the stack for its labels is not
\* empty, and closing it leaves one less.
LEMMA CountLast ==
  ASSUME NEW b, NestedBlocks(b), b # <<>>, NEW kinds
  PROVE  /\ Count(b, kinds) \in Nat
         /\ Count(b, kinds) = IF Last(b) \in kinds THEN Count(Front(b), kinds) + 1
                              ELSE Count(Front(b), kinds)
         /\ Count(Front(b), kinds) \in Nat
PROOF
<1> DEFINE x == Last(b)
           f == Front(b)
<1>1. x \in BlockNames /\ f \in Seq(BlockNames) /\ b = Append(f, x)
  BY CloseBlock
<1> HIDE DEF x, f
<1>2. /\ Count(f, kinds) \in Nat
      /\ Count(Append(f, x), kinds) = IF x \in kinds THEN Count(f, kinds) + 1 ELSE Count(f, kinds)
  BY <1>1, CountAppend
<1>3. Count(b, kinds) \in Nat
  BY <1>1, <1>2
<1> QED BY <1>1, <1>2, <1>3 DEF x, f

\* The words of blocks keep the stacks of labels in step with the open blocks.
LEMMA WellBlocks ==
  ASSUME IInv, status = "compiling", word \in Word,
         NEW b, b # <<>>, NEW c, c = BlocksInside(b, word), c # Bad,
         NestingKnown(b, in_function, compile_unit, while_labels, if_labels),
         While \/ Do \/ EndWhile \/ If \/ Else \/ EndIf
  PROVE  /\ status' = status /\ UNCHANGED declVars /\ DOMAIN functions' = DOMAIN functions
         /\ NestingKnown(c, in_function', compile_unit', while_labels', if_labels')
PROOF
<1> DEFINE Whiles(k) == Count(k, {"while"})
           Ifs(k) == Count(k, {"if", "else"})
<1>1. /\ NestedBlocks(b) /\ InUnit
      /\ Len(while_labels) = Whiles(b) /\ Len(if_labels) = Ifs(b)
  BY DEF NestingKnown, InUnit
<1>2. /\ while_labels \in Seq(Nat) /\ if_labels \in Seq(Nat) /\ has_else \in Seq(BOOLEAN)
      /\ Len(has_else) = Len(if_labels)
      /\ Len(while_labels) \in Nat /\ Len(if_labels) \in Nat
  BY LenProperties DEF IInv, Stacks, BlocksInStep
<1>3. /\ Whiles(b) \in Nat /\ Ifs(b) \in Nat /\ Whiles(Front(b)) \in Nat /\ Ifs(Front(b)) \in Nat
      /\ Whiles(b) = IF Last(b) = "while" THEN Whiles(Front(b)) + 1 ELSE Whiles(Front(b))
      /\ Ifs(b) = IF Last(b) \in {"if", "else"} THEN Ifs(Front(b)) + 1 ELSE Ifs(Front(b))
  BY <1>1, CountLast
<1>4. /\ Last(b) \in BlockNames /\ Front(b) \in Seq(BlockNames)
      /\ Last(b) # "fn" => NestedBlocks(Front(b)) /\ Front(b) # <<>>
  BY <1>1, CloseBlock
<1>0. OpenAfter(b, word, c)
  BY BlocksInsideAre
<1> DEFINE Kept == status' = status /\ declVars' = declVars /\ DOMAIN functions' = DOMAIN functions
                  /\ in_function' = in_function /\ compile_unit' = compile_unit
           Known(k) == /\ NestedBlocks(k) /\ k # <<>>
                       /\ Len(while_labels') = Whiles(k) /\ Len(if_labels') = Ifs(k)
<1>5. ASSUME Kept, Known(c)
      PROVE  /\ status' = status /\ UNCHANGED declVars /\ DOMAIN functions' = DOMAIN functions
             /\ NestingKnown(c, in_function', compile_unit', while_labels', if_labels')
  BY <1>1, <1>5 DEF NestingKnown, InUnit
<1>12. /\ Last(b) = "while" => while_labels # <<>>
       /\ Last(b) \in {"if", "else"} => if_labels # <<>> /\ has_else # <<>>
  <2>1. Last(b) = "while" => Len(while_labels) # 0
    <3> HIDE DEF Whiles, Ifs
    <3> QED BY <1>1, <1>3
  <2>2. Last(b) \in {"if", "else"} => Len(if_labels) # 0 /\ Len(has_else) # 0
    <3> HIDE DEF Whiles, Ifs
    <3> QED BY <1>1, <1>2, <1>3
  <2> QED BY <2>1, <2>2
<1>6. CASE While
  <2>1. word.head = "id" /\ word.name = "while" /\ c = Append(b, "while")
    BY <1>0, <1>6 DEF While, Is, OpenAfter
  <2>2. Kept /\ if_labels' = if_labels /\ while_labels' = Append(while_labels, while_label_ct)
    BY <1>6, EmitDomain DEF While, ifVars
  <2>3. while_label_ct \in Nat
    BY DEF IInv, Stacks
  <2>4. Len(while_labels') = Len(while_labels) + 1
    BY <1>2, <2>2, <2>3, AppendProperties
  <2>5. NestedBlocks(c) /\ c # <<>>
    BY <1>1, <2>1, OpenBlock DEF BlockNames
  <2>6. Whiles(c) = Whiles(b) + 1 /\ Ifs(c) = Ifs(b)
    BY <1>1, <2>1, CountAppend DEF NestedBlocks, BlockNames
  <2>7. Known(c)
    BY <1>1, <2>2, <2>4, <2>5, <2>6
  <2> HIDE DEF Kept, Known
  <2> QED BY <1>5, <2>2, <2>7
<1>7. CASE Do
  <2>1. word.head = "id" /\ word.name = "do" /\ c = b /\ Last(b) = "while"
    BY <1>0, <1>7 DEF Do, Is, OpenAfter
  <2>2. while_labels # <<>>
    BY <1>12, <2>1
  <2>3. Kept /\ if_labels' = if_labels /\ while_labels' = while_labels
    BY <1>7, <2>2, EmitDomain DEF Do, ifVars, whileVars
  <2>4. Known(c)
    BY <1>1, <2>1, <2>3
  <2> HIDE DEF Kept, Known
  <2> QED BY <1>5, <2>3, <2>4
<1>8. CASE EndWhile
  <2>1. word.head = "id" /\ word.name = "elihw" /\ c = Front(b) /\ Last(b) = "while"
    BY <1>0, <1>8 DEF EndWhile, Is, OpenAfter
  <2>2. while_labels # <<>>
    BY <1>12, <2>1
  <2>3. Kept /\ if_labels' = if_labels /\ while_labels' = Front(while_labels)
    BY <1>8, <2>2, EmitDomain DEF EndWhile, ifVars
  <2>4. Len(while_labels') = Len(while_labels) - 1
    BY <1>2, <2>2, <2>3, PopProperties
  <2>5. Known(c)
    BY <1>1, <1>2, <1>3, <1>4, <2>1, <2>3, <2>4
  <2> HIDE DEF Kept, Known
  <2> QED BY <1>5, <2>3, <2>5
<1>9. CASE If
  <2>1. word.head = "id" /\ word.name = "if" /\ c = Append(b, "if")
    BY <1>0, <1>9 DEF If, Is, OpenAfter
  <2>2. Kept /\ while_labels' = while_labels /\ if_labels' = Append(if_labels, if_label_ct)
    BY <1>9, EmitDomain DEF If, whileVars
  <2>3. if_label_ct \in Nat
    BY DEF IInv, Stacks
  <2>4. Len(if_labels') = Len(if_labels) + 1
    BY <1>2, <2>2, <2>3, AppendProperties
  <2>5. NestedBlocks(c) /\ c # <<>>
    BY <1>1, <2>1, OpenBlock DEF BlockNames
  <2>6. Whiles(c) = Whiles(b) /\ Ifs(c) = Ifs(b) + 1
    BY <1>1, <2>1, CountAppend DEF NestedBlocks, BlockNames
  <2>7. Known(c)
    BY <1>1, <2>2, <2>4, <2>5, <2>6
  <2> HIDE DEF Kept, Known
  <2> QED BY <1>5, <2>2, <2>7
<1>10. CASE Else
  <2>1. word.head = "id" /\ word.name = "else" /\ c = Append(Front(b), "else") /\ Last(b) = "if"
    BY <1>0, <1>10 DEF Else, Is, OpenAfter
  <2>2. if_labels # <<>>
    BY <1>12, <2>1
  <2>3. Kept /\ if_labels' = if_labels /\ while_labels' = while_labels
    BY <1>10, <2>2, EmitDomain DEF Else, whileVars
  <2>4. NestedBlocks(c) /\ c # <<>>
    BY <1>4, <2>1, OpenBlock DEF BlockNames
  <2>5. Whiles(c) = Whiles(Front(b)) /\ Ifs(c) = Ifs(Front(b)) + 1
    BY <1>4, <2>1, CountAppend DEF BlockNames
  <2>6. Known(c)
    BY <1>1, <1>3, <2>1, <2>3, <2>4, <2>5
  <2> HIDE DEF Kept, Known
  <2> QED BY <1>5, <2>3, <2>6
<1>11. CASE EndIf
  <2>1. word.head = "id" /\ word.name = "fi" /\ c = Front(b) /\ Last(b) \in {"if", "else"}
    BY <1>0, <1>11 DEF EndIf, Is, OpenAfter
  <2>2. if_labels # <<>> /\ has_else # <<>>
    BY <1>12, <2>1
  <2>3. Kept /\ while_labels' = while_labels /\ if_labels' = Front(if_labels)
    BY <1>11, <2>2, EmitDomain DEF EndIf, whileVars
  <2>4. Len(if_labels') = Len(if_labels) - 1
    BY <1>2, <2>2, <2>3, PopProperties
  <2>5. Known(c)
    BY <1>1, <1>2, <1>3, <1>4, <2>1, <2>3, <2>4
  <2> HIDE DEF Kept, Known
  <2> QED BY <1>5, <2>3, <2>5
<1> QED BY <1>6, <1>7, <1>8, <1>9, <1>10, <1>11

\* The names that a word in a function uses are declared.
NamesResolved(w) ==
  /\ w.head = "#" => w.name = ""
  /\ w.head = "id" => w.name \in Operators \cup Names(src, "#")
  /\ w.head = "$" => w.name \in DOMAIN const_labels

LEMMA UsedNames ==
  ASSUME src \in Programs, pos \in 0 .. Len(src), pos < Len(src), WellFormed(src, Operators),
         OpenBlocks(src)[pos] # <<>>, DOMAIN const_labels = DeclaredBy(src, pos, "$")
  PROVE  NamesResolved(word)
PROOF
<1> DEFINE n == pos + 1
<1>1. Len(src) \in Nat
  BY ProgramsAssumption, LenProperties
<1>2. n \in 1 .. Len(src) /\ n - 1 = pos /\ \A j \in 1 .. Len(src) : j < n => j <= pos
  BY <1>1
<1>3. src[n] = word
  BY DEF word
<1> HIDE DEF n
<1>4. \A h : word.head = h => n \in Uses(src, h)
  BY <1>2, <1>3 DEF Uses
<1>5. NamesResolve(src, Operators)
  BY DEF WellFormed
<1>6. ASSUME word.head = "#" PROVE word.name = ""
  BY <1>3, <1>4, <1>5, <1>6 DEF NamesResolve
<1>7. ASSUME word.head = "id" PROVE word.name \in Operators \cup Names(src, "#")
  BY <1>3, <1>4, <1>5, <1>7 DEF NamesResolve
<1>8. ASSUME word.head = "$" PROVE word.name \in DOMAIN const_labels
  <2>1. PICK j \in Declarations(src, "$") : j < n /\ src[j].name = word.name
    BY <1>3, <1>4, <1>5, <1>8 DEF NamesResolve
  <2>2. j <= pos
    BY <1>2, <2>1 DEF Declarations
  <2> QED BY <2>1, <2>2 DEF DeclaredBy
<1> QED BY <1>6, <1>7, <1>8 DEF NamesResolved

\* The other words of a function: its end, calls, strings, operators and names.
LEMMA WellWords ==
  ASSUME word \in Word, NEW b, b # <<>>, NEW c, c = BlocksInside(b, word), c # Bad,
         NestingKnown(b, in_function, compile_unit, while_labels, if_labels),
         Distinct(functions_called), ToSet(functions_called) \subseteq Names(src, "#"),
         NamesResolved(word),
         EndFunction \/ Call \/ PushString \/ Plain \/ UndeclaredConst
  PROVE  /\ status' = status /\ DOMAIN functions' = DOMAIN functions
         /\ UNCHANGED <<memory_segments, const_labels>>
         /\ Distinct(functions_called') /\ ToSet(functions_called') \subseteq Names(src, "#")
         /\ NestingKnown(c, in_function', compile_unit', while_labels', if_labels')
PROOF
<1>1. OpenAfter(b, word, c)
  BY BlocksInsideAre
<1>2. CASE EndFunction
  <2>1. Last(b) = "fn" /\ c = <<>>
    BY <1>1, <1>2 DEF EndFunction, Is, OpenAfter
  <2>2. NestedBlocks(b) /\ b = <<"fn">>
    BY <2>1, CloseBlock DEF NestingKnown
  <2>3. Len(while_labels) = 0 /\ Len(if_labels) = 0
    BY <2>2, NoBlocks DEF NestingKnown
  <2>4. /\ in_function' = "" /\ compile_unit' = NoUnit /\ status' = status
        /\ DOMAIN functions' = DOMAIN functions
        /\ UNCHANGED <<memory_segments, const_labels, functions_called, while_labels, if_labels>>
    BY <1>2 DEF EndFunction, declVars, whileVars, ifVars
  <2>5. NestingKnown(c, in_function', compile_unit', while_labels', if_labels')
    BY <2>1, <2>3, <2>4, NoBlocks DEF NestingKnown
  <2> QED BY <2>4, <2>5
<1>3. CASE Call
  <2>1. word.head = "id" /\ word.name \notin Operators /\ word.name \in Names(src, "#")
    BY <1>3 DEF Call, NamesResolved
  <2>2. c = b
    BY <1>1, <2>1 DEF OpenAfter, Operators
  <2>3. /\ UNCHANGED <<in_function, compile_unit, status, memory_segments, const_labels,
                       while_labels, if_labels>>
        /\ DOMAIN functions' = DOMAIN functions
    BY <1>3 DEF Call, whileVars, ifVars
  <2>4. functions_called' = IF word.name \in ToSet(functions_called) THEN functions_called
                            ELSE Append(functions_called, word.name)
    BY <1>3, <2>1 DEF Call
  <2>5. Distinct(functions_called') /\ ToSet(functions_called') \subseteq Names(src, "#")
    BY <2>1, <2>4, DistinctAppend
  <2> QED BY <2>2, <2>3, <2>5
<1>4. CASE PushString \/ Plain
  <2>1. (word.head # "#" \/ word.name # "") /\ (word.head # "id" \/ word.name \notin Structure)
    BY <1>4 DEF PushString, Plain
  <2>2. c = b
    BY <1>1, <2>1 DEF OpenAfter
  <2>3. /\ UNCHANGED <<in_function, compile_unit, status, memory_segments, const_labels,
                       functions_called, while_labels, if_labels>>
        /\ DOMAIN functions' = DOMAIN functions
    BY <1>4, EmitDomain DEF PushString, Plain, declVars, whileVars, ifVars
  <2> QED BY <2>2, <2>3
<1>5. CASE UndeclaredConst
  BY <1>5 DEF UndeclaredConst, NamesResolved
<1> QED BY <1>2, <1>3, <1>4, <1>5

\* In a function every word of a well formed program is accepted.
LEMMA WellInside ==
  ASSUME IInv, WellInv, WellFormed(src, Operators), ReadWord, ~Outside
  PROVE  WellInv'
PROOF
<1> DEFINE b == OpenBlocks(src)[pos]
           c == OpenBlocks(src)[pos + 1]
<1>1. /\ status = "compiling" /\ pos < Len(src) /\ pos' = pos + 1 /\ InsideFunction
      /\ src' = src /\ src \in Programs /\ pos \in 0 .. Len(src)
  BY DEF ReadWord, IInv, Progress, Outside
<1>2. /\ NestingKnown(b, in_function, compile_unit, while_labels, if_labels)
      /\ NamesKnown(pos, DOMAIN functions, memory_segments, DOMAIN const_labels, functions_called)
  BY <1>1 DEF WellInv
<1>3. b # <<>>
  BY <1>2 DEF NestingKnown, Outside
<1>4. /\ word \in Word /\ Len(src) \in Nat /\ pos \in Nat /\ pos + 1 <= Len(src)
      /\ b # Bad /\ c # Bad /\ c = BlocksAfter(b, word) /\ OperatorFits(word)
  BY <1>1, <1>3, NextWordFits
<1>5. c = BlocksInside(b, word)
  BY <1>3, <1>4 DEF BlocksAfter
<1>6. \A h : DeclaredBy(src, pos + 1, h) = DeclaredBy(src, pos, h)
  <2> TAKE h
  <2>1. OneDeclaration(src, pos, h)
    BY <1>4, DeclaredNext
  <2> QED BY <1>3, <2>1 DEF OneDeclaration
<1>7. NamesResolved(word)
  BY <1>1, <1>2, <1>3, UsedNames DEF NamesKnown
<1>8. ParamsOK(word)
  BY <1>4, FittingIsOK
<1> HIDE DEF b, c
<1>9. /\ status' = status /\ DOMAIN functions' = DOMAIN functions
      /\ memory_segments' = memory_segments /\ const_labels' = const_labels
      /\ Distinct(functions_called') /\ ToSet(functions_called') \subseteq Names(src, "#")
      /\ NestingKnown(c, in_function', compile_unit', while_labels', if_labels')
  <2>1. CASE While \/ Do \/ EndWhile \/ If \/ Else \/ EndIf
    BY <1>1, <1>2, <1>3, <1>4, <1>5, <2>1, WellBlocks DEF declVars, NamesKnown
  <2>2. CASE EndFunction \/ Call \/ PushString \/ Plain \/ UndeclaredConst
    <3>1. Distinct(functions_called) /\ ToSet(functions_called) \subseteq Names(src, "#")
      BY <1>2 DEF NamesKnown
    <3> QED BY <1>2, <1>3, <1>4, <1>5, <1>7, <2>2, <3>1, WellWords
  <2> QED BY <1>1, <1>8, <2>1, <2>2 DEF InsideFunction
<1>10. NamesKnown(pos + 1, DOMAIN functions', memory_segments', DOMAIN const_labels', functions_called')
  BY <1>2, <1>6, <1>9 DEF NamesKnown
<1> QED BY <1>1, <1>9, <1>10 DEF WellInv, NestingKnown, NamesKnown, c

\* At the end every function that is called is there, and so is entry.
LEMMA WellFinish ==
  ASSUME IInv, WellInv, WellFormed(src, Operators), Finish
  PROVE  WellInv'
PROOF
<1>1. status = "compiling" /\ pos = Len(src) /\ src' = src /\ Len(src) \in Nat
  BY ProgramsAssumption, LenProperties DEF Finish, IInv, Progress
<1>2. DOMAIN functions = Names(src, "#") /\ ToSet(functions_called) \subseteq Names(src, "#")
  BY <1>1, DeclaredAtEnds DEF WellInv, NamesKnown
<1>3. "entry" \in Names(src, "#")
  BY DEF WellFormed, NamesResolve
<1>4. status' = "done"
  BY <1>2, <1>3 DEF Finish
<1> QED BY <1>1, <1>4 DEF WellInv

LEMMA WellInvStep == IInv /\ WellInv /\ [CompilerNext]_compilerVars => WellInv'
PROOF
<1> SUFFICES ASSUME IInv, WellInv, [CompilerNext]_compilerVars PROVE WellInv'
  OBVIOUS
<1>1. src' = src
  BY DEF CompilerNext, ReadWord, Finish, WriteOutput, compilerVars
<1>2. CASE ~WellFormed(src, Operators)
  BY <1>1, <1>2 DEF WellInv
<1>3. CASE WellFormed(src, Operators)
  <2>1. CASE ReadWord
    BY <1>3, <2>1, WellOutside, WellInside
  <2>2. CASE Finish
    BY <1>3, <2>2, WellFinish
  <2>3. CASE WriteOutput
    <3>1. status # "compiling" /\ status' = status
      BY <2>3 DEF WriteOutput
    <3> QED BY <1>1, <3>1 DEF WellInv
  <2>4. CASE UNCHANGED compilerVars
    BY <2>4 DEF compilerVars, declVars, whileVars, ifVars, WellInv, NestingKnown, NamesKnown
  <2> QED BY <2>1, <2>2, <2>3, <2>4 DEF CompilerNext
<1> QED BY <1>2, <1>3

\* Every well formed program, in whatever order its functions, segments and constants are
\* declared, is compiled without an exception (Parser.py:151-193, main.py:220-312).
THEOREM WellFormedIsAcceptedHolds == CompilerSpec => []WellFormedIsAccepted
PROOF
<1>1. Init => IInv /\ WellInv
  BY IInvInit, WellInit
<1>2. IInv /\ WellInv /\ [CompilerNext]_compilerVars => (IInv /\ WellInv)'
  BY IInvStep, WellInvStep
<1>3. WellInv => WellFormedIsAccepted
  BY DEF WellInv, WellFormedIsAccepted
<1> QED BY <1>1, <1>2, <1>3, PTL DEF CompilerSpec
===============================================================================
