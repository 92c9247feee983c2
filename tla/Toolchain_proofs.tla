--------------------------- MODULE Toolchain_proofs ---------------------------
(***************************************************************************)
(* Proofs about Toolchain, for every set of programs: where the code of    *)
(* each word lies in the file, where the linker puts the file, what the    *)
(* machine may come to, and that a word that calculates does what          *)
(* README.md says.                                                         *)
(***************************************************************************)
EXTENDS Words_proofs

\* The code of a function, with its labels.
LEMMA FunctionIsLaid ==
  ASSUME Laid, NEW f \in DOMAIN functions, NEW chars
  PROVE  FileLaid(FunctionCode(f), chars)
PROOF
<1>c. PICK c : c = functions[f] /\ CodeLaid(f, c)
  BY DEF Laid
<1> DEFINE a == <<Label(<<"func", f>>)>>
           t == a \o c
           z == <<Label(<<"funcend", f>>)>>
<1>1. FunctionCode(f) = t \o z
  BY <1>c DEF FunctionCode
<1>2. \A m : TypedLine(Label(m)) /\ Label(m).ins # "LOC"
  BY DEF TypedLine, Label
<1>3. IsSeq(a) /\ ToSet(a) = {Label(<<"func", f>>)} /\ IsSeq(z) /\ ToSet(z) = {Label(<<"funcend", f>>)}
  BY ShortSequences
<1>4. FileLaid(a, chars) /\ FileLaid(z, chars)
  <2>1. FileCode(a, chars) /\ FileCode(z, chars)
    BY <1>2, <1>3 DEF FileCode, FileLine
  <2> QED BY <1>2, <1>3, <2>1, NoWordsLaid
<1>5. a[1] = FuncLabel(f) /\ Len(a) = 1
  BY DEF FuncLabel
<1> HIDE DEF a, z
<1>n. PICK n : n = Len(c)
  OBVIOUS
<1>6. IsSeq(c) /\ \A l \in ToSet(c) : TypedLine(l)
  BY <1>c DEF CodeLaid
<1>7. IsSeq(t) /\ n \in Nat /\ Len(t) = 1 + n /\ t[1] = FuncLabel(f) /\ \A j \in 1 .. n : t[1 + j] = c[j]
  <2>1. Joined(a, c, t)
    BY <1>3, <1>6, ConcatAt
  <2>2. /\ IsSeq(t) /\ n \in Nat /\ Len(t) = Len(a) + n
        /\ \A i \in 1 .. Len(a) : t[i] = a[i]
        /\ \A i \in 1 .. n : t[Len(a) + i] = c[i]
    BY <2>1, <1>n DEF Joined
  <2> QED BY <2>2, <1>5
<1>8. FileCode(t, chars)
  <2>1. ToSet(t) = ToSet(a) \cup ToSet(c)
    BY <1>3, <1>6, ConcatElems
  <2> QED BY <1>2, <1>3, <1>6, <1>7, <2>1 DEF FileCode, FileLine
<1> HIDE DEF t
<1>9. Housed(t)
  <2> SUFFICES ASSUME NEW i \in 1 .. 1 + n, t[i].ins = "LOC" PROVE HousedAt(t, i)
    BY <1>7 DEF Housed
  <2>1. i # 1
    BY <1>7, FuncLabels
  <2>2. i \in 1 + 1 .. 1 + n /\ 1 \in 1 .. 1 + n
    BY <1>7, <2>1
  <2>3. Stands(t, 1, c)
    BY <1>7, <1>n DEF Stands
  <2> QED BY <1>c, <1>7, <1>n, <2>2, <2>3 DEF HousedAt
<1>10. FileLaid(t, chars)
  BY <1>8, <1>9 DEF FileLaid
<1> QED BY <1>1, <1>4, <1>10, FileJoined

\* The parts of the file: the functions, the strings, the code of _start and
\* the segments.
LEMMA BodiesAreLaid ==
  ASSUME Laid, NEW fs, IsSeq(fs), ToSet(fs) \subseteq DOMAIN functions, NEW chars,
         NEW b, b = FlattenSeq([i \in DOMAIN fs |-> FunctionCode(fs[i])])
  PROVE  FileLaid(b, chars)
PROOF
<1> DEFINE n == Len(fs)
           L == UNION {ToSet(FunctionCode(f)) : f \in DOMAIN functions}
           Codes(k) == [i \in 1 .. k |-> FunctionCode(fs[i])]
           T == {k \in Nat : k <= n => FileLaid(FlattenSeq(Codes(k)), chars)}
<1>1. n \in Nat /\ DOMAIN fs = 1 .. n
  BY SeqDomain
<1>2. \A i \in 1 .. n : FileLaid(FunctionCode(fs[i]), chars) /\ FunctionCode(fs[i]) \in Seq(L)
  <2> SUFFICES ASSUME NEW f \in DOMAIN functions PROVE FileLaid(FunctionCode(f), chars) /\ FunctionCode(f) \in Seq(L)
    BY <1>1 DEF ToSet
  <2>1. FileLaid(FunctionCode(f), chars)
    BY FunctionIsLaid
  <2>c. PICK c : c = FunctionCode(f)
    OBVIOUS
  <2>2. IsSeq(c)
    BY <2>1, <2>c DEF FileLaid, FileCode
  <2>3. ToSet(c) \subseteq L
    BY <2>c
  <2> HIDE DEF L
  <2>4. c \in Seq(ToSet(c)) /\ Len(c) \in Nat /\ DOMAIN c = 1 .. Len(c)
    BY <2>2, SeqDomain
  <2>5. c \in Seq(L)
    BY <2>3, <2>4
  <2> QED BY <2>1, <2>5, <2>c
<1> HIDE DEF L
<1>3. ASSUME NEW k \in Nat, k <= n
      PROVE  /\ Codes(k) \in Seq(Seq(L)) /\ Len(Codes(k)) = k
             /\ \A i \in 1 .. k : Codes(k)[i] = FunctionCode(fs[i])
  <2>1. Codes(k) \in [1 .. k -> Seq(L)]
    BY <1>1, <1>2, <1>3
  <2> QED BY <2>1, FunctionIsSequence
<1>4. 0 \in T
  <2>1. Codes(0) = <<>>
    BY <1>1, <1>3, EmptySeq
  <2>2. FlattenSeq(Codes(0)) = <<>> /\ ToSet(<<>>) = {} /\ IsSeq(<<>>)
    BY <2>1, FlattenEmpty, ShortSequences
  <2>3. FileLaid(<<>>, chars)
    <3>1. FileCode(<<>>, chars)
      BY <2>2 DEF FileCode
    <3> QED BY <2>2, <3>1, NoWordsLaid
  <2> QED BY <2>2, <2>3
<1>5. ASSUME NEW k \in Nat, k \in T PROVE k + 1 \in T
  <2> SUFFICES ASSUME k + 1 <= n PROVE FileLaid(FlattenSeq(Codes(k + 1)), chars)
    OBVIOUS
  <2> DEFINE c == Codes(k)
             d == Codes(k + 1)
             s == FlattenSeq(c)
             t == FunctionCode(fs[k + 1])
  <2>1. FileLaid(s, chars) /\ k + 1 \in 1 .. n /\ k + 1 \in Nat
    BY <1>1, <1>5
  <2>2. c \in Seq(Seq(L)) /\ Len(c) = k
        /\ \A i \in 1 .. k : c[i] = FunctionCode(fs[i])
    BY <1>1, <1>3
  <2>3. d \in Seq(Seq(L)) /\ Len(d) = k + 1
        /\ \A i \in 1 .. k + 1 : d[i] = FunctionCode(fs[i])
    BY <1>1, <1>3, <2>1
  <2>4. t \in Seq(L) /\ FileLaid(t, chars)
    BY <1>2, <2>1
  <2> HIDE DEF c, d, t
  <2>6. d = Append(c, t)
    <3>1. \A i \in 1 .. Len(c) : d[i] = c[i]
      BY <2>2, <2>3
    <3>2. d[Len(c) + 1] = t
      BY <2>2, <2>3 DEF t
    <3> QED BY <2>2, <2>3, <2>4, <3>1, <3>2, OneMore
  <2>7. FlattenSeq(d) = s \o t
    BY <2>2, <2>4, <2>6, FlattenAppend
  <2> HIDE DEF s
  <2>8. FileLaid(s \o t, chars)
    BY <2>1, <2>4, FileJoined
  <2> QED BY <2>7, <2>8 DEF d
<1>6. n \in T
  <2> HIDE DEF T
  <2> QED BY <1>1, <1>4, <1>5, AllNat
<1>7. b = FlattenSeq(Codes(n))
  BY <1>1
<1> QED BY <1>1, <1>6, <1>7

LEMMA StringsAreLaid ==
  ASSUME IsSeq(strings)
  PROVE  FileLaid(StringData, ToSet(strings))
PROOF
<1> DEFINE q(i) == Quad(StringLabel(i), Len(strings[i]))
           d(i) == Data(StringLabel(i) \o <<"ptr">>, strings[i])
           S == {q(i) : i \in DOMAIN strings} \cup {d(i) : i \in DOMAIN strings}
           s == [i \in DOMAIN strings |-> <<q(i), d(i)>>]
           n == Len(strings)
<1>1. n \in Nat /\ DOMAIN strings = 1 .. n /\ \A i \in 1 .. n : strings[i] \in ToSet(strings)
  BY SeqDomain DEF ToSet
<1>2. \A i : /\ q(i).ins = "QUAD" /\ q(i).value = Len(strings[i])
             /\ d(i).ins = "DATA" /\ d(i).chars = strings[i]
  BY DEF Quad, Data
<1>3. StringData = FlattenSeq(s)
  BY DEF StringData
<1> HIDE DEF q, d
<1>4. \A l \in S : DataLine(l, ToSet(strings)) /\ l.ins # "LOC"
  BY <1>1, <1>2 DEF DataLine
<1>5. \A i \in 1 .. n : q(i) \in S /\ d(i) \in S
  BY <1>1
<1> HIDE DEF S
<1>6. \A x, y \in S : <<x, y>> \in Seq(S)
  OBVIOUS
<1>7. s \in [1 .. n -> Seq(S)]
  BY <1>1, <1>5, <1>6
<1> HIDE DEF s
<1>8. FlattenSeq(s) \in Seq(S)
  BY <1>1, <1>7, FunctionIsSequence, FlattenInSeq
<1>9. \A l \in ToSet(FlattenSeq(s)) : l \in S
  BY <1>8, ElementOfSeq, LenProperties DEF ToSet
<1>10. FileCode(StringData, ToSet(strings))
  BY <1>3, <1>4, <1>8, <1>9 DEF FileCode, FileLine, IsSeq
<1> QED BY <1>3, <1>4, <1>9, <1>10, NoWordsLaid

LEMMA StartIsLaid == \A chars : FileLaid(StartCode, chars)
PROOF
<1> SUFFICES ASSUME NEW chars PROVE FileLaid(StartCode, chars)
  OBVIOUS
<1> DEFINE a == <<Label(<<"_start">>), PUSH(Reg("R12")), I2("MOV", Reg("RBP"), Reg("RSP")),
                  I2("ADD", Reg("RSP"), Imm(32)),
                  I2("LEA", Reg("R12"), Lab(<<"call", "stack">>)),
                  I1("CALL", Lab(<<"func", "entry">>)), I0("LEAVE"), POP("R12"),
                  I2("MOV", Reg("RAX"), Imm(60)), I2("XOR", Reg("RDI"), Reg("RDI")),
                  I0("SYSCALL")>>
           C(l) == TypedLine(l) /\ l.ins # "LOC"
<1>r. \A r \in Regs : Reg(r) \in Registers
  BY DEF Registers
<1>i. Imm(32) \in Immediates /\ Imm(60) \in Immediates
  BY DEF Immediates
<1>g. \A r \in {"R12", "RBP", "RAX", "RDI"} : r \in Regs
  BY DEF Regs
<1>1. C(Label(<<"_start">>)) /\ C(I0("LEAVE")) /\ C(I0("SYSCALL"))
  BY DEF TypedLine, Label, I0
<1>2. C(PUSH(Reg("R12"))) /\ C(POP("R12"))
  BY <1>r, <1>g DEF TypedLine, PUSH, POP, I1
<1>3. C(I2("MOV", Reg("RBP"), Reg("RSP"))) /\ C(I2("MOV", Reg("RAX"), Imm(60)))
  BY <1>r, <1>g, <1>i DEF TypedLine, TypedMove, I2
<1>4. C(I2("ADD", Reg("RSP"), Imm(32))) /\ C(I2("XOR", Reg("RDI"), Reg("RDI")))
  BY <1>r, <1>g, <1>i DEF TypedLine, TypedSum, I2
<1>5. C(I2("LEA", Reg("R12"), Lab(<<"call", "stack">>)))
  BY <1>r, <1>g DEF TypedLine, I2, Lab
<1>6. C(I1("CALL", Lab(<<"func", "entry">>)))
  BY DEF TypedLine, I1, Lab
<1> HIDE DEF C
<1>7. \A i \in 1 .. 11 : C(a[i])
  BY <1>1, <1>2, <1>3, <1>4, <1>5, <1>6
<1>8. DOMAIN a = 1 .. 11
  OBVIOUS
<1>9. a = StartCode
  BY DEF StartCode
<1> HIDE DEF a
<1>10. \A l \in ToSet(StartCode) : C(l)
  BY <1>7, <1>8, <1>9 DEF ToSet
<1>11. FileCode(StartCode, chars)
  BY <1>10, StartLines DEF C, FileCode, FileLine
<1> QED BY <1>10, <1>11, NoWordsLaid DEF C

FirstSegment == Lcomm(<<"call", "stack">>, CallStackBytes)

\* The sizes of segments that have been declared.
SegmentCode(t) == /\ IsSeq(t) /\ Len(t) >= 1 /\ t[1] = FirstSegment
                  /\ \A l \in ToSet(t) : l.ins = "LCOMM" /\ l.size \in Nat

\* The file of a well formed program.
FileDone == /\ pos = Len(src) /\ Outside /\ compile_unit = NoUnit
            /\ DOMAIN functions = Names(src, "#") /\ memory_segments = Names(src, "@")
            /\ FileLaid(asm, ToSet(strings))
            /\ Len(asm) >= 1 /\ asm[1] = FirstSegment
AsmInv == WellFormed(src, Operators) => /\ status = "compiling" => SegmentCode(asm)
                                        /\ status = "done" => FileDone

\* The two .lcomm lines of a segment.
LEMMA SegmentIs ==
  ASSUME NEW l, NEW size \in Nat
  PROVE  /\ IsSeq(Segment(l, size)) /\ Len(Segment(l, size)) >= 1
         /\ Segment(l, size)[1] = Lcomm(l, size)
         /\ \A x \in ToSet(Segment(l, size)) : x.ins = "LCOMM" /\ x.size \in Nat
PROOF
<1>1. ToSet(Segment(l, size)) = {Lcomm(l, size), Lcomm(l \o <<"end">>, 0)} /\ IsSeq(Segment(l, size))
  BY ShortSequences DEF Segment
<1>2. \A x, m : Lcomm(x, m).ins = "LCOMM" /\ Lcomm(x, m).size = m
  BY DEF Lcomm
<1>3. Len(Segment(l, size)) >= 1 /\ Segment(l, size)[1] = Lcomm(l, size)
  BY DEF Segment
<1> QED BY <1>1, <1>2, <1>3

\* No file yet.
LEMMA AsmInit == Init => AsmInv
PROOF
<1> SUFFICES ASSUME Init PROVE AsmInv
  OBVIOUS
<1>1. asm = Segment(<<"call", "stack">>, CallStackBytes) /\ status = "compiling"
  BY DEF Init
<1> QED BY <1>1, SegmentIs, CallStackAssumption DEF AsmInv, SegmentCode, FirstSegment

\* More segments.
LEMMA SegmentsGrow ==
  ASSUME NEW s, SegmentCode(s), NEW l, NEW size \in Nat, NEW t, t = s \o Segment(l, size)
  PROVE  SegmentCode(t)
PROOF
<1>d. PICK d : d = Segment(l, size)
  OBVIOUS
<1>1. IsSeq(d) /\ \A x \in ToSet(d) : x.ins = "LCOMM" /\ x.size \in Nat
  BY <1>d, SegmentIs
<1>2. IsSeq(s)
  BY DEF SegmentCode
<1>3. Joined(s, d, t)
  BY <1>1, <1>2, <1>d, ConcatAt
<1>4. ToSet(t) = ToSet(s) \cup ToSet(d)
  BY <1>1, <1>2, <1>d, ConcatElems
<1>5. Len(t) >= 1 /\ t[1] = FirstSegment
  <2>n. PICK n, k : n = Len(s) /\ k = Len(d)
    OBVIOUS
  <2>1. n \in Nat /\ k \in Nat /\ Len(t) = n + k /\ \A i \in 1 .. n : t[i] = s[i]
    BY <2>n, <1>3 DEF Joined
  <2>2. n >= 1 /\ s[1] = FirstSegment
    BY <2>n DEF SegmentCode
  <2> QED BY <2>1, <2>2
<1> QED BY <1>1, <1>3, <1>4, <1>5 DEF SegmentCode, Joined

\* A line of a segment is a line of the file, and stands for no word.
LEMMA SegmentsLaid ==
  ASSUME NEW s, SegmentCode(s), NEW chars
  PROVE  FileLaid(s, chars)
PROOF
<1>1. \A l \in ToSet(s) : l.ins = "LCOMM" /\ l.size \in Nat
  BY DEF SegmentCode
<1>2. FileCode(s, chars)
  BY <1>1 DEF FileCode, SegmentCode, FileLine, DataLine
<1> QED BY <1>1, <1>2, NoWordsLaid

\* What the last step makes of the segments.
LEMMA FileIsLaid ==
  ASSUME Laid, SegmentCode(asm), IsSeq(strings), IsSeq(functions_called),
         ToSet(functions_called) \subseteq DOMAIN functions, "entry" \in DOMAIN functions,
         NEW t, t = asm \o StringData \o StartCode \o Bodies
  PROVE  FileLaid(t, ToSet(strings)) /\ Len(t) >= 1 /\ t[1] = FirstSegment
PROOF
<1> DEFINE chars == ToSet(strings)
<1>1. FileLaid(asm, chars) /\ FileLaid(StringData, chars) /\ FileLaid(StartCode, chars)
  BY SegmentsLaid, StringsAreLaid, StartIsLaid
<1>2. IsSeq(EmittedFunctions) /\ ToSet(EmittedFunctions) \subseteq DOMAIN functions
  <2>1. IsSeq(<<"entry">>) /\ ToSet(<<"entry">>) = {"entry"}
    BY ShortSequences
  <2>2. CASE "entry" \in ToSet(functions_called)
    BY <2>2 DEF EmittedFunctions
  <2>3. CASE "entry" \notin ToSet(functions_called)
    <3>1. Append(functions_called, "entry") = functions_called \o <<"entry">>
      BY SeqDomain, AppendIsConcat
    <3>2. EmittedFunctions = functions_called \o <<"entry">>
      BY <2>3, <3>1 DEF EmittedFunctions
    <3>f. PICK c, d : c = functions_called /\ d = <<"entry">>
      OBVIOUS
    <3>3. IsSeq(c \o d) /\ ToSet(c \o d) = ToSet(c) \cup ToSet(d)
      BY <2>1, <3>f, ConcatElems
    <3> QED BY <2>1, <3>2, <3>3, <3>f
  <2> QED BY <2>2, <2>3
<1>3. FileLaid(Bodies, chars)
  <2>p. PICK fs : fs = EmittedFunctions
    OBVIOUS
  <2>1. Bodies = FlattenSeq([i \in DOMAIN fs |-> FunctionCode(fs[i])])
    BY <2>p DEF Bodies
  <2>2. FileLaid(FlattenSeq([i \in DOMAIN fs |-> FunctionCode(fs[i])]), chars)
    BY <2>p, <1>2, BodiesAreLaid
  <2> QED BY <2>1, <2>2
<1> HIDE DEF chars
<1>a. PICK a : a = asm \o StringData
  OBVIOUS
<1>b. PICK b : b = a \o StartCode
  OBVIOUS
<1>4. FileLaid(a, chars)
  BY <1>1, <1>a, FileJoined
<1>5. FileLaid(b, chars)
  BY <1>1, <1>4, <1>b, FileJoined
<1>6. t = b \o Bodies
  BY <1>a, <1>b
<1>7. FileLaid(t, chars)
  BY <1>3, <1>5, <1>6, FileJoined
<1>8. Len(t) >= 1 /\ t[1] = FirstSegment
  <2>0. IsSeq(asm) /\ IsSeq(StringData) /\ IsSeq(StartCode) /\ IsSeq(Bodies) /\ IsSeq(a) /\ IsSeq(b)
    BY <1>1, <1>3, <1>4, <1>5 DEF FileLaid, FileCode
  <2>1. Joined(asm, StringData, a) /\ Joined(a, StartCode, b) /\ Joined(b, Bodies, t)
    BY <2>0, <1>a, <1>b, <1>6, ConcatAt
  <2> DEFINE Begins(x) == Len(x) >= 1 /\ x[1] = FirstSegment
  <2>2. \A x, y, z : Joined(x, y, z) => (Begins(x) => Begins(z))
    BY DEF Joined
  <2>3. Begins(asm)
    BY DEF SegmentCode
  <2> HIDE DEF Begins
  <2>4. Begins(a)
    BY <2>1, <2>2, <2>3
  <2>5. Begins(b)
    BY <2>1, <2>2, <2>4
  <2>6. Begins(t)
    BY <2>1, <2>2, <2>5
  <2> QED BY <2>6 DEF Begins
<1> QED BY <1>7, <1>8 DEF chars

\* AsmInv is inductive: the segments are written first, and at the end the
\* whole file has the code of every word, line after line behind its .loc line
\* (main.py:258-262, 471-484).
LEMMA AsmInvStep ==
  IInv /\ WellInv /\ CodeInv /\ CallInv /\ LayoutInv /\ AsmInv /\ [CompilerNext]_compilerVars => AsmInv'
PROOF
<1> SUFFICES ASSUME IInv, WellInv, CodeInv, CallInv, LayoutInv, AsmInv, [CompilerNext]_compilerVars PROVE AsmInv'
  OBVIOUS
<1>1. src' = src
  BY DEF CompilerNext, ReadWord, Finish, WriteOutput, compilerVars
<1> SUFFICES ASSUME WellFormed(src, Operators)
             PROVE  /\ status' = "compiling" => SegmentCode(asm)'
                    /\ status' = "done" => FileDone'
  BY <1>1 DEF AsmInv
<1>2. CASE ReadWord
  <2>1. status = "compiling" /\ SegmentCode(asm)
    BY <1>2 DEF ReadWord, AsmInv
  <2>2. status' # "done"
    <3>1. CASE in_function # ""
      BY <1>2, <2>1, <3>1, InsideKeepsDomain DEF ReadWord
    <3>2. CASE in_function = ""
      BY <1>2, <2>1, <3>2 DEF ReadWord, OutsideFunction, DeclareFunction, AllocateMemory,
                              DeclareConst, NothingElseOutside, Fail
    <3> QED BY <3>1, <3>2
  <2>3. asm' = asm \/ \E l : \E n \in Nat : asm' = asm \o Segment(l, n)
    <3>1. CASE in_function # ""
      BY <1>2, <3>1 DEF ReadWord, InsideFunction, Fail, While, Do, EndWhile, If, Else, EndIf,
                        EndFunction, Call, PushString, Plain, UndeclaredConst
    <3>2. CASE in_function = "" /\ AllocateMemory
      <4>1. CASE UNCHANGED asm
        BY <4>1
      <4>2. CASE ~UNCHANGED asm
        <5>1. asm' = asm \o Segment(Parts(word.name), word.params[1]) /\ Len(word.params) = 1 /\ ~(word.params[1] <= 0)
          BY <3>2, <4>2 DEF AllocateMemory, Fail
        <5>2. word \in Word
          BY <1>2, WordIsWord DEF ReadWord, IInv, Progress
        <5>3. word.params \in Seq(Int)
          BY <5>2 DEF Word
        <5>4. word.params[1] \in Int
          BY <5>1, <5>3, ElementOfSeq
        <5>5. word.params[1] \in Nat
          BY <5>1, <5>4
        <5> QED BY <5>1, <5>5
      <4> QED BY <4>1, <4>2
    <3>3. CASE in_function = "" /\ ~AllocateMemory
      BY <1>2, <3>3 DEF ReadWord, OutsideFunction, DeclareFunction, DeclareConst, NothingElseOutside, Fail
    <3> QED BY <3>1, <3>2, <3>3
  <2>a. PICK s, t : s = asm /\ t = asm'
    OBVIOUS
  <2>4. SegmentCode(t)
    BY <2>1, <2>3, <2>a, SegmentsGrow
  <2>5. SegmentCode(asm)'
    BY <2>4, <2>a
  <2> QED BY <2>2, <2>5
<1>3. CASE Finish
  <2>1. status = "compiling" /\ pos = Len(src) /\ pos' = pos
    BY <1>3 DEF Finish
  <2>2. /\ Outside /\ compile_unit = NoUnit
        /\ DOMAIN functions = Names(src, "#") /\ memory_segments = Names(src, "@")
    BY <2>1, AtTheEnd
  <2>3. WellInv'
    BY WellInvStep
  <2>4. status' = "done"
    <3>1. status' \in {"compiling", "done"}
      BY <1>1, <2>3 DEF WellInv
    <3> QED BY <1>3, <3>1 DEF Finish, Fail
  <2>5. /\ ToSet(functions_called) \subseteq DOMAIN functions /\ "entry" \in DOMAIN functions
        /\ asm' = asm \o StringData \o StartCode \o Bodies
        /\ UNCHANGED <<functions, in_function, compile_unit, memory_segments, strings>>
    BY <1>3, <2>2, <2>4 DEF Finish, Fail
  <2>6. SegmentCode(asm) /\ Laid
    BY <2>1 DEF AsmInv, LayoutInv
  <2>7. IsSeq(strings) /\ IsSeq(functions_called)
    BY <2>1 DEF CallInv, InputComplete, CallsKnown, Distinct
  <2>t. PICK t : t = asm'
    OBVIOUS
  <2>8. FileLaid(t, ToSet(strings)) /\ Len(t) >= 1 /\ t[1] = FirstSegment
    BY <2>5, <2>6, <2>7, <2>t, FileIsLaid
  <2>9. FileLaid(asm, ToSet(strings))'
    BY <2>5, <2>8, <2>t DEF FileLaid, Housed, HousedAt, FileCode
  <2>10. FileDone'
    BY <1>1, <2>1, <2>2, <2>5, <2>8, <2>9, <2>t DEF FileDone, Outside
  <2> QED BY <2>4, <2>10
<1>4. CASE WriteOutput \/ UNCHANGED compilerVars
  <2>1. UNCHANGED <<src, pos, in_function, compile_unit, functions, memory_segments, strings, asm, status>>
    BY <1>4 DEF WriteOutput, compilerVars, declVars
  <2>2. CASE status = "compiling"
    BY <2>1, <2>2 DEF AsmInv
  <2>3. CASE status = "done"
    <3>1. FileDone
      BY <2>3 DEF AsmInv
    <3>2. FileLaid(asm, ToSet(strings))'
      BY <2>1, <3>1 DEF FileDone, FileLaid, Housed, HousedAt, FileCode
    <3> QED BY <2>1, <2>3, <3>1, <3>2 DEF FileDone, Outside
  <2> QED BY <2>1, <2>2, <2>3
<1> QED BY <1>2, <1>3, <1>4 DEF CompilerNext

\* The ends of functions, and the names of functions.
LEMMA HashPlaces ==
  ASSUME src \in Programs, WellFormed(src, Operators)
  PROVE  /\ Len(src) \in Nat
         /\ \A i \in 1 .. Len(src) : Language!Ends(i) => src[i] = Hash("")
         /\ \A f \in Names(src, "#") : \A i, j \in 1 .. Len(src) : src[i] = Hash(f) /\ src[j] = Hash(f) => i = j
PROOF
<1>n. PICK n : n = Len(src)
  OBVIOUS
<1> DEFINE open == OpenBlocks(src)
<1>1. src \in Seq(Word)
  BY ProgramsAssumption
<1>2. n \in Nat /\ DOMAIN src = 1 .. n
  BY <1>1, <1>n, LenProperties
<1>3. \A i \in 1 .. n : src[i] \in Word
  BY <1>1, <1>n, ElementOfSeq
<1>4. WellNested(src)
  BY DEF WellFormed
<1>5. \A i \in 1 .. n : open[i - 1] # Bad /\ open[i] # Bad /\ open[i] = BlocksAfter(open[i - 1], src[i])
  <2> SUFFICES ASSUME NEW i \in 1 .. n
               PROVE  open[i - 1] # Bad /\ open[i] # Bad /\ open[i] = BlocksAfter(open[i - 1], src[i])
    OBVIOUS
  <2>1. i \in 0 .. Len(src) /\ i - 1 \in 0 .. Len(src)
    BY <1>2, <1>n
  <2>2. open[i] # Bad
    BY <1>2, <1>4, <1>n, <2>1, NeverBad
  <2>3. open[i - 1] # Bad
    BY <1>2, <1>4, <1>n, <2>1, NeverBad
  <2>4. open[i] = BlocksAfter(open[i - 1], src[i])
    BY <1>2, <1>n, OpenBlocksAre
  <2> QED BY <2>2, <2>3, <2>4
<1> HIDE DEF open
<1> DEFINE Closed(i) == open[i - 1] = <<>>
<1>6. \A i \in 1 .. n : src[i].head = "#" /\ src[i].name = "" => ~Closed(i)
  BY <1>5 DEF BlocksAfter, BlocksOutside, Bad
<1>7. ParametersFit(src) /\ NamesResolve(src, Operators) /\ DeclaredOnce(src, "#")
  BY DEF WellFormed
<1>8. \A i \in 1 .. n : /\ Closed(i) /\ src[i].head = "#" => i \in Declarations(src, "#")
                        /\ ~Closed(i) /\ src[i].head = "#" => i \in Uses(src, "#")
                        /\ ~Closed(i) => OperatorFits(src[i])
  BY <1>7, <1>n DEF Declarations, Uses, ParametersFit, open
<1>9. \A i \in Uses(src, "#") : src[i].name = ""
  BY <1>7 DEF NamesResolve
<1>10. \A i \in Declarations(src, "#") : i \in 1 .. n /\ Closed(i) /\ src[i].head = "#"
  BY <1>n DEF Declarations, open
<1> HIDE DEF Closed
<1>11. ASSUME NEW i \in 1 .. n, Language!Ends(i) PROVE src[i] = Hash("")
  <2>1. src[i].head = "#" /\ src[i].name = ""
    BY <1>11 DEF Language!Ends
  <2>2. OperatorFits(src[i])
    BY <1>6, <1>8, <2>1
  <2>3. src[i].params = <<>>
    BY <2>1, <2>2 DEF OperatorFits, IsId
  <2> QED BY <1>3, <2>1, <2>3 DEF Word, Hash, W
<1>12. ASSUME NEW f \in Names(src, "#"), NEW i \in 1 .. n, NEW j \in 1 .. n, src[i] = Hash(f), src[j] = Hash(f)
       PROVE  i = j
  <2>1. PICK k : k \in Declarations(src, "#") /\ f = src[k].name
    BY DEF Names
  <2>2. f # ""
    BY <1>6, <1>10, <2>1
  <2>3. src[i].head = "#" /\ src[i].name = f /\ src[j].head = "#" /\ src[j].name = f
    BY <1>12, HashIs
  <2>4. i \in Declarations(src, "#") /\ j \in Declarations(src, "#")
    BY <1>8, <1>9, <2>2, <2>3
  <2> QED BY <1>7, <2>3, <2>4 DEF DeclaredOnce
<1> QED BY <1>2, <1>11, <1>12, <1>n

\* Where the body of f ends.
LEMMA EndOfIs ==
  ASSUME src \in Programs, WellFormed(src, Operators), NEW f \in Names(src, "#"),
         NEW p \in Nat, Opened(f, p), p + 1 <= Len(src), Language!Ends(p + 1)
  PROVE  EndOf(f) = p + 1
PROOF
<1>n. PICK n : n = Len(src)
  OBVIOUS
<1>q. PICK q : q = p + 1
  OBVIOUS
<1>1. n \in Nat
  BY <1>n, HashPlaces
<1>2. PICK s \in 1 .. p : src[s] = Hash(f) /\ \A r \in s + 1 .. p : ~Language!Ends(r)
  BY DEF Opened
<1>d. src \in Seq(Word) /\ DOMAIN src = 1 .. n
  BY <1>n, ProgramsAssumption, LenProperties
<1>3. s \in 1 .. n /\ q \in 1 .. n /\ q \in s + 1 .. n
  BY <1>1, <1>2, <1>n, <1>q
<1>4. \A i \in 1 .. n : src[i] = Hash(f) => i = s
  BY <1>2, <1>3, <1>n, HashPlaces
<1>5. (CHOOSE i \in DOMAIN src : src[i] = Hash(f)) = s
  BY <1>2, <1>3, <1>4, <1>d
<1>e. PICK x : x = Hash("")
  OBVIOUS
<1>6. src[q] = x
  BY <1>3, <1>n, <1>q, <1>e, HashPlaces
<1>7. \A i \in s + 1 .. n : src[i] = x => q <= i
  <2> SUFFICES ASSUME NEW i \in s + 1 .. n, src[i] = x, ~(q <= i) PROVE FALSE
    BY <1>3
  <2>1. i \in s + 1 .. p
    BY <1>1, <1>q
  <2>2. ~Language!Ends(i)
    BY <1>2, <2>1
  <2>3. x.head = "#" /\ x.name = ""
    BY <1>e, HashIs
  <2>4. Language!Ends(i)
    BY <2>3 DEF Language!Ends
  <2> QED BY <2>2, <2>4
<1> DEFINE ends == {i \in s + 1 .. n : src[i] = x}
<1>8. q \in ends /\ (\A j \in ends : q <= j) /\ ends \subseteq Int
  BY <1>1, <1>3, <1>6, <1>7
<1>9. EndOf(f) = CHOOSE i \in ends : \A j \in ends : i <= j
  BY <1>5, <1>n, <1>e DEF EndOf
<1> HIDE DEF ends
<1>10. \A i \in ends : (\A j \in ends : i <= j) => i = q
  BY <1>8
<1>11. (CHOOSE i \in ends : \A j \in ends : i <= j) = q
  BY <1>8, <1>10
<1> QED BY <1>9, <1>11, <1>q

\* Which function a line belongs to.
LEMMA FunctionAtIs ==
  ASSUME NEW b \in Nat, b >= 1, NEW i \in Nat, b <= i, NEW f, text[b] = FuncLabel(f),
         \A k \in b + 1 .. i : text[k].ins = "LABEL" => text[k].lab[1] # "func"
  PROVE  FunctionAt(i) = f
PROOF
<1> DEFINE labels == {j \in 1 .. i : text[j].ins = "LABEL" /\ text[j].lab[1] = "func"}
<1>1. b \in labels
  BY FuncLabels
<1>2. \A k \in labels : k <= b /\ k \in Int
  <2> SUFFICES ASSUME NEW k \in labels, ~(k <= b) PROVE FALSE
    BY <1>1
  <2>1. k \in b + 1 .. i
    OBVIOUS
  <2> QED BY <2>1
<1>3. FunctionAt(i) = text[CHOOSE j \in labels : \A k \in labels : k <= j].lab[2]
  BY DEF FunctionAt
<1> HIDE DEF labels
<1>6. \A j \in labels : (\A k \in labels : k <= j) => j = b
  BY <1>1, <1>2
<1>7. \A k \in labels : k <= b
  BY <1>2
<1>4. (CHOOSE j \in labels : \A k \in labels : k <= j) = b
  BY <1>1, <1>6, <1>7
<1>5. text[b].lab[2] = f
  BY FuncLabels
<1> QED BY <1>3, <1>4, <1>5

-----------------------------------------------------------------------------
(***************************************************************************)
(* Where the code of a word lies in the file.                              *)
(***************************************************************************)
\* The file of a well formed program, as the machine has it.
Finished == /\ IInv /\ FrameInv /\ CallInv /\ LayoutInv /\ FileDone
            /\ WellFormed(src, Operators) /\ status = "done" /\ text = asm

\* The labels that the code uses have addresses.
Addresses == \A l \in Used(text) : symbols[l] \in MachineWord

\* The line i of the file is the line k of the code of f.
Inside(i, f, b, c, k) ==
  /\ f \in DOMAIN functions /\ c = functions[f] /\ f # compile_unit /\ f \in Names(src, "#")
  /\ IsSeq(c) /\ Len(c) \in Nat /\ \A l \in ToSet(c) : KnownLine(l, ToSet(functions_called))
  /\ b \in Nat /\ b >= 1 /\ text[b] = FuncLabel(f) /\ b + Len(c) <= Len(text)
  /\ \A j \in 1 .. Len(c) : text[b + j] = c[j]
  /\ i = b + k /\ k \in 1 .. Len(c)

\* A .loc is in the code of a function, and the code of its word follows.
LEMMA LocIsInside ==
  ASSUME Finished, NEW i \in 1 .. Len(text), text[i].ins = "LOC"
  PROVE  \E f, b, c, k, p, w : Inside(i, f, b, c, k) /\ w = src[p] /\ WordLaid(f, c, k, p, w)
PROOF
<1>1. HousedAt(asm, i)
  BY DEF Finished, FileDone, FileLaid, Housed
<1>2. PICK f, b, c : /\ f \in DOMAIN functions /\ c = functions[f]
                     /\ b \in 1 .. Len(text) /\ text[b] = FuncLabel(f)
                     /\ Stands(text, b, c) /\ i \in b + 1 .. b + Len(c)
  BY <1>1 DEF HousedAt, Finished
<1>3. CodeLaid(f, c)
  BY <1>2 DEF Finished, LayoutInv, Laid
<1>4. f # compile_unit /\ f \in Names(src, "#")
  BY <1>2 DEF Finished, FrameInv, FileDone
<1>5. \A l \in ToSet(c) : KnownLine(l, ToSet(functions_called))
  <2>1. CallsKnown
    BY DEF Finished, CallInv, InputComplete, FileDone
  <2>2. ToSet(c) \subseteq AllLines
    BY <1>2 DEF AllLines
  <2> QED BY <2>1, <2>2 DEF CallsKnown
<1>6. PICK n : n = Len(c)
  OBVIOUS
<1>7. b \in Nat /\ n \in Nat /\ b + n <= Len(text) /\ \A j \in 1 .. n : text[b + j] = c[j]
  BY <1>2, <1>6 DEF Stands
<1>8. PICK k : k = i - b
  OBVIOUS
<1>9. i = b + k /\ k \in 1 .. n /\ b >= 1
  BY <1>2, <1>6, <1>7, <1>8
<1>10. IsSeq(c)
  BY <1>3 DEF CodeLaid
<1>11. Inside(i, f, b, c, k)
  BY <1>2, <1>4, <1>5, <1>6, <1>7, <1>9, <1>10 DEF Inside
<1>12. c[k].ins = "LOC"
  BY <1>7, <1>9
<1>13. PICK p, w : w = src[p] /\ WordLaid(f, c, k, p, w)
  BY <1>3, <1>6, <1>9, <1>12 DEF CodeLaid
<1> QED BY <1>11, <1>13

\* The function of a line of its code.
LEMMA FunctionOfLine ==
  ASSUME NEW i, NEW f, NEW b, NEW c, NEW k, Inside(i, f, b, c, k)
  PROVE  FunctionAt(i) = f
PROOF
<1>n. PICK n : n = Len(c)
  OBVIOUS
<1>1. /\ IsSeq(c) /\ n \in Nat /\ \A l \in ToSet(c) : KnownLine(l, ToSet(functions_called))
      /\ b \in Nat /\ b >= 1 /\ text[b] = FuncLabel(f)
      /\ \A j \in 1 .. n : text[b + j] = c[j]
      /\ i = b + k /\ k \in 1 .. n
  BY <1>n DEF Inside
<1>2. DOMAIN c = 1 .. n
  BY <1>1, <1>n, SeqDomain
<1>3. ASSUME NEW h \in b + 1 .. i, text[h].ins = "LABEL" PROVE text[h].lab[1] # "func"
  <2>1. PICK j : j = h - b
    OBVIOUS
  <2>2. j \in 1 .. n /\ h = b + j
    BY <1>1, <2>1
  <2>3. text[h] = c[j] /\ c[j] \in ToSet(c)
    BY <1>1, <1>2, <2>2 DEF ToSet
  <2>4. KnownLine(text[h], ToSet(functions_called))
    BY <1>1, <2>3
  <2> QED BY <1>3, <2>4 DEF KnownLine
<1>4. i \in Nat /\ b <= i
  BY <1>1
<1>5. b \in Nat /\ b >= 1 /\ text[b] = FuncLabel(f)
  BY <1>1
<1>6. \A h \in b + 1 .. i : text[h].ins = "LABEL" => text[h].lab[1] # "func"
  BY <1>3
<1> QED BY <1>4, <1>5, <1>6, FunctionAtIs, Zenon

\* The names of a word that is in the file are known.
LEMMA NamedIsKnown ==
  ASSUME Finished, NEW w, Named(w)
  PROVE  Known(w)
PROOF
<1>1. ASSUME w.head = "$" PROVE const_labels[w.name] = Language!Const(w.name)
  <2>n. PICK n : n = Len(src)
    OBVIOUS
  <2>a. PICK a : a = w.name
    OBVIOUS
  <2>1. ConstantsKnown /\ pos = n
    BY <2>n DEF Finished, FileDone, LayoutInv
  <2>2. a \in DOMAIN const_labels
    BY <1>1, <2>a DEF Named
  <2> DEFINE D(i) == src[i].head = "$" /\ src[i].name = a /\ ~Language!InBody(i)
  <2>3. \E i \in 1 .. n : D(i)
    BY <2>1, <2>2 DEF ConstantsKnown, Declares
  <2>4. \A i \in 1 .. n : D(i) => const_labels[a] = src[i].params[1]
    BY <2>1 DEF ConstantsKnown, Declares
  <2>5. Language!Const(a) = src[CHOOSE i \in 1 .. n : D(i)].params[1]
    BY <2>n DEF Language!Const
  <2> HIDE DEF D
  <2>6. PICK i : i = CHOOSE j \in 1 .. n : D(j)
    OBVIOUS
  <2>7. i \in 1 .. n /\ D(i)
    BY <2>3, <2>6
  <2>8. const_labels[a] = src[i].params[1]
    BY <2>4, <2>7
  <2> QED BY <2>5, <2>6, <2>8, <2>a
<1>2. memory_segments = Names(src, "@")
  BY DEF Finished, FileDone
<1> QED BY <1>1, <1>2 DEF Known, Named

\* The code x is in the file after the line i.
After(i, x) == \A j \in 1 .. Len(x) : i + j \in DOMAIN text /\ text[i + j] = x[j]

\* The address that the code of a word loads is used.
LEMMA WordIsAddressed ==
  ASSUME Addresses, NEW w, w.head \in {"int", "@", "$", "str", "id"}, NEW i \in Nat,
         NEW x, x = CodeOf(w), After(i, x)
  PROVE  Addressed(w)
PROOF
<1>1. ASSUME NEW l, x = AddressCode(l) PROVE symbols[l] \in MachineWord
  <2>c. PICK c : c = x
    OBVIOUS
  <2>0. \A a, b : Len(<<a>> \o <<b>>) = 2 /\ (<<a>> \o <<b>>)[1] = a
    OBVIOUS
  <2>1. c = <<I2("LEA", Reg("RAX"), Lab(l))>> \o <<PUSH(Reg("RAX"))>>
    BY <1>1, <2>c, Zenon DEF AddressCode, PushRAX
  <2>2. Len(c) = 2 /\ c[1] = I2("LEA", Reg("RAX"), Lab(l))
    BY <2>0, <2>1, Zenon
  <2>3. 1 \in 1 .. Len(c)
    BY <2>2
  <2>4. i + 1 \in DOMAIN text /\ text[i + 1] = c[1]
    BY <2>3, <2>c DEF After
  <2>6. PICK j : j = i + 1
    OBVIOUS
  <2>7. j \in DOMAIN text /\ text[j].ins = "LEA" /\ text[j].s.v = l
    BY <2>2, <2>4, <2>6 DEF I2, Lab
  <2>5. l \in Used(text)
    BY <2>7 DEF Used
  <2> QED BY <2>5 DEF Addresses
<1>2. w.head = "@" => CodeOf(w) = AddressCode(Parts(w.name))
  BY DEF CodeOf, PlainCode
<1>3. w.head = "str" => CodeOf(w) = AddressCode(StringLabel(StringNumber(w.params)))
  BY DEF CodeOf
<1> QED BY <1>1, <1>2, <1>3 DEF Addressed

\* The code of a word that calculates is in the file, and goes on line by line.
LEMMA WordIsThere ==
  ASSUME Finished, NEW i, NEW f, NEW b, NEW c, NEW k, Inside(i, f, b, c, k),
         NEW p, NEW w, w = src[p], WordLaid(f, c, k, p, w), Calculates(w), NEW x, x = CodeOf(w)
  PROVE  /\ text[i] = Loc(p) /\ i \in 1 .. Len(text) /\ p \in Nat /\ Len(x) \in Nat
         /\ w \in Word /\ OperatorFits(w) /\ Known(w)
         /\ \A j \in 1 .. Len(x) : i + j \in 1 .. Len(text) /\ text[i + j] = x[j] /\ Goes(x[j])
         /\ i + Len(x) + 1 \in 1 .. Len(text)
         /\ AtWord(i + Len(x) + 1) /\ WordOf(i + Len(x) + 1) = p + 1
PROOF
<1>n. PICK n : n = Len(c)
  OBVIOUS
<1>m. PICK m : m = Len(x)
  OBVIOUS
<1>t. PICK t : t = Len(text)
  OBVIOUS
<1>1. /\ f \in DOMAIN functions /\ f # compile_unit /\ f \in Names(src, "#") /\ n \in Nat
      /\ b \in Nat /\ b >= 1 /\ b + n <= t /\ i = b + k /\ k \in 1 .. n
      /\ \A j \in 1 .. n : text[b + j] = c[j]
  BY <1>n, <1>t DEF Inside
<1>2. /\ c[k] = Loc(p) /\ p \in 1 .. pos /\ Opened(f, p) /\ w \in Word /\ OperatorFits(w) /\ Named(w)
      /\ Carries(c, k, x) /\ NextLaid(f, c, k + m, p)
  BY <1>m DEF WordLaid
<1>3. m \in Nat /\ k + m <= n /\ \A j \in 1 .. m : c[k + j] = x[j]
  BY <1>2, <1>m, <1>n DEF Carries
<1>4. src \in Programs /\ WellFormed(src, Operators) /\ pos = Len(src)
  BY DEF Finished, IInv, Progress, FileDone
<1>5. t \in Nat /\ IsSeq(text) /\ DOMAIN text = 1 .. t
  <2>1. IsSeq(asm)
    BY DEF Finished, FileDone, FileLaid, FileCode
  <2> QED BY <2>1, <1>t, SeqDomain DEF Finished
<1>6. i \in 1 .. t /\ text[i] = Loc(p)
  <2>1. b + n \in Nat /\ b + k <= b + n /\ b + k >= 1 /\ b + k \in Nat
    BY <1>1
  <2>2. text[b + k] = c[k]
    BY <1>1
  <2> QED BY <1>1, <1>2, <1>5, <2>1, <2>2
<1>7. ASSUME NEW j \in 1 .. m PROVE i + j \in 1 .. t /\ text[i + j] = x[j]
  <2>1. PICK h : h = k + j
    OBVIOUS
  <2>2. h \in 1 .. n /\ i + j = b + h
    BY <2>1, <1>1, <1>3
  <2>3. c[h] = x[j]
    BY <2>1, <1>3
  <2>4. text[b + h] = c[h]
    BY <2>2, <1>1
  <2>5. b + h \in 1 .. t
    <3>1. b + n <= t
      BY <1>1, <1>t
    <3> QED BY <2>2, <3>1, <1>1, <1>5
  <2> QED BY <2>2, <2>3, <2>4, <2>5
<1>8. Known(w)
  BY <1>2, NamedIsKnown
<1>9. ASSUME NEW j \in 1 .. m PROVE Goes(x[j])
  <2>1. w.head \in {"int", "@", "$", "str", "id"}
    BY DEF Calculates
  <2>2. w.head = "id" => w.name \in Operators \ Structure /\ w.name # "syscall"
    BY DEF Calculates
  <2>3. w.head = "$" => const_labels[w.name] \in Int
    BY <1>2 DEF Named, Finished, LayoutInv, ConstantsKnown
  <2>4. GoesOver(x, IF w.head = "id" /\ w.name = "syscall" THEN {"SYSCALL"} ELSE {})
    BY <1>2, <2>1, <2>2, <2>3, CodeGoes
  <2>5. GoesOver(x, {})
    BY <2>2, <2>4
  <2>6. x[j] \in ToSet(x)
    BY <2>5, <1>m, SeqDomain DEF GoesOver, ToSet
  <2> QED BY <2>5, <2>6 DEF GoesOver, GoesBut
<1>q. PICK q : q = i + m + 1
  OBVIOUS
<1>10. q \in 1 .. t /\ text[q] = c[k + m + 1] /\ p + 1 <= pos /\ Precedes(c, k + m, p)
  <2>1. k + m # n
    BY <1>1, <1>2, <1>n DEF NextLaid
  <2>2. k + m + 1 <= n /\ p + 1 <= pos /\ Precedes(c, k + m, p)
    BY <1>2, <1>n, <2>1 DEF NextLaid
  <2>3. PICK h : h = k + m + 1
    OBVIOUS
  <2>4. h \in 1 .. n /\ q = b + h
    BY <1>1, <1>3, <1>q, <2>2, <2>3
  <2> QED BY <1>1, <1>5, <2>2, <2>3, <2>4
<1>11. AtWord(q) /\ WordOf(q) = p + 1
  <2>h. PICK h : h = k + m + 1
    OBVIOUS
  <2>1. q \in DOMAIN text
    BY <1>5, <1>10
  <2>2. CASE c[h] = Loc(p + 1)
    <3>1. text[q].ins = "LOC" /\ text[q].word = p + 1
      BY <1>10, <2>2, <2>h DEF Loc
    <3> QED BY <2>1, <3>1 DEF AtWord, WordOf
  <2>3. CASE c[h] = Epilogue[1] /\ Language!Ends(p + 1)
    <3>1. text[q] = I2("SUB", Reg("R12"), Imm(8))
      BY <1>10, <2>3, <2>h DEF Epilogue
    <3>2. text[q].ins = "SUB" /\ text[q].d = Reg("R12")
      BY <3>1 DEF I2
    <3>3. EndOf(f) = p + 1
      <4>1. p \in Nat /\ p + 1 <= Len(src)
        BY <1>2, <1>4, <1>10
      <4> QED BY <1>1, <1>2, <1>4, <2>3, <4>1, EndOfIs
    <3>4. FunctionAt(q) = f
      <4>1. q = b + h /\ h \in 1 .. n
        BY <1>1, <1>2, <1>3, <1>q, <2>h, <1>n DEF NextLaid
      <4>2. Inside(q, f, b, c, h)
        BY <4>1, <1>n DEF Inside
      <4> QED BY <4>2, FunctionOfLine
    <3> QED BY <2>1, <3>2, <3>3, <3>4 DEF AtWord, WordOf, IsEpilogue
  <2> QED BY <1>10, <2>2, <2>3, <2>h DEF Precedes
<1> QED BY <1>2, <1>3, <1>4, <1>6, <1>7, <1>8, <1>9, <1>10, <1>11, <1>q, <1>m, <1>t

\* The code of a word that calculates stands in the linked file, at the place
\* of its .loc line.
LEMMA CalmIsLaidOut ==
  ASSUME Finished, Addresses, NEW i, Calm(i)
  PROVE  LaidOut(i)
PROOF
<1>5. DOMAIN text = 1 .. Len(text)
  <2>1. IsSeq(asm)
    BY DEF Finished, FileDone, FileLaid, FileCode
  <2> QED BY <2>1, SeqDomain DEF Finished
<1>1. i \in 1 .. Len(text) /\ text[i].ins = "LOC" /\ Calculates(src[text[i].word])
  BY <1>5 DEF Calm
<1>2. PICK f, b, c, k, p, w : Inside(i, f, b, c, k) /\ w = src[p] /\ WordLaid(f, c, k, p, w)
  BY <1>1, LocIsInside
<1>3. text[i] = Loc(p)
  <2>1. c[k] = Loc(p)
    BY <1>2 DEF WordLaid
  <2> QED BY <1>2, <2>1 DEF Inside
<1>4. text[i].word = p
  BY <1>3 DEF Loc
<1>6. Calculates(w)
  BY <1>1, <1>2, <1>4
<1>x. PICK x : x = CodeOf(w)
  OBVIOUS
<1>7. /\ i \in 1 .. Len(text) /\ p \in Nat /\ Len(x) \in Nat
      /\ w \in Word /\ OperatorFits(w) /\ Known(w)
      /\ \A j \in 1 .. Len(x) : i + j \in 1 .. Len(text) /\ text[i + j] = x[j] /\ Goes(x[j])
      /\ AtWord(i + Len(x) + 1) /\ WordOf(i + Len(x) + 1) = p + 1
  BY <1>2, <1>6, <1>x, WordIsThere
<1>8. Addressed(w)
  <2>1. w.head \in {"int", "@", "$", "str", "id"} /\ i \in Nat
    BY <1>6, <1>7 DEF Calculates
  <2>2. After(i, x)
    BY <1>5, <1>7 DEF After
  <2> QED BY <2>1, <2>2, <1>x, WordIsAddressed
<1>9. Follows(i, p, w, x)
  <2>1. i \in DOMAIN text /\ i \in Nat
    BY <1>5, <1>7
  <2>2. \A j \in 1 .. Len(x) : i + j \in DOMAIN text /\ text[i + j] = x[j] /\ Goes(x[j])
    BY <1>5, <1>7
  <2> QED BY <1>3, <1>7, <1>8, <2>1, <2>2 DEF Follows
<1> QED BY <1>2, <1>4, <1>9, <1>x DEF LaidOut

-----------------------------------------------------------------------------
(***************************************************************************)
(* Where the linker puts the objects.                                      *)
(***************************************************************************)
\* A line that puts bytes into a section.
ObjectLine(l) == \/ l.ins = "LCOMM" /\ l.size \in Nat
                 \/ l.ins = "QUAD" /\ l.value \in Int
                 \/ l.ins = "DATA" /\ l.chars \in Seq(Byte)

\* Zero is a byte.
LEMMA ByteFacts == 0 \in Byte /\ ByteSize \in Nat
PROOF
  BY NumbersAssumption DEF Byte

\* What an object of .data or .bss holds are bytes.
LEMMA ContentsType ==
  ASSUME NEW l, ObjectLine(l)
  PROVE  Contents(l) \in Seq(Byte) /\ (l.ins = "LCOMM" => Len(Contents(l)) = l.size)
PROOF
<1>1. CASE l.ins = "LCOMM" /\ l.size \in Nat
  <2>1. Contents(l) = [i \in 1 .. l.size |-> 0]
    BY <1>1 DEF Contents
  <2>2. [i \in 1 .. l.size |-> 0] \in [1 .. l.size -> Byte]
    BY ByteFacts
  <2> QED BY <1>1, <2>1, <2>2, FunctionIsSequence
<1>2. CASE l.ins = "QUAD" /\ l.value \in Int
  <2>1. Contents(l) = [i \in 1 .. 8 |-> Digits(l.value, 8)[i - 1]]
    BY <1>2 DEF Contents
  <2>d. PICK d : d = Digits(l.value, 8)
    OBVIOUS
  <2>2. d \in [0 .. 8 - 1 -> Byte]
    BY <1>2, <2>d, DigitsAreBytes
  <2>3. [i \in 1 .. 8 |-> d[i - 1]] \in [1 .. 8 -> Byte]
    BY <2>2
  <2>4. [i \in 1 .. 8 |-> d[i - 1]] \in Seq(Byte)
    BY <2>3, FunctionIsSequence
  <2> QED BY <1>2, <2>1, <2>4, <2>d
<1>3. CASE l.ins = "DATA" /\ l.chars \in Seq(Byte)
  BY <1>3 DEF Contents
<1> QED BY <1>1, <1>2, <1>3 DEF ObjectLine

\* The elements of a set of places, by their number.
Upto(P, i) == {j \in P : j <= i}
\* The places of a set of places have ranks from 1 to their number, one each.
LEMMA Ranks ==
  ASSUME NEW n \in Nat, NEW P, P \subseteq 1 .. n, NEW m, m = Cardinality(P)
  PROVE  m \in Nat /\ \A k \in 1 .. m : \E i \in P : Cardinality(Upto(P, i)) = k
PROOF
<1>1. IsFiniteSet(1 .. n)
  BY FS_Interval
<1>2. IsFiniteSet(P)
  BY <1>1, FS_Subset
<1>3. m \in Nat
  BY <1>2, FS_CardinalityType
<1>4. ASSUME NEW i \in P
      PROVE  IsFiniteSet(Upto(P, i)) /\ Cardinality(Upto(P, i)) \in 1 .. m
  <2>1. Upto(P, i) \in SUBSET P /\ i \in Upto(P, i)
    BY DEF Upto
  <2>2. IsFiniteSet(Upto(P, i)) /\ Cardinality(Upto(P, i)) <= m
    BY <1>2, <2>1, FS_Subset
  <2>3. Cardinality(Upto(P, i)) \in Nat /\ Cardinality(Upto(P, i)) # 0
    BY <2>1, <2>2, FS_CardinalityType, FS_EmptySet
  <2> QED BY <1>3, <2>2, <2>3
<1>5. ASSUME NEW i \in P, NEW j \in P, i < j PROVE Cardinality(Upto(P, i)) # Cardinality(Upto(P, j))
  <2>0. \A h \in P : h <= i => h <= j
    BY <1>5
  <2>1. Upto(P, i) \in SUBSET Upto(P, j)
    BY <2>0 DEF Upto
  <2>2. j \in Upto(P, j) /\ j \notin Upto(P, i)
    BY <1>5 DEF Upto
  <2> QED BY <1>4, <2>1, <2>2, FS_Subset
<1> DEFINE rank == [i \in P |-> Cardinality(Upto(P, i))]
<1>6. rank \in Injection(P, 1 .. m)
  <2>1. rank \in [P -> 1 .. m]
    BY <1>4
  <2>2. ASSUME NEW i \in P, NEW j \in P, rank[i] = rank[j] PROVE i = j
    <3>1. i \in Int /\ j \in Int
      OBVIOUS
    <3>2. Cardinality(Upto(P, i)) = Cardinality(Upto(P, j))
      BY <2>2
    <3>3. ~(i < j) /\ ~(j < i)
      BY <1>5, <3>2
    <3> QED BY <3>1, <3>3
  <2> QED BY <2>1, <2>2 DEF Injection, IsInjective
<1>7. IsFiniteSet(1 .. m) /\ Cardinality(1 .. m) = m
  BY <1>3, FS_Interval
<1>8. rank \in Surjection(P, 1 .. m)
  BY <1>6, <1>7, FS_Injection
<1>9. \A k \in 1 .. m : \E i \in P : rank[i] = k
  BY <1>8 DEF Surjection
<1> QED BY <1>3, <1>9

LEMMA RankIsOne ==
  ASSUME NEW n \in Nat, NEW P, P \subseteq 1 .. n, NEW i \in P, NEW j \in P,
         Cardinality(Upto(P, i)) = Cardinality(Upto(P, j))
  PROVE  i = j
PROOF
<1>1. IsFiniteSet(1 .. n)
  BY FS_Interval
<1>2. IsFiniteSet(P)
  BY <1>1, FS_Subset
<1>3. ASSUME NEW x \in P, NEW y \in P, x < y PROVE Cardinality(Upto(P, x)) # Cardinality(Upto(P, y))
  <2>0. \A h \in P : h <= x => h <= y
    BY <1>3
  <2>1. Upto(P, x) \in SUBSET Upto(P, y) /\ Upto(P, y) \in SUBSET P
    BY <2>0 DEF Upto
  <2>2. y \in Upto(P, y) /\ y \notin Upto(P, x)
    BY <1>3 DEF Upto
  <2>3. IsFiniteSet(Upto(P, y))
    BY <1>2, <2>1, FS_Subset
  <2> QED BY <2>1, <2>2, <2>3, FS_Subset
<1>4. i \in Int /\ j \in Int
  OBVIOUS
<1> QED BY <1>3, <1>4

\* The objects are the lines of the kinds.
LEMMA ObjectsOfAre ==
  ASSUME NEW file, IsSeq(file), NEW kinds, NEW o, o = ObjectsOf(file, kinds), NEW n, n = Len(file)
  PROVE  /\ IsSeq(o)
         /\ \A k \in DOMAIN o : \E i \in 1 .. n : o[k] = file[i] /\ file[i].ins \in kinds
         /\ \A i \in 1 .. n : file[i].ins \in kinds => \E k \in DOMAIN o : o[k] = file[i]
PROOF
<1>1. DOMAIN file = 1 .. n /\ n \in Nat
  BY SeqDomain
<1>p. PICK P : P = {i \in DOMAIN file : file[i].ins \in kinds}
  OBVIOUS
<1>m. PICK m : m = Cardinality(P)
  OBVIOUS
<1>2. P \subseteq 1 .. n
  BY <1>1, <1>p
<1>3. m \in Nat /\ \A k \in 1 .. m : \E i \in P : Cardinality(Upto(P, i)) = k
  BY <1>1, <1>2, <1>m, Ranks
<1> DEFINE PlaceOf(k) == CHOOSE i \in P : Cardinality(Upto(P, i)) = k
<1>4. o = [k \in 1 .. m |-> file[PlaceOf(k)]]
  BY <1>p, <1>m DEF ObjectsOf, Upto
<1>5. \A k \in 1 .. m : PlaceOf(k) \in P /\ Cardinality(Upto(P, PlaceOf(k))) = k
  BY <1>3
<1> HIDE DEF PlaceOf
<1>6. DOMAIN o = 1 .. m /\ \A k \in 1 .. m : o[k] = file[PlaceOf(k)]
  BY <1>4
<1>7. IsSeq(o)
  <2>1. o \in [1 .. m -> {o[k] : k \in 1 .. m}]
    BY <1>4
  <2> QED BY <1>3, <2>1, FunctionIsSequence DEF IsSeq
<1>8. \A k \in DOMAIN o : \E i \in 1 .. n : o[k] = file[i] /\ file[i].ins \in kinds
  BY <1>1, <1>5, <1>6, <1>p
<1>9. ASSUME NEW i \in 1 .. n, file[i].ins \in kinds PROVE \E k \in DOMAIN o : o[k] = file[i]
  <2>1. i \in P
    BY <1>1, <1>9, <1>p
  <2>2. PICK k : k = Cardinality(Upto(P, i))
    OBVIOUS
  <2>3. k \in 1 .. m
    <3>0. IsFiniteSet(1 .. n)
      BY <1>1, FS_Interval
    <3>1. IsFiniteSet(P)
      BY <1>2, <3>0, FS_Subset
    <3>2. Upto(P, i) \in SUBSET P /\ i \in Upto(P, i)
      BY <1>2, <2>1 DEF Upto
    <3>3. IsFiniteSet(Upto(P, i)) /\ Cardinality(Upto(P, i)) <= m
      BY <3>1, <3>2, <1>m, FS_Subset
    <3>4. k \in Nat /\ k # 0
      BY <2>2, <3>2, <3>3, FS_CardinalityType, FS_EmptySet
    <3> QED BY <1>3, <2>2, <3>3, <3>4
  <2>4. PICK j : j = PlaceOf(k)
    OBVIOUS
  <2>5. j \in P /\ Cardinality(Upto(P, j)) = k
    BY <1>5, <2>3, <2>4
  <2>6. i = j
    BY <1>1, <1>2, <2>1, <2>2, <2>5, RankIsOne
  <2> QED BY <1>6, <2>3, <2>4, <2>6
<1> QED BY <1>7, <1>8, <1>9

ObjectKinds == {"QUAD", "DATA", "LCOMM"}
ObjectFile(file) == IsSeq(file) /\ \A i \in 1 .. Len(file) : file[i].ins \in ObjectKinds => ObjectLine(file[i])

\* The linker places every object of the file, and nothing else.
LEMMA ObjectsAre ==
  ASSUME NEW file, ObjectFile(file), NEW o, o = Objects(file), NEW n, n = Len(file)
  PROVE  /\ IsSeq(o)
         /\ \A k \in DOMAIN o : ObjectLine(o[k]) /\ \E i \in 1 .. n : o[k] = file[i] /\ file[i].ins \in ObjectKinds
         /\ \A i \in 1 .. n : file[i].ins \in ObjectKinds => \E k \in DOMAIN o : o[k] = file[i]
PROOF
<1>a. PICK a : a = ObjectsOf(file, {"QUAD", "DATA"})
  OBVIOUS
<1>b. PICK b : b = ObjectsOf(file, {"LCOMM"})
  OBVIOUS
<1>1. /\ IsSeq(a)
      /\ \A k \in DOMAIN a : \E i \in 1 .. n : a[k] = file[i] /\ file[i].ins \in {"QUAD", "DATA"}
      /\ \A i \in 1 .. n : file[i].ins \in {"QUAD", "DATA"} => \E k \in DOMAIN a : a[k] = file[i]
  BY <1>a, ObjectsOfAre DEF ObjectFile
<1>2. /\ IsSeq(b)
      /\ \A k \in DOMAIN b : \E i \in 1 .. n : b[k] = file[i] /\ file[i].ins \in {"LCOMM"}
      /\ \A i \in 1 .. n : file[i].ins \in {"LCOMM"} => \E k \in DOMAIN b : b[k] = file[i]
  BY <1>b, ObjectsOfAre DEF ObjectFile
<1>3. o = a \o b
  BY <1>a, <1>b DEF Objects
<1>4. IsSeq(o) /\ ToSet(o) = ToSet(a) \cup ToSet(b)
  BY <1>1, <1>2, <1>3, ConcatElems
<1>5. ASSUME NEW k \in DOMAIN o PROVE \E i \in 1 .. n : o[k] = file[i] /\ file[i].ins \in ObjectKinds
  <2>1. PICK x : x = o[k]
    OBVIOUS
  <2>2. x \in ToSet(a) \/ x \in ToSet(b)
    BY <1>4, <2>1 DEF ToSet
  <2>3. CASE x \in ToSet(a)
    BY <1>1, <2>1, <2>3 DEF ToSet, ObjectKinds
  <2>4. CASE x \in ToSet(b)
    BY <1>2, <2>1, <2>4 DEF ToSet, ObjectKinds
  <2> QED BY <2>2, <2>3, <2>4
<1>6. ASSUME NEW i \in 1 .. n, file[i].ins \in ObjectKinds PROVE \E k \in DOMAIN o : o[k] = file[i]
  <2>1. file[i] \in ToSet(a) \cup ToSet(b)
    BY <1>1, <1>2, <1>6 DEF ToSet, ObjectKinds
  <2> QED BY <1>4, <2>1 DEF ToSet
<1>7. \A k \in DOMAIN o : ObjectLine(o[k])
  BY <1>5 DEF ObjectFile
<1> QED BY <1>4, <1>5, <1>6, <1>7

\* The bytes of a sequence of objects.
ObjectSeq(o) == IsSeq(o) /\ \A k \in DOMAIN o : ObjectLine(o[k])
Mapping(o) == [k \in DOMAIN o |-> Contents(o[k])]

\* The bytes of all objects, one object after the other.
LEMMA BytesOf ==
  ASSUME NEW o, ObjectSeq(o)
  PROVE  /\ Mapping(o) \in Seq(Seq(Byte)) /\ Len(Mapping(o)) = Len(o) /\ Len(o) \in Nat
         /\ DataBytes(o) = FlattenSeq(Mapping(o)) /\ DataBytes(o) \in Seq(Byte)
PROOF
<1>n. PICK n : n = Len(o)
  OBVIOUS
<1>1. DOMAIN o = 1 .. n /\ n \in Nat
  BY <1>n, SeqDomain DEF ObjectSeq
<1>2. Mapping(o) \in [1 .. n -> Seq(Byte)]
  BY <1>1, ContentsType DEF Mapping, ObjectSeq
<1>3. Mapping(o) \in Seq(Seq(Byte)) /\ Len(Mapping(o)) = n
  BY <1>1, <1>2, FunctionIsSequence
<1>4. DataBytes(o) = FlattenSeq(Mapping(o))
  BY DEF DataBytes, Mapping
<1> QED BY <1>1, <1>3, <1>4, <1>n, FlattenInSeq

\* The first objects, and the bytes before and after one.
LEMMA ObjectBytes ==
  ASSUME NEW o, ObjectSeq(o), NEW k \in DOMAIN o, NEW first, first = SubSeq(o, 1, k - 1)
  PROVE  /\ DataBytes(first) \in Seq(Byte)
         /\ Len(DataBytes(first)) + Len(Contents(o[k])) <= Len(DataBytes(o))
PROOF
<1>n. PICK n : n = Len(o)
  OBVIOUS
<1>u. PICK u : u = Mapping(o)
  OBVIOUS
<1>h. PICK h : h = k - 1
  OBVIOUS
<1>1. DOMAIN o = 1 .. n /\ n \in Nat
  BY <1>n, SeqDomain DEF ObjectSeq
<1>2. u \in Seq(Seq(Byte)) /\ Len(u) = n /\ DataBytes(o) = FlattenSeq(u)
  BY <1>n, <1>u, BytesOf
<1>3. h \in 0 .. n /\ k = h + 1 /\ k \in 1 .. n
  BY <1>1, <1>h
<1>4. PICK S : o \in Seq(S)
  BY DEF ObjectSeq, IsSeq
<1>5. first \in Seq(S) /\ Len(first) = h /\ \A i \in 1 .. h : first[i] = o[i]
  BY <1>3, <1>4, <1>h, <1>n, FirstElements
<1>6. DOMAIN first = 1 .. h
  BY <1>5, LenProperties
<1>7. ObjectSeq(first)
  <2>1. \A i \in 1 .. h : i \in DOMAIN o /\ first[i] = o[i]
    BY <1>1, <1>3, <1>5
  <2>2. \A i \in DOMAIN first : ObjectLine(first[i])
    BY <1>6, <2>1 DEF ObjectSeq
  <2> QED BY <1>5, <2>2 DEF ObjectSeq, IsSeq
<1>8. DataBytes(first) = FlattenSeq(Mapping(first)) /\ DataBytes(first) \in Seq(Byte)
      /\ Mapping(first) \in Seq(Seq(Byte)) /\ Len(Mapping(first)) = h
  BY <1>5, <1>7, BytesOf
<1>v. PICK v : v = SubSeq(u, 1, h)
  OBVIOUS
<1>w. PICK w : w = SubSeq(u, h + 1, Len(u))
  OBVIOUS
<1>9. /\ v \in Seq(Seq(Byte)) /\ w \in Seq(Seq(Byte)) /\ Len(v) = h /\ Len(w) = n - h
      /\ \A i \in 1 .. h : v[i] = u[i]
      /\ \A i \in 1 .. n - h : w[i] = u[h + i]
      /\ u = v \o w
  <2>1. h \in 0 .. Len(u)
    BY <1>2, <1>3
  <2>2. /\ v \in Seq(Seq(Byte)) /\ w \in Seq(Seq(Byte)) /\ Len(v) = h /\ Len(w) = Len(u) - h
        /\ \A i \in 1 .. h : v[i] = u[i]
        /\ \A i \in 1 .. Len(u) - h : w[i] = u[h + i]
        /\ u = v \o w
    BY <1>2, <1>v, <1>w, <2>1, Cut, ZenonT(60)
  <2> QED BY <1>2, <2>2
<1>10. v = Mapping(first)
  <2>1. DOMAIN v = 1 .. h /\ v = [i \in 1 .. h |-> v[i]]
    BY <1>9, LenProperties
  <2>2. \A i \in 1 .. h : v[i] = Contents(first[i])
    <3> SUFFICES ASSUME NEW i \in 1 .. h PROVE v[i] = Contents(first[i])
      OBVIOUS
    <3>1. i \in DOMAIN o /\ first[i] = o[i] /\ v[i] = u[i]
      BY <1>1, <1>3, <1>5, <1>9
    <3>2. u[i] = Contents(o[i])
      BY <3>1, <1>u DEF Mapping
    <3> QED BY <3>1, <3>2
  <2> QED BY <2>1, <2>2, <1>6 DEF Mapping
<1>11. w[1] = Contents(o[k])
  <2>1. 1 \in 1 .. n - h
    BY <1>1, <1>3
  <2>2. w[1] = u[h + 1]
    BY <1>9, <2>1
  <2> QED BY <1>1, <1>3, <2>2, <1>u DEF Mapping
<1>x. PICK x : x = Contents(o[k])
  OBVIOUS
<1>12. x \in Seq(Byte)
  BY <1>x, ContentsType DEF ObjectSeq
<1>y. PICK y : y = SubSeq(w, 1 + 1, Len(w))
  OBVIOUS
<1>13. /\ SubSeq(w, 1, 1) \in Seq(Seq(Byte)) /\ Len(SubSeq(w, 1, 1)) = 1 /\ SubSeq(w, 1, 1)[1] = x
       /\ y \in Seq(Seq(Byte)) /\ w = SubSeq(w, 1, 1) \o y
  <2>1. 1 \in 0 .. Len(w)
    BY <1>1, <1>3, <1>9
  <2> QED BY <1>9, <1>11, <1>x, <1>y, <2>1, Cut
<1>14. SubSeq(w, 1, 1) = <<x>>
  <2>1. PICK z : z = SubSeq(w, 1, 1)
    OBVIOUS
  <2>2. z \in Seq(Seq(Byte)) /\ Len(z) = 1 /\ z[1] = x
    BY <1>13, <2>1
  <2>3. z = [i \in 1 .. 1 |-> z[i]]
    BY <2>2, LenProperties
  <2>4. z = <<x>>
    BY <2>2, <2>3
  <2> QED BY <2>1, <2>4
<1>15. FlattenSeq(w) = x \o FlattenSeq(y)
  <2>1. <<x>> \in Seq(Seq(Byte))
    BY <1>12
  <2>2. FlattenSeq(w) = FlattenSeq(<<x>>) \o FlattenSeq(y)
    BY <1>13, <1>14, <2>1, FlattenConcat
  <2> QED BY <1>12, <2>2, FlattenOne
<1>16. DataBytes(o) = DataBytes(first) \o FlattenSeq(w)
  <2>1. v \in Seq(Seq(Byte)) /\ w \in Seq(Seq(Byte)) /\ u = v \o w
    BY <1>9
  <2>2. FlattenSeq(v \o w) = FlattenSeq(v) \o FlattenSeq(w)
    BY <2>1, FlattenConcat
  <2> QED BY <1>2, <1>8, <1>10, <2>1, <2>2
<1>17. FlattenSeq(y) \in Seq(Byte) /\ FlattenSeq(w) \in Seq(Byte)
  BY <1>9, <1>13, FlattenInSeq
<1>18. \A c, d \in Seq(Byte) : Len(c \o d) = Len(c) + Len(d) /\ Len(c) \in Nat /\ Len(d) \in Nat
  BY LenProperties, ConcatProperties
<1>19. /\ Len(DataBytes(o)) = Len(DataBytes(first)) + Len(FlattenSeq(w))
       /\ Len(FlattenSeq(w)) = Len(x) + Len(FlattenSeq(y))
       /\ Len(FlattenSeq(y)) \in Nat /\ Len(x) \in Nat /\ Len(DataBytes(first)) \in Nat
  BY <1>8, <1>12, <1>15, <1>16, <1>17, <1>18
<1> QED BY <1>8, <1>19, <1>x

\* Where the linker puts labels.
LEMMA BaseType ==
  ASSUME NEW o, ObjectSeq(o), NEW k \in DOMAIN o
  PROVE  /\ Base(o, k) \in Nat
         /\ Base(o, k) >= DataStart
         /\ Base(o, k) + Len(Contents(o[k])) <= DataStart + Len(DataBytes(o))
PROOF
<1>f. PICK f : f = SubSeq(o, 1, k - 1)
  OBVIOUS
<1>1. DataBytes(f) \in Seq(Byte) /\ Len(DataBytes(f)) + Len(Contents(o[k])) <= Len(DataBytes(o))
  BY <1>f, ObjectBytes
<1>2. Base(o, k) = DataStart + Len(DataBytes(f))
  BY <1>f DEF Base
<1>3. Len(DataBytes(f)) \in Nat
  BY <1>1, LenProperties
<1>4. Contents(o[k]) \in Seq(Byte) /\ DataBytes(o) \in Seq(Byte)
  BY ContentsType, BytesOf DEF ObjectSeq
<1>5. Len(Contents(o[k])) \in Nat /\ Len(DataBytes(o)) \in Nat
  BY <1>4, LenProperties
<1> QED BY <1>1, <1>2, <1>3, <1>5 DEF DataStart

\* Every label has an address or a place in the text.
LEMMA SymbolsAre ==
  ASSUME NEW file, ObjectFile(file), NEW o, o = Objects(file), NEW table, table = SymbolTable(file, o)
  PROVE  DOMAIN table = Defined(file) /\ \A l \in DOMAIN table : table[l] \in Nat
PROOF
<1>n. PICK n : n = Len(file)
  OBVIOUS
<1>1. DOMAIN file = 1 .. n /\ n \in Nat
  BY <1>n, SeqDomain DEF ObjectFile
<1>2. /\ IsSeq(o) /\ \A k \in DOMAIN o : ObjectLine(o[k])
      /\ \A i \in 1 .. n : file[i].ins \in ObjectKinds => \E k \in DOMAIN o : o[k] = file[i]
  BY <1>n, ObjectsAre
<1>3. ObjectSeq(o)
  BY <1>2 DEF ObjectSeq
<1>4. DOMAIN table = Defined(file)
  BY DEF SymbolTable
<1>5. ASSUME NEW l \in Defined(file) PROVE table[l] \in Nat
  <2>1. CASE \E k \in DOMAIN o : o[k].lab = l
    <3>1. PICK k : k = CHOOSE j \in DOMAIN o : o[j].lab = l
      OBVIOUS
    <3>2. k \in DOMAIN o
      BY <2>1, <3>1
    <3>3. table[l] = Base(o, k)
      BY <2>1, <3>1 DEF SymbolTable
    <3> QED BY <1>3, <3>2, <3>3, BaseType
  <2>2. CASE ~ \E k \in DOMAIN o : o[k].lab = l
    <3>1. PICK i \in Labelled(file) : file[i].lab = l
      BY DEF Defined
    <3>2. i \in 1 .. n /\ file[i].ins \notin ObjectKinds
      BY <1>1, <1>2, <2>2, <3>1 DEF Labelled
    <3>3. file[i].ins = "LABEL"
      BY <3>1, <3>2 DEF Labelled, ObjectKinds
    <3>4. table[l] = CHOOSE j \in DOMAIN file : file[j].ins = "LABEL" /\ file[j].lab = l
      BY <2>2 DEF SymbolTable
    <3>5. table[l] \in DOMAIN file
      BY <1>1, <3>1, <3>2, <3>3, <3>4
    <3> QED BY <1>1, <3>5
  <2> QED BY <2>1, <2>2
<1> QED BY <1>4, <1>5

\* The memory of a new process has the bytes of the objects.
LEMMA MemoryIs ==
  ASSUME NEW bytes \in Seq(Byte), NEW m, m = InitialMemory(bytes)
  PROVE  /\ DOMAIN m = DataStart .. DataStart + Len(bytes) - 1
         /\ \A a \in DOMAIN m : m[a] \in Byte
PROOF
<1>n. PICK n : n = Len(bytes)
  OBVIOUS
<1>1. n \in Nat /\ \A i \in 1 .. n : bytes[i] \in Byte
  BY <1>n, LenProperties, ElementOfSeq
<1>2. m = [a \in DataStart .. DataStart + n - 1 |-> bytes[a - DataStart + 1]]
  BY <1>n DEF InitialMemory
<1>3. ASSUME NEW a \in DataStart .. DataStart + n - 1 PROVE m[a] \in Byte
  <2>1. PICK i : i = a - DataStart + 1
    OBVIOUS
  <2>2. i \in 1 .. n
    BY <1>1, <2>1 DEF DataStart
  <2> QED BY <1>1, <1>2, <2>1, <2>2
<1> QED BY <1>2, <1>3, <1>n

CallStackLabel == <<"call", "stack">>

\* The return places have their bytes.
LEMMA CallStackPlaced ==
  ASSUME NEW file, ObjectFile(file), Len(file) >= 1, file[1] = FirstSegment, DefinedOnce(file),
         NEW o, o = Objects(file), NEW table, table = SymbolTable(file, o),
         NEW m, m = InitialMemory(DataBytes(o))
  PROVE  /\ CallStackLabel \in DOMAIN table
         /\ \A a \in table[CallStackLabel] .. table[CallStackLabel] + CallStackBytes - 1 : a \in DOMAIN m
PROOF
<1>n. PICK n : n = Len(file)
  OBVIOUS
<1>1. DOMAIN file = 1 .. n /\ n \in Nat /\ 1 \in 1 .. n
  BY <1>n, SeqDomain DEF ObjectFile
<1>2. /\ IsSeq(o)
      /\ \A k \in DOMAIN o : ObjectLine(o[k]) /\ \E i \in 1 .. n : o[k] = file[i] /\ file[i].ins \in ObjectKinds
      /\ \A i \in 1 .. n : file[i].ins \in ObjectKinds => \E k \in DOMAIN o : o[k] = file[i]
  BY <1>n, ObjectsAre
<1>3. ObjectSeq(o)
  BY <1>2 DEF ObjectSeq
<1>s. PICK s : s = CallStackLabel
  OBVIOUS
<1>4. file[1].ins = "LCOMM" /\ file[1].lab = s /\ file[1].size = CallStackBytes
  BY <1>s DEF FirstSegment, Lcomm, CallStackLabel
<1>5. \A i \in 1 .. n : file[i].ins \in ObjectKinds /\ file[i].lab = s => i = 1
  BY <1>1, <1>4 DEF DefinedOnce, Labelled, ObjectKinds
<1>6. \E k \in DOMAIN o : o[k].lab = s
  <2>1. file[1].ins \in ObjectKinds
    BY <1>4 DEF ObjectKinds
  <2> QED BY <1>1, <1>2, <1>4, <2>1
<1>7. PICK k : k = CHOOSE j \in DOMAIN o : o[j].lab = s
  OBVIOUS
<1>8. k \in DOMAIN o /\ o[k].lab = s
  BY <1>6, <1>7
<1>9. o[k] = file[1]
  BY <1>2, <1>5, <1>8
<1>10. s \in Defined(file) /\ DOMAIN table = Defined(file)
  <2>1. 1 \in Labelled(file)
    BY <1>1, <1>4 DEF Labelled
  <2> QED BY <1>4, <2>1, SymbolsAre DEF Defined
<1>11. table[s] = Base(o, k)
  BY <1>6, <1>7, <1>10 DEF SymbolTable
<1>12. Len(Contents(o[k])) = CallStackBytes
  BY <1>2, <1>4, <1>8, <1>9, ContentsType
<1>13. /\ Base(o, k) \in Nat /\ Base(o, k) >= DataStart
       /\ Base(o, k) + CallStackBytes <= DataStart + Len(DataBytes(o))
  BY <1>3, <1>8, <1>12, BaseType
<1>14. DataBytes(o) \in Seq(Byte)
  BY <1>3, BytesOf
<1>15. DOMAIN m = DataStart .. DataStart + Len(DataBytes(o)) - 1 /\ Len(DataBytes(o)) \in Nat
  BY <1>14, MemoryIs, LenProperties
<1>b. PICK b : b = Base(o, k)
  OBVIOUS
<1>e. PICK e : e = Len(DataBytes(o))
  OBVIOUS
<1>16. \A a \in b .. b + CallStackBytes - 1 : a \in DataStart .. DataStart + e - 1
  BY <1>13, <1>15, <1>b, <1>e, CallStackAssumption DEF DataStart
<1> QED BY <1>10, <1>11, <1>15, <1>16, <1>b, <1>e, <1>s

-----------------------------------------------------------------------------
(***************************************************************************)
(* The machine keeps its registers, its stack and its memory in numbers    *)
(* that they hold.                                                         *)
(***************************************************************************)
Sound == /\ stack \in Seq(MachineWord) /\ regs \in [Regs -> Nat] /\ ip \in Nat
         /\ \A a \in DOMAIN mem : mem[a] \in Byte

\* The file has the lines that the compiler writes, and its labels have numbers.
Readable == /\ IsSeq(text) /\ Len(text) + 1 \in MachineWord
            /\ \A i \in 1 .. Len(text) : \E chars : FileLine(text[i], chars)
            /\ Addresses

Whichever == Regs \cup Transferred

\* Words are natural numbers.
LEMMA WordNumbers == MachineWord \subseteq Nat /\ 0 \in MachineWord /\ \A n \in {1, 2, 4, 8} : Values(n) \in 1 .. WordSize
PROOF
  BY WordSizeFacts, ValuesFacts DEF MachineWord

\* Registers hold natural numbers, whatever part of one is read or written.
LEMMA RegisterSizes ==
  ASSUME NEW r \in Whichever
  PROVE  SizeOf(r) \in {1, 2, 4, 8} /\ Whole(r) \in Regs /\ r # "RSP"
PROOF
  BY DEF Whichever, SizeOf, Whole, Regs, Transferred

LEMMA ReadRegType ==
  ASSUME regs \in [Regs -> Nat], NEW r \in Whichever
  PROVE  ReadReg(r) \in MachineWord
PROOF
<1>1. SizeOf(r) \in {1, 2, 4, 8} /\ Whole(r) \in Regs /\ r # "RSP"
  BY RegisterSizes
<1>v. PICK v : v = Values(SizeOf(r))
  OBVIOUS
<1>2. v \in 1 .. WordSize /\ WordSize \in Nat
  BY <1>1, <1>v, WordNumbers, WordSizeFacts
<1>x. PICK x : x = regs[Whole(r)]
  OBVIOUS
<1>3. x \in Nat
  BY <1>1, <1>x
<1>4. ReadReg(r) = x % v
  BY <1>1, <1>v, <1>x DEF ReadReg
<1>5. x % v \in 0 .. v - 1
  BY <1>2, <1>3
<1> QED BY <1>2, <1>4, <1>5 DEF MachineWord

LEMMA WriteRegType ==
  ASSUME regs \in [Regs -> Nat], NEW r \in Whichever, NEW v \in Nat
  PROVE  WriteReg(r, v) \in [Regs -> Nat]
PROOF
<1>1. SizeOf(r) \in {1, 2, 4, 8} /\ Whole(r) \in Regs
  BY RegisterSizes
<1>n. PICK n : n = Values(SizeOf(r))
  OBVIOUS
<1>2. n \in 1 .. WordSize /\ WordSize \in Nat
  BY <1>1, <1>n, WordNumbers, WordSizeFacts
<1>x. PICK x : x = regs[Whole(r)]
  OBVIOUS
<1>3. x \in Nat
  BY <1>1, <1>x
<1>4. v % n \in Nat /\ (x - (x % n)) + (v % n) \in Nat
  <2>1. x % n \in 0 .. n - 1 /\ v % n \in 0 .. n - 1
    BY <1>2, <1>3
  <2>2. x % n <= x
    <3>1. x = n * (x \div n) + (x % n) /\ x \div n \in Int
      BY <1>2, <1>3, DivModIs
    <3>2. x \div n >= 0
      BY <1>2, <1>3
    <3>3. n * (x \div n) >= 0
      BY <1>2, <3>1, <3>2
    <3>4. PICK d : d = n * (x \div n)
      OBVIOUS
    <3>5. PICK e : e = x % n
      OBVIOUS
    <3>6. d \in Int /\ d >= 0 /\ e \in Int /\ x = d + e
      <4>1. d \in Int
        BY <1>2, <3>1, <3>4
      <4> QED BY <2>1, <3>1, <3>3, <3>4, <3>5, <4>1
    <3>7. e <= x
      BY <3>6
    <3> QED BY <3>5, <3>7
  <2> QED BY <1>2, <1>3, <2>1, <2>2
<1>y. PICK y : y = (CASE r \in {"AL", "AX"} -> (x - (x % n)) + (v % n)
                      [] r = "EAX" -> v % n [] OTHER -> v)
  OBVIOUS
<1>5. WriteReg(r, v) = [regs EXCEPT ![Whole(r)] = y]
  BY <1>n, <1>x, <1>y DEF WriteReg
<1>6. y \in Nat
  BY <1>4, <1>y
<1> QED BY <1>1, <1>5, <1>6

\* What is read of a memory operand that may be used.
LEMMA SlotType ==
  ASSUME stack \in Seq(MachineWord), NEW x \in Slots, NEW n, Usable(x, n)
  PROVE  Fetch(x) \in MachineWord /\ x.v \div 8 + 1 \in 1 .. Len(stack)
PROOF
<1>1. PICK v \in Nat : x = Stk(v)
  BY DEF Slots
<1>2. x.k = "stk" /\ x.v = v
  BY <1>1 DEF Stk
<1>3. v \div 8 < Len(stack)
  BY <1>2 DEF Usable
<1>4. Len(stack) \in Nat
  BY LenProperties
<1>5. v \div 8 + 1 \in 1 .. Len(stack)
  BY <1>3, <1>4
<1>6. Fetch(x) = stack[v \div 8 + 1]
  BY <1>2 DEF Fetch, StackTop
<1>7. stack[v \div 8 + 1] \in MachineWord
  BY <1>5, ElementOfSeq
<1> QED BY <1>2, <1>5, <1>6, <1>7

\* Registers and numbers as operands.
LEMMA PlainType ==
  ASSUME regs \in [Regs -> Nat], NEW x \in Registers \cup Parted \cup Immediates
  PROVE  Fetch(x) \in MachineWord
PROOF
<1>1. CASE x \in Registers \cup Parted
  <2>1. PICK r \in Whichever : x = Reg(r)
    BY <1>1 DEF Registers, Parted, Whichever
  <2>2. x.k = "reg" /\ x.v = r
    BY <2>1 DEF Reg
  <2>3. Fetch(x) = ReadReg(r)
    BY <2>2 DEF Fetch
  <2> QED BY <2>3, ReadRegType
<1>2. CASE x \in Immediates
  <2>1. PICK v \in Int : x = Imm(v)
    BY <1>2 DEF Immediates
  <2>2. x.k = "imm" /\ x.v = v
    BY <2>1 DEF Imm
  <2>3. Fetch(x) = Wrap(v)
    BY <2>2 DEF Fetch
  <2> QED BY <2>3, WrapType
<1> QED BY <1>1, <1>2

LEMMA PlainRegister ==
  ASSUME NEW x \in Registers \cup Parted
  PROVE  x.k = "reg" /\ x.v \in Whichever
PROOF
<1>1. PICK r \in Whichever : x = Reg(r)
  BY DEF Registers, Parted, Whichever
<1> QED BY <1>1 DEF Reg

-----------------------------------------------------------------------------
\* The instructions, one after the other.
LEMMA StopSound ==
  ASSUME Sound, NEW how, Stop(how)
  PROVE  Sound' /\ DOMAIN mem' = DOMAIN mem
PROOF
  BY DEF Stop, Sound

\* The place of an instruction stays a natural number.
LEMMA AdvanceType ==
  ASSUME Sound
  PROVE  (Advance => ip' \in Nat) /\ ip + 1 \in Nat
PROOF
  BY DEF Sound, Advance, Goto

\* Each instruction keeps stack, registers and memory what they are: words,
\* numbers and bytes. One lemma for each.
LEMMA NoOpSound ==
  ASSUME Sound, NoOp
  PROVE  Sound' /\ DOMAIN mem' = DOMAIN mem
PROOF
<1>1. ip' \in Nat /\ UNCHANGED <<mem, regs, stack>>
  BY AdvanceType DEF NoOp
<1> QED BY <1>1 DEF Sound

LEMMA PushSound ==
  ASSUME Sound, TypedLine(line), Push
  PROVE  Sound' /\ DOMAIN mem' = DOMAIN mem
PROOF
<1>1. line.d \in Registers \cup Immediates
  BY DEF TypedLine, Push, Instr
<1>v. PICK v : v = Fetch(line.d)
  OBVIOUS
<1>2. v \in MachineWord
  BY <1>1, <1>v, PlainType DEF Sound
<1>3. CASE Len(stack) >= MaxStack
  BY <1>3, StopSound DEF Push
<1>4. CASE ~(Len(stack) >= MaxStack)
  <2>1. stack' = <<v>> \o stack /\ Advance /\ UNCHANGED <<mem, regs>>
    BY <1>4, <1>v DEF Push
  <2>2. stack' \in Seq(MachineWord)
    BY <1>2, <2>1, ConcatProperties DEF Sound
  <2> QED BY <2>1, <2>2, AdvanceType DEF Sound
<1> QED BY <1>3, <1>4

LEMMA PopSound ==
  ASSUME Sound, TypedLine(line), PopReg
  PROVE  Sound' /\ DOMAIN mem' = DOMAIN mem
PROOF
<1>1. line.d \in Registers
  BY DEF TypedLine, PopReg, Instr
<1>2. CASE stack = <<>>
  BY <1>2, StopSound DEF PopReg
<1>3. CASE stack # <<>>
  <2>1. /\ regs' = WriteReg(line.d.v, Head(stack)) /\ stack' = Tail(stack)
        /\ Advance /\ UNCHANGED mem
    BY <1>3 DEF PopReg
  <2>2. Head(stack) \in MachineWord /\ Tail(stack) \in Seq(MachineWord)
    BY <1>3, HeadTailProperties DEF Sound
  <2>3. line.d.v \in Whichever
    BY <1>1, PlainRegister
  <2>4. regs' \in [Regs -> Nat]
    BY <2>1, <2>2, <2>3, WriteRegType, WordNumbers DEF Sound
  <2> QED BY <2>1, <2>2, <2>4, AdvanceType DEF Sound
<1> QED BY <1>2, <1>3

LEMMA LeaSound ==
  ASSUME Sound, Readable, ip \in DOMAIN text, TypedLine(line), Lea
  PROVE  Sound' /\ DOMAIN mem' = DOMAIN mem
PROOF
<1>1. line.ins = "LEA" /\ line.d \in Registers /\ line.s = Lab(line.s.v)
  BY DEF TypedLine, Lea, Instr
<1>2. regs' = WriteReg(line.d.v, Fetch(line.s)) /\ Advance /\ UNCHANGED <<mem, stack>>
  BY DEF Lea
<1>3. Fetch(line.s) = symbols[line.s.v]
  <2>1. line.s.k = "lab"
    BY <1>1 DEF Lab
  <2> QED BY <2>1 DEF Fetch
<1>4. line.s.v \in Used(text)
  BY <1>1 DEF Used, line
<1>5. Fetch(line.s) \in Nat
  BY <1>3, <1>4, WordNumbers DEF Readable, Addresses
<1>6. line.d.v \in Whichever
  BY <1>1, PlainRegister
<1>7. regs' \in [Regs -> Nat]
  BY <1>2, <1>5, <1>6, WriteRegType DEF Sound
<1> QED BY <1>2, <1>7, AdvanceType DEF Sound

LEMMA JumpSound ==
  ASSUME Sound, Readable, ip \in DOMAIN text, TypedLine(line), Jump
  PROVE  Sound' /\ DOMAIN mem' = DOMAIN mem
PROOF
<1>1. line.ins \in {"JMP", "JE"} /\ line.d = Lab(line.d.v)
  BY DEF TypedLine, Jump
<1>2. Fetch(line.d) = symbols[line.d.v]
  <2>1. line.d.k = "lab"
    BY <1>1 DEF Lab
  <2> QED BY <2>1 DEF Fetch
<1>3. line.d.v \in Used(text)
  BY <1>1 DEF Used, line
<1>4. Fetch(line.d) \in Nat
  BY <1>2, <1>3, WordNumbers DEF Readable, Addresses
<1>5. (Advance \/ Goto(Fetch(line.d))) /\ UNCHANGED <<mem, regs, stack>>
  BY DEF Jump
<1>6. ip' \in Nat
  BY <1>4, <1>5, AdvanceType DEF Goto
<1> QED BY <1>5, <1>6 DEF Sound

LEMMA CallSound ==
  ASSUME Sound, Readable, ip \in DOMAIN text, TypedLine(line), CallFunction
  PROVE  Sound' /\ DOMAIN mem' = DOMAIN mem
PROOF
<1>1. line.ins = "CALL" /\ line.d = Lab(line.d.v)
  BY DEF TypedLine, CallFunction, Instr
<1>2. Fetch(line.d) = symbols[line.d.v]
  <2>1. line.d.k = "lab"
    BY <1>1 DEF Lab
  <2> QED BY <2>1 DEF Fetch
<1>3. line.d.v \in Used(text)
  BY <1>1 DEF Used, line
<1>4. Fetch(line.d) \in Nat
  BY <1>2, <1>3, WordNumbers DEF Readable, Addresses
<1>5. ip + 1 \in MachineWord
  <2>n. PICK n : n = Len(text)
    OBVIOUS
  <2>1. DOMAIN text = 1 .. n /\ n \in Nat
    BY <2>n, SeqDomain DEF Readable
  <2>2. n + 1 \in MachineWord
    BY <2>n DEF Readable
  <2>3. ip \in 1 .. n /\ WordSize \in Nat
    BY <2>1, WordSizeFacts
  <2> QED BY <2>1, <2>2, <2>3 DEF MachineWord
<1>6. CASE Len(stack) >= MaxStack
  BY <1>6, StopSound DEF CallFunction
<1>7. CASE ~(Len(stack) >= MaxStack)
  <2>1. stack' = <<ip + 1>> \o stack /\ Goto(Fetch(line.d)) /\ UNCHANGED <<mem, regs>>
    BY <1>7 DEF CallFunction
  <2>2. stack' \in Seq(MachineWord)
    BY <1>5, <2>1, ConcatProperties DEF Sound
  <2> QED BY <1>4, <2>1, <2>2 DEF Sound, Goto
<1> QED BY <1>6, <1>7

LEMMA RetSound ==
  ASSUME Sound, Ret
  PROVE  Sound' /\ DOMAIN mem' = DOMAIN mem
PROOF
<1>1. CASE stack = <<>> \/ Head(stack) \notin DOMAIN text
  BY <1>1, StopSound DEF Ret
<1>2. CASE ~(stack = <<>> \/ Head(stack) \notin DOMAIN text)
  <2>1. Goto(Head(stack)) /\ stack' = Tail(stack) /\ UNCHANGED <<mem, regs>>
    BY <1>2 DEF Ret
  <2>2. Head(stack) \in MachineWord /\ Tail(stack) \in Seq(MachineWord)
    BY <1>2, HeadTailProperties DEF Sound
  <2>3. ip' \in Nat
    BY <2>1, <2>2, WordNumbers DEF Goto
  <2> QED BY <2>1, <2>2, <2>3 DEF Sound
<1> QED BY <1>1, <1>2

\* A store changes bytes to bytes.
LEMMA StoreType ==
  ASSUME NEW m, \A a \in DOMAIN m : m[a] \in Byte, DOMAIN m \subseteq Int, NEW a \in Int, NEW v \in Int, NEW n \in Nat,
         NEW s, s = Store(m, a, v, n)
  PROVE  DOMAIN s = DOMAIN m /\ \A b \in DOMAIN s : s[b] \in Byte
PROOF
<1>d. PICK d : d = Digits(v, n)
  OBVIOUS
<1>1. d \in [0 .. n - 1 -> Byte]
  BY <1>d, DigitsAreBytes
<1>2. s = [b \in DOMAIN m |-> IF b \in a .. a + n - 1 THEN d[b - a] ELSE m[b]]
  BY <1>d DEF Store
<1>3. ASSUME NEW b \in DOMAIN m PROVE s[b] \in Byte
  <2>1. b \in a .. a + n - 1 => b - a \in 0 .. n - 1
    OBVIOUS
  <2> QED BY <1>1, <1>2, <2>1
<1> QED BY <1>2, <1>3

MemoryShape == DOMAIN mem \subseteq Int

LEMMA MovSound ==
  ASSUME Sound, MemoryShape, TypedLine(line), Mov
  PROVE  Sound' /\ DOMAIN mem' = DOMAIN mem
PROOF
<1>1. TypedMove(line)
  BY DEF TypedLine, Mov, Instr
<1>2. CASE ~(Usable(line.d, Width) /\ Usable(line.s, Width))
  BY <1>2, StopSound DEF Mov
<1>3. CASE Usable(line.d, Width) /\ Usable(line.s, Width)
  <2>1. /\ regs' = IF line.d.k = "reg" THEN WriteReg(line.d.v, Fetch(line.s)) ELSE regs
        /\ mem' = IF line.d.k = "ptr"
                  THEN Store(mem, ReadReg(line.d.v), Fetch(line.s), Width) ELSE mem
        /\ stack' = IF line.d.k = "stk"
                    THEN [stack EXCEPT ![line.d.v \div 8 + 1] = Fetch(line.s)]
                    ELSE stack
        /\ Advance
    BY <1>3 DEF Mov
  <2>2. ip' \in Nat
    BY <2>1, AdvanceType
  <2>3. CASE line.d \in Registers \cup Parted
    <3>1. line.d.k = "reg" /\ line.d.v \in Whichever
      BY <2>3, PlainRegister
    <3>2. mem' = mem /\ stack' = stack /\ regs' = WriteReg(line.d.v, Fetch(line.s))
      BY <2>1, <3>1
    <3>3. Fetch(line.s) \in Nat
      <4>1. CASE line.s \in Registers \cup Parted \cup Immediates
        BY <4>1, PlainType, WordNumbers DEF Sound
      <4>2. CASE line.s \in Slots
        BY <1>3, <4>2, SlotType, WordNumbers DEF Sound
      <4>3. CASE line.s \in Pointers
        <5>1. PICK r \in Regs : line.s = Ptr(r)
          BY <4>3 DEF Pointers
        <5>2. line.s.k = "ptr" /\ line.s.v = r
          BY <5>1 DEF Ptr
        <5>n. PICK n : n = SizeOf(line.d.v)
          OBVIOUS
        <5>a. PICK a : a = ReadReg(r)
          OBVIOUS
        <5>3. Width = n
          BY <3>1, <5>2, <5>n DEF Width
        <5>4. Mapped(mem, a, n)
          BY <1>3, <5>2, <5>3, <5>a DEF Usable
        <5>5. n \in Nat
          BY <3>1, <5>n, RegisterSizes
        <5>6. Fetch(line.s) = Load(mem, a, n)
          BY <5>2, <5>n, <5>a DEF Fetch
        <5>7. \A i \in 0 .. n - 1 : mem[a + i] \in Byte
          BY <5>4 DEF Mapped, Sound
        <5> QED BY <5>5, <5>6, <5>7, LoadType, WordNumbers
      <4>4. CASE line.s = Reg("RSP")
        <5>1. line.s.k = "reg" /\ line.s.v = "RSP"
          BY <4>4 DEF Reg
        <5>2. Fetch(line.s) = Len(stack)
          BY <5>1 DEF Fetch, ReadReg
        <5> QED BY <5>2, LenProperties DEF Sound
      <4>5. line.s \in Registers \cup Parted \cup Immediates \cup Slots \cup Pointers \cup {Reg("RSP")}
        <5>1. line.d \notin Slots \cup Pointers
          BY <3>1 DEF Slots, Pointers, Stk, Ptr
        <5> QED BY <1>1, <5>1 DEF TypedMove
      <4> QED BY <4>1, <4>2, <4>3, <4>4, <4>5
    <3>4. regs' \in [Regs -> Nat]
      BY <3>1, <3>2, <3>3, WriteRegType DEF Sound
    <3> QED BY <2>2, <3>2, <3>4 DEF Sound
  <2>4. CASE line.d \in Slots /\ line.s \in Registers \cup Parted
    <3>1. PICK k \in Nat : line.d = Stk(k)
      BY <2>4 DEF Slots
    <3>2. line.d.k = "stk" /\ line.d.v = k
      BY <3>1 DEF Stk
    <3>v. PICK v : v = Fetch(line.s)
      OBVIOUS
    <3>3. mem' = mem /\ regs' = regs /\ stack' = [stack EXCEPT ![k \div 8 + 1] = v]
      BY <2>1, <3>2, <3>v
    <3>4. v \in MachineWord
      BY <2>4, <3>v, PlainType DEF Sound
    <3>5. k \div 8 + 1 \in 1 .. Len(stack)
      BY <1>3, <2>4, <3>2, SlotType DEF Sound
    <3>i. PICK i : i = k \div 8 + 1
      OBVIOUS
    <3>6. stack' \in Seq(MachineWord)
      BY <3>3, <3>4, <3>5, <3>i, ExceptSeq DEF Sound
    <3> QED BY <2>2, <3>3, <3>6 DEF Sound
  <2>5. CASE line.d \in Pointers /\ line.s \in Registers \cup Parted
    <3>1. PICK r \in Regs : line.d = Ptr(r)
      BY <2>5 DEF Pointers
    <3>2. line.d.k = "ptr" /\ line.d.v = r
      BY <3>1 DEF Ptr
    <3>v. PICK v : v = Fetch(line.s)
      OBVIOUS
    <3>n. PICK n : n = Width
      OBVIOUS
    <3>a. PICK a : a = ReadReg(r)
      OBVIOUS
    <3>3. mem' = Store(mem, a, v, n) /\ regs' = regs /\ stack' = stack
      BY <2>1, <3>2, <3>v, <3>n, <3>a
    <3>4. v \in Int /\ a \in Int
      <4>1. v \in MachineWord
        BY <2>5, <3>v, PlainType DEF Sound
      <4>2. a \in MachineWord
        BY <3>a, ReadRegType DEF Sound, Whichever
      <4> QED BY <4>1, <4>2, WordNumbers
    <3>5. n \in Nat
      <4>1. line.s.k = "reg" /\ line.s.v \in Whichever
        BY <2>5, PlainRegister
      <4> QED BY <3>n, <4>1, RegisterSizes DEF Width
    <3>6. DOMAIN mem' = DOMAIN mem /\ \A b \in DOMAIN mem' : mem'[b] \in Byte
      BY <3>3, <3>4, <3>5, StoreType DEF Sound, MemoryShape
    <3> QED BY <2>2, <3>3, <3>6 DEF Sound
  <2> QED BY <1>1, <2>3, <2>4, <2>5 DEF TypedMove
<1> QED BY <1>2, <1>3

LEMMA AluSound ==
  ASSUME Sound, TypedLine(line), Alu
  PROVE  Sound' /\ DOMAIN mem' = DOMAIN mem
PROOF
<1>1. TypedSum(line)
  BY DEF TypedLine, Alu
<1>b. PICK b : b = Fetch(line.s)
  OBVIOUS
<1>2. b \in MachineWord
  BY <1>1, <1>b, PlainType DEF TypedSum, Sound
<1>3. Advance /\ UNCHANGED mem
  BY DEF Alu
<1>4. CASE line.d = Reg("RSP")
  <2>1. line.d.v = "RSP"
    BY <1>4 DEF Reg
  <2>2. stack' = SubSeq(stack, b \div 8 + 1, Len(stack)) /\ UNCHANGED regs
    BY <2>1, <1>b DEF Alu
  <2>3. stack' \in Seq(MachineWord)
    <3>n. PICK n : n = Len(stack)
      OBVIOUS
    <3>k. PICK k : k = b \div 8 + 1
      OBVIOUS
    <3>1. n \in Nat /\ \A i \in 1 .. n : stack[i] \in MachineWord
      BY <3>n, LenProperties, ElementOfSeq DEF Sound
    <3>2. k \in Nat /\ k >= 1
      <4>1. b \in Nat
        BY <1>2, WordNumbers
      <4>2. b \div 8 \in Nat
        BY <4>1
      <4> QED BY <3>k, <4>2
    <3>3. \A i \in k .. n : stack[i] \in MachineWord
      BY <3>1, <3>2
    <3> QED BY <2>2, <3>1, <3>2, <3>3, <3>n, <3>k, SubSeqProperties DEF Sound
  <2> QED BY <1>3, <2>2, <2>3, AdvanceType DEF Sound
<1>5. CASE line.d \in Registers
  <2>1. line.d.v \in Whichever
    BY <1>5, PlainRegister
  <2>2. line.d.v # "RSP"
    BY <2>1, RegisterSizes
  <2>a. PICK a : a = Fetch(line.d)
    OBVIOUS
  <2>3. a \in MachineWord
    BY <1>5, <2>a, PlainType DEF Sound
  <2>4. \E v : v \in Nat /\ regs' = WriteReg(line.d.v, v) /\ UNCHANGED stack
    <3>0. a \in Int /\ b \in Int
      BY <1>2, <2>3, WordNumbers
    <3>1. CASE Instr("ADD")
      <4>1. regs' = WriteReg(line.d.v, Wrap(a + b)) /\ UNCHANGED stack
        BY <3>1, <2>2, <2>a, <1>b DEF Alu, Instr
      <4>v. PICK v : v = a + b
        OBVIOUS
      <4>2. v \in Int
        BY <3>0, <4>v
      <4>3. Wrap(v) \in Nat
        BY <4>2, WrapType, WordNumbers
      <4> QED BY <4>1, <4>3, <4>v
    <3>2. CASE Instr("SUB")
      <4>1. regs' = WriteReg(line.d.v, Wrap(a - b)) /\ UNCHANGED stack
        BY <3>2, <2>2, <2>a, <1>b DEF Alu, Instr
      <4>v. PICK v : v = a - b
        OBVIOUS
      <4>2. v \in Int
        BY <3>0, <4>v
      <4>3. Wrap(v) \in Nat
        BY <4>2, WrapType, WordNumbers
      <4> QED BY <4>1, <4>3, <4>v
    <3>3. CASE Instr("AND")
      <4>1. regs' = WriteReg(line.d.v, BitAnd(a, b)) /\ UNCHANGED stack
        BY <3>3, <2>2, <2>a, <1>b DEF Alu, Instr
      <4> QED BY <3>0, <4>1, BitwiseType, WordNumbers
    <3>4. CASE Instr("OR")
      <4>1. regs' = WriteReg(line.d.v, BitOr(a, b)) /\ UNCHANGED stack
        BY <3>4, <2>2, <2>a, <1>b DEF Alu, Instr
      <4> QED BY <3>0, <4>1, BitwiseType, WordNumbers
    <3>5. CASE Instr("XOR")
      <4>1. regs' = WriteReg(line.d.v, 0) /\ UNCHANGED stack
        BY <3>5, <2>2, <2>a, <1>b DEF Alu, Instr
      <4> QED BY <4>1
    <3> QED BY <3>1, <3>2, <3>3, <3>4, <3>5 DEF Alu, Instr
  <2>5. regs' \in [Regs -> Nat]
    BY <2>1, <2>4, WriteRegType DEF Sound
  <2> QED BY <1>3, <2>4, <2>5, AdvanceType DEF Sound
<1> QED BY <1>1, <1>4, <1>5 DEF TypedSum

LEMMA MulSound ==
  ASSUME Sound, TypedLine(line), Mul
  PROVE  Sound' /\ DOMAIN mem' = DOMAIN mem
PROOF
<1>1. line.d \in Registers
  BY DEF TypedLine, Mul, Instr
<1>b. PICK b : b = Fetch(line.d)
  OBVIOUS
<1>a. PICK a : a = regs["RAX"]
  OBVIOUS
<1>2. b \in Nat /\ a \in Nat
  BY <1>1, <1>a, <1>b, PlainType, WordNumbers DEF Sound, Regs
<1>p. PICK p : p = a * b
  OBVIOUS
<1>3. p \in Nat
  BY <1>2, <1>p
<1>4. regs' = [regs EXCEPT !["RAX"] = Wrap(p), !["RDX"] = p \div WordSize]
      /\ Advance /\ UNCHANGED <<mem, stack>>
  BY <1>a, <1>b, <1>p DEF Mul
<1>5. Wrap(p) \in Nat /\ p \div WordSize \in Nat
  <2>1. WordSize \in Nat \ {0}
    BY WordSizeFacts
  <2>2. p \in Int
    BY <1>3
  <2>3. Wrap(p) \in Nat
    BY <2>2, WrapType, WordNumbers
  <2> QED BY <1>3, <2>1, <2>3
<1>6. regs' \in [Regs -> Nat]
  BY <1>4, <1>5 DEF Sound
<1> QED BY <1>4, <1>6, AdvanceType DEF Sound

LEMMA DivSound ==
  ASSUME Sound, TypedLine(line), Div
  PROVE  Sound' /\ DOMAIN mem' = DOMAIN mem
PROOF
<1>1. line.d \in Registers
  BY DEF TypedLine, Div, Instr
<1>b. PICK b : b = Fetch(line.d)
  OBVIOUS
<1>a. PICK a : a = regs["RDX"] * WordSize + regs["RAX"]
  OBVIOUS
<1>2. b \in Nat /\ a \in Nat
  <2>1. b \in Nat
    BY <1>1, <1>b, PlainType, WordNumbers DEF Sound
  <2>2. regs["RDX"] \in Nat /\ regs["RAX"] \in Nat /\ WordSize \in Nat
    BY WordSizeFacts DEF Sound, Regs
  <2>3. regs["RDX"] * WordSize \in Nat
    BY <2>2
  <2> QED BY <1>a, <2>1, <2>2, <2>3
<1>3. CASE b = 0 \/ a \div b >= WordSize
  BY <1>a, <1>b, <1>3, StopSound DEF Div
<1>4. CASE ~(b = 0 \/ a \div b >= WordSize)
  <2>1. /\ regs' = [regs EXCEPT !["RAX"] = a \div b, !["RDX"] = a % b]
        /\ Advance /\ UNCHANGED <<mem, stack>>
    BY <1>a, <1>b, <1>4 DEF Div
  <2>2. a \div b \in Nat /\ a % b \in Nat
    BY <1>2, <1>4
  <2>3. regs' \in [Regs -> Nat]
    BY <2>1, <2>2 DEF Sound
  <2> QED BY <2>1, <2>3, AdvanceType DEF Sound
<1> QED BY <1>3, <1>4

LEMMA TestSound ==
  ASSUME Sound, TypedLine(line), Cmp \/ SetByte
  PROVE  Sound' /\ DOMAIN mem' = DOMAIN mem
PROOF
<1>1. CASE Cmp
  <2>1. Advance /\ UNCHANGED <<mem, regs, stack>>
    BY <1>1 DEF Cmp
  <2> QED BY <2>1, AdvanceType DEF Sound
<1>2. CASE SetByte
  <2>1. line.d = Reg("AL")
    BY <1>2 DEF TypedLine, SetByte
  <2>2. line.d.v = "AL"
    BY <2>1 DEF Reg
  <2>3. "AL" \in Whichever
    BY DEF Whichever, Transferred
  <2>4. \E v : v \in {0, 1} /\ regs' = WriteReg("AL", v)
    BY <1>2, <2>2 DEF SetByte
  <2>5. Advance /\ UNCHANGED <<mem, stack>>
    BY <1>2 DEF SetByte
  <2>6. regs' \in [Regs -> Nat]
    BY <2>3, <2>4, WriteRegType DEF Sound
  <2> QED BY <2>5, <2>6, AdvanceType DEF Sound
<1> QED BY <1>1, <1>2

LEMMA LeaveSound ==
  ASSUME Sound, Leave
  PROVE  Sound' /\ DOMAIN mem' = DOMAIN mem
PROOF
<1>n. PICK n : n = regs["RBP"]
  OBVIOUS
<1>o. PICK old : old = Len(stack)
  OBVIOUS
<1>a. PICK at : at = [i \in 1 .. n |-> IF i > n - old THEN stack[old - n + i] ELSE 0]
  OBVIOUS
<1>1. n \in Nat /\ old \in Nat /\ \A i \in 1 .. old : stack[i] \in MachineWord
  BY <1>n, <1>o, LenProperties, ElementOfSeq DEF Sound, Regs
<1>2. CASE n = 0
  BY <1>2, <1>n, StopSound DEF Leave
<1>3. CASE n # 0
  <2>1. ASSUME NEW i \in 1 .. n
        PROVE  (IF i > n - old THEN stack[old - n + i] ELSE 0) \in MachineWord
    <3>1. PICK j : j = old - n + i
      OBVIOUS
    <3>2. i > n - old => j \in 1 .. old
      BY <1>1, <3>1
    <3> QED BY <1>1, <3>1, <3>2, WordNumbers
  <2>2. at \in [1 .. n -> MachineWord]
    BY <1>a, <2>1
  <2>3. at \in Seq(MachineWord) /\ Len(at) = n
    BY <1>1, <2>2, FunctionIsSequence
  <2>4. at # <<>>
    BY <1>1, <1>3, <2>3, EmptySeq
  <2>5. Head(at) \in MachineWord /\ Tail(at) \in Seq(MachineWord)
    BY <2>3, <2>4, HeadTailProperties
  <2>6. regs' = WriteReg("RBP", Head(at)) /\ stack' = Tail(at) /\ Advance /\ UNCHANGED mem
    BY <1>3, <1>n, <1>o, <1>a DEF Leave
  <2>7. "RBP" \in Whichever
    BY DEF Whichever, Regs
  <2>8. regs' \in [Regs -> Nat]
    BY <2>5, <2>6, <2>7, WriteRegType, WordNumbers DEF Sound
  <2> QED BY <2>5, <2>6, <2>8, AdvanceType DEF Sound
<1> QED BY <1>2, <1>3

LEMMA ReturnsSound ==
  ASSUME Sound, NEW r \in Nat, Returns(r)
  PROVE  regs' \in [Regs -> Nat] /\ ip' \in Nat
PROOF
<1>1. regs' = [regs EXCEPT !["RAX"] = r, !["RCX"] = ip + 1] /\ Advance
  BY DEF Returns
<1>2. ip + 1 \in Nat
  BY AdvanceType
<1> QED BY <1>1, <1>2, AdvanceType DEF Sound

\* What read stores are bytes.
LEMMA PlaceType ==
  ASSUME NEW m, \A a \in DOMAIN m : m[a] \in Byte, NEW a, NEW bytes \in Seq(Byte),
         NEW s, s = Place(m, a, bytes)
  PROVE  DOMAIN s = DOMAIN m /\ \A b \in DOMAIN s : s[b] \in Byte
PROOF
<1>1. \A i \in DOMAIN bytes : bytes[i] \in Byte
  BY LenProperties, ElementOfSeq
<1>2. s = [b \in DOMAIN m |-> IF b - a + 1 \in DOMAIN bytes THEN bytes[b - a + 1] ELSE m[b]]
  BY DEF Place
<1>3. ASSUME NEW b \in DOMAIN m PROVE s[b] \in Byte
  <2>1. PICK i : i = b - a + 1
    OBVIOUS
  <2> QED BY <1>1, <1>2, <2>1
<1> QED BY <1>2, <1>3

LEMMA ReadSound ==
  ASSUME Sound, ReadInput
  PROVE  /\ regs' \in [Regs -> Nat] /\ ip' \in Nat
         /\ DOMAIN mem' = DOMAIN mem /\ \A a \in DOMAIN mem' : mem'[a] \in Byte
PROOF
<1>1. CASE ~Mapped(mem, regs["RSI"], regs["RDX"])
  <2>1. Returns(BadAddress) /\ UNCHANGED mem
    BY <1>1 DEF ReadInput
  <2>b. PICK v : v = -14
    OBVIOUS
  <2>c. v \in Int
    BY <2>b
  <2>2. BadAddress \in Nat
    BY <2>b, <2>c, WrapType, WordNumbers DEF BadAddress
  <2> QED BY <2>1, <2>2, ReturnsSound DEF Sound
<1>2. CASE Mapped(mem, regs["RSI"], regs["RDX"])
  <2>1. PICK data \in Inputs : mem' = Place(mem, regs["RSI"], data) /\ Returns(Len(data))
    BY <1>2 DEF ReadInput
  <2>2. data \in Seq(Byte)
    BY KernelAssumption DEF Byte
  <2>a. PICK a : a = regs["RSI"]
    OBVIOUS
  <2>3. DOMAIN mem' = DOMAIN mem /\ \A b \in DOMAIN mem' : mem'[b] \in Byte
    BY <2>1, <2>2, <2>a, PlaceType DEF Sound
  <2>4. Len(data) \in Nat
    BY <2>2, LenProperties
  <2> QED BY <2>1, <2>3, <2>4, ReturnsSound
<1> QED BY <1>1, <1>2

LEMMA SyscallSound ==
  ASSUME Sound, Syscall
  PROVE  Sound' /\ DOMAIN mem' = DOMAIN mem
PROOF
<1>1. UNCHANGED stack
  BY DEF Syscall
<1>2. CASE regs["RAX"] = ReadCall
  BY <1>1, <1>2, ReadSound DEF Syscall, Sound
<1>3. CASE regs["RAX"] # ReadCall
  <2>1. UNCHANGED mem
    BY <1>3 DEF Syscall
  <2>2. CASE regs["RAX"] = ExitCall
    BY <1>1, <1>3, <2>1, <2>2 DEF Syscall, Sound
  <2>3. CASE regs["RAX"] # ExitCall
    <3>1. PICK r \in SyscallResults : Returns(r)
      BY <1>3, <2>3 DEF Syscall
    <3>2. r \in Nat
      BY KernelAssumption, WordNumbers DEF MachineWord
    <3> QED BY <1>1, <2>1, <3>1, <3>2, ReturnsSound DEF Sound
  <2> QED BY <2>2, <2>3
<1> QED BY <1>2, <1>3

\* Whatever the instruction is.
LEMMA StepSound ==
  ASSUME Sound, MemoryShape, Readable, MachineStep
  PROVE  Sound' /\ DOMAIN mem' = DOMAIN mem
PROOF
<1>1. CASE ip \notin DOMAIN text
  BY <1>1, StopSound DEF MachineStep
<1>2. CASE ip \in DOMAIN text
  <2>1. DOMAIN text = 1 .. Len(text)
    BY SeqDomain DEF Readable
  <2>2. PICK chars : FileLine(line, chars)
    BY <1>2, <2>1 DEF Readable, line
  <2>3. CASE line.ins \in {"LCOMM", "QUAD", "DATA"}
    <3>1. NoOp
      BY <1>2, <2>3 DEF MachineStep, NoOp, Push, PopReg, Mov, Lea, Alu, Mul, Div, Cmp, SetByte, Jump,
                        CallFunction, Ret, Leave, Syscall, Instr
    <3> QED BY <3>1, NoOpSound
  <2>4. CASE line.ins \notin {"LCOMM", "QUAD", "DATA"}
    <3>1. TypedLine(line)
      BY <2>2, <2>4 DEF FileLine, DataLine
    <3>2. NoOp \/ Push \/ PopReg \/ Mov \/ Lea \/ Alu \/ Mul \/ Div \/ Cmp
          \/ SetByte \/ Jump \/ CallFunction \/ Ret \/ Leave \/ Syscall
      BY <1>2 DEF MachineStep
    <3> QED BY <1>2, <3>1, <3>2, NoOpSound, PushSound, PopSound, MovSound, LeaSound, AluSound, MulSound,
               DivSound, TestSound, JumpSound, CallSound, RetSound, LeaveSound, SyscallSound
  <2> QED BY <2>3, <2>4
<1> QED BY <1>1, <1>2

-----------------------------------------------------------------------------
(***************************************************************************)
(* The compiler, and then the program that it has written.                 *)
(***************************************************************************)
\* The file is written when the text is complete.
Written == exit_status = 0 => output = asm
CompilerInv == /\ IInv /\ CodeInv /\ FileInv /\ CallInv /\ WellInv /\ FrameInv
               /\ LayoutInv /\ AsmInv /\ Written

\* What is in the output file is the whole text (main.py:503-509).
LEMMA WrittenStep == FileInv /\ Written /\ [CompilerNext]_compilerVars => Written'
PROOF
<1> SUFFICES ASSUME FileInv, Written, [CompilerNext]_compilerVars PROVE Written'
  OBVIOUS
<1>1. CASE ReadWord \/ Finish
  <2>1. status = "compiling" /\ exit_status' = exit_status
    BY <1>1 DEF ReadWord, Finish, cliVars
  <2> QED BY <2>1 DEF FileInv, Written
<1>2. CASE WriteOutput
  BY <1>2 DEF WriteOutput, Written
<1>3. CASE UNCHANGED compilerVars
  BY <1>3 DEF compilerVars, cliVars, Written
<1> QED BY <1>1, <1>2, <1>3 DEF CompilerNext

\* CompilerInv is inductive: what was shown of Compiler alone, together.
LEMMA CompilerInvInit == Init => CompilerInv
PROOF
<1> SUFFICES ASSUME Init PROVE CompilerInv
  OBVIOUS
<1>1. FileInv /\ FrameInv /\ Written
  <2>1. FileInv
    BY SegmentSizes DEF Init, FileInv
  <2>2. FrameInv
    BY DEF Init, FrameInv
  <2>a. exit_status = -1
    BY DEF Init
  <2>b. exit_status # 0
    BY <2>a
  <2>3. Written
    BY <2>b DEF Written
  <2> QED BY <2>1, <2>2, <2>3
<1>2. CallInv
  <2>1. functions_called = <<>> /\ strings = <<>> /\ AllLines = {} /\ status = "compiling"
    BY DEF Init, AllLines
  <2>2. IsSeq(<<>>) /\ DOMAIN <<>> = {}
    BY ShortSequences
  <2> QED BY <2>1, <2>2 DEF CallInv, CallsKnown, Distinct, CallsLand
<1> QED BY <1>1, <1>2, IInvInit, CodeInvInit, WellInit, LayoutInit, AsmInit DEF CompilerInv

LEMMA CompilerInvStep == CompilerInv /\ [CompilerNext]_compilerVars => CompilerInv'
PROOF
<1> SUFFICES ASSUME CompilerInv, [CompilerNext]_compilerVars PROVE CompilerInv'
  OBVIOUS
<1>1. /\ IInv /\ CodeInv /\ FileInv /\ CallInv /\ WellInv /\ FrameInv
      /\ LayoutInv /\ AsmInv /\ Written
  BY DEF CompilerInv
<1>2. IInv' /\ CodeInv' /\ FileInv'
  BY <1>1, IInvStep, CodeInvStep, FileInvStep
<1>3. CallInv' /\ WellInv' /\ FrameInv'
  BY <1>1, CallInvStep, WellInvStep, FrameInvStep
<1>4. LayoutInv' /\ AsmInv' /\ Written'
  BY <1>1, LayoutInvStep, AsmInvStep, WrittenStep
<1> QED BY <1>2, <1>3, <1>4 DEF CompilerInv

-----------------------------------------------------------------------------
\* What has been linked is the file of the compiler, where the linker has put it.
On == power \notin {"off", "link_error"}
Linkage == /\ Links(text) /\ symbols = SymbolTable(text, Objects(text))
           /\ DOMAIN mem = DOMAIN InitialMemory(DataBytes(Objects(text)))
LoadInv == /\ power = "off" => regs = [r \in Regs |-> 0]
           /\ power # "off" => exit_status = 0 /\ text = asm
           /\ On => Linkage
           /\ Linked => On /\ AtWord(seen.ip) /\ DOMAIN seen.mem = DOMAIN mem

\* What no instruction changes.
LEMMA StepKeeps ==
  ASSUME MachineStep
  PROVE  /\ power = "running" /\ UNCHANGED <<text, symbols>> /\ DOMAIN mem' = DOMAIN mem
         /\ power' \in {"running", "exited", "fault", "bound"}
PROOF
<1> DEFINE Goal == /\ UNCHANGED <<text, symbols>> /\ DOMAIN mem' = DOMAIN mem
                   /\ power' \in {"running", "exited", "fault", "bound"}
<1>1. power = "running"
  BY DEF MachineStep
<1>2. \A how \in {"fault", "bound"} : Stop(how) => Goal
  BY DEF Stop
<1>3. \A m, a, v, n : DOMAIN Store(m, a, v, n) = DOMAIN m
  BY DEF Store
<1>4. \A m, a, d : DOMAIN Place(m, a, d) = DOMAIN m
  BY DEF Place
<1>5. NoOp \/ Lea \/ Alu \/ Mul \/ Cmp \/ SetByte \/ Jump => Goal
  BY <1>1 DEF NoOp, Lea, Alu, Mul, Cmp, SetByte, Jump
<1>6. Push \/ PopReg \/ Div \/ CallFunction \/ Ret \/ Leave => Goal
  BY <1>1, <1>2 DEF Push, PopReg, Div, CallFunction, Ret, Leave
<1>7. Mov => Goal
  BY <1>1, <1>2, <1>3 DEF Mov
<1>8. Syscall => Goal
  BY <1>1, <1>4 DEF Syscall, ReadInput, Returns
<1> HIDE DEF Goal
<1>9. Goal
  BY <1>2, <1>5, <1>6, <1>7, <1>8 DEF MachineStep
<1> QED BY <1>1, <1>9 DEF Goal

\* LoadInv is inductive: the file that was linked is the one the compiler
\* wrote.
LEMMA LoadInit == ToolchainInit => LoadInv
PROOF
BY DEF ToolchainInit, MachineOff, LoadInv, Linked, On

\* The program is built when the compiler has nothing left to do.
LEMMA CompilerHasDone ==
  ASSUME CompilerInv, LoadInv, power # "off"
  PROVE  ~Compile
PROOF
<1>1. exit_status = 0 /\ status # "compiling"
  BY DEF CompilerInv, FileInv, LoadInv
<1>2. ReadWord \/ Finish => status = "compiling"
  BY DEF ReadWord, Finish
<1>3. WriteOutput => exit_status = -1
  BY DEF WriteOutput
<1> QED BY <1>1, <1>2, <1>3 DEF Compile, CompilerNext

LEMMA LoadStep == CompilerInv /\ LoadInv /\ [Next]_vars => LoadInv'
PROOF
<1> SUFFICES ASSUME CompilerInv, LoadInv, [Next]_vars PROVE LoadInv'
  OBVIOUS
<1>1. CASE Compile
  <2>1. power = "off" /\ ~Linked
    BY <1>1, CompilerHasDone DEF LoadInv, On
  <2> QED BY <1>1, <2>1 DEF Compile, machineVars, LoadInv, Linked, On
<1>2. CASE Build
  <2>1. power = "off" /\ regs' = [r \in Regs |-> 0] /\ exit_status' = 0 /\ seen' = seen
    BY <1>2 DEF Build, Start, LoadInv, cliVars, compilerVars
  <2>2. ~Linked'
    BY <2>1 DEF LoadInv, Linked, On
  <2>3. text' = asm'
    BY <1>2, <2>1 DEF Build, Start, CompilerInv, Written, compilerVars
  <2>4. power' # "off" /\ (On' => Linkage')
    BY <1>2 DEF Build, Start, On, Linkage
  <2> QED BY <2>1, <2>2, <2>3, <2>4 DEF LoadInv
<1>3. CASE Run
  <2>1. /\ power = "running" /\ UNCHANGED <<text, symbols>> /\ DOMAIN mem' = DOMAIN mem
        /\ power' \in {"running", "exited", "fault", "bound"}
    BY <1>3, StepKeeps DEF Run
  <2>2. exit_status' = 0 /\ text' = asm' /\ On /\ On' /\ Linkage
    BY <1>3, <2>1 DEF Run, LoadInv, On, compilerVars, cliVars
  <2>3. Linkage'
    BY <2>1, <2>2 DEF Linkage
  <2>4. CASE AtWord(ip')
    <3>1. seen'.ip = ip' /\ seen'.mem = mem'
      BY <1>3, <2>4 DEF Run, Snapshot
    <3>2. AtWord(seen.ip)'
      BY <2>1, <2>4, <3>1 DEF AtWord, IsEpilogue
    <3> QED BY <2>1, <2>2, <2>3, <3>1, <3>2 DEF LoadInv
  <2>5. CASE ~AtWord(ip')
    <3>1. seen' = seen
      BY <1>3, <2>5 DEF Run
    <3>2. AtWord(seen.ip)' <=> AtWord(seen.ip)
      BY <2>1, <3>1 DEF AtWord, IsEpilogue
    <3> QED BY <2>1, <2>2, <2>3, <3>1, <3>2 DEF LoadInv, Linked
  <2> QED BY <2>4, <2>5
<1>4. CASE UNCHANGED vars
  <2>1. UNCHANGED <<text, symbols, mem, regs, power, seen, exit_status, asm>>
    BY <1>4 DEF vars, machineVars, compilerVars, cliVars
  <2>2. (AtWord(seen.ip)' <=> AtWord(seen.ip)) /\ (Linkage' <=> Linkage)
    BY <2>1 DEF AtWord, IsEpilogue, Linkage
  <2> QED BY <2>1, <2>2 DEF LoadInv, Linked, On
<1> QED BY <1>1, <1>2, <1>3, <1>4 DEF Next

-----------------------------------------------------------------------------
(***************************************************************************)
(* What the linker and the processor find in the file.                     *)
(***************************************************************************)
Valid == WellFormed(src, Operators) /\ Fits

\* The characters of the strings are bytes.
LEMMA ByteStrings ==
  ASSUME Fits
  PROVE  ToSet(strings) \subseteq Seq(Byte)
PROOF
BY DEF Fits, Byte, ToSet

\* The file of a well formed program is one that can be linked.
LEMMA LaidIsObjectFile ==
  ASSUME NEW chars, chars \subseteq Seq(Byte), NEW file, FileLaid(file, chars)
  PROVE  ObjectFile(file)
PROOF
<1>1. IsSeq(file) /\ \A l \in ToSet(file) : FileLine(l, chars)
  BY DEF FileLaid, FileCode
<1>2. ASSUME NEW l, FileLine(l, chars), l.ins \in ObjectKinds
      PROVE  ObjectLine(l)
  <2>1. ~TypedLine(l)
    BY <1>2 DEF TypedLine, ObjectKinds
  <2>2. DataLine(l, chars)
    BY <1>2, <2>1 DEF FileLine
  <2>3. \A c \in chars : c \in Seq(Byte) /\ Len(c) \in Int
    BY LenProperties
  <2> QED BY <2>2, <2>3 DEF DataLine, ObjectLine
<1>3. ASSUME NEW i \in 1 .. Len(file)
      PROVE  FileLine(file[i], chars)
  <2>1. DOMAIN file = 1 .. Len(file)
    BY <1>1, SeqDomain
  <2> QED BY <1>1, <2>1 DEF ToSet
<1> QED BY <1>1, <1>2, <1>3 DEF ObjectFile

\* What the machine runs when the program is well formed: the whole file, laid
\* out.
LEMMA LinkedFileIs ==
  ASSUME CompilerInv, LoadInv, Valid, On
  PROVE  /\ Finished /\ FileLaid(text, ToSet(strings)) /\ ObjectFile(text)
         /\ Len(text) >= 1 /\ text[1] = FirstSegment
PROOF
<1>1. exit_status = 0 /\ text = asm
  BY DEF LoadInv, On
<1>2. status = "done"
  BY <1>1 DEF CompilerInv, FileInv, WellInv, Valid
<1>3. FileDone
  BY <1>2 DEF CompilerInv, AsmInv, Valid
<1>4. Finished
  BY <1>1, <1>2, <1>3 DEF Finished, CompilerInv, Valid
<1>5. FileLaid(text, ToSet(strings)) /\ Len(text) >= 1 /\ text[1] = FirstSegment
  BY <1>1, <1>3 DEF FileDone
<1> QED BY <1>4, <1>5, ByteStrings, LaidIsObjectFile DEF Valid

\* The labels that the code uses have been linked, and have numbers.
LEMMA LinkedIsReadable ==
  ASSUME CompilerInv, LoadInv, Valid, On
  PROVE  Readable /\ MemoryShape
PROOF
<1>1. FileLaid(text, ToSet(strings)) /\ ObjectFile(text)
  BY LinkedFileIs
<1>2. /\ Links(text) /\ symbols = SymbolTable(text, Objects(text))
      /\ DOMAIN mem = DOMAIN InitialMemory(DataBytes(Objects(text)))
  BY DEF LoadInv, Linkage
<1>o. PICK o : o = Objects(text)
  OBVIOUS
<1>3. DOMAIN symbols = Defined(text) /\ \A l \in DOMAIN symbols : symbols[l] \in Nat
  BY <1>1, <1>2, <1>o, SymbolsAre
<1>4. ASSUME NEW l \in Used(text)
      PROVE  symbols[l] \in MachineWord
  <2>1. symbols[l] \in Nat /\ symbols[l] < WordSize
    BY <1>2, <1>3 DEF Links, Valid, Fits
  <2> QED BY <2>1, WordSizeFacts DEF MachineWord
<1>5. IsSeq(text) /\ \A i \in 1 .. Len(text) : FileLine(text[i], ToSet(strings))
  <2>1. IsSeq(text) /\ \A l \in ToSet(text) : FileLine(l, ToSet(strings))
    BY <1>1 DEF FileLaid, FileCode
  <2>2. DOMAIN text = 1 .. Len(text)
    BY <2>1, SeqDomain
  <2> QED BY <2>1, <2>2 DEF ToSet
<1>6. Len(text) + 1 \in MachineWord
  <2>1. Len(text) \in Nat /\ Len(text) + 1 < WordSize
    BY <1>5, SeqDomain DEF Valid, Fits
  <2> QED BY <2>1, WordSizeFacts DEF MachineWord
<1>7. MemoryShape
  <2>1. ObjectSeq(o)
    BY <1>1, <1>o, ObjectsAre DEF ObjectSeq
  <2>2. DataBytes(o) \in Seq(Byte)
    BY <2>1, BytesOf
  <2>3. DOMAIN mem = DataStart .. DataStart + Len(DataBytes(o)) - 1
    BY <1>2, <1>o, <2>2, MemoryIs
  <2> QED BY <2>3 DEF MemoryShape
<1> QED BY <1>4, <1>5, <1>6, <1>7 DEF Readable, Addresses

\* call_stack is memory of the program (main.py:105).
LEMMA CallStackThere ==
  ASSUME CompilerInv, LoadInv, Valid, On, Linked
  PROVE  CallStackMapped
PROOF
<1>1. ObjectFile(text) /\ Len(text) >= 1 /\ text[1] = FirstSegment
  BY LinkedFileIs
<1>2. /\ DefinedOnce(text) /\ symbols = SymbolTable(text, Objects(text))
      /\ DOMAIN seen.mem = DOMAIN InitialMemory(DataBytes(Objects(text)))
  BY DEF LoadInv, Linkage, Links
<1>o. PICK o : o = Objects(text)
  OBVIOUS
<1>m. PICK m : m = InitialMemory(DataBytes(o))
  OBVIOUS
<1>3. /\ CallStackLabel \in DOMAIN symbols
      /\ \A a \in symbols[CallStackLabel] .. symbols[CallStackLabel] + CallStackBytes - 1 : a \in DOMAIN m
  BY <1>1, <1>2, <1>o, <1>m, CallStackPlaced
<1>4. symbols[CallStackLabel] \in Nat
  BY <1>1, <1>2, <1>3, <1>o, SymbolsAre
<1>5. CallStack = symbols[CallStackLabel] /\ DOMAIN seen.mem = DOMAIN m
  BY <1>2, <1>o, <1>m DEF CallStack, CallStackLabel
<1> QED BY <1>3, <1>4, <1>5 DEF CallStackMapped

-----------------------------------------------------------------------------
(***************************************************************************)
(* The machine runs the program: its numbers stay numbers, and since the   *)
(* start of a word that calculates it has run one line after the other.    *)
(***************************************************************************)
RunInv == Valid /\ On => /\ Sound
                         /\ Linked => seen.r12 \in Int
                         /\ Linked /\ power = "running" /\ Calm(seen.ip) => OnTheWay
ToolchainInv == CompilerInv /\ LoadInv /\ RunInv

\* What the linker leaves the machine with.
LEMMA BuildSound ==
  ASSUME CompilerInv, LoadInv, Build, Valid', On'
  PROVE  Sound' /\ ~Linked'
PROOF
<1>1. /\ power = "off" /\ exit_status = 0 /\ UNCHANGED <<compilerVars, seen, regs>>
      /\ ~Linked /\ regs = [r \in Regs |-> 0]
  BY DEF Build, Start, LoadInv, On
<1>2. output = asm /\ UNCHANGED <<src, strings, asm, status>>
  BY <1>1 DEF compilerVars, CompilerInv, Written
<1>3. WellFormed(src, Operators) /\ ToSet(strings) \subseteq Seq(Byte)
  BY <1>2 DEF Valid, Fits, Byte, ToSet
<1>4. FileDone
  <2>1. status = "done"
    BY <1>1, <1>3 DEF CompilerInv, FileInv, WellInv
  <2> QED BY <1>3, <2>1 DEF CompilerInv, AsmInv
<1>5. ObjectFile(asm)
  BY <1>3, <1>4, LaidIsObjectFile DEF FileDone
<1>o. PICK o : o = Objects(asm)
  OBVIOUS
<1>b. PICK bytes : bytes = DataBytes(o)
  OBVIOUS
<1>6. /\ symbols' = SymbolTable(asm, o) /\ mem' = InitialMemory(bytes)
      /\ ip' = EntryPoint' /\ stack' = ProcessStack
  BY <1>2, <1>o, <1>b DEF Build, Start, On
<1>7. ip' \in Nat
  <2>1. PICK table : table = symbols'
    OBVIOUS
  <2>2. \A l \in DOMAIN table : table[l] \in Nat
    BY <1>5, <1>6, <1>o, <2>1, SymbolsAre
  <2>3. ip' = IF <<"_start">> \in DOMAIN table THEN table[<<"_start">>] ELSE 1
    BY <1>6, <2>1 DEF EntryPoint
  <2> QED BY <2>2, <2>3
<1>8. \A a \in DOMAIN mem' : mem'[a] \in Byte
  <2>1. ObjectSeq(o)
    BY <1>5, <1>o, ObjectsAre DEF ObjectSeq
  <2>2. bytes \in Seq(Byte)
    BY <1>b, <2>1, BytesOf
  <2>3. PICK m : m = mem'
    OBVIOUS
  <2>4. \A a \in DOMAIN m : m[a] \in Byte
    BY <1>6, <2>2, <2>3, MemoryIs
  <2> QED BY <2>3, <2>4
<1>9. stack' \in Seq(MachineWord)
  <2>1. 0 \in MachineWord /\ 1 \in MachineWord
    BY WordSizeFacts DEF MachineWord
  <2> QED BY <1>6, <2>1 DEF ProcessStack
<1>10. regs' \in [Regs -> Nat] /\ ~Linked'
  BY <1>1 DEF Linked
<1> QED BY <1>7, <1>8, <1>9, <1>10 DEF Sound

\* An instruction keeps what the file and the constants are.
LEMMA RunKeeps ==
  ASSUME CompilerInv, LoadInv, Run
  PROVE  /\ power = "running" /\ On /\ On' /\ (Valid' <=> Valid)
         /\ UNCHANGED <<text, symbols, src, strings>>
PROOF
<1>1. /\ power = "running" /\ UNCHANGED <<text, symbols>> /\ DOMAIN mem' = DOMAIN mem
      /\ power' \in {"running", "exited", "fault", "bound"} /\ UNCHANGED compilerVars
  BY StepKeeps DEF Run
<1>2. UNCHANGED <<src, strings>>
  BY <1>1 DEF compilerVars
<1>3. On /\ On'
  BY <1>1 DEF On
<1>4. Valid' <=> Valid
  BY <1>1, <1>2 DEF Valid, Fits
<1> QED BY <1>1, <1>2, <1>3, <1>4

\* While it runs, the machine goes from one instruction of the text to another.
LEMMA RunSteps ==
  ASSUME CompilerInv, LoadInv, RunInv, Valid, Run, power' = "running"
  PROVE  Steps
PROOF
<1>1. Sound /\ MachineStep
  BY RunKeeps DEF RunInv, Run
<1>2. ip \in DOMAIN text
  BY <1>1 DEF MachineStep, Stop
<1>3. regs \in [Regs -> Int]
  BY <1>1 DEF Sound
<1> QED BY <1>1, <1>2, <1>3 DEF Steps

\* A step of the machine keeps RunInv: at the start of a word its way begins,
\* and within the code of a word that calculates it goes on.
LEMMA RunStep ==
  ASSUME CompilerInv, LoadInv, RunInv, Run
  PROVE  RunInv'
PROOF
<1>1. /\ power = "running" /\ On /\ On' /\ (Valid' <=> Valid)
      /\ UNCHANGED <<text, symbols, src, strings>>
  BY RunKeeps
<1>2. SUFFICES ASSUME Valid
               PROVE  /\ Sound' /\ (Linked' => seen'.r12 \in Int)
                      /\ Linked' /\ power' = "running" /\ Calm(seen.ip)' => OnTheWay'
  BY <1>1 DEF RunInv
<1>3. /\ Sound /\ (Linked => seen.r12 \in Int)
      /\ Linked /\ Calm(seen.ip) => OnTheWay
  BY <1>1, <1>2 DEF RunInv
<1>4. Readable /\ MemoryShape /\ Finished
  BY <1>1, <1>2, LinkedFileIs, LinkedIsReadable
<1>5. Sound'
  BY <1>3, <1>4, StepSound DEF Run
<1>6. CASE AtWord(ip')
  <2>1. seen' = Snapshot' /\ ip' \in Nat
    BY <1>5, <1>6 DEF Run, Sound
  <2>2. seen'.r12 \in Int
    <3>1. regs'["R12"] \in Nat
      BY <1>5 DEF Sound, Regs
    <3> QED BY <2>1, <3>1 DEF Snapshot
  <2>3. Good(Here)'
    BY <1>5 DEF Good, Here, State, Sound
  <2>4. OnTheWay'
    BY <1>6, <2>1, <2>3, WayStarts
  <2> QED BY <1>5, <2>2, <2>4
<1>7. CASE ~AtWord(ip')
  <2>1. seen' = seen
    BY <1>7 DEF Run
  <2>2. (Linked' <=> Linked) /\ (Calm(seen.ip)' <=> Calm(seen.ip))
    BY <1>1, <2>1 DEF Linked, Calm
  <2>3. ASSUME Linked, power' = "running", Calm(seen.ip)
        PROVE  OnTheWay'
    <3>1. LaidOut(seen.ip)
      BY <1>4, <2>3, CalmIsLaidOut DEF Readable
    <3>2. Steps
      BY <1>2, <2>3, RunSteps
    <3> QED BY <1>3, <1>7, <2>1, <2>3, <3>1, <3>2, WayStays
  <2> QED BY <1>3, <1>5, <2>1, <2>2, <2>3
<1> QED BY <1>6, <1>7

\* RunInv is inductive, with what is known of the file.
LEMMA RunInvStep == ToolchainInv /\ [Next]_vars => RunInv'
PROOF
<1> SUFFICES ASSUME ToolchainInv, [Next]_vars PROVE RunInv'
  OBVIOUS
<1>0. CompilerInv /\ LoadInv /\ RunInv
  BY DEF ToolchainInv
<1>1. CASE Compile
  <2>1. power = "off" /\ power' = power
    BY <1>0, <1>1, CompilerHasDone DEF Compile, machineVars
  <2> QED BY <2>1 DEF RunInv, On
<1>2. CASE Build
  <2>1. Valid' /\ On' => Sound' /\ ~Linked'
    BY <1>0, <1>2, BuildSound
  <2> QED BY <2>1 DEF RunInv
<1>3. CASE Run
  BY <1>0, <1>3, RunStep
<1>4. CASE UNCHANGED vars
  <2>1. UNCHANGED <<src, strings>> /\ UNCHANGED <<text, symbols, mem, ip, regs, flags, stack, trace, power, seen>>
    BY <1>4 DEF vars, machineVars, compilerVars
  <2>2. (Valid' <=> Valid) /\ (On' <=> On) /\ (Sound' <=> Sound) /\ (Linked' <=> Linked)
    BY <2>1 DEF Valid, Fits, On, Sound, Linked
  <2>3. Calm(seen.ip)' <=> Calm(seen.ip)
    BY <2>1 DEF Calm
  <2>4. OnTheWay' <=> OnTheWay
    BY <2>1 DEF OnTheWay, Way, AtWord, IsEpilogue, Good, Here
  <2>5. seen' = seen /\ power' = power
    BY <2>1
  <2>6. RunInv
    BY <1>0
  <2> QED BY <2>2, <2>3, <2>4, <2>5, <2>6 DEF RunInv
<1> QED BY <1>1, <1>2, <1>3, <1>4 DEF Next

\* Whatever the program, from the compiler to the machine: while the program is
\* well formed and its numbers have room in words, stack and registers hold
\* words, memory holds bytes, and since the start of a word that calculates the
\* machine has run the lines of that word, one after the other, from the first
\* (main.py:125-193, 212-218, 267-291, 321-347, 358-364).
THEOREM ToolchainInvHolds == Spec => []ToolchainInv
PROOF
<1>1. ToolchainInit => ToolchainInv
  <2>1. ToolchainInit => CompilerInv
    BY CompilerInvInit DEF ToolchainInit
  <2>2. ToolchainInit => power = "off"
    BY DEF ToolchainInit, MachineOff
  <2> QED BY <2>1, <2>2, LoadInit DEF ToolchainInv, RunInv, On
<1>2. ToolchainInv /\ [Next]_vars => ToolchainInv'
  <2> SUFFICES ASSUME ToolchainInv, [Next]_vars PROVE ToolchainInv'
    OBVIOUS
  <2>1. [CompilerNext]_compilerVars
    BY DEF Next, Compile, Build, Run, vars
  <2>2. CompilerInv' /\ LoadInv'
    BY <2>1, CompilerInvStep, LoadStep DEF ToolchainInv
  <2> QED BY <2>2, RunInvStep DEF ToolchainInv
<1> QED BY <1>1, <1>2, PTL DEF Spec

\* A word that calculates does what README.md says, whatever the program is.
LEMMA StepCalculates ==
  ASSUME ToolchainInv, [Next]_vars, Linked, text[seen.ip].ins = "LOC", power' = "running",
         AtWord(ip'), Valid, NEW w, w = src[WordOf(seen.ip)], Calculates(w), ~Language!Undefined,
         Divides(w) => Signed(Language!V(0)) >= 0 /\ Signed(Language!V(1)) >= 0,
         seen.r12 <= CallStack + CallStackBytes
  PROVE  Language!Execute \/ UNCHANGED vars
PROOF
<1>0. CompilerInv /\ LoadInv /\ RunInv /\ On
  BY DEF ToolchainInv, LoadInv
<1>1. ~Compile /\ ~Build
  BY <1>0, CompilerHasDone DEF On, Build, Start
<1>2. CASE Run
  <2>1. /\ power = "running" /\ UNCHANGED <<text, symbols, src, strings>>
    BY <1>0, <1>2, RunKeeps
  <2>2. Finished /\ Readable /\ CallStackMapped
    BY <1>0, LinkedFileIs, LinkedIsReadable, CallStackThere
  <2>3. AtWord(seen.ip) /\ w = src[text[seen.ip].word] /\ Calm(seen.ip)
    BY <1>0 DEF LoadInv, WordOf, Calm, AtWord
  <2>4. OnTheWay /\ seen.r12 \in Int
    BY <1>0, <2>1, <2>3 DEF RunInv
  <2>5. LaidOut(seen.ip)
    BY <2>2, <2>3, CalmIsLaidOut DEF Readable
  <2>6. Linked'
    <3>1. seen'.ip = ip'
      BY <1>2 DEF Run, Snapshot
    <3>2. ip' \in 1 .. Len(text)
      BY <2>2, SeqDomain DEF AtWord, Readable
    <3> QED BY <3>1, <3>2 DEF Linked
  <2>7. AtWork
    BY <2>2, <2>4, <2>5, <2>6 DEF AtWork
  <2>8. Steps
    BY <1>0, <1>2, RunSteps
  <2>9. now = w
    BY DEF now, ProgramAt
  <2> QED BY <1>2, <2>7, <2>8, <2>9, WordsDo
<1> QED BY <1>1, <1>2 DEF Next

\* A word that calculates, uses the stack or the memory, or pushes something
\* does what README.md says of it (README.md:18-42): when the compiled program
\* next stands at the start of a word, stack, memory and return places are what
\* the word leaves of those it found.  For every program that compiles, every
\* place the word is entered from and every content of the stack, the memory and
\* the registers (main.py:125-193, 212-218, 267-291, 321-347, 358-364).
THEOREM WordsCalculateHolds == Spec => WordsCalculate
PROOF
<1>1. ToolchainInv /\ [Next]_vars =>
      [LET w == src[WordOf(seen.ip)] IN
         /\ Linked /\ text[seen.ip].ins = "LOC" /\ power' = "running" /\ AtWord(ip')
         /\ WellFormed(src, Operators) /\ Fits
         /\ Calculates(w) /\ ~Language!Undefined
         /\ Divides(w) => Signed(Language!V(0)) >= 0 /\ Signed(Language!V(1)) >= 0
         /\ seen.r12 <= CallStack + CallStackBytes
         => Language!Execute]_vars
  BY StepCalculates DEF Valid
<1> QED BY <1>1, ToolchainInvHolds, PTL DEF Spec, WordsCalculate
===============================================================================
