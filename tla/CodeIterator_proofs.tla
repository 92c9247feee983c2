------------------------ MODULE CodeIterator_proofs ------------------------
(***************************************************************************)
(* Proofs about CodeIterator, for every set of paths and files: the type   *)
(* of the state, that a path is never open twice, that file numbers are    *)
(* distinct, that no word is compiled twice, that .loc directives rely on  *)
(* earlier .file directives, and that the iterator implements Inclusion.   *)
(***************************************************************************)
EXTENDS CodeIterator, SequenceFacts, FiniteSetTheorems

\* While reading, there is a top frame, and every frame is of a registered
\* file that was opened, at a line that the file has.
InFile(f) == /\ f.path \in DOMAIN disk
             /\ f.path \in DOMAIN all_imported_paths
             /\ f.line_num <= Len(disk[f.path])
Reading == status = "reading" => /\ open # <<>>
                                 /\ \A i \in 1 .. Len(open) : InFile(open[i])

Shape == TypeOK /\ IsFiniteSet(DOMAIN all_imported_paths) /\ Reading

\* Every word compiled from a file that is still open stands before the point
\* where reading of that file goes on.
Behind(at, f) == \/ at[2] < f.line_num
                 \/ at[2] = f.line_num /\ at[3] <= f.op_num
LogBehind == \A k \in 1 .. Len(log) :
               /\ log[k].at[1] \in DOMAIN all_imported_paths
               /\ \A i \in 1 .. Len(open) :
                    open[i].path = log[k].at[1] => Behind(log[k].at, open[i])

\* Numbers are handed out in order.
NumbersBounded == \A p \in DOMAIN all_imported_paths :
                    FileNum(p) <= Cardinality(DOMAIN all_imported_paths)

IInv == /\ Shape
        /\ OpenOnce
        /\ NumbersBounded
        /\ NumbersDistinct
        /\ LogBehind
        /\ EachWordOnce

-----------------------------------------------------------------------------
\* A file system that may exist maps paths of the instance to lines of words.
LEMMA DiskType ==
  ASSUME disk \in FileSystems
  PROVE  /\ DOMAIN disk \subseteq Paths
         /\ Root \in DOMAIN disk
         /\ \A p \in DOMAIN disk : disk[p] \in Seq(Seq(Words))
PROOF
<1>1. PICK D \in SUBSET Paths : Root \in D /\ disk \in [D -> Seq(Seq(Words))]
  BY FileSystemsAssumption
<1> QED BY <1>1

\* The top frame and the rest of the stack after it is replaced.
LEMMA ReplaceTopProperties ==
  ASSUME open \in Seq(Frames), open # <<>>, NEW f \in Frames
  PROVE  /\ Top \in Frames
         /\ Len(open) \in Nat \ {0}
         /\ ReplaceTop(f) \in Seq(Frames)
         /\ Len(ReplaceTop(f)) = Len(open)
         /\ ReplaceTop(f)[Len(open)] = f
         /\ \A i \in 1 .. Len(open) : i # Len(open) => ReplaceTop(f)[i] = open[i]
         /\ ReplaceTop(f) # <<>>
  BY DEF Top, ReplaceTop

\* The first n - 1 elements of a sequence.
LEMMA PrefixProperties ==
  ASSUME NEW S, NEW s, NEW n \in Nat \ {0}, \A i \in 1 .. n - 1 : s[i] \in S
  PROVE  /\ SubSeq(s, 1, n - 1) \in Seq(S)
         /\ Len(SubSeq(s, 1, n - 1)) = n - 1
         /\ \A i \in 1 .. n - 1 : SubSeq(s, 1, n - 1)[i] = s[i]
PROOF
<1>1. /\ SubSeq(s, 1, n - 1) \in Seq(S)
      /\ Len(SubSeq(s, 1, n - 1)) = (IF 1 <= n - 1 THEN (n - 1) - 1 + 1 ELSE 0)
      /\ \A i \in 1 .. (n - 1) - 1 + 1 : SubSeq(s, 1, n - 1)[i] = s[1 + i - 1]
  BY SubSeqProperties
<1> QED BY <1>1

\* The stack after the top frame is removed.
LEMMA PopProperties ==
  ASSUME open \in Seq(Frames), open # <<>>
  PROVE  /\ Pop(open) \in Seq(Frames)
         /\ Len(Pop(open)) = Len(open) - 1
         /\ \A i \in 1 .. Len(open) - 1 : Pop(open)[i] = open[i]
PROOF
<1>1. Len(open) \in Nat \ {0}
  BY EmptySeq
<1>2. \A i \in 1 .. Len(open) - 1 : open[i] \in Frames
  BY <1>1, LenProperties
<1>3. /\ SubSeq(open, 1, Len(open) - 1) \in Seq(Frames)
      /\ Len(SubSeq(open, 1, Len(open) - 1)) = Len(open) - 1
      /\ \A i \in 1 .. Len(open) - 1 : SubSeq(open, 1, Len(open) - 1)[i] = open[i]
  <2>1. \A n \in Nat \ {0} : (\A i \in 1 .. n - 1 : open[i] \in Frames) =>
          /\ SubSeq(open, 1, n - 1) \in Seq(Frames)
          /\ Len(SubSeq(open, 1, n - 1)) = n - 1
          /\ \A i \in 1 .. n - 1 : SubSeq(open, 1, n - 1)[i] = open[i]
    BY PrefixProperties, Zenon
  <2> QED BY <1>1, <1>2, <2>1, Zenon
<1> QED BY <1>3, Zenon DEF Pop

\* A word taken from the current line is a word of the instance.
LEMMA CurrentType ==
  ASSUME Shape, status = "reading", ~EndOfLine
  PROVE  /\ Current \in Words
         /\ LineOf(Top) \in Seq(Words)
         /\ Top \in Frames
         /\ InFile(Top)
         /\ Consumed \in Frames
         /\ InFile(Consumed)
         /\ Consumed.path = Top.path
         /\ Consumed.line_num = Top.line_num
         /\ Consumed.op_num = Top.op_num + 1
PROOF
<1>1. /\ Top \in Frames
      /\ InFile(Top)
  <2>1. open \in Seq(Frames) /\ open # <<>> /\ \A i \in 1 .. Len(open) : InFile(open[i])
    BY DEF Shape, TypeOK, Reading
  <2>2. Len(open) \in 1 .. Len(open)
    BY <2>1, EmptySeq, LenProperties
  <2> QED BY <2>1, <2>2 DEF Top
<1>2. /\ disk[Top.path] \in Seq(Seq(Words))
      /\ DOMAIN disk \subseteq Paths
  BY <1>1, DiskType DEF Shape, TypeOK, InFile
<1>3. LineOf(Top) \in Seq(Words)
  BY <1>1, <1>2 DEF LineOf, InFile, Frames
<1>4. Current \in Words
  BY <1>1, <1>3 DEF Current, EndOfLine, Frames
<1>5. /\ Consumed \in Frames
      /\ InFile(Consumed)
      /\ Consumed.path = Top.path
      /\ Consumed.line_num = Top.line_num
      /\ Consumed.op_num = Top.op_num + 1
  <2>1. Top.op_num + 1 \in Nat /\ Top.index + 1 \in Nat
    BY <1>1 DEF Frames
  <2>2. Consumed = [Top EXCEPT !.op_num = Top.op_num + 1, !.index = Top.index + 1]
    BY Zenon DEF Consumed
  <2>3. /\ Consumed \in Frames
        /\ Consumed.path = Top.path
        /\ Consumed.line_num = Top.line_num
        /\ Consumed.op_num = Top.op_num + 1
    <3>1. \A n, m \in Nat : Consumed = [Top EXCEPT !.op_num = n, !.index = m] =>
                              /\ Consumed \in Frames
                              /\ Consumed.path = Top.path
                              /\ Consumed.line_num = Top.line_num
                            /\ Consumed.op_num = n
      BY <1>1 DEF Frames
    <3> QED BY <2>1, <2>2, <3>1, Zenon
  <2> QED BY <1>1, <2>3 DEF InFile
<1> QED BY <1>1, <1>3, <1>4, <1>5

\* A new path gets the number of paths known, itself included.
LEMMA WithNumberProperties ==
  ASSUME Shape, NEW p \in Paths, p \notin DOMAIN all_imported_paths
  PROVE  LET w == WithNumber(p)  n == Cardinality(DOMAIN all_imported_paths)
         IN /\ DOMAIN w = DOMAIN all_imported_paths \cup {p}
            /\ w \in [DOMAIN w -> Nat \ {0}]
            /\ IsFiniteSet(DOMAIN w)
            /\ DOMAIN w \subseteq Paths
            /\ n \in Nat
            /\ Cardinality(DOMAIN w) = n + 1
            /\ w[p] = n + 1
            /\ \A q \in DOMAIN all_imported_paths : w[q] = FileNum(q)
PROOF
<1>1. Cardinality(DOMAIN all_imported_paths) \in Nat
  BY FS_CardinalityType DEF Shape
<1>2. /\ IsFiniteSet(DOMAIN all_imported_paths \cup {p})
      /\ Cardinality(DOMAIN all_imported_paths \cup {p})
           = Cardinality(DOMAIN all_imported_paths) + 1
  BY FS_AddElement DEF Shape
<1> QED BY <1>1, <1>2 DEF WithNumber, FileNum, Shape, TypeOK

-----------------------------------------------------------------------------
\* The counters of the top frame after next(files[-1]), and after a comment.
LEMMA NextLineFrame ==
  ASSUME Top \in Frames
  PROVE  LET f == [Top EXCEPT !.line_num = @ + 1, !.op_num = 0, !.index = 0]
         IN /\ f \in Frames
            /\ f.path = Top.path
            /\ f.line_num = Top.line_num + 1
            /\ f.op_num = 0
PROOF
<1>1. Top.line_num + 1 \in Nat
  BY DEF Frames
<1>2. \A n \in Nat : LET f == [Top EXCEPT !.line_num = n, !.op_num = 0, !.index = 0]
                     IN /\ f \in Frames
                        /\ f.path = Top.path
                        /\ f.line_num = n
                        /\ f.op_num = 0
  BY DEF Frames
<1> QED BY <1>1, <1>2, Zenon

\* The top frame after skip_line is a frame of the same file.
LEMMA CommentFrame ==
  ASSUME Consumed \in Frames, NEW n \in Nat
  PROVE  LET f == [Consumed EXCEPT !.index = n]
         IN /\ f \in Frames
            /\ f.path = Consumed.path
            /\ f.line_num = Consumed.line_num
            /\ f.op_num = Consumed.op_num
  BY DEF Frames

\* Replacing the top frame by one of the same file keeps the state typed.
LEMMA ReplaceTopKeepsShape ==
  ASSUME Shape, status = "reading", NEW f \in Frames, InFile(f),
         open' = ReplaceTop(f), disk' = disk,
         all_imported_paths' = all_imported_paths
  PROVE  /\ open' \in Seq(Frames)
         /\ open' # <<>>
         /\ (\A i \in 1 .. Len(open) : InFile(open[i]))'
PROOF
<1>1. open \in Seq(Frames) /\ open # <<>> /\ \A i \in 1 .. Len(open) : InFile(open[i])
  BY DEF Shape, TypeOK, Reading
<1>2. /\ Len(open) \in Nat \ {0}
      /\ open' \in Seq(Frames)
      /\ Len(open') = Len(open)
      /\ open'[Len(open)] = f
      /\ \A i \in 1 .. Len(open) : i # Len(open) => open'[i] = open[i]
      /\ open' # <<>>
  BY <1>1, ReplaceTopProperties, Zenon
<1>3. ASSUME NEW i \in 1 .. Len(open')
      PROVE  InFile(open[i])'
  <2>1. InFile(open'[i])
    BY <1>1, <1>2
  <2> QED BY <2>1 DEF InFile
<1> QED BY <1>2, <1>3

\* The first file has been opened and nothing of it read.
THEOREM ShapeInit == Init => Shape
PROOF
<1> SUFFICES ASSUME Init PROVE Shape
  OBVIOUS
<1>1. Opened(Root) \in Frames /\ Opened(Root).path = Root /\ Opened(Root).line_num = 0
  BY RootAssumption DEF Opened, Frames
<1>2. open \in Seq(Frames) /\ Len(open) = 1 /\ open[1] = Opened(Root) /\ open # <<>>
  BY <1>1 DEF Init
<1>3. Root \in DOMAIN disk /\ disk[Root] \in Seq(Seq(Words))
  BY DiskType DEF Init
<1>4. /\ DOMAIN all_imported_paths = {Root}
      /\ all_imported_paths[Root] = 1
      /\ all_imported_paths \in [{Root} -> Nat \ {0}]
  BY DEF Init
<1>5. IsFiniteSet(DOMAIN all_imported_paths)
  BY <1>4, FS_Singleton
<1>6. TypeOK
  BY <1>2, <1>4, RootAssumption DEF Init, TypeOK
<1>7. Reading
  BY <1>1, <1>2, <1>3, <1>4, LenProperties DEF Reading, InFile
<1> QED BY <1>5, <1>6, <1>7 DEF Shape

\* Every step of the iterator and its driver keeps types and the stack's shape.
THEOREM ShapeStep == Shape /\ [Next]_vars => Shape'
PROOF
<1> SUFFICES ASSUME Shape, [Next]_vars PROVE Shape'
  OBVIOUS
<1>1. CASE UNCHANGED vars
  BY <1>1 DEF vars, Shape, TypeOK, Reading, InFile
<1>2. CASE status = "reading" /\ NextLine
  <2> DEFINE f == [Top EXCEPT !.line_num = @ + 1, !.op_num = 0, !.index = 0]
  <2>1. Top \in Frames /\ InFile(Top) /\ Top.line_num < Len(disk[Top.path])
    <3>1. open \in Seq(Frames) /\ open # <<>> /\ \A i \in 1 .. Len(open) : InFile(open[i])
      BY <1>2 DEF Shape, TypeOK, Reading
    <3>2. Len(open) \in 1 .. Len(open)
      BY <3>1, EmptySeq
    <3> QED BY <1>2, <3>1, <3>2 DEF Top, NextLine
  <2>2. f \in Frames /\ f.path = Top.path /\ f.line_num = Top.line_num + 1
    BY <2>1, NextLineFrame
  <2> HIDE DEF f
  <2>3. InFile(f)
    <3>1. Len(disk[Top.path]) \in Nat
      BY <2>1, DiskType, LenProperties DEF Shape, TypeOK, InFile
    <3> QED BY <2>1, <2>2, <3>1 DEF InFile, Frames
  <2>4. open' = ReplaceTop(f) /\ UNCHANGED <<disk, all_imported_paths, fileTable, log, status>>
    BY <1>2 DEF f, NextLine
  <2> QED BY <1>2, <2>2, <2>3, <2>4, ReplaceTopKeepsShape DEF Shape, TypeOK, Reading
<1>3. CASE status = "reading" /\ CloseFile
  <2>1. /\ open \in Seq(Frames)
        /\ open # <<>>
        /\ \A i \in 1 .. Len(open) : InFile(open[i])
    BY <1>3 DEF Shape, TypeOK, Reading
  <2>2. /\ open' \in Seq(Frames)
        /\ Len(open') = Len(open) - 1
        /\ \A i \in 1 .. Len(open) - 1 : open'[i] = open[i]
    BY <1>3, <2>1, PopProperties DEF CloseFile
  <2>3. ASSUME NEW i \in 1 .. Len(open')
        PROVE  InFile(open[i])'
    <3>1. i \in 1 .. Len(open) /\ open'[i] = open[i]
      BY <2>1, <2>2, LenProperties
    <3> QED BY <1>3, <2>1, <3>1 DEF InFile, CloseFile
  <2>4. status' = "reading" => open' # <<>>
    BY <1>3 DEF CloseFile
  <2> QED BY <1>3, <2>2, <2>3, <2>4 DEF Shape, TypeOK, Reading, CloseFile
<1>4. CASE status = "reading" /\ ReadWord
  <2>1. /\ Consumed \in Frames /\ InFile(Consumed) /\ Top \in Frames /\ InFile(Top)
        /\ Consumed.path = Top.path
    BY <1>4, CurrentType DEF ReadWord
  <2>2. /\ open' \in Seq(Frames)
        /\ open' # <<>>
        /\ (\A i \in 1 .. Len(open) : InFile(open[i]))'
    BY <1>4, <2>1, ReplaceTopKeepsShape DEF ReadWord
  <2>3. FileNum(Top.path) \in Nat \ {0}
    BY <2>1 DEF FileNum, InFile, Shape, TypeOK
  <2>4. Here(Consumed) \in Paths \X Nat \X Nat
    BY <2>1 DEF Here, Frames
  <2>5. log' \in Seq([at : Paths \X Nat \X Nat, num : Nat \ {0}])
    BY <1>4, <2>3, <2>4, AppendProperties DEF ReadWord, Shape, TypeOK
  <2> QED BY <1>4, <2>2, <2>5 DEF Shape, TypeOK, Reading, ReadWord
<1>5. CASE status = "reading" /\ SkipComment
  <2> DEFINE f == [Consumed EXCEPT !.index = Len(LineOf(Top))]
  <2>1. /\ Consumed \in Frames
        /\ InFile(Consumed)
        /\ Len(LineOf(Top)) \in Nat
    BY <1>5, CurrentType, LenProperties DEF SkipComment
  <2>2. f \in Frames /\ f.path = Consumed.path /\ f.line_num = Consumed.line_num
    BY <2>1, CommentFrame
  <2> HIDE DEF f
  <2>3. InFile(f)
    BY <2>1, <2>2 DEF InFile
  <2>4. open' = ReplaceTop(f) /\ UNCHANGED <<disk, all_imported_paths, fileTable, log, status>>
    BY <1>5 DEF f, SkipComment
  <2> QED BY <1>5, <2>2, <2>3, <2>4, ReplaceTopKeepsShape DEF Shape, TypeOK, Reading
<1>6. CASE UnterminatedString
  BY <1>6 DEF UnterminatedString, Shape, TypeOK, Reading
<1>7. CASE status = "reading" /\ ReadImport
  <2> DEFINE p == Lower[Current.path]
  <2>1. /\ Consumed \in Frames /\ InFile(Consumed)
        /\ Top \in Frames /\ InFile(Top)
        /\ Current \in Words
    BY <1>7, CurrentType DEF ReadImport
  <2>2. p \in Paths
    <3>1. Current.path \in Paths
      BY <1>7, <2>1 DEF ReadImport, Words, Word, Rejected, Comment, Unterminated, Import
    <3> QED BY <3>1, LowerAssumption
  <2>3. ImportNew(p) \/ ImportAgain(p)
    BY <1>7 DEF ReadImport
  <2> HIDE DEF p
  <2>4. CASE ImportAgain(p)
    <3>1. /\ open' \in Seq(Frames)
          /\ open' # <<>>
          /\ (\A i \in 1 .. Len(open) : InFile(open[i]))'
      BY <1>7, <2>1, <2>4, ReplaceTopKeepsShape DEF ImportAgain
    <3>2. <<FileNum(Top.path), p>> \in (Nat \ {0}) \X Paths
      BY <2>1, <2>2 DEF FileNum, InFile, Shape, TypeOK
    <3>3. fileTable' \in Seq((Nat \ {0}) \X Paths)
      BY <2>4, <3>2, AppendProperties DEF ImportAgain, Shape, TypeOK
    <3> QED BY <1>7, <2>4, <3>1, <3>3 DEF Shape, TypeOK, Reading, ImportAgain
  <2>5. CASE ImportNew(p)
    <3> DEFINE w == WithNumber(p)  n == Cardinality(DOMAIN all_imported_paths)
    <3>1. /\ DOMAIN w = DOMAIN all_imported_paths \cup {p}
          /\ w \in [DOMAIN w -> Nat \ {0}]
          /\ IsFiniteSet(DOMAIN w)
          /\ DOMAIN w \subseteq Paths
          /\ w[p] \in Nat \ {0}
      BY <2>2, <2>5, WithNumberProperties DEF ImportNew
    <3> HIDE DEF w
    <3>2. /\ all_imported_paths' = w
          /\ open' = Append(ReplaceTop(Consumed), Opened(p))
          /\ disk' = disk /\ log' = log
          /\ status' = IF p \in DOMAIN disk THEN status ELSE "error"
          /\ fileTable' = IF p \in DOMAIN disk THEN Append(fileTable, <<w[p], p>>)
                          ELSE fileTable
      BY <2>5 DEF ImportNew, w
    <3>3. fileTable' \in Seq((Nat \ {0}) \X Paths)
      BY <2>2, <3>1, <3>2, AppendProperties DEF Shape, TypeOK
    <3>4. /\ open \in Seq(Frames) /\ open # <<>>
          /\ \A i \in 1 .. Len(open) : InFile(open[i])
      BY <1>7 DEF Shape, TypeOK, Reading
    <3>5. /\ Len(open) \in Nat \ {0}
          /\ ReplaceTop(Consumed) \in Seq(Frames)
          /\ Len(ReplaceTop(Consumed)) = Len(open)
          /\ ReplaceTop(Consumed)[Len(open)] = Consumed
          /\ \A i \in 1 .. Len(open) :
               i # Len(open) => ReplaceTop(Consumed)[i] = open[i]
      BY <2>1, <3>4, ReplaceTopProperties, Zenon
    <3>6. Opened(p) \in Frames /\ Opened(p).path = p /\ Opened(p).line_num = 0
      BY <2>2 DEF Opened, Frames
    <3>7. /\ open' \in Seq(Frames)
          /\ open' # <<>>
          /\ Len(open') = Len(open) + 1
          /\ open'[Len(open) + 1] = Opened(p)
          /\ \A i \in 1 .. Len(open) : open'[i] = ReplaceTop(Consumed)[i]
      BY <3>2, <3>5, <3>6, AppendProperties
    <3>8. ASSUME status' = "reading", NEW i \in 1 .. Len(open')
          PROVE  InFile(open[i])'
      <4>1. p \in DOMAIN disk /\ disk[p] \in Seq(Seq(Words))
        BY <3>2, <3>8, DiskType DEF Shape, TypeOK
      <4>2. CASE i = Len(open) + 1
        <5>1. Len(disk[p]) >= 0
          BY <4>1, LenProperties
        <5> QED BY <3>1, <3>2, <3>6, <3>7, <4>1, <4>2, <5>1 DEF InFile
      <4>3. CASE i = Len(open)
        BY <2>1, <3>1, <3>2, <3>5, <3>7, <4>3 DEF InFile
      <4>4. CASE i < Len(open)
        <5>1. i \in 1 .. Len(open) /\ open'[i] = open[i]
          BY <3>5, <3>7, <4>4
        <5> QED BY <3>1, <3>2, <3>4, <5>1 DEF InFile
      <4> QED BY <3>5, <3>7, <3>8, <4>2, <4>3, <4>4
    <3> QED BY <1>7, <3>1, <3>2, <3>3, <3>7, <3>8 DEF Shape, TypeOK, Reading
  <2> QED BY <2>3, <2>4, <2>5
<1> QED BY <1>1, <1>2, <1>3, <1>4, <1>5, <1>6, <1>7 DEF Next

\* The state is always of its type: the bookkeeping of open files, lines and
\* numbers stays consistent whatever files import whatever others.
THEOREM TypeCorrect == Spec => []TypeOK
PROOF
<1>1. Shape => TypeOK
  BY DEF Shape
<1> QED BY <1>1, ShapeInit, ShapeStep, PTL DEF Spec

-----------------------------------------------------------------------------
\* What is behind a position is behind every later position of that file.
LEMMA BehindLater ==
  ASSUME NEW at, at[2] \in Nat, at[3] \in Nat, NEW f \in Frames, NEW g \in Frames,
         \/ g.line_num > f.line_num
         \/ g.line_num = f.line_num /\ g.op_num >= f.op_num,
         Behind(at, f)
  PROVE  Behind(at, g)
  BY DEF Behind, Frames

\* A word compiled has a place in a file.
LEMMA LogType ==
  ASSUME Shape, NEW k \in 1 .. Len(log)
  PROVE  log[k].at[2] \in Nat /\ log[k].at[3] \in Nat
PROOF
<1>1. log[k] \in [at : Paths \X Nat \X Nat, num : Nat \ {0}]
  BY ElementOfSeq DEF Shape, TypeOK
<1> QED BY <1>1

\* Reading on in the top file: its path stays, its position does not go back.
LEMMA AdvanceKeeps ==
  ASSUME Shape, OpenOnce, LogBehind, status = "reading",
         NEW f \in Frames, f.path = Top.path,
         \/ f.line_num > Top.line_num
         \/ f.line_num = Top.line_num /\ f.op_num >= Top.op_num,
         open' = ReplaceTop(f), log' = log,
         all_imported_paths' = all_imported_paths
  PROVE  OpenOnce' /\ LogBehind'
PROOF
<1>1. open \in Seq(Frames) /\ open # <<>>
  BY DEF Shape, TypeOK, Reading
<1>2. /\ Len(open) \in Nat \ {0}
      /\ Len(open') = Len(open)
      /\ open'[Len(open)] = f
      /\ \A i \in 1 .. Len(open) : i # Len(open) => open'[i] = open[i]
      /\ Top \in Frames
      /\ Top = open[Len(open)]
  BY <1>1, ReplaceTopProperties, Zenon DEF Top
<1>3. \A i \in 1 .. Len(open) : open'[i].path = open[i].path
  BY <1>2
<1>4. OpenOnce'
  BY <1>2, <1>3 DEF OpenOnce
<1>5. ASSUME NEW k \in 1 .. Len(log), NEW i \in 1 .. Len(open),
             open'[i].path = log[k].at[1]
      PROVE  Behind(log[k].at, open'[i])
  <2>1. Behind(log[k].at, open[i])
    <3>1. open[i].path = log[k].at[1]
      BY <1>3, <1>5
    <3> QED BY <3>1 DEF LogBehind
  <2>2. CASE i # Len(open)
    BY <1>2, <2>1, <2>2
  <2>3. CASE i = Len(open)
    <3>1. Behind(log[k].at, Top)
      BY <1>2, <2>1, <2>3
    <3>2. Behind(log[k].at, f)
      BY <1>2, <3>1, LogType, BehindLater
    <3> QED BY <1>2, <2>3, <3>2
  <2> QED BY <2>2, <2>3
<1>6. LogBehind'
  BY <1>2, <1>5 DEF LogBehind, Behind
<1> QED BY <1>4, <1>6

\* Closing a file leaves the files below it as they were.
LEMMA CloseKeeps ==
  ASSUME Shape, OpenOnce, LogBehind, status = "reading", CloseFile
  PROVE  OpenOnce' /\ LogBehind'
PROOF
<1>1. /\ open \in Seq(Frames) /\ open # <<>>
      /\ open' = Pop(open) /\ log' = log
      /\ all_imported_paths' = all_imported_paths
  BY DEF Shape, TypeOK, Reading, CloseFile
<1>2. /\ Len(open) \in Nat
      /\ Len(open') = Len(open) - 1
      /\ \A i \in 1 .. Len(open) - 1 : open'[i] = open[i]
  BY <1>1, PopProperties, LenProperties
<1>3. OpenOnce'
  BY <1>1, <1>2 DEF OpenOnce
<1>4. LogBehind'
  BY <1>1, <1>2 DEF LogBehind, Behind
<1> QED BY <1>3, <1>4

\* The word just read stands after every word compiled from the same file.
LEMMA ReadKeeps ==
  ASSUME IInv, status = "reading", ReadWord
  PROVE  OpenOnce' /\ LogBehind' /\ EachWordOnce'
PROOF
<1>1. /\ open \in Seq(Frames) /\ open # <<>>
      /\ OpenOnce /\ LogBehind /\ EachWordOnce /\ Shape
      /\ log \in Seq([at : Paths \X Nat \X Nat, num : Nat \ {0}])
  BY DEF IInv, Shape, TypeOK, Reading
<1>2. /\ Consumed \in Frames
      /\ Top \in Frames
      /\ Consumed.path = Top.path
      /\ Consumed.line_num = Top.line_num
      /\ Consumed.op_num = Top.op_num + 1
      /\ InFile(Top)
  BY <1>1, CurrentType DEF ReadWord
<1>3. /\ Len(open) \in Nat \ {0}
      /\ Len(open') = Len(open)
      /\ open'[Len(open)] = Consumed
      /\ \A i \in 1 .. Len(open) : i # Len(open) => open'[i] = open[i]
      /\ Top = open[Len(open)]
  BY <1>1, <1>2, ReplaceTopProperties, Zenon DEF Top, ReadWord
<1> DEFINE e == [at |-> Here(Consumed), num |-> FileNum(Top.path)]
<1>4. /\ e.at[1] = Top.path
      /\ e.at[2] = Top.line_num
      /\ e.at[3] = Top.op_num + 1
  BY <1>2 DEF Here
<1>5. e \in [at : Paths \X Nat \X Nat, num : Nat \ {0}]
  BY <1>1, <1>2 DEF Here, FileNum, Frames, InFile, Shape, TypeOK
<1> HIDE DEF e
<1>6. /\ log' = Append(log, e)
      /\ all_imported_paths' = all_imported_paths
  BY DEF ReadWord, e
<1>7. /\ Len(log) \in Nat
      /\ Len(log') = Len(log) + 1
      /\ log'[Len(log) + 1] = e
      /\ \A k \in 1 .. Len(log) : log'[k] = log[k]
  BY <1>1, <1>5, <1>6, AppendProperties, LenProperties
<1>8. \A k \in 1 .. Len(log) : log[k].at[2] \in Nat /\ log[k].at[3] \in Nat
  BY <1>1, LogType
<1>9. \A i \in 1 .. Len(open) : open'[i].path = open[i].path
  BY <1>2, <1>3
<1>10. OpenOnce'
  BY <1>1, <1>3, <1>6, <1>9 DEF OpenOnce
<1>11. \A k \in 1 .. Len(log) : log[k].at # e.at
  <2> SUFFICES ASSUME NEW k \in 1 .. Len(log), log[k].at[1] = Top.path
               PROVE  log[k].at[2] # e.at[2] \/ log[k].at[3] # e.at[3]
    BY <1>4
  <2>1. Behind(log[k].at, Top)
    <3>1. Len(open) \in 1 .. Len(open) /\ open[Len(open)].path = log[k].at[1]
      BY <1>3
    <3> QED BY <1>1, <1>3, <3>1 DEF LogBehind
  <2> QED BY <1>2, <1>4, <1>8, <2>1 DEF Behind, Frames
<1>12. EachWordOnce'
  <2>1. \A k \in 1 .. Len(log) : log'[k].at # e.at /\ log'[k].at = log[k].at
    BY <1>7, <1>11
  <2>2. ASSUME NEW i \in 1 .. Len(log'), NEW j \in 1 .. Len(log'),
               log'[i].at = log'[j].at
        PROVE  i = j
    <3>1. CASE i \in 1 .. Len(log) /\ j \in 1 .. Len(log)
      BY <1>1, <2>1, <2>2, <3>1 DEF EachWordOnce
    <3>2. CASE i = Len(log) + 1 \/ j = Len(log) + 1
      BY <1>7, <2>1, <2>2, <3>2
    <3> QED BY <1>7, <3>1, <3>2
  <2> QED BY <2>2 DEF EachWordOnce
<1>13. ASSUME NEW k \in 1 .. Len(log'), NEW i \in 1 .. Len(open'),
              open'[i].path = log'[k].at[1]
       PROVE  Behind(log'[k].at, open'[i])
  <2>1. CASE k = Len(log) + 1
    <3>1. i = Len(open)
      BY <1>1, <1>3, <1>4, <1>7, <1>9, <1>13, <2>1 DEF OpenOnce
    <3> QED BY <1>2, <1>3, <1>4, <1>7, <2>1, <3>1 DEF Behind, Frames
  <2>2. CASE k \in 1 .. Len(log)
    <3>1. log'[k] = log[k] /\ i \in 1 .. Len(open) /\ open[i].path = log[k].at[1]
      BY <1>3, <1>7, <1>9, <1>13, <2>2
    <3>2. Behind(log[k].at, open[i])
      BY <1>1, <2>2, <3>1 DEF LogBehind
    <3>3. CASE i # Len(open)
      BY <1>3, <3>1, <3>2, <3>3
    <3>4. CASE i = Len(open)
      <4>1. Consumed.line_num = Top.line_num /\ Consumed.op_num >= Top.op_num
        BY <1>2 DEF Frames
      <4>2. Behind(log[k].at, Consumed)
        BY <1>2, <1>3, <1>8, <2>2, <3>2, <3>4, <4>1, BehindLater
      <4> QED BY <1>3, <3>1, <3>4, <4>2
    <3> QED BY <3>3, <3>4
  <2> QED BY <1>7, <1>13, <2>1, <2>2
<1>14. ASSUME NEW k \in 1 .. Len(log')
       PROVE  log'[k].at[1] \in DOMAIN all_imported_paths
  <2>1. CASE k \in 1 .. Len(log)
    BY <1>1, <1>7, <2>1 DEF LogBehind
  <2>2. CASE k = Len(log) + 1
    BY <1>2, <1>4, <1>7, <2>2 DEF InFile
  <2> QED BY <1>7, <2>1, <2>2
<1>15. LogBehind'
  BY <1>6, <1>13, <1>14 DEF LogBehind, Behind
<1> QED BY <1>10, <1>12, <1>15

\* Opening a file that was never named before: nothing was compiled from it,
\* and its number is a new one.
LEMMA ImportKeeps ==
  ASSUME IInv, status = "reading", NEW p \in Paths, ImportNew(p), ~EndOfLine
  PROVE  OpenOnce' /\ LogBehind' /\ NumbersBounded' /\ NumbersDistinct'
PROOF
<1> DEFINE dom == DOMAIN all_imported_paths  n == Cardinality(dom)
<1>1. /\ open \in Seq(Frames) /\ open # <<>>
      /\ Shape /\ OpenOnce /\ LogBehind /\ NumbersBounded /\ NumbersDistinct
      /\ \A q \in dom : FileNum(q) \in Nat
  BY DEF IInv, Shape, TypeOK, Reading, FileNum
<1>2. /\ Consumed \in Frames
      /\ Top \in Frames
      /\ Consumed.path = Top.path
      /\ Consumed.line_num = Top.line_num
      /\ Consumed.op_num >= Top.op_num
  BY <1>1, CurrentType DEF Frames
<1>3. /\ p \notin dom
      /\ all_imported_paths' = WithNumber(p)
      /\ open' = Append(ReplaceTop(Consumed), Opened(p))
      /\ log' = log
  BY DEF ImportNew
<1>4. /\ DOMAIN all_imported_paths' = dom \cup {p}
      /\ n \in Nat
      /\ Cardinality(DOMAIN all_imported_paths') = n + 1
      /\ all_imported_paths'[p] = n + 1
      /\ \A q \in dom : all_imported_paths'[q] = FileNum(q)
  BY <1>1, <1>3, WithNumberProperties
<1>5. /\ Len(open) \in Nat \ {0}
      /\ ReplaceTop(Consumed) \in Seq(Frames)
      /\ Len(ReplaceTop(Consumed)) = Len(open)
      /\ ReplaceTop(Consumed)[Len(open)] = Consumed
      /\ \A i \in 1 .. Len(open) : i # Len(open) => ReplaceTop(Consumed)[i] = open[i]
      /\ Top = open[Len(open)]
  BY <1>1, <1>2, ReplaceTopProperties, Zenon DEF Top
<1>6. Opened(p) \in Frames /\ Opened(p).path = p
  BY DEF Opened, Frames
<1>7. /\ Len(open') = Len(open) + 1
      /\ open'[Len(open) + 1] = Opened(p)
      /\ \A i \in 1 .. Len(open) : open'[i] = ReplaceTop(Consumed)[i]
  BY <1>3, <1>5, <1>6, AppendProperties
<1>8. \A i \in 1 .. Len(open) : open'[i].path = open[i].path
  BY <1>2, <1>5, <1>7
<1> HIDE DEF n
<1>9. OpenOnce'
  <2>1. \A i \in 1 .. Len(open) : open'[i].path \in dom /\ open'[i].path # p
    BY <1>1, <1>3, <1>8 DEF OpenOnce
  <2>2. ASSUME NEW i \in 1 .. Len(open'), NEW j \in 1 .. Len(open'),
               open'[i].path = open'[j].path
        PROVE  i = j
    <3>1. CASE i \in 1 .. Len(open) /\ j \in 1 .. Len(open)
      BY <1>1, <1>8, <2>2, <3>1 DEF OpenOnce
    <3>2. CASE i = Len(open) + 1 \/ j = Len(open) + 1
      BY <1>6, <1>7, <2>1, <2>2, <3>2
    <3> QED BY <1>5, <1>7, <3>1, <3>2
  <2>3. ASSUME NEW i \in 1 .. Len(open')
        PROVE  open'[i].path \in dom \cup {p}
    <3>1. CASE i = Len(open) + 1
      BY <1>6, <1>7, <3>1
    <3>2. CASE i \in 1 .. Len(open)
      BY <2>1, <3>2
    <3> QED BY <1>5, <1>7, <3>1, <3>2
  <2> QED BY <1>4, <2>2, <2>3 DEF OpenOnce
<1>10. ASSUME NEW k \in 1 .. Len(log), NEW i \in 1 .. Len(open'),
              open'[i].path = log[k].at[1]
       PROVE  Behind(log[k].at, open'[i])
  <2>1. i \in 1 .. Len(open)
    <3>1. open'[i].path # p
      BY <1>1, <1>3, <1>10 DEF LogBehind
    <3> QED BY <1>5, <1>6, <1>7, <3>1
  <2>2. Behind(log[k].at, open[i])
    <3>1. open[i].path = log[k].at[1]
      BY <1>8, <1>10, <2>1
    <3> QED BY <1>1, <2>1, <3>1 DEF LogBehind
  <2>3. CASE i # Len(open)
    BY <1>5, <1>7, <2>1, <2>2, <2>3
  <2>4. CASE i = Len(open)
    <3>1. log[k].at[2] \in Nat /\ log[k].at[3] \in Nat
      BY <1>1, LogType
    <3>2. Behind(log[k].at, Consumed)
      BY <1>2, <1>5, <2>2, <2>4, <3>1, BehindLater
    <3> QED BY <1>5, <1>7, <2>4, <3>2
  <2> QED BY <2>3, <2>4
<1>11. LogBehind'
  <2>1. \A k \in 1 .. Len(log) : log[k].at[1] \in DOMAIN all_imported_paths'
    BY <1>1, <1>4 DEF LogBehind
  <2> QED BY <1>3, <1>10, <2>1 DEF LogBehind, Behind
<1>12. NumbersBounded'
  <2>1. \A q \in dom : all_imported_paths'[q] <= n
    BY <1>1, <1>4 DEF NumbersBounded, n
  <2>2. \A q \in dom : all_imported_paths'[q] \in Nat
    BY <1>1, <1>4
  <2> QED BY <1>4, <2>1, <2>2 DEF NumbersBounded, FileNum
<1>13. NumbersDistinct'
  <2>1. \A q \in dom : all_imported_paths'[q] <= n /\ all_imported_paths'[q] \in Nat
    BY <1>1, <1>4 DEF NumbersBounded, n
  <2>2. ASSUME NEW q \in dom \cup {p}, NEW r \in dom \cup {p},
               all_imported_paths'[q] = all_imported_paths'[r]
        PROVE  q = r
    <3>1. CASE q \in dom /\ r \in dom
      BY <1>1, <1>4, <2>2, <3>1 DEF NumbersDistinct
    <3>2. CASE q = p \/ r = p
      BY <1>4, <2>1, <2>2, <3>2
    <3> QED BY <3>1, <3>2
  <2> QED BY <1>4, <2>2 DEF NumbersDistinct, FileNum
<1> QED BY <1>9, <1>11, <1>12, <1>13

-----------------------------------------------------------------------------
\* The inductive invariant holds before the first word.
THEOREM IInvInit == Init => IInv
PROOF
<1> SUFFICES ASSUME Init PROVE IInv
  OBVIOUS
<1>1. Shape
  BY ShapeInit
<1>2. /\ DOMAIN all_imported_paths = {Root}
      /\ all_imported_paths[Root] = 1
      /\ Cardinality({Root}) = 1
  BY FS_Singleton DEF Init
<1>3. OpenOnce
  <2>1. Len(open) = 1 /\ open[1].path = Root
    BY DEF Init, Opened
  <2> QED BY <1>2, <2>1 DEF OpenOnce
<1>4. NumbersBounded /\ NumbersDistinct
  BY <1>2 DEF NumbersBounded, NumbersDistinct, FileNum
<1>5. LogBehind /\ EachWordOnce
  <2>1. Len(log) = 0
    BY DEF Init
  <2> QED BY <2>1 DEF LogBehind, EachWordOnce
<1> QED BY <1>1, <1>3, <1>4, <1>5 DEF IInv

\* Every step keeps it: positions only advance, and only new paths are opened.
THEOREM IInvStep == IInv /\ [Next]_vars => IInv'
PROOF
<1> SUFFICES ASSUME IInv, [Next]_vars PROVE IInv'
  OBVIOUS
<1>1. Shape'
  BY ShapeStep DEF IInv
<1>2. Shape /\ OpenOnce /\ NumbersBounded /\ NumbersDistinct /\ LogBehind /\ EachWordOnce
  BY DEF IInv
<1>3. ASSUME all_imported_paths' = all_imported_paths
      PROVE  NumbersBounded' /\ NumbersDistinct'
  BY <1>2, <1>3 DEF NumbersBounded, NumbersDistinct, FileNum
<1>4. ASSUME log' = log
      PROVE  EachWordOnce'
  BY <1>2, <1>4 DEF EachWordOnce
<1>5. CASE UNCHANGED vars
  BY <1>1, <1>2, <1>3, <1>4, <1>5 DEF vars, IInv, OpenOnce, LogBehind, Behind
<1>6. CASE status = "reading" /\ NextLine
  <2> DEFINE f == [Top EXCEPT !.line_num = @ + 1, !.op_num = 0, !.index = 0]
  <2>1. Top \in Frames
    <3>1. open \in Seq(Frames) /\ open # <<>>
      BY <1>2, <1>6 DEF Shape, TypeOK, Reading
    <3>2. Len(open) \in 1 .. Len(open)
      BY <3>1, EmptySeq
    <3> QED BY <3>1, <3>2, ElementOfSeq DEF Top
  <2>2. f \in Frames /\ f.path = Top.path /\ f.line_num = Top.line_num + 1
    BY <2>1, NextLineFrame
  <2>3. f.line_num > Top.line_num
    BY <2>1, <2>2 DEF Frames
  <2>4. open' = ReplaceTop(f) /\ log' = log /\ all_imported_paths' = all_imported_paths
    BY <1>6 DEF NextLine
  <2> HIDE DEF f
  <2> QED BY <1>1, <1>2, <1>3, <1>4, <1>6, <2>2, <2>3, <2>4, AdvanceKeeps DEF IInv
<1>7. CASE status = "reading" /\ CloseFile
  BY <1>1, <1>2, <1>3, <1>4, <1>7, CloseKeeps DEF IInv, CloseFile
<1>8. CASE status = "reading" /\ ReadWord
  BY <1>1, <1>2, <1>3, <1>8, ReadKeeps DEF IInv, ReadWord
<1>9. CASE status = "reading" /\ SkipComment
  <2> DEFINE f == [Consumed EXCEPT !.index = Len(LineOf(Top))]
  <2>1. /\ Consumed \in Frames /\ Top \in Frames
        /\ Consumed.path = Top.path
        /\ Consumed.line_num = Top.line_num
        /\ Consumed.op_num = Top.op_num + 1
        /\ Len(LineOf(Top)) \in Nat
    BY <1>2, <1>9, CurrentType, LenProperties DEF SkipComment
  <2>2. /\ f \in Frames
        /\ f.path = Consumed.path
        /\ f.line_num = Consumed.line_num
        /\ f.op_num = Consumed.op_num
    BY <2>1, CommentFrame
  <2>3. f.op_num >= Top.op_num
    BY <2>1, <2>2 DEF Frames
  <2>4. open' = ReplaceTop(f) /\ log' = log /\ all_imported_paths' = all_imported_paths
    BY <1>9 DEF SkipComment
  <2> HIDE DEF f
  <2> QED BY <1>1, <1>2, <1>3, <1>4, <1>9, <2>1, <2>2, <2>3, <2>4, AdvanceKeeps DEF IInv
<1>10. CASE UnterminatedString
  BY <1>1, <1>2, <1>3, <1>4, <1>10 DEF UnterminatedString, IInv, OpenOnce, LogBehind, Behind
<1>11. CASE status = "reading" /\ ReadImport
  <2> DEFINE p == Lower[Current.path]
  <2>1. /\ Consumed \in Frames /\ Top \in Frames
        /\ Consumed.path = Top.path
        /\ Consumed.line_num = Top.line_num
        /\ Consumed.op_num = Top.op_num + 1
        /\ Current \in Words
    BY <1>2, <1>11, CurrentType DEF ReadImport
  <2>2. p \in Paths
    <3>1. Current.path \in Paths
      BY <1>11, <2>1 DEF ReadImport, Words, Word, Rejected, Comment, Unterminated, Import
    <3> QED BY <3>1, LowerAssumption
  <2>3. ImportNew(p) \/ ImportAgain(p)
    BY <1>11 DEF ReadImport
  <2> HIDE DEF p
  <2>4. CASE ImportNew(p)
    <3>1. log' = log /\ ~EndOfLine
      BY <1>11, <2>4 DEF ImportNew, ReadImport
    <3> QED BY <1>1, <1>2, <1>4, <1>11, <2>2, <2>4, <3>1, ImportKeeps DEF IInv
  <2>5. CASE ImportAgain(p)
    <3>1. Consumed.op_num >= Top.op_num
      BY <2>1 DEF Frames
    <3>2. /\ open' = ReplaceTop(Consumed)
          /\ log' = log
          /\ all_imported_paths' = all_imported_paths
      BY <2>5 DEF ImportAgain
    <3> QED BY <1>1, <1>2, <1>3, <1>4, <1>11, <2>1, <3>1, <3>2, AdvanceKeeps DEF IInv
  <2> QED BY <2>3, <2>4, <2>5
<1> QED BY <1>5, <1>6, <1>7, <1>8, <1>9, <1>10, <1>11 DEF Next

\* No word of any file is compiled twice.
THEOREM EachWordOnceHolds == Spec => []EachWordOnce
PROOF
<1>1. IInv => EachWordOnce
  BY DEF IInv
<1> QED BY <1>1, IInvInit, IInvStep, PTL DEF Spec

\* No path is open twice: an import cycle is cut where it closes.
THEOREM OpenOnceHolds == Spec => []OpenOnce
PROOF
<1>1. IInv => OpenOnce
  BY DEF IInv
<1> QED BY <1>1, IInvInit, IInvStep, PTL DEF Spec

\* Two paths never share a file number.
THEOREM NumbersDistinctHolds == Spec => []NumbersDistinct
PROOF
<1>1. IInv => NumbersDistinct
  BY DEF IInv
<1> QED BY <1>1, IInvInit, IInvStep, PTL DEF Spec

-----------------------------------------------------------------------------
\* Every open file has its .file directive: what the .loc of a word relies on.
Bound(n, p) == \E k \in 1 .. Len(fileTable) : fileTable[k] = <<n, p>>
OpenFilesBound ==
  status = "reading" =>
    \A i \in 1 .. Len(open) : Bound(FileNum(open[i].path), open[i].path)

LocInv == Shape /\ LocDeclared /\ OpenFilesBound

\* Directives are only ever added.
LEMMA TableGrows ==
  ASSUME Shape, NEW m \in Nat \ {0}, NEW r \in Paths,
         fileTable' = Append(fileTable, <<m, r>>)
  PROVE  /\ \A n, p : Bound(n, p) => Bound(n, p)'
         /\ Bound(m, r)'
PROOF
<1>1. fileTable \in Seq((Nat \ {0}) \X Paths)
  BY DEF Shape, TypeOK
<1>2. /\ Len(fileTable) \in Nat
      /\ Len(fileTable') = Len(fileTable) + 1
      /\ fileTable'[Len(fileTable) + 1] = <<m, r>>
      /\ \A k \in 1 .. Len(fileTable) : fileTable'[k] = fileTable[k]
  BY <1>1, AppendProperties, LenProperties
<1> QED BY <1>2 DEF Bound

\* Reading on in the top file, nothing compiled, nothing imported for the
\* first time.
LEMMA AdvanceKeepsBound ==
  ASSUME LocInv, status = "reading", NEW f \in Frames, f.path = Top.path,
         open' = ReplaceTop(f), log' = log,
         all_imported_paths' = all_imported_paths,
         \A n, p : Bound(n, p) => Bound(n, p)'
  PROVE  LocDeclared' /\ OpenFilesBound'
PROOF
<1>1. /\ open \in Seq(Frames) /\ open # <<>>
      /\ LocDeclared /\ OpenFilesBound
  BY DEF LocInv, Shape, TypeOK, Reading
<1>2. /\ Len(open) \in Nat \ {0}
      /\ Len(open') = Len(open)
      /\ open'[Len(open)] = f
      /\ \A i \in 1 .. Len(open) : i # Len(open) => open'[i] = open[i]
      /\ Top = open[Len(open)]
  BY <1>1, ReplaceTopProperties, Zenon DEF Top
<1>3. \A i \in 1 .. Len(open) : open'[i].path = open[i].path
  BY <1>2
<1>4. \A i \in 1 .. Len(open) : Bound(FileNum(open[i].path), open[i].path)
  BY <1>1 DEF OpenFilesBound
<1>5. \A i \in 1 .. Len(open) : Bound(all_imported_paths[open[i].path], open[i].path)'
  BY <1>2, <1>3, <1>4 DEF FileNum
<1>6. OpenFilesBound'
  BY <1>2, <1>5 DEF OpenFilesBound, FileNum
<1>7. LocDeclared'
  BY <1>1 DEF LocDeclared, Bound
<1> QED BY <1>6, <1>7

\* The word just read gets a number that its open file has been bound to.
LEMMA ReadKeepsBound ==
  ASSUME LocInv, status = "reading", ReadWord
  PROVE  LocDeclared' /\ OpenFilesBound'
PROOF
<1>1. /\ open \in Seq(Frames) /\ open # <<>>
      /\ Shape /\ LocDeclared /\ OpenFilesBound
      /\ log \in Seq([at : Paths \X Nat \X Nat, num : Nat \ {0}])
  BY DEF LocInv, Shape, TypeOK, Reading
<1>2. /\ Consumed \in Frames
      /\ Top \in Frames
      /\ Consumed.path = Top.path
      /\ InFile(Top)
  BY <1>1, CurrentType DEF ReadWord
<1>3. /\ Len(open) \in Nat \ {0}
      /\ Len(open') = Len(open)
      /\ open'[Len(open)] = Consumed
      /\ \A i \in 1 .. Len(open) : i # Len(open) => open'[i] = open[i]
      /\ Top = open[Len(open)]
  BY <1>1, <1>2, ReplaceTopProperties, Zenon DEF Top, ReadWord
<1> DEFINE e == [at |-> Here(Consumed), num |-> FileNum(Top.path)]
<1>4. e.at[1] = Top.path /\ e.num = FileNum(Top.path)
  BY <1>2 DEF Here
<1>5. e \in [at : Paths \X Nat \X Nat, num : Nat \ {0}]
  BY <1>1, <1>2 DEF Here, FileNum, Frames, InFile, Shape, TypeOK
<1> HIDE DEF e
<1>6. /\ log' = Append(log, e)
      /\ all_imported_paths' = all_imported_paths
      /\ fileTable' = fileTable
  BY DEF ReadWord, e
<1>7. /\ Len(log) \in Nat
      /\ Len(log') = Len(log) + 1
      /\ log'[Len(log) + 1] = e
      /\ \A k \in 1 .. Len(log) : log'[k] = log[k]
  BY <1>1, <1>5, <1>6, AppendProperties, LenProperties
<1>8. \A i \in 1 .. Len(open) : Bound(FileNum(open[i].path), open[i].path)
  BY <1>1 DEF OpenFilesBound
<1>9. Bound(e.num, e.at[1])
  BY <1>3, <1>4, <1>8
<1>10. LocDeclared'
  <2>1. \A i \in 1 .. Len(log) : Bound(log[i].num, log[i].at[1])
    BY <1>1, Zenon DEF LocDeclared, Bound
  <2>2. \A i \in 1 .. Len(log') : Bound(log'[i].num, log'[i].at[1])
    BY <1>7, <1>9, <2>1
  <2> QED BY <1>6, <2>2, Zenon DEF LocDeclared, Bound
<1>11. OpenFilesBound'
  BY <1>2, <1>3, <1>6, <1>8 DEF OpenFilesBound, FileNum, Bound
<1> QED BY <1>10, <1>11

\* A new file is bound to its number before the first of its words is read.
LEMMA ImportKeepsBound ==
  ASSUME LocInv, status = "reading", NEW p \in Paths, ImportNew(p), ~EndOfLine
  PROVE  LocDeclared' /\ OpenFilesBound'
PROOF
<1> DEFINE w == WithNumber(p)
<1>1. /\ open \in Seq(Frames) /\ open # <<>>
      /\ Shape /\ LocDeclared /\ OpenFilesBound
      /\ \A i \in 1 .. Len(open) : open[i].path \in DOMAIN all_imported_paths
      /\ p \notin DOMAIN all_imported_paths
  BY DEF LocInv, Shape, TypeOK, Reading, InFile, ImportNew
<1>2. /\ Consumed \in Frames
      /\ Top \in Frames
      /\ Consumed.path = Top.path
  BY <1>1, CurrentType
<1>3. /\ w \in [DOMAIN w -> Nat \ {0}]
      /\ w[p] \in Nat \ {0}
      /\ \A q \in DOMAIN all_imported_paths : w[q] = FileNum(q)
  BY <1>1, WithNumberProperties
<1> HIDE DEF w
<1>4. /\ all_imported_paths' = w
      /\ open' = Append(ReplaceTop(Consumed), Opened(p))
      /\ log' = log
      /\ p \in DOMAIN disk => fileTable' = Append(fileTable, <<w[p], p>>)
      /\ p \notin DOMAIN disk => fileTable' = fileTable /\ status' = "error"
  BY DEF ImportNew, w
<1>5. \A n, q : Bound(n, q) => Bound(n, q)'
  <2>1. CASE p \in DOMAIN disk
    BY <1>1, <1>3, <1>4, <2>1, TableGrows
  <2>2. CASE p \notin DOMAIN disk
    BY <1>4, <2>2 DEF Bound
  <2> QED BY <2>1, <2>2
<1>6. LocDeclared'
  <2>1. \A i \in 1 .. Len(log) : Bound(log[i].num, log[i].at[1])
    BY <1>1, Zenon DEF LocDeclared, Bound
  <2>2. \A i \in 1 .. Len(log) : Bound(log[i].num, log[i].at[1])'
    BY <1>4, <1>5, <2>1
  <2> QED BY <1>4, <2>2, Zenon DEF LocDeclared, Bound
<1>7. CASE p \in DOMAIN disk
  <2>1. \A n : n = w[p] => Bound(n, p)'
    BY <1>1, <1>3, <1>4, <1>7, TableGrows
  <2>2. /\ Len(open) \in Nat \ {0}
        /\ ReplaceTop(Consumed) \in Seq(Frames)
        /\ Len(ReplaceTop(Consumed)) = Len(open)
        /\ ReplaceTop(Consumed)[Len(open)] = Consumed
        /\ \A i \in 1 .. Len(open) : i # Len(open) => ReplaceTop(Consumed)[i] = open[i]
        /\ Top = open[Len(open)]
    BY <1>1, <1>2, ReplaceTopProperties, Zenon DEF Top
  <2>3. Opened(p) \in Frames /\ Opened(p).path = p
    BY DEF Opened, Frames
  <2>4. /\ Len(open') = Len(open) + 1
        /\ open'[Len(open) + 1].path = p
        /\ \A i \in 1 .. Len(open) : open'[i].path = open[i].path
    BY <1>2, <1>4, <2>2, <2>3, AppendProperties
  <2>5. ASSUME NEW i \in 1 .. Len(open)
        PROVE  \A n, q : q = open[i].path /\ n = w[q] => Bound(n, q)'
    <3>1. Bound(FileNum(open[i].path), open[i].path)
      BY <1>1 DEF OpenFilesBound
    <3>2. w[open[i].path] = FileNum(open[i].path)
      BY <1>1, <1>3
    <3> QED BY <1>5, <3>1, <3>2
  <2>6. ASSUME NEW i \in 1 .. Len(open) + 1
        PROVE  \A n, q : q = open'[i].path /\ n = w[q] => Bound(n, q)'
    <3>1. CASE i = Len(open) + 1
      <4>1. open'[i].path = p
        BY <2>4, <3>1
      <4> QED BY <2>1, <4>1, Zenon
    <3>2. CASE i # Len(open) + 1
      <4>1. i \in 1 .. Len(open)
        BY <2>2, <3>2
      <4>2. open'[i].path = open[i].path
        BY <2>4, <4>1
      <4> QED BY <2>5, <4>1, <4>2, Zenon
    <3> QED BY <3>1, <3>2
  <2>7. \A i \in 1 .. Len(open') : \A n, q :
          q = open'[i].path /\ n = all_imported_paths'[q] => Bound(n, q)'
    BY <1>4, <2>4, <2>6
  <2>8. OpenFilesBound'
    <3>1. ASSUME NEW i \in 1 .. Len(open')
          PROVE  \E k \in 1 .. Len(fileTable') :
                   fileTable'[k] = <<all_imported_paths'[open'[i].path], open'[i].path>>
      <4>1. PICK q : q = open'[i].path
        OBVIOUS
      <4>2. PICK n : n = all_imported_paths'[q]
        OBVIOUS
      <4>3. Bound(n, q)'
        BY <2>7, <4>1, <4>2
      <4>4. \E k \in 1 .. Len(fileTable') : fileTable'[k] = <<n, q>>
        BY <4>3, Zenon DEF Bound
      <4> QED BY <4>1, <4>2, <4>4
    <3> QED BY <3>1 DEF OpenFilesBound, FileNum, Bound
  <2> QED BY <1>6, <2>8
<1>8. CASE p \notin DOMAIN disk
  BY <1>4, <1>6, <1>8 DEF OpenFilesBound
<1> QED BY <1>6, <1>7, <1>8

\* The file on the command line is bound to number 1.
THEOREM LocInvInit == Init => LocInv
PROOF
<1> SUFFICES ASSUME Init PROVE LocInv
  OBVIOUS
<1>1. fileTable = <<<<1, Root>>>> /\ all_imported_paths[Root] = 1 /\ log = <<>>
  BY DEF Init
<1>2. Bound(1, Root)
  BY <1>1 DEF Bound
<1>3. LocDeclared
  BY <1>1 DEF LocDeclared
<1>4. Len(open) = 1 /\ open[1].path = Root
  BY DEF Init, Opened
<1>5. OpenFilesBound
  BY <1>1, <1>2, <1>4 DEF OpenFilesBound, FileNum
<1> QED BY <1>3, <1>5, ShapeInit DEF LocInv

\* Every step keeps the directives ahead of the words that rely on them.
THEOREM LocInvStep == LocInv /\ [Next]_vars => LocInv'
PROOF
<1> SUFFICES ASSUME LocInv, [Next]_vars PROVE LocInv'
  OBVIOUS
<1>1. Shape' /\ Shape /\ LocDeclared /\ OpenFilesBound
  BY ShapeStep DEF LocInv
<1>2. ASSUME fileTable' = fileTable
      PROVE  \A n, p : Bound(n, p) => Bound(n, p)'
  BY <1>2 DEF Bound
<1>3. CASE UNCHANGED vars
  BY <1>1, <1>3 DEF vars, LocInv, LocDeclared, OpenFilesBound, Bound, FileNum
<1>4. CASE status = "reading" /\ NextLine
  <2> DEFINE f == [Top EXCEPT !.line_num = @ + 1, !.op_num = 0, !.index = 0]
  <2>1. Top \in Frames
    <3>1. open \in Seq(Frames) /\ open # <<>>
      BY <1>1, <1>4 DEF Shape, TypeOK, Reading
    <3>2. Len(open) \in 1 .. Len(open)
      BY <3>1, EmptySeq
    <3> QED BY <3>1, <3>2, ElementOfSeq DEF Top
  <2>2. f \in Frames /\ f.path = Top.path
    BY <2>1, NextLineFrame
  <2>3. /\ open' = ReplaceTop(f) /\ log' = log /\ fileTable' = fileTable
        /\ all_imported_paths' = all_imported_paths
    BY <1>4 DEF NextLine
  <2> HIDE DEF f
  <2> QED BY <1>1, <1>2, <1>4, <2>2, <2>3, AdvanceKeepsBound DEF LocInv
<1>5. CASE status = "reading" /\ CloseFile
  <2>1. /\ open \in Seq(Frames) /\ open # <<>>
        /\ open' = Pop(open) /\ log' = log /\ fileTable' = fileTable
        /\ all_imported_paths' = all_imported_paths
    BY <1>1, <1>5 DEF Shape, TypeOK, Reading, CloseFile
  <2>2. /\ Len(open) \in Nat
        /\ Len(open') = Len(open) - 1
        /\ \A i \in 1 .. Len(open) - 1 : open'[i] = open[i]
    BY <2>1, PopProperties, LenProperties
  <2>3. \A i \in 1 .. Len(open) : Bound(FileNum(open[i].path), open[i].path)
    BY <1>1, <1>5 DEF OpenFilesBound
  <2>4. \A i \in 1 .. Len(open') : Bound(FileNum(open'[i].path), open'[i].path)
    BY <2>2, <2>3
  <2>5. OpenFilesBound'
    BY <2>1, <2>4, Zenon DEF OpenFilesBound, FileNum, Bound
  <2>6. LocDeclared'
    BY <1>1, <2>1 DEF LocDeclared
  <2> QED BY <1>1, <2>5, <2>6 DEF LocInv
<1>6. CASE status = "reading" /\ ReadWord
  BY <1>1, <1>6, ReadKeepsBound DEF LocInv
<1>7. CASE status = "reading" /\ SkipComment
  <2> DEFINE f == [Consumed EXCEPT !.index = Len(LineOf(Top))]
  <2>1. /\ Consumed \in Frames
        /\ Consumed.path = Top.path
        /\ Len(LineOf(Top)) \in Nat
    BY <1>1, <1>7, CurrentType, LenProperties DEF SkipComment
  <2>2. f \in Frames /\ f.path = Consumed.path
    BY <2>1, CommentFrame
  <2>3. /\ open' = ReplaceTop(f) /\ log' = log /\ fileTable' = fileTable
        /\ all_imported_paths' = all_imported_paths
    BY <1>7 DEF SkipComment
  <2> HIDE DEF f
  <2> QED BY <1>1, <1>2, <1>7, <2>1, <2>2, <2>3, AdvanceKeepsBound DEF LocInv
<1>8. CASE UnterminatedString
  BY <1>1, <1>8 DEF UnterminatedString, LocInv, LocDeclared, OpenFilesBound
<1>9. CASE status = "reading" /\ ReadImport
  <2> DEFINE p == Lower[Current.path]
  <2>1. /\ Consumed \in Frames /\ Top \in Frames /\ InFile(Top)
        /\ Consumed.path = Top.path
        /\ Current \in Words
    BY <1>1, <1>9, CurrentType DEF ReadImport
  <2>2. p \in Paths
    <3>1. Current.path \in Paths
      BY <1>9, <2>1 DEF ReadImport, Words, Word, Rejected, Comment, Unterminated, Import
    <3> QED BY <3>1, LowerAssumption
  <2>3. (ImportNew(p) \/ ImportAgain(p)) /\ ~EndOfLine
    BY <1>9 DEF ReadImport
  <2> HIDE DEF p
  <2>4. CASE ImportNew(p)
    BY <1>1, <1>9, <2>2, <2>3, <2>4, ImportKeepsBound DEF LocInv
  <2>5. CASE ImportAgain(p)
    <3>1. /\ open' = ReplaceTop(Consumed)
          /\ log' = log
          /\ all_imported_paths' = all_imported_paths
          /\ fileTable' = Append(fileTable, <<FileNum(Top.path), p>>)
      BY <2>5 DEF ImportAgain
    <3>2. FileNum(Top.path) \in Nat \ {0}
      BY <1>1, <2>1, <2>2 DEF Shape, TypeOK, InFile, FileNum
    <3>3. \A n, q : Bound(n, q) => Bound(n, q)'
      BY <1>1, <2>2, <3>1, <3>2, TableGrows
    <3> QED BY <1>1, <1>9, <2>1, <3>1, <3>3, AdvanceKeepsBound DEF LocInv
  <2> QED BY <2>3, <2>4, <2>5
<1> QED BY <1>3, <1>4, <1>5, <1>6, <1>7, <1>8, <1>9 DEF Next

\* A .loc directive never names a file number before the .file directive that
\* binds it to the file of the word.
THEOREM LocDeclaredHolds == Spec => []LocDeclared
PROOF
<1>1. LocInv => LocDeclared
  BY DEF LocInv
<1> QED BY <1>1, LocInvInit, LocInvStep, PTL DEF Spec

-----------------------------------------------------------------------------
(***************************************************************************)
(* Textual inclusion.  TextToCome is what is left of every open file, the  *)
(* top one first.  Each step takes the front of it as the step of          *)
(* Inclusion it implements does.                                           *)
(***************************************************************************)
Items == [kind : {"import"}, path : Paths]
         \cup [kind : {"word", "rejected"}, at : Paths \X Nat \X Nat]
         \cup {Unterminated}

\* While words are left in the line, op_nums[-1] counts those passed.
CountsWords == \A i \in 1 .. Len(open) :
                 open[i].index < Len(LineOf(open[i])) => open[i].op_num = open[i].index

\* A file of the file system: lines of words.
Readable(d, p) == p \in DOMAIN d /\ p \in Paths /\ d[p] \in Seq(Seq(Words))

\* The least of some numbers.
LEMMA MinIsLeast ==
  ASSUME NEW T, T \subseteq Nat, T # {}
  PROVE  Min(T) \in T /\ \A y \in T : Min(T) <= y
PROOF
<1>1. \E x \in T : \A y \in T : x <= y
  BY LeastNat
<1> QED BY <1>1 DEF Min

\* Where a line ends for a reader who has read i of its words.
LEMMA LineEndIs ==
  ASSUME NEW line \in Seq(Words), NEW i \in Nat
  PROVE  /\ i >= Len(line) => LineEnd(line, i) = Len(line)
         /\ i < Len(line) =>
              /\ LineEnd(line, i) \in i .. Len(line)
              /\ \A k \in i + 1 .. LineEnd(line, i) : line[k].kind # "comment"
              /\ line[i + 1].kind = "comment" => LineEnd(line, i) = i
              /\ line[i + 1].kind # "comment" =>
                   /\ LineEnd(line, i + 1) = LineEnd(line, i)
                   /\ i + 1 <= LineEnd(line, i)
PROOF
<1> DEFINE C(j) == {k \in j + 1 .. Len(line) : line[k].kind = "comment"}
<1>1. Len(line) \in Nat
  BY LenProperties
<1>2. \A j \in Nat : LineEnd(line, j) = IF C(j) = {} THEN Len(line) ELSE Min(C(j)) - 1
  BY DEF LineEnd
<1>3. \A j \in Nat : C(j) \subseteq Nat
  BY <1>1
<1>4. \A j \in Nat : C(j) # {} => Min(C(j)) \in C(j) /\ \A y \in C(j) : Min(C(j)) <= y
  BY <1>3, MinIsLeast
<1>5. ASSUME i >= Len(line) PROVE LineEnd(line, i) = Len(line)
  <2>1. C(i) = {}
    BY <1>1, <1>5
  <2> QED BY <1>2, <2>1
<1>6. ASSUME i < Len(line)
      PROVE  /\ LineEnd(line, i) \in i .. Len(line)
             /\ \A k \in i + 1 .. LineEnd(line, i) : line[k].kind # "comment"
  <2>1. CASE C(i) = {}
    <3>1. LineEnd(line, i) = Len(line)
      BY <1>2, <2>1
    <3> QED BY <1>1, <1>6, <2>1, <3>1
  <2>2. CASE C(i) # {}
    <3>1. LineEnd(line, i) = Min(C(i)) - 1
      BY <1>2, <2>2
    <3>2. Min(C(i)) \in i + 1 .. Len(line) /\ \A y \in C(i) : Min(C(i)) <= y
      BY <1>4, <2>2
    <3> DEFINE m == Min(C(i))
    <3>3. m \in i + 1 .. Len(line) /\ LineEnd(line, i) = m - 1
          /\ \A k \in i + 1 .. Len(line) : line[k].kind = "comment" => m <= k
      BY <3>1, <3>2
    <3> HIDE DEF m, C
    <3> QED BY <1>1, <1>6, <3>3
  <2> QED BY <2>1, <2>2
<1>7. ASSUME i < Len(line), line[i + 1].kind = "comment" PROVE LineEnd(line, i) = i
  <2>1. i + 1 \in C(i)
    BY <1>1, <1>7
  <2>2. Min(C(i)) \in i + 1 .. Len(line) /\ Min(C(i)) <= i + 1
    BY <1>4, <2>1
  <2>3. Min(C(i)) = i + 1
    BY <1>1, <2>2
  <2> QED BY <1>2, <2>1, <2>3
<1>8. ASSUME i < Len(line), line[i + 1].kind # "comment"
      PROVE  LineEnd(line, i + 1) = LineEnd(line, i) /\ i + 1 <= LineEnd(line, i)
  <2>1. C(i + 1) = C(i)
    BY <1>1, <1>8
  <2> DEFINE n == i + 1
  <2>2. LineEnd(line, n) = LineEnd(line, i)
    <3>1. n \in Nat /\ C(n) = C(i)
      BY <2>1
    <3> HIDE DEF n, C
    <3> QED BY <1>2, <3>1
  <2>3. CASE C(i) = {}
    <3> HIDE DEF C
    <3>1. LineEnd(line, i) = Len(line)
      BY <1>2, <2>3
    <3> QED BY <1>1, <1>8, <2>2, <3>1
  <2>4. CASE C(i) # {}
    <3>1. Min(C(i)) \in i + 1 .. Len(line) /\ Min(C(i)) # i + 1
      BY <1>4, <1>8, <2>4
    <3> QED BY <1>1, <1>2, <2>2, <2>4, <3>1
  <2> QED BY <2>3, <2>4
<1> QED BY <1>5, <1>6, <1>7, <1>8

\* A word that is not a comment becomes an item.
LEMMA ItemType ==
  ASSUME NEW d, NEW p, Readable(d, p), NEW l \in 1 .. Len(d[p]), NEW i \in 1 .. Len(d[p][l]),
         d[p][l][i].kind # "comment"
  PROVE  ItemAt(d, p, l, i) \in Items
PROOF
<1>1. d[p][l] \in Seq(Words) /\ Len(d[p]) \in Nat
  BY LenProperties DEF Readable
<1>2. d[p][l][i] \in Words /\ Len(d[p][l]) \in Nat
  BY <1>1, LenProperties
<1> DEFINE w == d[p][l][i]
<1>3. <<p, l, i>> \in Paths \X Nat \X Nat
  BY <1>1, <1>2 DEF Readable
<1>4. w \in Words /\ w.kind # "comment"
  BY <1>2
<1>5. ItemAt(d, p, l, i) = CASE w.kind = "import" -> [kind |-> "import", path |-> Lower[w.path]]
                             [] w.kind = "broken" -> w
                             [] OTHER -> [kind |-> w.kind, at |-> <<p, l, i>>]
  BY DEF ItemAt
<1> HIDE DEF w
<1>6. CASE w \in {Import(q) : q \in Paths}
  <2>1. w.kind = "import" /\ w.path \in Paths
    BY <1>6 DEF Import
  <2>2. Lower[w.path] \in Paths
    BY <2>1, LowerAssumption
  <2> QED BY <1>5, <2>1, <2>2 DEF Items
<1>7. CASE w = Unterminated
  BY <1>5, <1>7 DEF Items, Unterminated
<1>8. CASE w = Word \/ w = Rejected
  <2>1. w.kind \in {"word", "rejected"}
    BY <1>8 DEF Word, Rejected
  <2>2. ItemAt(d, p, l, i) = [kind |-> w.kind, at |-> <<p, l, i>>]
    BY <1>5, <2>1
  <2> QED BY <1>3, <2>1, <2>2 DEF Items
<1> QED BY <1>4, <1>6, <1>7, <1>8 DEF Words, Comment

\* What is left of a line: nothing at its end and at a comment, else the next
\* word and what is left after it.
LEMMA LineRestIs ==
  ASSUME NEW d, NEW p, Readable(d, p), NEW l \in 1 .. Len(d[p]), NEW i \in Nat
  PROVE  /\ LineRest(d, p, l, i) \in Seq(Items)
         /\ i >= Len(d[p][l]) => LineRest(d, p, l, i) = <<>>
         /\ i < Len(d[p][l]) =>
              IF d[p][l][i + 1].kind = "comment"
              THEN LineRest(d, p, l, i) = <<>>
              ELSE /\ ItemAt(d, p, l, i + 1) \in Items
                   /\ LineRest(d, p, l, i) = <<ItemAt(d, p, l, i + 1)>> \o LineRest(d, p, l, i + 1)
PROOF
<1> DEFINE line == d[p][l]
           e(j) == LineEnd(line, j)
<1>1. line \in Seq(Words) /\ Len(line) \in Nat
  BY LenProperties DEF Readable
<1>2. ASSUME NEW j \in Nat, j >= Len(line) PROVE LineRest(d, p, l, j) = <<>>
  <2>1. e(j) = Len(line)
    BY <1>1, <1>2, LineEndIs
  <2>2. 1 .. e(j) - j = {}
    BY <1>1, <1>2, <2>1
  <2> QED BY <2>2 DEF LineRest
<1>3. ASSUME NEW j \in Nat, j < Len(line)
      PROVE  /\ e(j) \in Nat /\ e(j) - j \in Nat
             /\ LineRest(d, p, l, j) \in Seq(Items) /\ Len(LineRest(d, p, l, j)) = e(j) - j
             /\ \A k \in 1 .. e(j) - j : LineRest(d, p, l, j)[k] = ItemAt(d, p, l, j + k)
  <2>1. e(j) \in j .. Len(line) /\ \A k \in j + 1 .. e(j) : line[k].kind # "comment"
    BY <1>1, <1>3, LineEndIs
  <2>2. ASSUME NEW k \in 1 .. e(j) - j PROVE ItemAt(d, p, l, j + k) \in Items
    <3> DEFINE m == j + k
    <3>1. m \in 1 .. Len(line) /\ m \in j + 1 .. e(j)
      BY <1>1, <2>1
    <3> HIDE DEF m
    <3>2. ItemAt(d, p, l, m) \in Items
      BY <2>1, <3>1, ItemType
    <3> QED BY <3>2 DEF m
  <2>3. e(j) \in Nat /\ e(j) - j \in Nat
    BY <1>1, <2>1
  <2>4. LineRest(d, p, l, j) \in [1 .. e(j) - j -> Items]
    BY <2>2 DEF LineRest
  <2>5. LineRest(d, p, l, j) \in Seq(Items) /\ Len(LineRest(d, p, l, j)) = e(j) - j
    BY <2>3, <2>4, FunctionIsSequence
  <2> QED BY <2>3, <2>5 DEF LineRest
<1>4. ASSUME NEW j \in Nat PROVE LineRest(d, p, l, j) \in Seq(Items)
  <2>1. CASE j >= Len(line)
    BY <1>2, <2>1, EmptySeq
  <2>2. CASE j < Len(line)
    BY <1>3, <2>2
  <2> QED BY <1>1, <2>1, <2>2
<1>5. ASSUME i < Len(line), line[i + 1].kind = "comment" PROVE LineRest(d, p, l, i) = <<>>
  <2>1. e(i) = i
    BY <1>1, <1>5, LineEndIs
  <2> QED BY <1>3, <1>5, <2>1, EmptySeq
<1>6. ASSUME i < Len(line), line[i + 1].kind # "comment"
      PROVE  /\ ItemAt(d, p, l, i + 1) \in Items
             /\ LineRest(d, p, l, i) = <<ItemAt(d, p, l, i + 1)>> \o LineRest(d, p, l, i + 1)
  <2> DEFINE n == i + 1
             a == ItemAt(d, p, l, n)
             r == LineRest(d, p, l, i)
             s == LineRest(d, p, l, n)
  <2>1. n \in Nat /\ n \in 1 .. Len(line)
    BY <1>1, <1>6
  <2>2. a \in Items
    <3>1. line[n].kind # "comment"
      BY <1>6
    <3> HIDE DEF n
    <3> QED BY <2>1, <3>1, ItemType
  <2>3. e(n) = e(i) /\ n <= e(i)
    BY <1>1, <1>6, LineEndIs
  <2>4. /\ r \in Seq(Items) /\ Len(r) = e(i) - i /\ e(i) - i \in Nat
        /\ \A k \in 1 .. e(i) - i : r[k] = ItemAt(d, p, l, i + k)
    BY <1>3, <1>6
  <2>5. /\ s \in Seq(Items) /\ Len(s) = e(i) - n
        /\ \A k \in 1 .. e(i) - n : s[k] = ItemAt(d, p, l, n + k)
    <3>1. CASE n < Len(line)
      <4> HIDE DEF n
      <4> QED BY <1>3, <2>1, <2>3, <3>1
    <3>2. CASE n >= Len(line)
      <4>1. e(n) = Len(line) /\ n = Len(line)
        <5> HIDE DEF n
        <5> QED BY <1>1, <2>1, <3>2, LineEndIs
      <4>2. s = <<>> /\ e(i) - n = 0
        <5> HIDE DEF n
        <5> QED BY <1>1, <1>2, <2>1, <2>3, <3>2, <4>1
      <4> HIDE DEF s, n
      <4>3. Len(s) = 0
        BY <4>2, EmptySeq
      <4> QED BY <4>2, <4>3, EmptySeq
    <3> QED BY <1>1, <2>1, <3>1, <3>2
  <2>6. e(i) \in Int
    BY <1>3, <1>6
  <2> HIDE DEF a, r, s, e
  <2>7. <<a>> \in Seq(Items) /\ Len(<<a>>) = 1 /\ <<a>>[1] = a
    BY <2>2
  <2>8. /\ <<a>> \o s \in Seq(Items) /\ Len(<<a>> \o s) = 1 + Len(s)
        /\ (<<a>> \o s)[1] = a
        /\ \A k \in 2 .. Len(s) + 1 : (<<a>> \o s)[k] = s[k - 1]
    <3>1. /\ <<a>> \o s \in Seq(Items) /\ Len(<<a>> \o s) = Len(<<a>>) + Len(s)
          /\ \A k \in 1 .. Len(<<a>>) + Len(s) :
               (<<a>> \o s)[k] = IF k <= Len(<<a>>) THEN <<a>>[k] ELSE s[k - Len(<<a>>)]
      BY <2>5, <2>7, ConcatProperties
    <3>2. Len(s) \in Nat
      BY <2>5, LenProperties
    <3> QED BY <2>7, <3>1, <3>2
  <2>9. Len(r) = 1 + Len(s)
    BY <2>4, <2>5, <2>6
  <2>10. ASSUME NEW k \in 1 .. Len(r) PROVE r[k] = (<<a>> \o s)[k]
    <3>1. CASE k = 1
      BY <2>4, <2>8, <3>1 DEF a
    <3>2. CASE k # 1
      <4> DEFINE m == k - 1
      <4>1. m \in 1 .. e(i) - n /\ k \in 2 .. Len(s) + 1 /\ k \in 1 .. e(i) - i /\ n + m = i + k
        BY <2>4, <2>5, <2>6, <2>9, <3>2
      <4>2. (<<a>> \o s)[k] = s[m]
        BY <2>8, <4>1
      <4> HIDE DEF m
      <4>3. s[m] = ItemAt(d, p, l, n + m)
        BY <2>5, <4>1
      <4>4. r[k] = ItemAt(d, p, l, i + k)
        BY <2>4, <4>1
      <4> QED BY <4>1, <4>2, <4>3, <4>4
    <3> QED BY <3>1, <3>2
  <2>11. r = <<a>> \o s
    BY <2>4, <2>8, <2>9, <2>10, SeqEqual
  <2> QED BY <2>2, <2>11 DEF a, r, s
<1> QED BY <1>2, <1>4, <1>5, <1>6

\* A file that can be opened is one of lines of words.
LEMMA DiskIsReadable ==
  ASSUME disk \in FileSystems
  PROVE  \A p \in DOMAIN disk : Readable(disk, p)
BY DiskType DEF Readable

\* The lines after line l are line l + 1 and the lines after that.
LEMMA LinesAfterIs ==
  ASSUME NEW d, NEW p, Readable(d, p), NEW l \in 0 .. Len(d[p])
  PROVE  /\ LinesAfter(d, p, l) \in Seq(Items)
         /\ l = Len(d[p]) => LinesAfter(d, p, l) = <<>>
         /\ l < Len(d[p]) =>
              LinesAfter(d, p, l) = LineRest(d, p, l + 1, 0) \o LinesAfter(d, p, l + 1)
PROOF
<1> DEFINE n == Len(d[p])
           R(j) == [k \in 1 .. n - j |-> LineRest(d, p, j + k, 0)]
<1>1. n \in Nat
  BY LenProperties DEF Readable
<1>2. ASSUME NEW j \in 1 .. n PROVE LineRest(d, p, j, 0) \in Seq(Items)
  BY <1>2, LineRestIs
<1>3. ASSUME NEW j \in 0 .. n
      PROVE  /\ R(j) \in Seq(Seq(Items)) /\ Len(R(j)) = n - j
             /\ LinesAfter(d, p, j) = FlattenSeq(R(j))
  <2>1. ASSUME NEW k \in 1 .. n - j PROVE LineRest(d, p, j + k, 0) \in Seq(Items)
    <3>1. j + k \in 1 .. n
      BY <1>1
    <3> QED BY <1>2, <3>1
  <2>2. n - j \in Nat /\ R(j) \in [1 .. n - j -> Seq(Items)]
    <3>1. R(j) \in [1 .. n - j -> Seq(Items)]
      BY <2>1
    <3>2. n - j \in Nat
      <4> HIDE DEF n
      <4> QED BY <1>1
    <3> QED BY <3>1, <3>2
  <2>3. LinesAfter(d, p, j) = FlattenSeq(R(j))
    BY DEF LinesAfter
  <2> HIDE DEF n, R
  <2>4. R(j) \in Seq(Seq(Items)) /\ Len(R(j)) = n - j
    BY <2>2, FunctionIsSequence
  <2> QED BY <2>3, <2>4
<1>4. ASSUME NEW j \in 0 .. n PROVE LinesAfter(d, p, j) \in Seq(Items)
  <2> HIDE DEF R, n
  <2> QED BY <1>3, FlattenInSeq
<1>5. ASSUME l = n PROVE LinesAfter(d, p, l) = <<>>
  <2> HIDE DEF R, n
  <2>1. Len(R(l)) = 0
    BY <1>1, <1>3, <1>5
  <2>2. R(l) = <<>>
    BY <1>1, <1>3, <1>5, <2>1, EmptySeq
  <2> QED BY <1>1, <1>3, <1>5, <2>2, FlattenEmpty
<1>6. ASSUME l < n
      PROVE  LinesAfter(d, p, l) = LineRest(d, p, l + 1, 0) \o LinesAfter(d, p, l + 1)
  <2> DEFINE m == l + 1
             a == LineRest(d, p, m, 0)
  <2>1. m \in 0 .. n /\ m \in 1 .. n
    BY <1>1, <1>6
  <2>2. a \in Seq(Items)
    <3> HIDE DEF m, n
    <3> QED BY <1>2, <2>1
  <2>3. /\ R(m) \in Seq(Seq(Items)) /\ Len(R(m)) = n - m
        /\ LinesAfter(d, p, m) = FlattenSeq(R(m))
    <3> HIDE DEF m, n, R
    <3> QED BY <1>3, <2>1
  <2>4. R(l) \in Seq(Seq(Items)) /\ Len(R(l)) = n - l
        /\ LinesAfter(d, p, l) = FlattenSeq(R(l))
    BY <1>1, <1>3
  <2>5. <<a>> \in Seq(Seq(Items)) /\ Len(<<a>>) = 1 /\ <<a>>[1] = a
    <3> HIDE DEF a
    <3> QED BY <2>2
  <2>6. R(l) = <<a>> \o R(m)
    <3> DEFINE s == <<a>> \o R(m)
    <3>1. /\ s \in Seq(Seq(Items)) /\ Len(s) = Len(<<a>>) + Len(R(m))
          /\ \A k \in 1 .. Len(<<a>>) + Len(R(m)) :
               s[k] = IF k <= Len(<<a>>) THEN <<a>>[k] ELSE R(m)[k - Len(<<a>>)]
      <4> HIDE DEF R, a, m
      <4> QED BY <2>3, <2>5, ConcatProperties
    <3>2. Len(s) = n - l
      BY <1>1, <2>1, <2>3, <2>5, <3>1
    <3>3. ASSUME NEW k \in 1 .. n - l PROVE R(l)[k] = s[k]
      <4>1. CASE k = 1
        <5>1. R(l)[k] = a
          BY <1>1, <1>6, <4>1
        <5>2. s[k] = a
          <6> HIDE DEF R, a, m, s, n
          <6>1. 1 \in 1 .. Len(<<a>>) + Len(R(m)) /\ 1 <= Len(<<a>>)
            BY <1>1, <2>1, <2>3, <2>5
          <6>2. s[1] = <<a>>[1]
            BY <3>1, <6>1
          <6> QED BY <2>5, <4>1, <6>2
        <5> QED BY <5>1, <5>2
      <4>2. CASE k # 1
        <5> DEFINE h == k - 1
        <5>1. h \in 1 .. n - m /\ m + h = l + k /\ k \in 1 .. Len(s) /\ ~ (k <= 1)
          <6> HIDE DEF s
          <6> QED BY <1>1, <1>6, <3>2, <4>2
        <5>2. R(m)[h] = LineRest(d, p, m + h, 0)
          <6> HIDE DEF m, h, n
          <6> QED BY <5>1
        <5>3. s[k] = R(m)[h]
          <6> HIDE DEF R, a, m, s
          <6> QED BY <2>3, <2>5, <3>1, <5>1
        <5>4. R(l)[k] = LineRest(d, p, l + k, 0)
          OBVIOUS
        <5> QED BY <5>1, <5>2, <5>3, <5>4
      <4> QED BY <4>1, <4>2
    <3> HIDE DEF R, s, n, m, a
    <3> QED BY <2>4, <3>1, <3>2, <3>3, SeqEqual DEF s
  <2>7. FlattenSeq(R(l)) = a \o FlattenSeq(R(m))
    <3> HIDE DEF R, a, m
    <3>1. FlattenSeq(<<a>> \o R(m)) = FlattenSeq(<<a>>) \o FlattenSeq(R(m))
      BY <2>3, <2>5, FlattenConcat
    <3>2. FlattenSeq(<<a>>) = a
      BY <2>2, FlattenOne
    <3> QED BY <2>6, <3>1, <3>2
  <2> QED BY <2>3, <2>4, <2>7
<1> QED BY <1>1, <1>4, <1>5, <1>6

\* A frame in a file: what is left of its line, then the lines after it.
Placed(d, f) == f.path \in DOMAIN d => Readable(d, f.path) /\ f.line_num <= Len(d[f.path])

LEMMA FrameRestType ==
  ASSUME NEW d, NEW f \in Frames, Placed(d, f)
  PROVE  FrameRest(d, f) \in Seq(Items)
PROOF
<1>1. CASE f.path \notin DOMAIN d
  BY <1>1 DEF FrameRest
<1>2. CASE f.path \in DOMAIN d
  <2>1. /\ Readable(d, f.path) /\ f.line_num \in 0 .. Len(d[f.path])
        /\ f.index \in Nat /\ f.line_num \in Nat
    <3>1. Len(d[f.path]) \in Nat
      BY <1>2, LenProperties DEF Placed, Readable
    <3> QED BY <1>2, <3>1 DEF Placed, Frames
  <2>2. LinesAfter(d, f.path, f.line_num) \in Seq(Items)
    BY <2>1, LinesAfterIs
  <2>3. f.line_num # 0 => LineRest(d, f.path, f.line_num, f.index) \in Seq(Items)
    <3>1. f.line_num # 0 => f.line_num \in 1 .. Len(d[f.path])
      BY <2>1
    <3> QED BY <2>1, <3>1, LineRestIs
  <2> DEFINE a == IF f.line_num = 0 THEN <<>> ELSE LineRest(d, f.path, f.line_num, f.index)
             b == LinesAfter(d, f.path, f.line_num)
  <2>4. a \in Seq(Items) /\ b \in Seq(Items)
    BY <2>2, <2>3, EmptySeq
  <2>5. FrameRest(d, f) = a \o b
    BY <1>2 DEF FrameRest
  <2> HIDE DEF a, b
  <2> QED BY <2>4, <2>5, ConcatProperties
<1> QED BY <1>1, <1>2

\* One more open file: what is left of it comes first.
LEMMA StackTextIs ==
  ASSUME NEW d, NEW s \in Seq(Frames), \A i \in 1 .. Len(s) : Placed(d, s[i])
  PROVE  /\ StackText(d, s) \in Seq(Items)
         /\ s = <<>> => StackText(d, s) = <<>>
         /\ \A f \in Frames : Placed(d, f) =>
              StackText(d, Append(s, f)) = FrameRest(d, f) \o StackText(d, s)
PROOF
<1> DEFINE R(t) == [n \in 1 .. Len(t) |-> FrameRest(d, t[Len(t) - n + 1])]
<1>1. ASSUME NEW t \in Seq(Frames), \A i \in 1 .. Len(t) : Placed(d, t[i])
      PROVE  /\ R(t) \in Seq(Seq(Items)) /\ Len(R(t)) = Len(t)
             /\ StackText(d, t) = FlattenSeq(R(t))
  <2>1. Len(t) \in Nat
    BY LenProperties
  <2>2. ASSUME NEW n \in 1 .. Len(t) PROVE FrameRest(d, t[Len(t) - n + 1]) \in Seq(Items)
    <3> DEFINE m == Len(t) - n + 1
    <3>1. m \in 1 .. Len(t)
      BY <2>1
    <3> HIDE DEF m
    <3>2. t[m] \in Frames /\ Placed(d, t[m])
      BY <1>1, <2>1, <3>1
    <3>3. FrameRest(d, t[m]) \in Seq(Items)
      BY <3>2, FrameRestType
    <3> QED BY <3>3 DEF m
  <2>3. R(t) \in [1 .. Len(t) -> Seq(Items)]
    BY <2>2
  <2>4. StackText(d, t) = FlattenSeq(R(t))
    BY DEF StackText
  <2> HIDE DEF R
  <2> QED BY <2>1, <2>3, <2>4, FunctionIsSequence
<1>2. /\ R(s) \in Seq(Seq(Items)) /\ Len(R(s)) = Len(s)
      /\ StackText(d, s) = FlattenSeq(R(s))
  <2> HIDE DEF R
  <2> QED BY <1>1
<1>3. StackText(d, s) \in Seq(Items)
  <2> HIDE DEF R
  <2> QED BY <1>2, FlattenInSeq
<1>4. ASSUME s = <<>> PROVE StackText(d, s) = <<>>
  <2> HIDE DEF R
  <2>1. R(s) = <<>>
    BY <1>2, <1>4, EmptySeq
  <2> QED BY <1>2, <2>1, FlattenEmpty
<1>5. ASSUME NEW f \in Frames, Placed(d, f)
      PROVE  StackText(d, Append(s, f)) = FrameRest(d, f) \o StackText(d, s)
  <2> DEFINE t == Append(s, f)
             a == FrameRest(d, f)
  <2>1. /\ t \in Seq(Frames) /\ Len(t) = Len(s) + 1 /\ t[Len(s) + 1] = f
        /\ \A i \in 1 .. Len(s) : t[i] = s[i]
    BY <1>5, AppendProperties
  <2>2. Len(s) \in Nat
    BY LenProperties
  <2> HIDE DEF t
  <2>3. \A i \in 1 .. Len(t) : Placed(d, t[i])
    BY <1>5, <2>1, <2>2
  <2>4. /\ R(t) \in Seq(Seq(Items)) /\ Len(R(t)) = Len(t)
        /\ StackText(d, t) = FlattenSeq(R(t))
    <3> HIDE DEF R
    <3> QED BY <1>1, <2>1, <2>3
  <2>5. a \in Seq(Items)
    BY <1>5, FrameRestType
  <2>6. <<a>> \in Seq(Seq(Items)) /\ Len(<<a>>) = 1 /\ <<a>>[1] = a
    <3> HIDE DEF a
    <3> QED BY <2>5
  <2>7. R(t) = <<a>> \o R(s)
    <3> DEFINE u == <<a>> \o R(s)
    <3>1. /\ u \in Seq(Seq(Items)) /\ Len(u) = Len(<<a>>) + Len(R(s))
          /\ \A k \in 1 .. Len(<<a>>) + Len(R(s)) :
               u[k] = IF k <= Len(<<a>>) THEN <<a>>[k] ELSE R(s)[k - Len(<<a>>)]
      <4> HIDE DEF R, a
      <4> QED BY <1>2, <2>6, ConcatProperties
    <3>2. Len(u) = Len(s) + 1
      <4> HIDE DEF R, a, u
      <4> QED BY <1>2, <2>2, <2>6, <3>1
    <3>3. ASSUME NEW k \in 1 .. Len(s) + 1 PROVE R(t)[k] = u[k]
      <4>0. k \in 1 .. Len(t) /\ R(t)[k] = FrameRest(d, t[Len(t) - k + 1])
        BY <2>1
      <4>1. CASE k = 1
        <5>1. R(t)[k] = a
          <6>1. Len(t) - k + 1 = Len(s) + 1
            BY <2>1, <2>2, <4>1
          <6> QED BY <2>1, <4>0, <6>1
        <5>2. u[k] = a
          <6> HIDE DEF R, a, u
          <6> QED BY <1>2, <2>2, <2>6, <3>1, <3>2, <4>1
        <5> QED BY <5>1, <5>2
      <4>2. CASE k # 1
        <5> DEFINE h == k - 1
        <5>1. h \in 1 .. Len(s) /\ Len(t) - k + 1 = Len(s) - h + 1 /\ ~ (k <= 1)
              /\ Len(s) - h + 1 \in 1 .. Len(s) /\ k \in 1 .. 1 + Len(s)
          BY <2>1, <2>2, <4>2
        <5>2. R(s)[h] = FrameRest(d, s[Len(s) - h + 1])
          <6> HIDE DEF h
          <6> QED BY <5>1
        <5>3. u[k] = R(s)[h]
          <6> HIDE DEF R, a, u
          <6> QED BY <1>2, <2>6, <3>1, <5>1
        <5>4. R(t)[k] = FrameRest(d, s[Len(s) - h + 1])
          <6> HIDE DEF h
          <6> QED BY <2>1, <4>0, <5>1
        <5> QED BY <5>2, <5>3, <5>4
      <4> QED BY <4>1, <4>2
    <3> HIDE DEF R, u, a
    <3> QED BY <2>1, <2>4, <3>1, <3>2, <3>3, SeqEqual DEF u
  <2>8. FlattenSeq(R(t)) = a \o FlattenSeq(R(s))
    <3> HIDE DEF R, a
    <3>1. FlattenSeq(<<a>> \o R(s)) = FlattenSeq(<<a>>) \o FlattenSeq(R(s))
      BY <1>2, <2>6, FlattenConcat
    <3>2. FlattenSeq(<<a>>) = a
      BY <2>5, FlattenOne
    <3> QED BY <2>7, <3>1, <3>2
  <2> QED BY <1>2, <2>4, <2>8 DEF t, a
<1> QED BY <1>3, <1>4, <1>5
\* The stack is what is below its top frame, and the top frame.
LEMMA StackCut ==
  ASSUME Shape, status = "reading"
  PROVE  /\ Pop(open) \in Seq(Frames) /\ open = Append(Pop(open), Top)
         /\ \A i \in 1 .. Len(Pop(open)) : Placed(disk, Pop(open)[i])
         /\ Top \in Frames /\ InFile(Top) /\ Placed(disk, Top)
         /\ \A f \in Frames : ReplaceTop(f) = Append(Pop(open), f)
PROOF
<1>1. /\ open \in Seq(Frames) /\ open # <<>>
      /\ \A i \in 1 .. Len(open) : InFile(open[i])
  BY DEF Shape, TypeOK, Reading
<1>2. \A f \in Frames : InFile(f) => Placed(disk, f)
  BY DiskIsReadable DEF Shape, TypeOK, InFile, Placed
<1>3. Len(open) \in Nat \ {0}
  BY <1>1, EmptySeq
<1>4. /\ Pop(open) \in Seq(Frames) /\ Len(Pop(open)) = Len(open) - 1
      /\ \A i \in 1 .. Len(open) - 1 : Pop(open)[i] = open[i]
  BY <1>1, PopProperties
<1>5. Top \in Frames /\ InFile(Top)
  BY <1>1, <1>3 DEF Top
<1>6. \A i \in 1 .. Len(Pop(open)) : Placed(disk, Pop(open)[i])
  BY <1>1, <1>2, <1>3, <1>4
<1>7. ASSUME NEW f \in Frames PROVE ReplaceTop(f) = Append(Pop(open), f)
  <2>1. /\ ReplaceTop(f) \in Seq(Frames)
        /\ Len(ReplaceTop(f)) = Len(open)
        /\ ReplaceTop(f)[Len(open)] = f
        /\ \A i \in 1 .. Len(open) : i # Len(open) => ReplaceTop(f)[i] = open[i]
    BY <1>1, <1>7, ReplaceTopProperties
  <2>2. /\ Len(ReplaceTop(f)) = Len(Pop(open)) + 1
        /\ \A i \in 1 .. Len(Pop(open)) : ReplaceTop(f)[i] = Pop(open)[i]
        /\ ReplaceTop(f)[Len(Pop(open)) + 1] = f
    BY <1>3, <1>4, <2>1
  <2> QED BY <1>4, <1>7, <2>1, <2>2, OneMore
<1>8. open = Append(Pop(open), Top)
  <2>1. /\ Len(open) = Len(Pop(open)) + 1
        /\ \A i \in 1 .. Len(Pop(open)) : open[i] = Pop(open)[i]
        /\ open[Len(Pop(open)) + 1] = Top
    BY <1>3, <1>4 DEF Top
  <2> QED BY <1>1, <1>4, <1>5, <2>1, OneMore
<1> QED BY <1>2, <1>4, <1>5, <1>6, <1>7, <1>8

Below == StackText(disk, Pop(open))

\* What is still to come is what is left of the top file, then the rest.
LEMMA TextCut ==
  ASSUME Shape, status = "reading"
  PROVE  /\ Below \in Seq(Items)
         /\ TextToCome = FrameRest(disk, Top) \o Below
         /\ \A f \in Frames : Placed(disk, f) =>
              /\ FrameRest(disk, f) \in Seq(Items)
              /\ StackText(disk, ReplaceTop(f)) \in Seq(Items)
              /\ StackText(disk, ReplaceTop(f)) = FrameRest(disk, f) \o Below
              /\ \A g \in Frames : Placed(disk, g) =>
                   StackText(disk, Append(ReplaceTop(f), g))
                     = FrameRest(disk, g) \o StackText(disk, ReplaceTop(f))
PROOF
<1>1. /\ Pop(open) \in Seq(Frames) /\ open = Append(Pop(open), Top)
      /\ \A i \in 1 .. Len(Pop(open)) : Placed(disk, Pop(open)[i])
      /\ Top \in Frames /\ Placed(disk, Top)
      /\ \A f \in Frames : ReplaceTop(f) = Append(Pop(open), f)
  BY StackCut
<1>2. /\ Below \in Seq(Items)
      /\ \A f \in Frames : Placed(disk, f) =>
           StackText(disk, Append(Pop(open), f)) = FrameRest(disk, f) \o Below
  BY <1>1, StackTextIs DEF Below
<1>3. TextToCome = FrameRest(disk, Top) \o Below
  <2>1. StackText(disk, Append(Pop(open), Top)) = FrameRest(disk, Top) \o Below
    BY <1>1, <1>2
  <2>2. StackText(disk, open) = StackText(disk, Append(Pop(open), Top))
    BY <1>1
  <2> QED BY <2>1, <2>2 DEF TextToCome
<1>4. ASSUME NEW f \in Frames, Placed(disk, f)
      PROVE  /\ FrameRest(disk, f) \in Seq(Items)
             /\ StackText(disk, ReplaceTop(f)) \in Seq(Items)
             /\ StackText(disk, ReplaceTop(f)) = FrameRest(disk, f) \o Below
             /\ \A g \in Frames : Placed(disk, g) =>
                  StackText(disk, Append(ReplaceTop(f), g))
                    = FrameRest(disk, g) \o StackText(disk, ReplaceTop(f))
  <2> DEFINE s == ReplaceTop(f)
  <2>1. s = Append(Pop(open), f)
    BY <1>1, <1>4
  <2> HIDE DEF s
  <2>2. /\ s \in Seq(Frames) /\ Len(s) = Len(Pop(open)) + 1 /\ s[Len(Pop(open)) + 1] = f
        /\ \A i \in 1 .. Len(Pop(open)) : s[i] = Pop(open)[i]
    BY <1>1, <1>4, <2>1, AppendProperties
  <2>3. \A i \in 1 .. Len(s) : Placed(disk, s[i])
    <3>1. Len(Pop(open)) \in Nat
      BY <1>1, LenProperties
    <3>2. ASSUME NEW i \in 1 .. Len(s) PROVE Placed(disk, s[i])
      <4>1. CASE i = Len(Pop(open)) + 1
        BY <1>4, <2>2, <4>1
      <4>2. CASE i # Len(Pop(open)) + 1
        <5>1. i \in 1 .. Len(Pop(open))
          BY <2>2, <3>1, <4>2
        <5> QED BY <1>1, <2>2, <5>1
      <4> QED BY <4>1, <4>2
    <3> QED BY <3>2
  <2>4. FrameRest(disk, f) \in Seq(Items)
    BY <1>4, FrameRestType
  <2>5. /\ StackText(disk, s) \in Seq(Items)
        /\ \A g \in Frames : Placed(disk, g) =>
             StackText(disk, Append(s, g)) = FrameRest(disk, g) \o StackText(disk, s)
    BY <2>2, <2>3, StackTextIs
  <2>6. StackText(disk, s) = FrameRest(disk, f) \o Below
    BY <1>2, <1>4, <2>1
  <2> QED BY <2>4, <2>5, <2>6 DEF s
<1> QED BY <1>2, <1>3, <1>4

\* The first of some items and the others.
LEMMA FirstItem ==
  ASSUME NEW a \in Items, NEW r \in Seq(Items)
  PROVE  <<a>> \o r # <<>> /\ Head(<<a>> \o r) = a /\ Tail(<<a>> \o r) = r
PROOF
<1> DEFINE s == <<a>> \o r
<1>1. <<a>> \in Seq(Items) /\ Len(<<a>>) = 1 /\ <<a>>[1] = a /\ Len(r) \in Nat
  BY LenProperties
<1>2. /\ s \in Seq(Items) /\ Len(s) = Len(<<a>>) + Len(r)
      /\ \A k \in 1 .. Len(<<a>>) + Len(r) :
           s[k] = IF k <= Len(<<a>>) THEN <<a>>[k] ELSE r[k - Len(<<a>>)]
  BY <1>1, ConcatProperties
<1> HIDE DEF s
<1>3. Len(s) = Len(r) + 1 /\ s[1] = a /\ s # <<>>
      /\ \A k \in 1 .. Len(r) : s[k + 1] = r[k]
  BY <1>1, <1>2
<1>4. Head(s) = a
  BY <1>2, <1>3
<1>5. Tail(s) \in Seq(Items) /\ Len(Tail(s)) = Len(s) - 1
      /\ \A k \in 1 .. Len(Tail(s)) : Tail(s)[k] = s[k + 1]
  BY <1>2, <1>3, HeadTailProperties
<1>6. Tail(s) = r
  <2>1. Len(Tail(s)) = Len(r)
    BY <1>1, <1>3, <1>5
  <2>2. \A k \in 1 .. Len(r) : Tail(s)[k] = r[k]
    BY <1>3, <1>5, <2>1
  <2> QED BY <1>5, <2>1, <2>2, SeqEqual
<1> QED BY <1>3, <1>4, <1>6 DEF s
Inside(d, f) == Readable(d, f.path) /\ f.line_num \in 0 .. Len(d[f.path])

LEMMA FrameInside ==
  ASSUME Shape, NEW f \in Frames, InFile(f)
  PROVE  Inside(disk, f) /\ Placed(disk, f)
PROOF
<1>1. Readable(disk, f.path)
  BY DiskIsReadable DEF Shape, TypeOK, InFile
<1>2. Len(disk[f.path]) \in Nat
  BY <1>1, LenProperties DEF Readable
<1> QED BY <1>1, <1>2 DEF Inside, Placed, InFile, Frames

\* A frame at the end of its line has the lines after it left.
LEMMA RestAtEnd ==
  ASSUME NEW f \in Frames, Inside(disk, f), f.index >= Len(LineOf(f))
  PROVE  FrameRest(disk, f) = LinesAfter(disk, f.path, f.line_num)
PROOF
<1>1. LinesAfter(disk, f.path, f.line_num) \in Seq(Items)
  BY LinesAfterIs DEF Inside
<1>2. f.index \in Nat /\ f.line_num \in Nat /\ f.path \in DOMAIN disk
  BY DEF Frames, Inside, Readable
<1>3. f.line_num # 0 => LineRest(disk, f.path, f.line_num, f.index) = <<>>
  <2> SUFFICES ASSUME f.line_num # 0 PROVE LineRest(disk, f.path, f.line_num, f.index) = <<>>
    OBVIOUS
  <2>1. f.line_num \in 1 .. Len(disk[f.path]) /\ Readable(disk, f.path)
    BY <1>2 DEF Inside
  <2>2. f.index >= Len(disk[f.path][f.line_num])
    BY DEF LineOf
  <2> QED BY <1>2, <2>1, <2>2, LineRestIs
<1>4. FrameRest(disk, f) = <<>> \o LinesAfter(disk, f.path, f.line_num)
  BY <1>2, <1>3 DEF FrameRest
<1> QED BY <1>1, <1>4, ConcatEmptySeq

\* A frame within a line has its next word left, unless that is a comment.
LEMMA RestWithin ==
  ASSUME NEW f \in Frames, Inside(disk, f), f.index < Len(LineOf(f)),
         NEW w, w = LineOf(f)[f.index + 1],
         NEW g \in Frames, g.path = f.path, g.line_num = f.line_num, g.index = f.index + 1
  PROVE  /\ f.line_num # 0
         /\ w.kind = "comment" => FrameRest(disk, f) = LinesAfter(disk, f.path, f.line_num)
         /\ w.kind # "comment" =>
              /\ ItemAt(disk, f.path, f.line_num, f.index + 1) \in Items
              /\ FrameRest(disk, f)
                   = <<ItemAt(disk, f.path, f.line_num, f.index + 1)>> \o FrameRest(disk, g)
PROOF
<1>1. f.index \in Nat /\ f.line_num \in Nat /\ f.path \in DOMAIN disk
  BY DEF Frames, Inside, Readable
<1>2. f.line_num # 0 /\ LineOf(f) = disk[f.path][f.line_num]
  BY <1>1 DEF LineOf
<1> DEFINE p == f.path
           l == f.line_num
           i == f.index
           n == i + 1
           a == ItemAt(disk, p, l, n)
           r == LineRest(disk, p, l, i)
           s == LineRest(disk, p, l, n)
           t == LinesAfter(disk, p, l)
<1>3. /\ Readable(disk, p) /\ l \in 1 .. Len(disk[p]) /\ i \in Nat /\ n \in Nat
      /\ i < Len(disk[p][l]) /\ w = disk[p][l][n]
  BY <1>1, <1>2 DEF Inside
<1>4. FrameRest(disk, f) = r \o t
  BY <1>1, <1>2 DEF FrameRest
<1>5. FrameRest(disk, g) = s \o t
  BY <1>1, <1>2 DEF FrameRest
<1>6. t \in Seq(Items)
  BY LinesAfterIs DEF Inside
<1>7. /\ w.kind = "comment" => r = <<>>
      /\ w.kind # "comment" => a \in Items /\ r = <<a>> \o s
  <2> HIDE DEF p, l, i
  <2> QED BY <1>3, LineRestIs
<1>8. s \in Seq(Items)
  <2> HIDE DEF p, l, n
  <2> QED BY <1>3, LineRestIs
<1> HIDE DEF a, r, s, t
<1>9. w.kind = "comment" => FrameRest(disk, f) = t
  BY <1>4, <1>6, <1>7, ConcatEmptySeq
<1>10. w.kind # "comment" => FrameRest(disk, f) = <<a>> \o FrameRest(disk, g)
  <2> SUFFICES ASSUME w.kind # "comment" PROVE FrameRest(disk, f) = <<a>> \o FrameRest(disk, g)
    OBVIOUS
  <2>1. <<a>> \in Seq(Items)
    BY <1>7
  <2>2. (<<a>> \o s) \o t = <<a>> \o (s \o t)
    BY <1>6, <1>8, <2>1, ConcatAssociative
  <2> QED BY <1>4, <1>5, <1>7, <2>2
<1> QED BY <1>2, <1>7, <1>9, <1>10 DEF a, t

\* A file just opened has all its lines left.
LEMMA RestOfOpened ==
  ASSUME NEW p \in DOMAIN disk, Readable(disk, p)
  PROVE  FrameRest(disk, Opened(p)) = LinesAfter(disk, p, 0)
PROOF
<1>1. Len(disk[p]) \in Nat
  BY LenProperties DEF Readable
<1>2. LinesAfter(disk, p, 0) \in Seq(Items)
  BY <1>1, LinesAfterIs
<1>3. FrameRest(disk, Opened(p)) = <<>> \o LinesAfter(disk, p, 0)
  BY DEF FrameRest, Opened
<1> QED BY <1>2, <1>3, ConcatEmptySeq

-----------------------------------------------------------------------------
TextInv == Shape /\ CountsWords

\* The word at hand is the first item of the text.
LEMMA WordAtHand ==
  ASSUME TextInv, status = "reading", ~EndOfLine, Current.kind # "comment",
         NEW rest, rest = StackText(disk, ReplaceTop(Consumed))
  PROVE  /\ rest \in Seq(Items)
         /\ TextToCome # <<>>
         /\ Tail(TextToCome) = rest
         /\ Head(TextToCome) =
              CASE Current.kind = "import" -> [kind |-> "import", path |-> Lower[Current.path]]
                [] Current.kind = "broken" -> Current
                [] OTHER -> [kind |-> Current.kind, at |-> Here(Consumed)]
PROOF
<1>1. Shape /\ Top \in Frames /\ InFile(Top) /\ Consumed \in Frames /\ InFile(Consumed)
      /\ Consumed.path = Top.path /\ Consumed.line_num = Top.line_num
      /\ Consumed.op_num = Top.op_num + 1 /\ LineOf(Top) \in Seq(Words)
  BY CurrentType DEF TextInv
<1>2. Inside(disk, Top) /\ Placed(disk, Top) /\ Placed(disk, Consumed)
  BY <1>1, FrameInside
<1>3. Top.index < Len(LineOf(Top)) /\ Consumed.index = Top.index + 1
  <2>1. Top.index \in Nat /\ Len(LineOf(Top)) \in Nat
    BY <1>1, LenProperties DEF Frames
  <2>2. Consumed.index = Top.index + 1
    BY <1>1 DEF Consumed, Frames
  <2> QED BY <2>1, <2>2 DEF EndOfLine
<1> DEFINE a == ItemAt(disk, Top.path, Top.line_num, Top.index + 1)
           c == FrameRest(disk, Consumed)
<1>4. Top.line_num # 0 /\ a \in Items /\ FrameRest(disk, Top) = <<a>> \o c
  BY <1>1, <1>2, <1>3, RestWithin DEF Current
<1>5. /\ Below \in Seq(Items) /\ TextToCome = FrameRest(disk, Top) \o Below
      /\ c \in Seq(Items) /\ rest \in Seq(Items) /\ rest = c \o Below
  BY <1>1, <1>2, TextCut
<1>6. Top.op_num = Top.index
  <2>1. open \in Seq(Frames) /\ open # <<>>
    BY <1>1 DEF Shape, TypeOK, Reading
  <2>2. Len(open) \in 1 .. Len(open)
    BY <2>1, EmptySeq
  <2> QED BY <1>3, <2>2 DEF TextInv, CountsWords, Top
<1>7. a = CASE Current.kind = "import" -> [kind |-> "import", path |-> Lower[Current.path]]
            [] Current.kind = "broken" -> Current
            [] OTHER -> [kind |-> Current.kind, at |-> Here(Consumed)]
  <2>1. Current = disk[Top.path][Top.line_num][Top.index + 1]
    BY <1>4 DEF Current, LineOf
  <2>2. Here(Consumed) = <<Top.path, Top.line_num, Top.index + 1>>
    BY <1>1, <1>6 DEF Here
  <2> QED BY <2>1, <2>2 DEF ItemAt
<1> HIDE DEF a, c
<1>8. TextToCome = <<a>> \o rest
  <2>1. <<a>> \in Seq(Items)
    BY <1>4
  <2>2. (<<a>> \o c) \o Below = <<a>> \o (c \o Below)
    BY <1>5, <2>1, ConcatAssociative
  <2> QED BY <1>4, <1>5, <2>2
<1>9. <<a>> \o rest # <<>> /\ Head(<<a>> \o rest) = a /\ Tail(<<a>> \o rest) = rest
  BY <1>4, <1>5, FirstItem
<1> QED BY <1>5, <1>7, <1>8, <1>9

\* Going on to the next line, past a comment, or out of a file that is read
\* leaves the text as it is.
LEMMA LineStepStutters ==
  ASSUME TextInv, status = "reading", NextLine
  PROVE  TextToCome' = TextToCome
PROOF
<1> DEFINE f == [Top EXCEPT !.line_num = @ + 1, !.op_num = 0, !.index = 0]
           p == Top.path
           l == Top.line_num
<1>1. Shape /\ Top \in Frames /\ InFile(Top) /\ Inside(disk, Top)
  BY StackCut, FrameInside DEF TextInv
<1>2. l < Len(disk[p]) /\ open' = ReplaceTop(f) /\ disk' = disk
      /\ Top.index >= Len(LineOf(Top))
  BY DEF NextLine, EndOfLine
<1>3. /\ f \in Frames /\ f.path = p /\ f.line_num = l + 1 /\ f.index = 0
  <2>1. f \in Frames /\ f.path = p /\ f.line_num = l + 1
    BY <1>1, NextLineFrame
  <2> QED BY <1>1, <2>1 DEF Frames
<1>4. l \in 0 .. Len(disk[p]) /\ Len(disk[p]) \in Nat /\ Readable(disk, p) /\ l \in Nat
  BY <1>1, LenProperties DEF Inside, Readable, Frames
<1> HIDE DEF f
<1>5. Inside(disk, f) /\ Placed(disk, f)
  BY <1>2, <1>3, <1>4 DEF Inside, Placed
<1>6. LinesAfter(disk, p, l) = LineRest(disk, p, l + 1, 0) \o LinesAfter(disk, p, l + 1)
  BY <1>2, <1>4, LinesAfterIs
<1>7. FrameRest(disk, f) = LineRest(disk, p, l + 1, 0) \o LinesAfter(disk, p, l + 1)
  <2>1. f.line_num # 0 /\ f.path \in DOMAIN disk
    BY <1>3, <1>4 DEF Readable
  <2> QED BY <1>3, <2>1 DEF FrameRest
<1>8. FrameRest(disk, Top) = LinesAfter(disk, p, l)
  BY <1>1, <1>2, RestAtEnd
<1>9. TextToCome = FrameRest(disk, Top) \o Below
      /\ StackText(disk, ReplaceTop(f)) = FrameRest(disk, f) \o Below
  BY <1>1, <1>3, <1>5, TextCut
<1> QED BY <1>2, <1>6, <1>7, <1>8, <1>9 DEF TextToCome

LEMMA CommentStutters ==
  ASSUME TextInv, status = "reading", SkipComment
  PROVE  TextToCome' = TextToCome
PROOF
<1> DEFINE f == [Consumed EXCEPT !.index = Len(LineOf(Top))]
<1>1. Shape /\ Top \in Frames /\ InFile(Top) /\ Consumed \in Frames /\ InFile(Consumed)
      /\ Consumed.path = Top.path /\ Consumed.line_num = Top.line_num
      /\ LineOf(Top) \in Seq(Words) /\ Inside(disk, Top)
  BY CurrentType, FrameInside DEF TextInv, SkipComment
<1>2. open' = ReplaceTop(f) /\ disk' = disk /\ Current.kind = "comment" /\ ~EndOfLine
  BY DEF SkipComment
<1>3. Top.index < Len(LineOf(Top)) /\ Consumed.index = Top.index + 1 /\ Len(LineOf(Top)) \in Nat
  <2>1. Top.index \in Nat /\ Len(LineOf(Top)) \in Nat
    BY <1>1, LenProperties DEF Frames
  <2>2. Consumed.index = Top.index + 1
    BY <1>1 DEF Consumed, Frames
  <2> QED BY <1>2, <2>1, <2>2 DEF EndOfLine
<1>4. /\ f \in Frames /\ f.path = Top.path /\ f.line_num = Top.line_num
      /\ f.index = Len(LineOf(Top))
  <2>1. f \in Frames /\ f.path = Consumed.path /\ f.line_num = Consumed.line_num
    BY <1>1, <1>3, CommentFrame
  <2> QED BY <1>1, <2>1 DEF Frames
<1> HIDE DEF f
<1>5. InFile(f) /\ Inside(disk, f) /\ Placed(disk, f)
  BY <1>1, <1>4, FrameInside DEF InFile
<1>6. FrameRest(disk, Top) = LinesAfter(disk, Top.path, Top.line_num)
  BY <1>1, <1>2, <1>3, RestWithin DEF Current
<1>7. FrameRest(disk, f) = LinesAfter(disk, f.path, f.line_num)
  <2>1. LineOf(f) = LineOf(Top)
    BY <1>4 DEF LineOf
  <2>2. f.index >= Len(LineOf(f))
    BY <1>3, <1>4, <2>1
  <2> QED BY <1>4, <1>5, <2>2, RestAtEnd
<1>8. TextToCome = FrameRest(disk, Top) \o Below
      /\ StackText(disk, ReplaceTop(f)) = FrameRest(disk, f) \o Below
  BY <1>1, <1>4, <1>5, TextCut
<1> QED BY <1>2, <1>4, <1>6, <1>7, <1>8 DEF TextToCome

LEMMA CloseStutters ==
  ASSUME TextInv, status = "reading", CloseFile
  PROVE  /\ TextToCome' = TextToCome
         /\ open' = <<>> => TextToCome = <<>>
PROOF
<1>1. Shape /\ Top \in Frames /\ InFile(Top) /\ Inside(disk, Top)
  BY StackCut, FrameInside DEF TextInv
<1>2. Top.line_num >= Len(disk[Top.path]) /\ open' = Pop(open) /\ disk' = disk
      /\ Top.index >= Len(LineOf(Top))
  BY DEF CloseFile, EndOfLine
<1>3. Top.line_num = Len(disk[Top.path]) /\ Top.line_num \in 0 .. Len(disk[Top.path])
      /\ Readable(disk, Top.path)
  <2>1. Len(disk[Top.path]) \in Nat
    BY <1>1, LenProperties DEF Inside, Readable
  <2> QED BY <1>1, <1>2, <2>1 DEF Inside
<1>4. FrameRest(disk, Top) = <<>>
  BY <1>1, <1>2, <1>3, RestAtEnd, LinesAfterIs
<1>5. Below \in Seq(Items) /\ TextToCome = FrameRest(disk, Top) \o Below
  BY <1>1, TextCut
<1>6. TextToCome = Below
  BY <1>4, <1>5, ConcatEmptySeq
<1>7. TextToCome' = Below
  BY <1>2 DEF TextToCome, Below
<1>8. Pop(open) = <<>> => Below = <<>>
  BY StackCut, StackTextIs DEF Below, TextInv
<1> QED BY <1>2, <1>6, <1>7, <1>8
-----------------------------------------------------------------------------
\* The numbers given to words are their places in their lines.
LEMMA TextInvInit == Init => TextInv
PROOF
<1> SUFFICES ASSUME Init PROVE CountsWords
  BY ShapeInit DEF TextInv
<1>1. open = <<Opened(Root)>>
  BY DEF Init
<1> QED BY <1>1 DEF CountsWords, Opened, LineOf

\* Replacing the top frame keeps the counts of the frames below.
LEMMA ReplaceKeepsCounts ==
  ASSUME TextInv, status = "reading", NEW f \in Frames, open' = ReplaceTop(f), disk' = disk,
         f.index < Len(LineOf(f)) => f.op_num = f.index
  PROVE  CountsWords'
PROOF
<1>1. open \in Seq(Frames) /\ open # <<>>
  BY DEF TextInv, Shape, TypeOK, Reading
<1>2. /\ Len(open) \in Nat \ {0}
      /\ Len(open') = Len(open) /\ open'[Len(open)] = f
      /\ \A i \in 1 .. Len(open) : i # Len(open) => open'[i] = open[i]
  BY <1>1, ReplaceTopProperties
<1>3. \A i \in 1 .. Len(open') : open'[i].index < Len(LineOf(open'[i])) => open'[i].op_num = open'[i].index
  BY <1>2 DEF TextInv, CountsWords
<1> QED BY <1>3 DEF CountsWords, LineOf

LEMMA ConsumedCounts ==
  ASSUME TextInv, status = "reading", ~EndOfLine
  PROVE  /\ Consumed \in Frames /\ Consumed.op_num = Consumed.index
         /\ Consumed.path = Top.path
PROOF
<1>1. Shape /\ Top \in Frames /\ Consumed \in Frames /\ Consumed.op_num = Top.op_num + 1
      /\ Consumed.path = Top.path /\ LineOf(Top) \in Seq(Words)
  BY CurrentType DEF TextInv
<1>2. Consumed.index = Top.index + 1
  BY <1>1 DEF Consumed, Frames
<1>3. Top.index < Len(LineOf(Top))
  <2>1. Top.index \in Nat /\ Len(LineOf(Top)) \in Nat
    BY <1>1, LenProperties DEF Frames
  <2> QED BY <2>1 DEF EndOfLine
<1>4. open \in Seq(Frames) /\ open # <<>>
  BY <1>1 DEF Shape, TypeOK, Reading
<1>5. Len(open) \in 1 .. Len(open)
  BY <1>4, EmptySeq
<1>6. Top.op_num = Top.index
  BY <1>3, <1>5 DEF TextInv, CountsWords, Top
<1> QED BY <1>1, <1>2, <1>6

LEMMA TextInvStep == TextInv /\ [Next]_vars => TextInv'
PROOF
<1> SUFFICES ASSUME TextInv, [Next]_vars PROVE CountsWords'
  BY ShapeStep DEF TextInv
<1>1. CASE UNCHANGED vars
  BY <1>1 DEF vars, TextInv, CountsWords, LineOf
<1>2. CASE status = "reading" /\ NextLine
  <2> DEFINE f == [Top EXCEPT !.line_num = @ + 1, !.op_num = 0, !.index = 0]
  <2>1. Top \in Frames
    BY <1>2, StackCut DEF TextInv
  <2>2. f \in Frames /\ f.op_num = 0
    BY <2>1, NextLineFrame
  <2>3. f.index = 0
    BY <2>1 DEF Frames
  <2>4. open' = ReplaceTop(f) /\ disk' = disk
    BY <1>2 DEF NextLine
  <2> HIDE DEF f
  <2> QED BY <1>2, <2>2, <2>3, <2>4, ReplaceKeepsCounts
<1>3. CASE status = "reading" /\ CloseFile
  <2>1. open \in Seq(Frames) /\ open # <<>> /\ open' = Pop(open) /\ disk' = disk
    BY <1>3 DEF TextInv, Shape, TypeOK, Reading, CloseFile
  <2>2. /\ Len(open') = Len(open) - 1 /\ Len(open) \in Nat
        /\ \A i \in 1 .. Len(open) - 1 : open'[i] = open[i]
    BY <2>1, PopProperties, LenProperties
  <2>3. \A i \in 1 .. Len(open') : open'[i].index < Len(LineOf(open'[i])) => open'[i].op_num = open'[i].index
    BY <2>2 DEF TextInv, CountsWords
  <2> QED BY <2>1, <2>3 DEF CountsWords, LineOf
<1>4. CASE status = "reading" /\ ReadWord
  BY <1>4, ConsumedCounts, ReplaceKeepsCounts DEF ReadWord
<1>5. CASE status = "reading" /\ SkipComment
  <2> DEFINE f == [Consumed EXCEPT !.index = Len(LineOf(Top))]
  <2>1. /\ Consumed \in Frames /\ Consumed.path = Top.path /\ Len(LineOf(Top)) \in Nat
        /\ Consumed.line_num = Top.line_num
    BY <1>5, CurrentType, LenProperties DEF SkipComment, TextInv
  <2>2. f \in Frames /\ f.path = Consumed.path /\ f.line_num = Consumed.line_num
    BY <2>1, CommentFrame
  <2>3. f.index = Len(LineOf(Top))
    BY <2>1 DEF Frames
  <2>4. open' = ReplaceTop(f) /\ disk' = disk
    BY <1>5 DEF SkipComment
  <2> HIDE DEF f
  <2>5. LineOf(f) = LineOf(Top)
    BY <2>1, <2>2 DEF LineOf
  <2>6. ~ (f.index < Len(LineOf(f)))
    BY <2>1, <2>3, <2>5
  <2> QED BY <1>5, <2>2, <2>4, <2>6, ReplaceKeepsCounts
<1>6. CASE UnterminatedString
  BY <1>6 DEF UnterminatedString, TextInv, CountsWords, LineOf
<1>7. CASE status = "reading" /\ ReadImport
  <2> DEFINE p == Lower[Current.path]
  <2>1. Consumed \in Frames /\ Consumed.op_num = Consumed.index
    BY <1>7, ConsumedCounts DEF ReadImport
  <2>2. ImportNew(p) \/ ImportAgain(p)
    BY <1>7 DEF ReadImport
  <2> HIDE DEF p
  <2>3. CASE ImportAgain(p)
    BY <1>7, <2>1, <2>3, ReplaceKeepsCounts DEF ImportAgain
  <2>4. CASE ImportNew(p)
    <3> DEFINE s == ReplaceTop(Consumed)
    <3>1. open' = Append(s, Opened(p)) /\ disk' = disk
      BY <2>4 DEF ImportNew
    <3>2. open \in Seq(Frames) /\ open # <<>> /\ Opened(p).index = 0 /\ Opened(p).op_num = 0
      BY <1>7 DEF TextInv, Shape, TypeOK, Reading, Opened
    <3>3. /\ s \in Seq(Frames) /\ Len(s) = Len(open) /\ s[Len(open)] = Consumed
          /\ Len(open) \in Nat \ {0}
          /\ \A i \in 1 .. Len(open) : i # Len(open) => s[i] = open[i]
      BY <2>1, <3>2, ReplaceTopProperties
    <3> HIDE DEF s
    <3>4. /\ Len(open') = Len(open) + 1 /\ open'[Len(open) + 1] = Opened(p)
          /\ \A i \in 1 .. Len(open) : open'[i] = s[i]
      <4>1. \A x : /\ Len(Append(s, x)) = Len(s) + 1 /\ Append(s, x)[Len(s) + 1] = x
                   /\ \A i \in 1 .. Len(s) : Append(s, x)[i] = s[i]
        BY <3>3
      <4> QED BY <3>1, <3>3, <4>1
    <3>5. ASSUME NEW i \in 1 .. Len(open')
          PROVE  open'[i].index < Len(LineOf(open'[i])) => open'[i].op_num = open'[i].index
      <4>1. CASE i = Len(open) + 1
        BY <3>2, <3>4, <4>1
      <4>2. CASE i = Len(open)
        BY <2>1, <3>3, <3>4, <4>2
      <4>3. CASE i # Len(open) /\ i # Len(open) + 1
        <5>1. i \in 1 .. Len(open)
          BY <3>3, <3>4, <4>3
        <5>2. open'[i] = open[i]
          BY <3>3, <3>4, <4>3, <5>1
        <5> QED BY <5>1, <5>2 DEF TextInv, CountsWords
      <4> QED BY <4>1, <4>2, <4>3
    <3> QED BY <3>1, <3>5 DEF CountsWords, LineOf
  <2> QED BY <2>2, <2>3, <2>4
<1> QED BY <1>1, <1>2, <1>3, <1>4, <1>5, <1>6, <1>7 DEF Next

-----------------------------------------------------------------------------
\* The program text starts as the text of the root.
LEMMA InclusionInit == Init => Program!Init
PROOF
<1> SUFFICES ASSUME Init PROVE Program!Init
  OBVIOUS
<1>1. Shape /\ status = "reading" /\ open = <<Opened(Root)>> /\ log = <<>>
  BY ShapeInit DEF Init
<1>2. Root \in DOMAIN disk /\ Readable(disk, Root) /\ disk \in FileSystems
  BY <1>1, DiskType, DiskIsReadable DEF Shape, TypeOK
<1>3. Below \in Seq(Items) /\ TextToCome = FrameRest(disk, Top) \o Below
  BY <1>1, TextCut
<1>4. Top = Opened(Root) /\ Pop(open) = <<>>
  <2>1. Len(open) = 1 /\ open[1] = Opened(Root) /\ open \in Seq(Frames)
    BY <1>1 DEF Shape, TypeOK
  <2>2. Len(Pop(open)) = 0 /\ Pop(open) \in Seq(Frames)
    BY <1>1, <2>1, PopProperties
  <2> QED BY <2>1, <2>2, EmptySeq DEF Top
<1>5. Below = <<>>
  BY <1>1, <1>4, StackCut, StackTextIs DEF Below
<1>6. Readable(disk, Root) /\ Len(disk[Root]) \in Nat /\ LinesAfter(disk, Root, 0) \in Seq(Items)
  <2>1. Len(disk[Root]) \in Nat
    BY <1>2, LenProperties DEF Readable
  <2> QED BY <1>2, <2>1, LinesAfterIs
<1>7. FrameRest(disk, Top) = LinesAfter(disk, Root, 0)
  BY <1>2, <1>4, RestOfOpened
<1>8. TextToCome = LinesAfter(disk, Root, 0)
  BY <1>3, <1>5, <1>6, <1>7, ConcatEmptySeq
<1>9. DOMAIN all_imported_paths = {Root} /\ [i \in 1 .. Len(log) |-> log[i].at] = <<>>
  BY <1>1 DEF Init
<1> QED BY <1>1, <1>2, <1>8, <1>9 DEF Program!Init

\* A word handed to the parser is the item delivered.
LEMMA ReadDelivers ==
  ASSUME TextInv, status = "reading", ReadWord
  PROVE  Program!Deliver
PROOF
<1>1. /\ ~EndOfLine /\ Current.kind \in {"word", "rejected"}
      /\ open' = ReplaceTop(Consumed) /\ disk' = disk
      /\ log' = Append(log, [at |-> Here(Consumed), num |-> FileNum(Top.path)])
      /\ status' = IF Current.kind = "rejected" THEN "error" ELSE status
      /\ all_imported_paths' = all_imported_paths
  BY DEF ReadWord
<1>2. /\ TextToCome # <<>> /\ Tail(TextToCome) = StackText(disk, ReplaceTop(Consumed))
      /\ Head(TextToCome) = [kind |-> Current.kind, at |-> Here(Consumed)]
  BY <1>1, WordAtHand
<1>3. TextToCome' = Tail(TextToCome)
  BY <1>1, <1>2 DEF TextToCome
<1>4. Head(TextToCome).kind = Current.kind /\ Head(TextToCome).at = Here(Consumed)
  BY <1>2
<1>5. [i \in 1 .. Len(log') |-> log'[i].at] = Append([i \in 1 .. Len(log) |-> log[i].at], Here(Consumed))
  <2>1. log \in Seq([at : Paths \X Nat \X Nat, num : Nat \ {0}])
    BY DEF TextInv, Shape, TypeOK
  <2> DEFINE e == [at |-> Here(Consumed), num |-> FileNum(Top.path)]
             S == [at : Paths \X Nat \X Nat, num : Nat \ {0}]
             o == [i \in 1 .. Len(log) |-> log[i].at]
             o1 == [i \in 1 .. Len(log') |-> log'[i].at]
  <2>2. e \in S
    <3>1. Top \in Frames /\ InFile(Top) /\ Consumed \in Frames /\ Shape
      BY <1>1, CurrentType DEF TextInv
    <3> QED BY <3>1 DEF Here, FileNum, Frames, InFile, Shape, TypeOK
  <2>3. e.at = Here(Consumed)
    OBVIOUS
  <2> HIDE DEF e
  <2>4. log' = Append(log, e)
    BY <1>1 DEF e
  <2>5. /\ log' \in Seq(S) /\ Len(log') = Len(log) + 1 /\ log'[Len(log) + 1] = e
        /\ \A i \in 1 .. Len(log) : log'[i] = log[i]
    BY <2>1, <2>2, <2>4, AppendProperties
  <2>6. Len(log) \in Nat /\ \A i \in 1 .. Len(log) : log[i] \in S
    BY <2>1, LenProperties
  <2> DEFINE A == Paths \X Nat \X Nat
  <2>7. Here(Consumed) \in A /\ \A i \in 1 .. Len(log) : log[i].at \in A
    BY <2>2, <2>3, <2>6
  <2>8. o \in Seq(A) /\ Len(o) = Len(log)
    <3>1. o \in [1 .. Len(log) -> A]
      BY <2>7
    <3> HIDE DEF A, o
    <3> QED BY <2>6, <3>1, FunctionIsSequence
  <2>9. o1 \in Seq(A) /\ Len(o1) = Len(log')
    <3>1. ASSUME NEW i \in 1 .. Len(log') PROVE log'[i].at \in A
      <4>1. log'[i] \in S
        <5> HIDE DEF S, A
        <5> QED BY <2>5
      <4> QED BY <4>1
    <3>2. o1 \in [1 .. Len(log') -> A] /\ Len(log') \in Nat
      BY <2>5, <2>6, <3>1
    <3> HIDE DEF A, o1
    <3> QED BY <3>2, FunctionIsSequence
  <2>10. o1[Len(log) + 1] = Here(Consumed) /\ \A i \in 1 .. Len(log) : o1[i] = o[i]
    <3>1. Len(log) + 1 \in 1 .. Len(log') /\ \A i \in 1 .. Len(log) : i \in 1 .. Len(log')
      <4> HIDE DEF S, A
      <4> QED BY <2>5, <2>6
    <3>2. \A i \in 1 .. Len(log') : o1[i] = log'[i].at
      OBVIOUS
    <3>3. \A i \in 1 .. Len(log) : o[i] = log[i].at
      OBVIOUS
    <3>4. log'[Len(log) + 1] = e /\ \A i \in 1 .. Len(log) : log'[i] = log[i]
      BY <2>5
    <3> HIDE DEF o, o1, S, A
    <3> QED BY <2>3, <3>1, <3>2, <3>3, <3>4
  <2> HIDE DEF A, o, o1, S
  <2>11. o1 = Append(o, Here(Consumed))
    BY <2>5, <2>7, <2>8, <2>9, <2>10, OneMore
  <2> QED BY <2>11 DEF o, o1
<1> QED BY <1>1, <1>2, <1>3, <1>4, <1>5 DEF Program!Deliver, Program!Item

\* A string without an end is an item that cannot be read.
LEMMA UnterminatedFails ==
  ASSUME TextInv, status = "reading", UnterminatedString
  PROVE  Program!Fail
PROOF
<1>1. /\ ~EndOfLine /\ Current.kind = "broken" /\ status' = "error"
      /\ UNCHANGED <<disk, open, all_imported_paths, fileTable, log>>
  BY DEF UnterminatedString
<1>2. TextToCome # <<>> /\ Head(TextToCome) = Current
  BY <1>1, WordAtHand
<1>3. TextToCome' = TextToCome
  BY <1>1 DEF TextToCome
<1> QED BY <1>1, <1>2, <1>3 DEF Program!Fail, Program!Item

\* An import is replaced by the file, by nothing, or stops the compiler.
LEMMA ImportIncludes ==
  ASSUME TextInv, status = "reading", ReadImport
  PROVE  Program!Include \/ Program!IncludeNothing \/ Program!Fail
PROOF
<1> DEFINE p == Lower[Current.path]
           s == ReplaceTop(Consumed)
           rest == StackText(disk, s)
<1>1. /\ ~EndOfLine /\ Current.kind = "import" /\ (ImportNew(p) \/ ImportAgain(p))
      /\ disk' = disk /\ log' = log
  BY DEF ReadImport, ImportNew, ImportAgain
<1>2. /\ rest \in Seq(Items) /\ TextToCome # <<>> /\ Tail(TextToCome) = rest
      /\ Head(TextToCome) = [kind |-> "import", path |-> p]
  BY <1>1, WordAtHand
<1>3. Head(TextToCome).kind = "import" /\ Head(TextToCome).path = p
  BY <1>2
<1>4. p \in Paths /\ Consumed \in Frames /\ InFile(Consumed) /\ Shape
  <2>1. Current \in Words /\ Consumed \in Frames /\ InFile(Consumed) /\ Shape
    BY <1>1, CurrentType DEF TextInv
  <2>2. Current.path \in Paths
    BY <1>1, <2>1 DEF Words, Word, Rejected, Comment, Unterminated, Import
  <2> QED BY <2>1, <2>2, LowerAssumption
<1> HIDE DEF p
<1>5. CASE ImportAgain(p)
  <2>1. TextToCome' = rest
    BY <1>1, <1>5 DEF ImportAgain, TextToCome
  <2>2. p \in DOMAIN all_imported_paths /\ UNCHANGED <<all_imported_paths, status>>
    BY <1>5 DEF ImportAgain
  <2> QED BY <1>1, <1>2, <1>3, <2>1, <2>2 DEF Program!IncludeNothing, Program!Item
<1>6. CASE ImportNew(p)
  <2>1. /\ p \notin DOMAIN all_imported_paths
        /\ all_imported_paths' = WithNumber(p)
        /\ open' = Append(s, Opened(p))
        /\ status' = IF p \in DOMAIN disk THEN status ELSE "error"
    BY <1>6 DEF ImportNew
  <2>2. DOMAIN all_imported_paths' = DOMAIN all_imported_paths \cup {p}
    BY <2>1 DEF WithNumber
  <2>3. Opened(p) \in Frames /\ Placed(disk, Opened(p)) /\ Placed(disk, Consumed)
    <3>1. Opened(p) \in Frames /\ Opened(p).path = p /\ Opened(p).line_num = 0
      BY <1>4 DEF Opened, Frames
    <3>2. p \in DOMAIN disk => Readable(disk, p) /\ Len(disk[p]) \in Nat
      BY <1>4, DiskIsReadable, LenProperties DEF Shape, TypeOK, Readable
    <3> QED BY <1>4, <3>1, <3>2, FrameInside DEF Placed
  <2>4. StackText(disk, Append(s, Opened(p))) = FrameRest(disk, Opened(p)) \o rest
    BY <1>1, <1>4, <2>3, TextCut
  <2>5. TextToCome' = FrameRest(disk, Opened(p)) \o rest
    BY <1>1, <2>1, <2>4 DEF TextToCome
  <2> HIDE DEF s, rest
  <2>6. CASE p \in DOMAIN disk
    <3>1. FrameRest(disk, Opened(p)) = LinesAfter(disk, p, 0)
      BY <1>4, <2>6, DiskIsReadable, RestOfOpened DEF Shape, TypeOK
    <3> QED BY <1>1, <1>2, <1>3, <2>1, <2>2, <2>5, <2>6, <3>1 DEF Program!Include, Program!Item
  <2>7. CASE p \notin DOMAIN disk
    <3>1. FrameRest(disk, Opened(p)) = <<>>
      BY <2>7 DEF FrameRest, Opened
    <3>2. TextToCome' = rest
      BY <1>2, <2>5, <3>1, ConcatEmptySeq
    <3> QED BY <1>1, <1>2, <1>3, <2>1, <2>2, <2>7, <3>2 DEF Program!Fail, Program!Item
  <2> QED BY <2>6, <2>7
<1> QED BY <1>1, <1>5, <1>6

\* Each step of the iterator is a step of the text it reads, or none.
LEMMA InclusionStep == TextInv /\ [Next]_vars => [Program!Next]_Program!vars
PROOF
<1> SUFFICES ASSUME TextInv, [Next]_vars PROVE [Program!Next]_Program!vars
  OBVIOUS
<1>1. ASSUME TextToCome' = TextToCome, UNCHANGED <<disk, all_imported_paths, log, status>>
      PROVE  UNCHANGED Program!vars
  BY <1>1 DEF Program!vars
<1>2. CASE UNCHANGED vars
  <2>1. TextToCome' = TextToCome
    BY <1>2 DEF vars, TextToCome
  <2> QED BY <1>1, <1>2, <2>1 DEF vars
<1>3. CASE status = "reading" /\ NextLine
  BY <1>1, <1>3, LineStepStutters DEF NextLine
<1>4. CASE status = "reading" /\ CloseFile
  <2>1. /\ TextToCome' = TextToCome
        /\ open' = <<>> => TextToCome = <<>>
    BY <1>4, CloseStutters
  <2>2. /\ status' = IF open' = <<>> THEN "done" ELSE status
        /\ UNCHANGED <<disk, all_imported_paths, log>>
    BY <1>4 DEF CloseFile
  <2>3. CASE open' = <<>>
    BY <1>4, <2>1, <2>2, <2>3 DEF Program!Next, Program!Finish
  <2>4. CASE open' # <<>>
    BY <1>1, <2>1, <2>2, <2>4
  <2> QED BY <2>3, <2>4
<1>5. CASE status = "reading" /\ ReadWord
  BY <1>5, ReadDelivers DEF Program!Next
<1>6. CASE status = "reading" /\ SkipComment
  BY <1>1, <1>6, CommentStutters DEF SkipComment
<1>7. CASE status = "reading" /\ UnterminatedString
  BY <1>7, UnterminatedFails DEF Program!Next
<1>8. CASE status = "reading" /\ ReadImport
  BY <1>8, ImportIncludes DEF Program!Next
<1> QED BY <1>2, <1>3, <1>4, <1>5, <1>6, <1>7, <1>8 DEF Next

\* Textual inclusion: the words handed to the parser, with their line and op
\* numbers, are those of the one text in which each import is replaced by the
\* file it names.
THEOREM IsTextualInclusionHolds == Spec => IsTextualInclusion
PROOF
<1>1. Init => TextInv /\ Program!Init
  BY TextInvInit, InclusionInit
<1>2. TextInv /\ [Next]_vars => TextInv'
  BY TextInvStep
<1>3. TextInv /\ [Next]_vars => [Program!Next]_Program!vars
  BY InclusionStep
<1> QED BY <1>1, <1>2, <1>3, PTL DEF Spec, IsTextualInclusion, Program!Spec
=============================================================================
