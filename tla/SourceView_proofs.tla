--------------------------- MODULE SourceView_proofs ---------------------------
(***************************************************************************)
(* Proofs about SourceView, for every set of files: the compiler's scanner *)
(* stays within lines that are ended, the view shows all of a file, in a   *)
(* tidy file it marks the word the process has stopped at, and the         *)
(* characters of a string become its bytes.                                *)
(***************************************************************************)
EXTENDS SourceView, SequenceFacts, FiniteSetTheorems

Segments == [first : Nat, text : Seq(Nat)]

-----------------------------------------------------------------------------
(***************************************************************************)
(* The compiler's scanner.                                                 *)
(***************************************************************************)
LEMMA TextFacts ==
  ASSUME file \in Files
  PROVE  /\ text \in Seq(Nat) /\ Len(text) \in Nat /\ DOMAIN text = 1 .. Len(text)
         /\ \A i \in 1 .. Len(text) : text[i] \in Nat
         /\ \A i \in 1 .. Len(text) : text[i] = CR => i < Len(text) /\ text[i + 1] = NL
PROOF
<1>1. /\ text \in Seq(Nat)
      /\ \A i \in DOMAIN text : text[i] = CR => i < Len(text) /\ text[i + 1] = NL
  BY FilesAssumption DEF text
<1>2. Len(text) \in Nat /\ DOMAIN text = 1 .. Len(text) /\ \A i \in 1 .. Len(text) : text[i] \in Nat
  BY <1>1, LenProperties, ElementOfSeq
<1> QED BY <1>1, <1>2

\* Every character is in a line that has an end.
LEMMA LineEndFacts ==
  ASSUME file \in Files, NEW i \in 1 .. Len(text)
  PROVE  /\ LineEnd(i) \in i .. Len(text)
         /\ LineEnd(i) = Len(text) \/ text[LineEnd(i)] = NL
         /\ \A k \in i .. LineEnd(i) - 1 : text[k] # NL
PROOF
<1> DEFINE T == {j \in i .. Len(text) : j = Len(text) \/ text[j] = NL}
<1>1. Len(text) \in Nat
  BY TextFacts
<1>2. T \subseteq Nat /\ Len(text) \in T
  BY <1>1
<1>3. PICK j \in T : \A k \in T : j <= k
  BY <1>2, LeastNat
<1>4. j \in i .. Len(text) /\ (j = Len(text) \/ text[j] = NL)
  BY <1>3
<1>5. \A k \in i .. j - 1 : text[k] # NL
  BY <1>1, <1>3, <1>4
<1> QED BY <1>4, <1>5 DEF LineEnd

\* A word that starts at i has an end.
LEMMA WordEndFacts ==
  ASSUME file \in Files, NEW i \in 1 .. Len(text), ~IsSpace(text[i])
  PROVE  /\ WordEnd(i) \in i .. Len(text)
         /\ WordEnd(i) = Len(text) \/ IsSpace(text[WordEnd(i) + 1])
         /\ \A k \in i .. WordEnd(i) : ~IsSpace(text[k])
PROOF
<1> DEFINE T == {j \in i .. Len(text) : j = Len(text) \/ IsSpace(text[j + 1])}
<1>1. Len(text) \in Nat
  BY TextFacts
<1>2. T \subseteq Nat /\ Len(text) \in T
  BY <1>1
<1>3. PICK j \in T : \A k \in T : j <= k
  BY <1>2, LeastNat
<1>4. j \in i .. Len(text) /\ (j = Len(text) \/ IsSpace(text[j + 1]))
  BY <1>3
<1>5. ASSUME NEW k \in i .. j, k # i PROVE ~IsSpace(text[k])
  <2>1. k - 1 \in i .. Len(text) /\ k - 1 < j /\ (k - 1) + 1 = k /\ j \in Nat
    BY <1>1, <1>4, <1>5
  <2>2. k - 1 \notin T
    <3> HIDE DEF T
    <3> QED BY <1>3, <2>1
  <2>3. ~IsSpace(text[(k - 1) + 1])
    BY <2>1, <2>2
  <2> QED BY <2>1, <2>3
<1>6. \A k \in i .. j : ~IsSpace(text[k])
  BY <1>5
<1> QED BY <1>4, <1>6 DEF WordEnd

LexInv ==
  /\ file \in Files
  /\ next \in 1 .. Len(text) + 1
  /\ delim \in {0, Quote, Apostrophe}
  /\ mode \in {"reading", "end", "unterminated", "IndexError"}
  /\ delim # 0 => from \in 1 .. Len(text) /\ from < next

\* A literal is read within its line.
LEMMA WithinLine ==
  ASSUME LexInv, InLiteral
  PROVE  /\ from \in 1 .. Len(text) /\ LineEnd(from) \in 1 .. Len(text) /\ Len(text) \in Nat
         /\ next \in Nat /\ from < next /\ next <= LineEnd(from)
         /\ \A i \in Int : Past(i) <=> i > LineEnd(from)
         /\ LineEnd(from) = Len(text) \/ text[LineEnd(from)] = NL
PROOF
<1>1. file \in Files /\ from \in 1 .. Len(text) /\ from < next /\ next \in 1 .. Len(text) + 1
  BY DEF LexInv, InLiteral
<1>2. Len(text) \in Nat
  BY <1>1, TextFacts
<1>3. LineEnd(from) \in from .. Len(text) /\ (LineEnd(from) = Len(text) \/ text[LineEnd(from)] = NL)
  BY <1>1, LineEndFacts
<1> QED BY <1>1, <1>2, <1>3 DEF InLiteral, Past

\* The count of octal digits exists where there is one.
LEMMA OctalCountFacts ==
  ASSUME NEW i \in Int, ~Past(i), IsOctal(text[i])
  PROVE  /\ OctalCount(i) \in 1 .. 3
         /\ \A k \in 0 .. OctalCount(i) - 1 : ~Past(i + k) /\ IsOctal(text[i + k])
PROOF
<1> DEFINE Digits(n) == \A k \in 0 .. n - 1 : ~Past(i + k) /\ IsOctal(text[i + k])
           Ends(n) == n = 3 \/ Past(i + n) \/ ~IsOctal(text[i + n])
<1>1. Digits(1)
  <2>1. \A k \in 0 .. 0 : i + k = i
    OBVIOUS
  <2> QED BY <2>1
<1>2. ASSUME NEW n \in 1 .. 2, Digits(n), ~Ends(n) PROVE Digits(n + 1)
  <2>1. \A k \in 0 .. n : k \in 0 .. n - 1 \/ k = n
    OBVIOUS
  <2> QED BY <1>2, <2>1
<1>3. Digits(1) /\ (Ends(1) \/ Digits(2)) /\ (~Ends(1) /\ Digits(2) => Ends(2) \/ Digits(3)) /\ Ends(3)
  <2>1. 1 \in 1 .. 2 /\ 2 \in 1 .. 2 /\ 1 + 1 = 2 /\ 2 + 1 = 3
    OBVIOUS
  <2> HIDE DEF Digits, Ends
  <2>2. (~Ends(1) => Digits(1 + 1)) /\ (Digits(2) /\ ~Ends(2) => Digits(2 + 1))
    BY <1>1, <1>2, <2>1
  <2>3. Ends(3)
    BY DEF Ends
  <2> QED BY <1>1, <2>1, <2>2, <2>3
<1> HIDE DEF Digits, Ends
<1>4. \E n \in 1 .. 3 : Digits(n) /\ Ends(n)
  BY <1>3
<1>5. OctalCount(i) \in 1 .. 3 /\ Digits(OctalCount(i))
  BY <1>4 DEF OctalCount, Digits, Ends
<1> QED BY <1>5 DEF Digits

\* An octal number leaves the scanner within the line.
LEMMA OctalWithin ==
  ASSUME LexInv, InLiteral, ~Past(next + 1), IsOctal(text[next + 1])
  PROVE  /\ OctalCount(next + 1) \in 1 .. 3
         /\ next + OctalCount(next + 1) <= LineEnd(from)
         /\ \A k \in next + 1 .. next + OctalCount(next + 1) : IsOctal(text[k])
PROOF
<1> DEFINE n == OctalCount(next + 1)
<1>1. /\ next \in Nat /\ LineEnd(from) \in 1 .. Len(text) /\ Len(text) \in Nat
      /\ \A i \in Int : Past(i) <=> i > LineEnd(from)
  BY WithinLine
<1>2. next + 1 \in Int
  BY <1>1
<1>3. n \in 1 .. 3 /\ \A k \in 0 .. n - 1 : ~Past(next + 1 + k) /\ IsOctal(text[next + 1 + k])
  BY <1>2, OctalCountFacts
<1> HIDE DEF n
<1>4. n - 1 \in 0 .. n - 1 /\ next + 1 + (n - 1) = next + n /\ next + n \in Int
  BY <1>1, <1>3
<1>5. ~Past(next + n)
  BY <1>3, <1>4
<1>6. next + n <= LineEnd(from)
  BY <1>1, <1>4, <1>5
<1>7. ASSUME NEW k \in next + 1 .. next + n PROVE IsOctal(text[k])
  <2>1. k - next - 1 \in 0 .. n - 1 /\ next + 1 + (k - next - 1) = k
    BY <1>1, <1>3
  <2>2. IsOctal(text[next + 1 + (k - next - 1)])
    BY <1>3, <2>1
  <2> QED BY <2>1, <2>2
<1> QED BY <1>3, <1>6, <1>7 DEF n

\* What a literal's next character or escape does, short of the end of the line.
LEMMA ReadPartStep ==
  ASSUME LexInv, ReadCharacter \/ ReadEscape
  PROVE  /\ UNCHANGED <<file, line_num, op_num, delim, from, words, comments>>
         /\ delim # 0 /\ mode = "reading"
         /\ \/ mode' = mode /\ next' = next + 1 /\ text[next] \notin {Backslash, delim}
            \/ /\ mode' = mode /\ next' = next + 2 /\ text[next] = Backslash
               /\ next + 1 <= LineEnd(from)
            \/ \E n \in 1 .. 3 :
                 /\ mode' = mode /\ next' = next + 1 + n /\ text[next] = Backslash
                 /\ next + n <= LineEnd(from)
                 /\ \A k \in next + 1 .. next + n : IsOctal(text[k])
            \/ mode' = "IndexError" /\ next' = next /\ ~Ended
PROOF
<1>1. UNCHANGED <<file, line_num, op_num, delim, from, words, comments>>
  BY DEF ReadCharacter, ReadEscape, ReadPart
<1>2. InLiteral /\ delim # 0 /\ mode = "reading" /\ ~Past(next)
  BY DEF ReadCharacter, ReadEscape, InLiteral
<1>3. /\ from \in 1 .. Len(text) /\ LineEnd(from) \in 1 .. Len(text) /\ Len(text) \in Nat
      /\ next \in Nat /\ from < next /\ next <= LineEnd(from)
      /\ \A i \in Int : Past(i) <=> i > LineEnd(from)
      /\ LineEnd(from) = Len(text) \/ text[LineEnd(from)] = NL
  BY <1>2, WithinLine
<1>4. Ended => text[LineEnd(from)] = NL
  BY <1>3 DEF Ended
<1>5. CASE ReadCharacter
  BY <1>1, <1>2, <1>5 DEF ReadCharacter, Take, char
<1>6. CASE ReadEscape
  <2>1. text[next] = Backslash /\ next + 1 \in Int
    BY <1>3, <1>6 DEF ReadEscape, char
  <2>2. CASE Past(next + 1)
    <3>1. next = LineEnd(from)
      BY <1>3, <2>1, <2>2
    <3>2. ~Ended
      BY <1>4, <2>1, <3>1 DEF NL, Backslash
    <3>3. mode' = "IndexError" /\ next' = next
      BY <1>6, <2>2 DEF ReadEscape, Raise
    <3> QED BY <1>1, <1>2, <3>2, <3>3
  <2>3. CASE ~Past(next + 1)
    <3>1. next + 1 <= LineEnd(from)
      BY <1>3, <2>1, <2>3
    <3>2. ASSUME NEW v, Take(v, 2) PROVE mode' = mode /\ next' = next + 2
      BY <3>2 DEF Take
    <3>3. CASE \E v : Take(v, 2)
      BY <1>1, <1>2, <2>1, <3>1, <3>2, <3>3
    <3>4. CASE ~ \E v : Take(v, 2)
      <4> DEFINE n == OctalCount(next + 1)
      <4>1. /\ IsOctal(text[next + 1])
            /\ IF n < 3 /\ Past(next + 1 + n) THEN Raise("IndexError")
               ELSE Take(OctalValue(SubSeq(text, next + 1, next + n)), 1 + n)
        BY <1>6, <2>3, <3>4 DEF ReadEscape
      <4>2. /\ n \in 1 .. 3 /\ next + n <= LineEnd(from)
            /\ \A k \in next + 1 .. next + n : IsOctal(text[k])
        BY <1>2, <2>3, <4>1, OctalWithin
      <4> HIDE DEF n
      <4>3. CASE n < 3 /\ Past(next + 1 + n)
        <5>1. next + n = LineEnd(from)
          BY <1>3, <4>2, <4>3
        <5>2. IsOctal(text[LineEnd(from)])
          BY <1>3, <4>2, <5>1
        <5>3. ~Ended
          BY <1>4, <5>2 DEF IsOctal, NL
        <5> QED BY <1>1, <1>2, <4>1, <4>3, <5>3 DEF Raise
      <4>4. CASE ~(n < 3 /\ Past(next + 1 + n))
        <5>1. mode' = mode /\ next' = next + (1 + n)
          BY <4>1, <4>4 DEF Take
        <5>2. next' = next + 1 + n
          BY <1>3, <4>2, <5>1
        <5> QED BY <1>1, <1>2, <2>1, <4>2, <5>1, <5>2
      <4> QED BY <4>3, <4>4
    <3> QED BY <3>3, <3>4
  <2> QED BY <2>2, <2>3
<1> QED BY <1>5, <1>6

\* Every step of the compiler's scanner keeps its place in the file.
LEMMA LexStep ==
  ASSUME LexInv, [LexerNext]_lexerVars
  PROVE  LexInv' /\ ((Ended => mode # "IndexError") => (Ended => mode # "IndexError")')
PROOF
<1>1. /\ file \in Files /\ next \in 1 .. Len(text) + 1 /\ Len(text) \in Nat
      /\ delim \in {0, Quote, Apostrophe} /\ (delim # 0 => from \in 1 .. Len(text) /\ from < next)
      /\ mode \in {"reading", "end", "unterminated", "IndexError"}
  BY TextFacts DEF LexInv
<1>2. file' = file /\ text' = text /\ Ended' = Ended
  <2>1. file' = file
    BY DEF LexerNext, Blank, PlainWord, Comment, OpenLiteral, EndOfInput, ReadCharacter,
           ReadEscape, ReadPart, CloseLiteral, Unterminated, lexerVars
  <2> QED BY <2>1 DEF text, Ended
<1>3. CASE UNCHANGED lexerVars
  BY <1>1, <1>2, <1>3 DEF lexerVars, wordVars, LexInv
<1>4. CASE Blank
  BY <1>1, <1>2, <1>4 DEF Blank, Between, wordVars, LexInv
<1>5. CASE PlainWord
  <2>1. next \in 1 .. Len(text) /\ ~IsSpace(text[next])
    BY <1>1, <1>5 DEF PlainWord, Between, char
  <2>2. WordEnd(next) \in next .. Len(text)
    BY <1>1, <2>1, WordEndFacts
  <2>3. next' = WordEnd(next) + 1 /\ delim = 0 /\ UNCHANGED <<delim, from, mode>>
    BY <1>5 DEF PlainWord, Between, wordVars
  <2> QED BY <1>1, <1>2, <2>1, <2>2, <2>3 DEF LexInv
<1>6. CASE Comment
  <2>1. next \in 1 .. Len(text) /\ text[next] = Semicolon
    BY <1>1, <1>6 DEF Comment, Between, char
  <2>2. LineEnd(next) \in next .. Len(text)
    BY <1>1, <2>1, LineEndFacts
  <2>3. text[next] # NL
    BY <2>1 DEF Semicolon, NL
  <2>4. next' \in 1 .. Len(text) + 1 /\ delim = 0 /\ UNCHANGED <<delim, from, mode>>
    BY <1>1, <1>6, <2>1, <2>2 DEF Comment, Between, wordVars
  <2> QED BY <1>1, <1>2, <2>4 DEF LexInv
<1>7. CASE OpenLiteral
  BY <1>1, <1>2, <1>7 DEF OpenLiteral, Between, LexInv
<1>8. CASE EndOfInput
  BY <1>1, <1>2, <1>8 DEF EndOfInput, wordVars, LexInv
<1>9. CASE ReadCharacter \/ ReadEscape
  <2>1. InLiteral
    BY <1>9 DEF ReadCharacter, ReadEscape
  <2>2. LineEnd(from) \in 1 .. Len(text) /\ next \in Nat /\ next <= LineEnd(from)
    BY <2>1, WithinLine
  <2>3. UNCHANGED <<file, delim, from>> /\ delim # 0 /\ mode = "reading"
    BY <1>9, ReadPartStep
  <2>4. CASE mode' = mode
    <3>1. next' \in next + 1 .. LineEnd(from) + 1
      BY <1>1, <1>9, <2>2, <2>3, <2>4, ReadPartStep
    <3> QED BY <1>1, <1>2, <2>2, <2>3, <2>4, <3>1 DEF LexInv
  <2>5. CASE mode' # mode
    <3>1. mode' = "IndexError" /\ next' = next /\ ~Ended
      BY <1>9, <2>5, ReadPartStep
    <3> QED BY <1>1, <1>2, <2>3, <3>1 DEF LexInv
  <2> QED BY <2>4, <2>5
<1>10. CASE CloseLiteral
  <2>1. LineEnd(from) \in 1 .. Len(text) /\ next \in Nat /\ next <= LineEnd(from)
    BY <1>10, WithinLine DEF CloseLiteral
  <2>2. next' = next + 1 /\ delim' = 0 /\ mode' = mode
    BY <1>10 DEF CloseLiteral
  <2> QED BY <1>1, <1>2, <2>1, <2>2 DEF LexInv
<1>11. CASE Unterminated
  BY <1>1, <1>2, <1>11 DEF Unterminated, wordVars, LexInv
<1> QED BY <1>3, <1>4, <1>5, <1>6, <1>7, <1>8, <1>9, <1>10, <1>11 DEF LexerNext

ViewKeeps == ViewNext => UNCHANGED lexerVars

LEMMA ViewKeepsLexer == ViewKeeps
PROOF
BY DEF ViewKeeps, ViewNext, NewLine, ReadTab, SameKind, OtherKind, InQuote, Read, EndOfFile,
       PrintSource

LEMMA LexInvStep ==
  ASSUME LexInv, [Next]_vars
  PROVE  LexInv' /\ ((Ended => mode # "IndexError") => (Ended => mode # "IndexError")')
PROOF
<1>1. [LexerNext]_lexerVars
  BY ViewKeepsLexer DEF Next, vars, ViewKeeps
<1> QED BY <1>1, LexStep

\* The compiler never reads past the end of a line, in every file whose last line
\* is ended, wherever quotes, backslashes and digits stand (CodeIterator.py:53-69).
THEOREM EndedFileIsReadWithinHolds == Spec => []EndedFileIsReadWithin
PROOF
<1>1. Init => LexInv /\ (Ended => mode # "IndexError")
  BY TextFacts DEF Init, LexerInit, LexInv
<1>2. /\ LexInv /\ (Ended => mode # "IndexError") /\ [Next]_vars
      => (LexInv /\ (Ended => mode # "IndexError"))'
  BY LexInvStep
<1> QED BY <1>1, <1>2, PTL DEF Spec, EndedFileIsReadWithin

-----------------------------------------------------------------------------
(***************************************************************************)
(* getSource.  A step reads one character or two and adds something to the *)
(* segments; blanks is what it puts in the place of a tab.                 *)
(***************************************************************************)
Blanks == [i \in 1 .. TAB_WIDTH |-> Space]

ViewType ==
  /\ get \in 1 .. Len(text) + 1 /\ quote \in {0, Quote, Apostrophe}
  /\ inWhitespace \in BOOLEAN /\ loaded \in BOOLEAN
  /\ source \in Seq(Seq(Segments)) /\ curLine \in Seq(Segments) /\ curWord \in Segments

\* n characters are read, and chars are what is shown of them.
Reads(n, chars) ==
  /\ get + n <= Len(text) + 1 /\ get' = get + n
  /\ \/ n = 1 /\ (chars = <<c>> \/ (text[get] = Tab /\ chars = Blanks))
     \/ n = 2 /\ chars = <<text[get], text[get + 1]>>

\* What a step of getSource is.
Grows ==
  \E n \in 1 .. 2, chars \in Seq(Nat) :
    /\ Reads(n, chars) /\ (Append2(chars) \/ StartSegment(chars))
    /\ source' = source /\ loaded' = loaded

LEMMA BlanksTyped == Blanks \in Seq(Nat)
PROOF
<1>1. Blanks \in [1 .. 4 -> Nat] /\ 4 \in Nat
  BY DEF Blanks, TAB_WIDTH, Space
<1> QED BY <1>1, FunctionIsSequence

LEMMA ViewStep ==
  ASSUME file \in Files, ViewType, ViewNext
  PROVE  \/ Grows /\ ~loaded
         \/ NewLine /\ text[get] = NL /\ ~loaded /\ get \in 1 .. Len(text)
         \/ EndOfFile /\ ~loaded /\ get = Len(text) + 1
         \/ UNCHANGED <<get, source, curLine, curWord, inWhitespace, quote, loaded>>
PROOF
<1>1. Len(text) \in Nat /\ \A i \in 1 .. Len(text) : text[i] \in Nat
  BY TextFacts
<1>2. get \in 1 .. Len(text) + 1
  BY DEF ViewType
<1>3. CASE \E w \in ToSet(words), height \in Heights : PrintSource(w, height)
  BY <1>3 DEF PrintSource
<1>4. CASE EndOfFile
  <2>1. ~loaded /\ get > Len(text)
    BY <1>4 DEF EndOfFile
  <2>2. get = Len(text) + 1
    BY <1>1, <1>2, <2>1
  <2> QED BY <1>4, <2>1, <2>2
<1>5. ASSUME Reading PROVE get \in 1 .. Len(text) /\ ~loaded /\ c \in Nat
  BY <1>1, <1>2, <1>5 DEF Reading, c, Space
<1>6. ASSUME Reading PROVE <<c>> \in Seq(Nat) /\ get + 1 <= Len(text) + 1
  BY <1>1, <1>5, <1>6
<1>7. ASSUME Reading, Append2(<<c>>) \/ StartSegment(<<c>>), Read(1), source' = source
      PROVE  Grows /\ ~loaded
  <2>1. get' = get + 1
    BY <1>7 DEF Read
  <2>2. Reads(1, <<c>>)
    BY <1>6, <1>7, <2>1 DEF Reads
  <2>3. loaded' = loaded /\ 1 \in 1 .. 2
    BY <1>7 DEF Read
  <2> QED BY <1>5, <1>6, <1>7, <2>2, <2>3 DEF Grows
<1>8. CASE NewLine
  <2>1. c = NL
    BY <1>8 DEF NewLine
  <2>2. text[get] = NL
    BY <2>1 DEF c, NL, Space
  <2> QED BY <1>5, <1>8, <2>2 DEF NewLine
<1>9. CASE ReadTab
  <2>1. Reading /\ c = Tab /\ (Append2(Blanks) \/ StartSegment(Blanks)) /\ Read(1) /\ source' = source
    BY <1>9 DEF ReadTab, Blanks
  <2>2. text[get] = Tab
    BY <2>1 DEF c, Tab, Space
  <2>3. Reads(1, Blanks)
    BY <1>6, <2>1, <2>2, BlanksTyped DEF Reads, Read
  <2> QED BY <1>5, <2>1, <2>3, BlanksTyped DEF Grows, Read
<1>10. CASE SameKind
  BY <1>7, <1>10 DEF SameKind
<1>11. CASE OtherKind
  BY <1>7, <1>11 DEF OtherKind
<1>12. CASE InQuote
  <2>1. CASE c = Backslash /\ get < Len(text)
    <3>1. Append2(<<c, text[get + 1]>>) /\ Read(2) /\ source' = source /\ Reading
      BY <1>12, <2>1 DEF InQuote
    <3>2. c = text[get]
      BY <2>1 DEF c, Backslash, Space
    <3>3. get + 1 \in 1 .. Len(text) /\ get + 2 <= Len(text) + 1
      BY <1>1, <1>2, <2>1
    <3>4. <<c, text[get + 1]>> \in Seq(Nat)
      BY <1>1, <1>5, <3>1, <3>3
    <3>5. Reads(2, <<c, text[get + 1]>>)
      BY <3>1, <3>2, <3>3, <3>4 DEF Reads, Read
    <3>6. loaded' = loaded /\ 2 \in 1 .. 2
      BY <3>1 DEF Read
    <3> QED BY <1>5, <3>1, <3>4, <3>5, <3>6 DEF Grows
  <2>2. CASE ~(c = Backslash /\ get < Len(text))
    BY <1>7, <1>12, <2>2 DEF InQuote
  <2> QED BY <2>1, <2>2
<1> QED BY <1>3, <1>4, <1>8, <1>9, <1>10, <1>11, <1>12 DEF ViewNext

LEMMA ViewTypeStep ==
  ASSUME file \in Files, ViewType, file' = file, ViewNext \/ UNCHANGED viewVars
  PROVE  ViewType'
PROOF
<1>1. /\ Len(text) \in Nat /\ text' = text
      /\ get \in 1 .. Len(text) + 1 /\ quote \in {0, Quote, Apostrophe}
      /\ inWhitespace \in BOOLEAN /\ loaded \in BOOLEAN
      /\ source \in Seq(Seq(Segments)) /\ curLine \in Seq(Segments) /\ curWord \in Segments
  BY TextFacts DEF ViewType, text
<1>2. CASE UNCHANGED <<get, source, curLine, curWord, inWhitespace, quote, loaded>>
  BY <1>1, <1>2 DEF ViewType
<1>3. Append(curLine, curWord) \in Seq(Segments)
  BY <1>1, AppendProperties
<1>4. EndLine => source' \in Seq(Seq(Segments))
  BY <1>1, <1>3, AppendProperties DEF EndLine
<1>5. CASE ViewNext
  <2>1. quote' \in {0, Quote, Apostrophe}
    BY <1>1, <1>5 DEF ViewNext, NewLine, ReadTab, SameKind, OtherKind, InQuote, EndOfFile, PrintSource
  <2>2. inWhitespace' \in BOOLEAN
    BY <1>1, <1>5 DEF ViewNext, NewLine, ReadTab, SameKind, OtherKind, InQuote, EndOfFile, PrintSource
  <2>3. CASE Grows
    <3>1. PICK n \in 1 .. 2, chars \in Seq(Nat) :
            /\ Reads(n, chars) /\ (Append2(chars) \/ StartSegment(chars))
            /\ source' = source /\ loaded' = loaded
      BY <2>3 DEF Grows
    <3>2. get' \in 1 .. Len(text) + 1 /\ get \in Nat
      BY <1>1, <3>1 DEF Reads
    <3>3. ASSUME Append2(chars) PROVE curWord' \in Segments /\ curLine' = curLine
      <4>1. curWord.text \in Seq(Nat)
        BY <1>1 DEF Segments
      <4>2. curWord.text \o chars \in Seq(Nat)
        BY <4>1, ConcatProperties
      <4> QED BY <1>1, <3>3, <4>2 DEF Append2, Segments
    <3>4. ASSUME StartSegment(chars) PROVE curWord' \in Segments /\ curLine' \in Seq(Segments)
      BY <1>3, <3>2, <3>4 DEF StartSegment, Segment, Segments
    <3> QED BY <1>1, <2>1, <2>2, <3>1, <3>2, <3>3, <3>4 DEF ViewType
  <2>4. CASE NewLine /\ get \in 1 .. Len(text)
    <3>1. get + 1 \in Nat /\ <<>> \in Seq(Nat) /\ <<>> \in Seq(Segments)
      BY <1>1, EmptySeq
    <3>2. curWord' \in Segments /\ curLine' \in Seq(Segments)
      BY <2>4, <3>1 DEF NewLine, Segment, Segments
    <3> QED BY <1>1, <1>4, <2>1, <2>2, <2>4, <3>2 DEF ViewType, NewLine, Read
  <2>5. CASE EndOfFile
    BY <1>1, <1>4, <2>5 DEF ViewType, EndOfFile
  <2> QED BY <1>2, <1>5, <2>3, <2>4, <2>5, ViewStep
<1> QED BY <1>2, <1>5 DEF viewVars

TypeInv == LexInv /\ ViewType

LEMMA TypeInvInit == Init => TypeInv
PROOF
<1> SUFFICES ASSUME Init PROVE TypeInv
  OBVIOUS
<1>1. file \in Files
  BY DEF Init, LexerInit
<1>2. Len(text) \in Nat
  BY <1>1, TextFacts
<1>3. <<>> \in Seq(Nat) /\ <<>> \in Seq(Segments) /\ <<>> \in Seq(Seq(Segments))
  BY EmptySeq
<1>4. curWord \in Segments
  BY <1>3 DEF Init, Segments
<1>5. LexInv
  BY <1>1, <1>2 DEF Init, LexerInit, LexInv
<1>6. get = 1 /\ source = <<>> /\ curLine = <<>> /\ quote = 0
  BY DEF Init
<1>7. inWhitespace \in BOOLEAN /\ loaded \in BOOLEAN
  BY DEF Init
<1>8. ViewType
  BY <1>2, <1>3, <1>4, <1>6, <1>7 DEF ViewType
<1> QED BY <1>5, <1>8 DEF TypeInv

LEMMA TypeInvStep == TypeInv /\ [Next]_vars => TypeInv'
PROOF
<1> SUFFICES ASSUME TypeInv, [Next]_vars PROVE TypeInv'
  OBVIOUS
<1>1. LexInv'
  BY LexInvStep DEF TypeInv
<1>2. [LexerNext]_lexerVars
  BY ViewKeepsLexer DEF Next, vars, ViewKeeps
<1>3. file' = file
  BY <1>2 DEF LexerNext, Blank, PlainWord, Comment, OpenLiteral, EndOfInput, ReadCharacter,
              ReadEscape, ReadPart, CloseLiteral, Unterminated, lexerVars
<1>4. ViewNext \/ UNCHANGED viewVars
  BY DEF Next, vars
<1> QED BY <1>1, <1>3, <1>4, ViewTypeStep DEF TypeInv, LexInv

\* The places of both scanners stay in the file, whatever it holds, and what the view
\* keeps are lines of segments (CodeIterator.py:52-112, debugger.cpp:242-310).
THEOREM TypeCorrect == Spec => []TypeOK
PROOF
<1>1. TypeInv => TypeOK
  BY DEF TypeInv, LexInv, ViewType, TypeOK, Segments
<1> QED BY <1>1, TypeInvInit, TypeInvStep, PTL DEF Spec

-----------------------------------------------------------------------------
(***************************************************************************)
(* All that is not blank is in the segments, in its order.                 *)
(***************************************************************************)
White == {NL, Tab, CR, Space}
InkIn(s) == [i \in DOMAIN s |-> IF s[i] \in White THEN <<>> ELSE <<s[i]>>]

LEMMA InkInTyped ==
  ASSUME NEW s \in Seq(Nat)
  PROVE  /\ InkIn(s) \in Seq(Seq(Nat)) /\ Len(InkIn(s)) = Len(s) /\ Len(s) \in Nat
         /\ \A i \in 1 .. Len(s) : InkIn(s)[i] = IF s[i] \in White THEN <<>> ELSE <<s[i]>>
PROOF
<1>1. Len(s) \in Nat /\ DOMAIN s = 1 .. Len(s) /\ \A i \in 1 .. Len(s) : s[i] \in Nat
  BY LenProperties, ElementOfSeq
<1>2. ASSUME NEW i \in 1 .. Len(s)
      PROVE  (IF s[i] \in White THEN <<>> ELSE <<s[i]>>) \in Seq(Nat)
  <2>1. s[i] \in Nat
    BY <1>1
  <2>2. <<s[i]>> \in Seq(Nat) /\ <<>> \in Seq(Nat)
    BY <2>1
  <2> QED BY <2>2
<1>3. InkIn(s) \in [1 .. Len(s) -> Seq(Nat)]
  BY <1>1, <1>2 DEF InkIn
<1>4. InkIn(s) \in Seq(Seq(Nat)) /\ Len(InkIn(s)) = Len(s)
  BY <1>1, <1>3, FunctionIsSequence
<1> QED BY <1>1, <1>4 DEF InkIn

LEMMA InkIsFlat == \A s : Ink(s) = FlattenSeq(InkIn(s))
PROOF
BY DEF Ink, InkIn, White

LEMMA InkTyped ==
  ASSUME NEW s \in Seq(Nat)
  PROVE  Ink(s) \in Seq(Nat)
PROOF
BY InkInTyped, InkIsFlat, FlattenInSeq

LEMMA InkConcat ==
  ASSUME NEW s \in Seq(Nat), NEW t \in Seq(Nat)
  PROVE  Ink(s \o t) = Ink(s) \o Ink(t)
PROOF
<1> DEFINE u == s \o t
<1>1. /\ u \in Seq(Nat) /\ Len(u) = Len(s) + Len(t)
      /\ \A i \in 1 .. Len(s) + Len(t) : u[i] = IF i <= Len(s) THEN s[i] ELSE t[i - Len(s)]
  BY ConcatProperties
<1> HIDE DEF u
<1> DEFINE x == InkIn(s)
           y == InkIn(t)
           z == InkIn(u)
<1>2. /\ x \in Seq(Seq(Nat)) /\ Len(x) = Len(s) /\ Len(s) \in Nat
      /\ y \in Seq(Seq(Nat)) /\ Len(y) = Len(t) /\ Len(t) \in Nat
      /\ z \in Seq(Seq(Nat)) /\ Len(z) = Len(u)
  BY <1>1, InkInTyped
<1>3. /\ \A i \in 1 .. Len(s) : x[i] = IF s[i] \in White THEN <<>> ELSE <<s[i]>>
      /\ \A i \in 1 .. Len(t) : y[i] = IF t[i] \in White THEN <<>> ELSE <<t[i]>>
      /\ \A i \in 1 .. Len(u) : z[i] = IF u[i] \in White THEN <<>> ELSE <<u[i]>>
  BY <1>1, InkInTyped
<1> HIDE DEF x, y, z
<1>4. /\ x \o y \in Seq(Seq(Nat)) /\ Len(x \o y) = Len(x) + Len(y)
      /\ \A i \in 1 .. Len(x) + Len(y) :
           (x \o y)[i] = IF i <= Len(x) THEN x[i] ELSE y[i - Len(x)]
  BY <1>2, ConcatProperties
<1>5. ASSUME NEW i \in 1 .. Len(z) PROVE z[i] = (x \o y)[i]
  <2>1. CASE i <= Len(s)
    <3>1. i \in 1 .. Len(s) /\ u[i] = s[i] /\ (x \o y)[i] = x[i]
      BY <1>1, <1>2, <1>4, <2>1
    <3>2. z[i] = IF u[i] \in White THEN <<>> ELSE <<u[i]>>
      BY <1>2, <1>3
    <3> QED BY <1>3, <3>1, <3>2
  <2>2. CASE ~(i <= Len(s))
    <3>1. i \in 1 .. Len(s) + Len(t) /\ i - Len(s) \in 1 .. Len(t)
      BY <1>1, <1>2, <2>2
    <3>2. u[i] = t[i - Len(s)] /\ (x \o y)[i] = y[i - Len(s)]
      BY <1>1, <1>2, <1>4, <2>2, <3>1
    <3>3. z[i] = IF u[i] \in White THEN <<>> ELSE <<u[i]>>
      BY <1>2, <1>3
    <3> QED BY <1>3, <3>1, <3>2, <3>3
  <2> QED BY <2>1, <2>2
<1>6. Len(z) = Len(x \o y)
  BY <1>1, <1>2, <1>4
<1>7. z = x \o y
  BY <1>2, <1>4, <1>5, <1>6, SeqEqual
<1>8. FlattenSeq(z) = FlattenSeq(x) \o FlattenSeq(y)
  BY <1>2, <1>7, FlattenConcat
<1> QED BY <1>8, InkIsFlat DEF x, y, z, u

LEMMA InkOne ==
  ASSUME NEW ch \in Nat
  PROVE  Ink(<<ch>>) = IF ch \in White THEN <<>> ELSE <<ch>>
PROOF
<1> DEFINE x == IF ch \in White THEN <<>> ELSE <<ch>>
<1>1. <<ch>> \in Seq(Nat) /\ Len(<<ch>>) = 1 /\ <<ch>>[1] = ch /\ x \in Seq(Nat)
  OBVIOUS
<1>2. InkIn(<<ch>>) \in Seq(Seq(Nat)) /\ Len(InkIn(<<ch>>)) = 1 /\ InkIn(<<ch>>)[1] = x
  <2>1. 1 \in 1 .. Len(<<ch>>)
    BY <1>1
  <2> QED BY <1>1, <2>1, InkInTyped
<1> HIDE DEF x
<1>3. <<x>> \in Seq(Seq(Nat)) /\ Len(<<x>>) = 1 /\ <<x>>[1] = x
  BY <1>1
<1>4. InkIn(<<ch>>) = <<x>>
  BY <1>2, <1>3, SeqEqual
<1>5. Ink(<<ch>>) = x
  BY <1>1, <1>4, FlattenOne, InkIsFlat
<1> QED BY <1>5 DEF x

\* Blanks leave no ink.
LEMMA InkBlanks == Ink(Blanks) = <<>>
PROOF
<1> DEFINE b == <<Space>>
<1>1. b \in Seq(Nat) /\ Space \in Nat /\ Space \in White /\ <<>> \in Seq(Nat)
  BY DEF Space, White
<1>2. Ink(b) = <<>>
  BY <1>1, InkOne
<1>3. ASSUME NEW s \in Seq(Nat), Ink(s) = <<>> PROVE s \o b \in Seq(Nat) /\ Ink(s \o b) = <<>>
  <2>1. Ink(s \o b) = <<>> \o <<>>
    BY <1>1, <1>2, <1>3, InkConcat
  <2> QED BY <1>1, <2>1, ConcatProperties, ConcatEmptySeq
<1>4. ((b \o b) \o b) \o b \in Seq(Nat) /\ Ink(((b \o b) \o b) \o b) = <<>>
  <2> HIDE DEF b
  <2>1. b \o b \in Seq(Nat) /\ Ink(b \o b) = <<>>
    BY <1>1, <1>2, <1>3
  <2>2. (b \o b) \o b \in Seq(Nat) /\ Ink((b \o b) \o b) = <<>>
    BY <1>3, <2>1
  <2> QED BY <1>3, <2>2
<1>5. Blanks = ((b \o b) \o b) \o b
  <2>1. Len(b) = 1 /\ b[1] = Space
    OBVIOUS
  <2> HIDE DEF b
  <2>2. ASSUME NEW s \in Seq(Nat), NEW n \in 0 .. 3, Len(s) = n, \A i \in 1 .. n : s[i] = Space
        PROVE  s \o b \in Seq(Nat) /\ Len(s \o b) = n + 1 /\ \A i \in 1 .. n + 1 : (s \o b)[i] = Space
    <3>1. /\ s \o b \in Seq(Nat) /\ Len(s \o b) = n + 1
          /\ \A i \in 1 .. n + 1 : (s \o b)[i] = IF i <= n THEN s[i] ELSE b[i - n]
      <4>1. /\ s \o b \in Seq(Nat) /\ Len(s \o b) = Len(s) + Len(b)
            /\ \A i \in 1 .. Len(s) + Len(b) : (s \o b)[i] = IF i <= Len(s) THEN s[i] ELSE b[i - Len(s)]
        BY <1>1, ConcatProperties
      <4> QED BY <2>1, <2>2, <4>1
    <3>2. \A i \in 1 .. n + 1 : IF i <= n THEN i \in 1 .. n ELSE i - n = 1
      BY <2>2
    <3> QED BY <2>1, <2>2, <3>1, <3>2
  <2>3. b \o b \in Seq(Nat) /\ Len(b \o b) = 2 /\ \A i \in 1 .. 2 : (b \o b)[i] = Space
    <3>1. 1 \in 0 .. 3 /\ \A i \in 1 .. 1 : b[i] = Space
      BY <2>1
    <3> QED BY <1>1, <2>1, <2>2, <3>1
  <2> DEFINE b2 == b \o b
             b3 == b2 \o b
  <2>4. b3 \o b \in Seq(Nat) /\ Len(b3 \o b) = 4 /\ \A i \in 1 .. 4 : (b3 \o b)[i] = Space
    <3>1. b2 \in Seq(Nat) /\ Len(b2) = 2 /\ \A i \in 1 .. 2 : b2[i] = Space
      BY <2>3
    <3> HIDE DEF b2
    <3>2. b3 \in Seq(Nat) /\ Len(b3) = 3 /\ \A i \in 1 .. 3 : b3[i] = Space
      <4>1. 2 \in 0 .. 3 /\ 2 + 1 = 3
        OBVIOUS
      <4> QED BY <2>2, <3>1, <4>1
    <3> HIDE DEF b3
    <3>3. 3 \in 0 .. 3 /\ 3 + 1 = 4
      OBVIOUS
    <3> QED BY <2>2, <3>2, <3>3
  <2>5. Blanks \in Seq(Nat) /\ Len(Blanks) = 4 /\ \A i \in 1 .. 4 : Blanks[i] = Space
    <3>1. Blanks \in [1 .. 4 -> Nat] /\ 4 \in Nat
      BY <1>1 DEF Blanks, TAB_WIDTH
    <3>2. Blanks \in Seq(Nat) /\ Len(Blanks) = 4
      BY <3>1, FunctionIsSequence
    <3> QED BY <3>2 DEF Blanks, TAB_WIDTH
  <2> DEFINE b4 == b3 \o b
  <2> HIDE DEF b4
  <2>6. Blanks = b4
    BY <2>4, <2>5, SeqEqual DEF b4
  <2> QED BY <2>6 DEF b2, b3, b4
<1> QED BY <1>4, <1>5

\* What a line shows, with one segment more, and what is not blank in the lines, with
\* one line more.
TextsOf(l) == [k \in DOMAIN l |-> l[k].text]
InksOf(src) == [i \in DOMAIN src |-> Ink(LineText(src[i]))]
LinesInk(src) == FlattenSeq(InksOf(src))

LEMMA Associates ==
  ASSUME NEW x \in Seq(Nat), NEW y \in Seq(Nat), NEW z \in Seq(Nat)
  PROVE  (x \o y) \o z = x \o (y \o z)
PROOF
BY ConcatAssociative, Z3T(60)

LEMMA TextsTyped ==
  ASSUME NEW l \in Seq(Segments)
  PROVE  /\ TextsOf(l) \in Seq(Seq(Nat)) /\ Len(TextsOf(l)) = Len(l) /\ Len(l) \in Nat
         /\ \A k \in 1 .. Len(l) : TextsOf(l)[k] = l[k].text
         /\ LineText(l) \in Seq(Nat) /\ LineText(l) = FlattenSeq(TextsOf(l))
PROOF
<1>1. Len(l) \in Nat /\ DOMAIN l = 1 .. Len(l) /\ \A k \in 1 .. Len(l) : l[k] \in Segments
  BY LenProperties, ElementOfSeq
<1>2. TextsOf(l) \in [1 .. Len(l) -> Seq(Nat)]
  BY <1>1 DEF TextsOf, Segments
<1>3. TextsOf(l) \in Seq(Seq(Nat)) /\ Len(TextsOf(l)) = Len(l)
  BY <1>1, <1>2, FunctionIsSequence
<1>4. LineText(l) = FlattenSeq(TextsOf(l))
  BY DEF LineText, TextsOf
<1>5. LineText(l) \in Seq(Nat)
  BY <1>3, <1>4, FlattenInSeq
<1>6. \A k \in 1 .. Len(l) : TextsOf(l)[k] = l[k].text
  BY <1>1 DEF TextsOf
<1> QED BY <1>1, <1>3, <1>4, <1>5, <1>6

LEMMA LineTextAppend ==
  ASSUME NEW l \in Seq(Segments), NEW w \in Segments
  PROVE  LineText(Append(l, w)) = LineText(l) \o w.text
PROOF
<1> DEFINE m == Append(l, w)
<1>1. /\ m \in Seq(Segments) /\ Len(m) = Len(l) + 1
      /\ (\A k \in 1 .. Len(l) : m[k] = l[k]) /\ m[Len(l) + 1] = w
  BY AppendProperties
<1> HIDE DEF m
<1>2. Len(l) \in Nat /\ w.text \in Seq(Nat)
  BY LenProperties DEF Segments
<1>3. /\ TextsOf(l) \in Seq(Seq(Nat)) /\ Len(TextsOf(l)) = Len(l)
      /\ \A k \in 1 .. Len(l) : TextsOf(l)[k] = l[k].text
  BY TextsTyped
<1>4. /\ TextsOf(m) \in Seq(Seq(Nat)) /\ Len(TextsOf(m)) = Len(m)
      /\ \A k \in 1 .. Len(m) : TextsOf(m)[k] = m[k].text
  BY <1>1, TextsTyped
<1>5. ASSUME NEW k \in 1 .. Len(TextsOf(l)) PROVE TextsOf(m)[k] = TextsOf(l)[k]
  <2>1. k \in 1 .. Len(l) /\ k \in 1 .. Len(m) /\ m[k] = l[k]
    BY <1>1, <1>2, <1>3
  <2> QED BY <1>3, <1>4, <2>1
<1>6. TextsOf(m)[Len(TextsOf(l)) + 1] = w.text /\ Len(TextsOf(m)) = Len(TextsOf(l)) + 1
  BY <1>1, <1>2, <1>3, <1>4
<1>7. TextsOf(m) = Append(TextsOf(l), w.text)
  BY <1>2, <1>3, <1>4, <1>5, <1>6, OneMore
<1>8. FlattenSeq(TextsOf(m)) = FlattenSeq(TextsOf(l)) \o w.text
  BY <1>2, <1>3, <1>7, FlattenAppend
<1> QED BY <1>1, <1>8, TextsTyped DEF m

LEMMA InksTyped ==
  ASSUME NEW src \in Seq(Seq(Segments))
  PROVE  /\ InksOf(src) \in Seq(Seq(Nat)) /\ Len(InksOf(src)) = Len(src) /\ Len(src) \in Nat
         /\ \A k \in 1 .. Len(src) : InksOf(src)[k] = Ink(LineText(src[k]))
         /\ LinesInk(src) \in Seq(Nat)
PROOF
<1>1. Len(src) \in Nat /\ DOMAIN src = 1 .. Len(src) /\ \A k \in 1 .. Len(src) : src[k] \in Seq(Segments)
  BY LenProperties, ElementOfSeq
<1>2. \A k \in 1 .. Len(src) : Ink(LineText(src[k])) \in Seq(Nat)
  BY <1>1, TextsTyped, InkTyped
<1>3. InksOf(src) \in [1 .. Len(src) -> Seq(Nat)]
  BY <1>1, <1>2 DEF InksOf
<1>4. InksOf(src) \in Seq(Seq(Nat)) /\ Len(InksOf(src)) = Len(src)
  BY <1>1, <1>3, FunctionIsSequence
<1>5. LinesInk(src) \in Seq(Nat)
  BY <1>4, FlattenInSeq DEF LinesInk
<1>6. \A k \in 1 .. Len(src) : InksOf(src)[k] = Ink(LineText(src[k]))
  BY <1>1 DEF InksOf
<1> QED BY <1>1, <1>4, <1>5, <1>6

LEMMA LinesInkAppend ==
  ASSUME NEW src \in Seq(Seq(Segments)), NEW l \in Seq(Segments)
  PROVE  LinesInk(Append(src, l)) = LinesInk(src) \o Ink(LineText(l))
PROOF
<1> DEFINE m == Append(src, l)
           x == Ink(LineText(l))
<1>1. /\ m \in Seq(Seq(Segments)) /\ Len(m) = Len(src) + 1
      /\ (\A k \in 1 .. Len(src) : m[k] = src[k]) /\ m[Len(src) + 1] = l
  BY AppendProperties
<1>2. Len(src) \in Nat /\ x \in Seq(Nat)
  BY LenProperties, TextsTyped, InkTyped
<1> HIDE DEF m
<1>3. /\ InksOf(src) \in Seq(Seq(Nat)) /\ Len(InksOf(src)) = Len(src)
      /\ \A k \in 1 .. Len(src) : InksOf(src)[k] = Ink(LineText(src[k]))
  BY InksTyped
<1>4. /\ InksOf(m) \in Seq(Seq(Nat)) /\ Len(InksOf(m)) = Len(m)
      /\ \A k \in 1 .. Len(m) : InksOf(m)[k] = Ink(LineText(m[k]))
  BY <1>1, InksTyped
<1>5. \A k \in 1 .. Len(InksOf(src)) : InksOf(m)[k] = InksOf(src)[k]
  BY <1>1, <1>2, <1>3, <1>4
<1>6. InksOf(m)[Len(InksOf(src)) + 1] = x /\ Len(InksOf(m)) = Len(InksOf(src)) + 1
  BY <1>1, <1>2, <1>3, <1>4
<1> HIDE DEF x
<1>7. InksOf(m) = Append(InksOf(src), x)
  BY <1>2, <1>3, <1>4, <1>5, <1>6, OneMore
<1>8. FlattenSeq(InksOf(m)) = FlattenSeq(InksOf(src)) \o x
  BY <1>2, <1>3, <1>7, FlattenAppend
<1> QED BY <1>8 DEF m, x, LinesInk

\* All that has been read, as far as it is not blank.
Inside == Ink(LineText(curLine)) \o Ink(curWord.text)
SoFar == LinesInk(source) \o Inside
ShownInv == IF loaded THEN LinesInk(source) = Ink(text) ELSE SoFar = Ink(SubSeq(text, 1, get - 1))

LEMMA InsideTyped ==
  ASSUME ViewType
  PROVE  /\ LineText(curLine) \in Seq(Nat) /\ Ink(LineText(curLine)) \in Seq(Nat)
         /\ curWord.text \in Seq(Nat) /\ Ink(curWord.text) \in Seq(Nat) /\ Inside \in Seq(Nat)
         /\ LinesInk(source) \in Seq(Nat) /\ SoFar \in Seq(Nat)
PROOF
<1>1. source \in Seq(Seq(Segments)) /\ curLine \in Seq(Segments) /\ curWord \in Segments
  BY DEF ViewType
<1>2. LineText(curLine) \in Seq(Nat) /\ curWord.text \in Seq(Nat) /\ LinesInk(source) \in Seq(Nat)
  BY <1>1, TextsTyped, InksTyped DEF Segments
<1>3. Ink(LineText(curLine)) \in Seq(Nat) /\ Ink(curWord.text) \in Seq(Nat)
  BY <1>2, InkTyped
<1>4. Inside \in Seq(Nat)
  BY <1>3, ConcatProperties DEF Inside
<1> QED BY <1>2, <1>3, <1>4, ConcatProperties DEF SoFar

\* The end of a line moves what is in it.
LEMMA LineEnds ==
  ASSUME ViewType, EndLine
  PROVE  LinesInk(source') = SoFar
PROOF
<1>1. source \in Seq(Seq(Segments)) /\ curLine \in Seq(Segments) /\ curWord \in Segments
  BY DEF ViewType
<1>2. /\ LineText(curLine) \in Seq(Nat) /\ curWord.text \in Seq(Nat)
      /\ Append(curLine, curWord) \in Seq(Segments)
  BY <1>1, InsideTyped, AppendProperties
<1>3. Ink(LineText(Append(curLine, curWord))) = Inside
  BY <1>1, <1>2, LineTextAppend, InkConcat DEF Inside
<1> QED BY <1>1, <1>2, <1>3, LinesInkAppend DEF EndLine, SoFar

\* What is added to the segments is added to what they show.
LEMMA GrowsShown ==
  ASSUME ViewType, NEW chars \in Seq(Nat), Append2(chars) \/ StartSegment(chars), source' = source
  PROVE  SoFar' = SoFar \o Ink(chars)
PROOF
<1>1. source \in Seq(Seq(Segments)) /\ curLine \in Seq(Segments) /\ curWord \in Segments
  BY DEF ViewType
<1>2. /\ LineText(curLine) \in Seq(Nat) /\ Ink(LineText(curLine)) \in Seq(Nat)
      /\ curWord.text \in Seq(Nat) /\ Ink(curWord.text) \in Seq(Nat) /\ Inside \in Seq(Nat)
      /\ LinesInk(source) \in Seq(Nat) /\ Ink(chars) \in Seq(Nat)
  BY InsideTyped, InkTyped
<1>3. Inside' = Inside \o Ink(chars)
  <2>1. CASE Append2(chars)
    <3>1. curLine' = curLine /\ curWord'.text = curWord.text \o chars
      BY <1>1, <2>1 DEF Append2, Segments
    <3>2. Ink(curWord.text \o chars) = Ink(curWord.text) \o Ink(chars)
      BY <1>2, InkConcat
    <3>3. (Ink(LineText(curLine)) \o Ink(curWord.text)) \o Ink(chars)
            = Ink(LineText(curLine)) \o (Ink(curWord.text) \o Ink(chars))
      <4>1. /\ Ink(LineText(curLine)) \in Seq(Nat) /\ Ink(curWord.text) \in Seq(Nat)
            /\ Ink(chars) \in Seq(Nat)
        BY <1>2
      <4> QED BY <4>1, Associates, Zenon
    <3>4. Ink(LineText(curLine)) \o (Ink(curWord.text) \o Ink(chars)) = Inside \o Ink(chars)
      BY <3>3 DEF Inside
    <3> QED BY <3>1, <3>2, <3>4 DEF Inside
  <2>2. CASE StartSegment(chars)
    <3>1. curLine' = Append(curLine, curWord) /\ curWord'.text = chars
      BY <2>2 DEF StartSegment, Segment
    <3>2. Ink(LineText(Append(curLine, curWord))) = Inside
      BY <1>1, <1>2, LineTextAppend, InkConcat DEF Inside
    <3> QED BY <3>1, <3>2 DEF Inside
  <2> QED BY <2>1, <2>2
<1>4. (LinesInk(source) \o Inside) \o Ink(chars) = LinesInk(source) \o (Inside \o Ink(chars))
  <2> DEFINE x == LinesInk(source)
             y == Inside
             z == Ink(chars)
  <2>1. x \in Seq(Nat) /\ y \in Seq(Nat) /\ z \in Seq(Nat)
    BY <1>2
  <2> HIDE DEF x, y, z
  <2>2. (x \o y) \o z = x \o (y \o z)
    BY <2>1, Associates
  <2> QED BY <2>2 DEF x, y, z
<1>5. LinesInk(source) \o (Inside \o Ink(chars)) = SoFar \o Ink(chars)
  BY <1>4 DEF SoFar
<1> QED BY <1>3, <1>5 DEF SoFar

\* What is read is added to what has been read.
LEMMA ReadsInk ==
  ASSUME file \in Files, ViewType, NEW n \in 1 .. 2, NEW chars \in Seq(Nat), Reads(n, chars)
  PROVE  Ink(SubSeq(text, 1, get' - 1)) = Ink(SubSeq(text, 1, get - 1)) \o Ink(chars)
PROOF
<1>1. text \in Seq(Nat) /\ Len(text) \in Nat /\ get \in Nat \ {0} /\ get + n <= Len(text) + 1
      /\ \A i \in 1 .. Len(text) : text[i] \in Nat
  BY TextFacts DEF ViewType, Reads
<1> DEFINE part == SubSeq(text, get, get + n - 1)
<1>2. SubSeq(text, 1, get - 1) \o part = SubSeq(text, 1, get + n - 1)
  <2>1. /\ 1 \in 1 .. Len(text) + 1 /\ get - 1 \in 1 - 1 .. Len(text)
        /\ get + n - 1 \in get - 1 .. Len(text) /\ (get - 1) + 1 = get
    BY <1>1
  <2> QED BY <1>1, <2>1, ConcatAdjacentSubSeq
<1>3. SubSeq(text, 1, get - 1) \in Seq(Nat)
  <2>1. get - 1 \in 0 .. Len(text)
    BY <1>1
  <2> QED BY <1>1, <2>1, FirstElements
<1>4. /\ part \in Seq(Nat) /\ Len(part) = n
      /\ part[1] = text[get] /\ (n = 2 => part[2] = text[get + 1])
  <2>1. get \in Int /\ get + n - 1 \in Int /\ \A i \in get .. get + n - 1 : text[i] \in Nat
    BY <1>1
  <2>2. /\ part \in Seq(Nat)
        /\ Len(part) = (IF get <= get + n - 1 THEN get + n - 1 - get + 1 ELSE 0)
        /\ \A i \in 1 .. get + n - 1 - get + 1 : part[i] = text[get + i - 1]
    BY <2>1, SubSeqProperties
  <2>3. Len(part) = n /\ \A i \in 1 .. n : part[i] = text[get + i - 1]
    BY <1>1, <2>2
  <2>4. 1 \in 1 .. n /\ get + 1 - 1 = get /\ (n = 2 => 2 \in 1 .. n /\ get + 2 - 1 = get + 1)
    BY <1>1
  <2> HIDE DEF part
  <2> QED BY <2>2, <2>3, <2>4
<1> HIDE DEF part
<1>5. Ink(part) = Ink(chars)
  <2>1. CASE n = 1
    <3>1. part = <<text[get]>> /\ text[get] \in Nat
      <4>1. <<text[get]>> \in Seq(Nat) /\ text[get] \in Nat
        BY <1>1, <2>1
      <4> QED BY <1>4, <2>1, <4>1, SeqEqual
    <3>2. Ink(part) = IF text[get] \in White THEN <<>> ELSE <<text[get]>>
      BY <3>1, InkOne
    <3>3. CASE chars = <<c>>
      <4>1. c \in Nat /\ (c = text[get] \/ (c \in White /\ text[get] \in White))
        <5>1. Space \in Nat /\ Space \in White /\ CR \in White
          BY DEF Space, White
        <5>2. c = text[get] \/ (c = Space /\ text[get] = CR)
          BY DEF c
        <5>3. text[get] \in Nat
          BY <3>1
        <5> QED BY <5>1, <5>2, <5>3
      <4>2. Ink(<<c>>) = IF c \in White THEN <<>> ELSE <<c>>
        BY <4>1, InkOne
      <4> QED BY <3>2, <3>3, <4>1, <4>2
    <3>4. CASE text[get] = Tab /\ chars = Blanks
      BY <3>2, <3>4, InkBlanks DEF White
    <3> QED BY <2>1, <3>3, <3>4 DEF Reads
  <2>2. CASE n = 2
    <3>1. chars = <<text[get], text[get + 1]>>
      BY <2>2 DEF Reads
    <3>2. part = chars
      <4>1. \A x, y : Len(<<x, y>>) = 2 /\ <<x, y>>[1] = x /\ <<x, y>>[2] = y
        OBVIOUS
      <4>2. Len(chars) = 2 /\ chars[1] = text[get] /\ chars[2] = text[get + 1]
        BY <3>1, <4>1, Zenon
      <4>3. Len(part) = 2 /\ part \in Seq(Nat) /\ part[1] = text[get] /\ part[2] = text[get + 1]
        BY <1>4, <2>2
      <4>4. \A i \in 1 .. Len(part) : part[i] = chars[i]
        BY <4>2, <4>3
      <4> QED BY <4>2, <4>3, <4>4, SeqEqual
    <3> QED BY <3>2
  <2> QED BY <2>1, <2>2
<1>6. get' - 1 = get + n - 1
  BY <1>1 DEF Reads
<1> QED BY <1>2, <1>3, <1>4, <1>5, <1>6, InkConcat

LEMMA ShownStep ==
  ASSUME TypeInv, ShownInv, [Next]_vars
  PROVE  ShownInv'
PROOF
<1>1. file \in Files /\ ViewType
  BY DEF TypeInv, LexInv
<1>2. [LexerNext]_lexerVars
  BY ViewKeepsLexer DEF Next, vars, ViewKeeps
<1>3. file' = file
  BY <1>2 DEF LexerNext, Blank, PlainWord, Comment, OpenLiteral, EndOfInput, ReadCharacter,
              ReadEscape, ReadPart, CloseLiteral, Unterminated, lexerVars
<1>4. text' = text
  BY <1>3 DEF text
<1>5. CASE UNCHANGED <<get, source, curLine, curWord, inWhitespace, quote, loaded>>
  BY <1>4, <1>5 DEF ShownInv, SoFar, Inside
<1>6. CASE Grows /\ ~loaded
  <2>1. PICK n \in 1 .. 2, chars \in Seq(Nat) :
          /\ Reads(n, chars) /\ (Append2(chars) \/ StartSegment(chars))
          /\ source' = source /\ loaded' = loaded
    BY <1>6 DEF Grows
  <2>2. SoFar' = SoFar \o Ink(chars)
    BY <1>1, <2>1, GrowsShown
  <2>3. Ink(SubSeq(text, 1, get' - 1)) = Ink(SubSeq(text, 1, get - 1)) \o Ink(chars)
    BY <1>1, <2>1, ReadsInk
  <2> QED BY <1>4, <1>6, <2>1, <2>2, <2>3 DEF ShownInv
<1>7. CASE NewLine /\ text[get] = NL /\ ~loaded /\ get \in 1 .. Len(text)
  <2>1. EndLine /\ curLine' = <<>> /\ curWord'.text = <<>> /\ get' = get + 1 /\ loaded' = loaded
    BY <1>7 DEF NewLine, Read, Segment
  <2>2. LinesInk(source') = SoFar /\ SoFar \in Seq(Nat)
    BY <1>1, <2>1, LineEnds, InsideTyped
  <2>3. Inside' = <<>>
    <3>1. Ink(<<>>) = <<>> /\ LineText(<<>>) = <<>>
      BY FlattenEmpty DEF Ink, LineText
    <3>2. <<>> \o <<>> = <<>>
      BY ConcatEmptySeq, EmptySeq
    <3> QED BY <2>1, <3>1, <3>2 DEF Inside
  <2>4. SoFar' = SoFar
    BY <2>2, <2>3, ConcatEmptySeq DEF SoFar
  <2>5. <<text[get]>> \in Seq(Nat) /\ Ink(<<text[get]>>) = <<>>
    <3>1. NL \in Nat /\ NL \in White
      BY DEF NL, White
    <3> QED BY <1>7, <3>1, InkOne
  <2>6. Reads(1, <<text[get]>>)
    <3>1. c = text[get]
      BY <1>7 DEF NL, CR, c
    <3>2. Len(text) \in Nat
      BY <1>1, TextFacts
    <3> QED BY <1>7, <2>1, <3>1, <3>2 DEF Reads
  <2>7. Ink(SubSeq(text, 1, get' - 1)) = Ink(SubSeq(text, 1, get - 1)) \o <<>>
    <3>1. Ink(SubSeq(text, 1, get' - 1)) = Ink(SubSeq(text, 1, get - 1)) \o Ink(<<text[get]>>)
      <4>1. 1 \in 1 .. 2 /\ <<text[get]>> \in Seq(Nat)
        BY <2>5
      <4> QED BY <1>1, <2>6, <4>1, ReadsInk
    <3> QED BY <2>5, <3>1
  <2>8. SoFar = Ink(SubSeq(text, 1, get - 1))
    BY <1>7 DEF ShownInv
  <2>9. SoFar' = Ink(SubSeq(text, 1, get' - 1))
    BY <2>2, <2>4, <2>7, <2>8, ConcatEmptySeq
  <2> QED BY <1>4, <1>7, <2>1, <2>9 DEF ShownInv
<1>8. CASE EndOfFile /\ ~loaded /\ get = Len(text) + 1
  <2>1. EndLine /\ loaded' = TRUE
    BY <1>8 DEF EndOfFile
  <2>2. LinesInk(source') = SoFar
    BY <1>1, <2>1, LineEnds
  <2>3. SubSeq(text, 1, get - 1) = text
    <3>1. text \in Seq(Nat) /\ Len(text) \in Nat
      BY <1>1, TextFacts
    <3>2. get - 1 = Len(text)
      BY <1>8, <3>1
    <3> QED BY <3>1, <3>2, SubSeqFull
  <2> QED BY <1>4, <1>8, <2>1, <2>2, <2>3 DEF ShownInv
<1>9. ViewNext \/ UNCHANGED viewVars
  BY DEF Next, vars
<1> QED BY <1>1, <1>5, <1>6, <1>7, <1>8, <1>9, ViewStep DEF viewVars

\* The view shows all of every file, in its order, blanks aside: no character is
\* swallowed by a quote that is never closed, a tab or the end of the file
\* (debugger.cpp:253-308).
THEOREM AllIsShownHolds == Spec => []AllIsShown
PROOF
<1>1. Init => ShownInv
  <2> SUFFICES ASSUME Init PROVE ShownInv
    OBVIOUS
  <2>1. ~loaded /\ get = 1 /\ source = <<>> /\ curLine = <<>> /\ curWord.text = <<>>
    BY DEF Init
  <2>2. file \in Files
    BY DEF Init, LexerInit
  <2>3. SubSeq(text, 1, 0) = <<>>
    <3>1. text \in Seq(Nat) /\ 0 \in 0 .. Len(text)
      BY <2>2, TextFacts
    <3>2. SubSeq(text, 1, 0) \in Seq(Nat) /\ Len(SubSeq(text, 1, 0)) = 0
      BY <3>1, FirstElements
    <3> QED BY <3>2, EmptySeq
  <2>4. Ink(<<>>) = <<>> /\ LineText(<<>>) = <<>> /\ LinesInk(<<>>) = <<>>
    BY FlattenEmpty DEF Ink, LineText, LinesInk, InksOf
  <2>5. <<>> \o <<>> = <<>>
    BY ConcatEmptySeq, EmptySeq
  <2>6. Inside = <<>>
    BY <2>1, <2>4, <2>5 DEF Inside
  <2>7. SoFar = <<>>
    BY <2>1, <2>4, <2>5, <2>6 DEF SoFar
  <2>8. get - 1 = 0
    BY <2>1
  <2>9. SoFar = Ink(SubSeq(text, 1, get - 1))
    BY <2>3, <2>4, <2>7, <2>8
  <2> QED BY <2>1, <2>9 DEF ShownInv
<1>2. TypeInv /\ ShownInv /\ [Next]_vars => ShownInv'
  BY ShownStep
<1>3. ShownInv => AllIsShown
  BY DEF ShownInv, AllIsShown, LinesInk, InksOf
<1> QED BY <1>1, <1>2, <1>3, TypeInvInit, TypeInvStep, PTL DEF Spec
-----------------------------------------------------------------------------
(***************************************************************************)
(* What the compiler has made of the part it has scanned: words, comments  *)
(* and white space, and in words' line and op the places they have.        *)
(***************************************************************************)
NewlinesBefore(t, k) == Cardinality({j \in 1 .. k - 1 : t[j] = NL})

\* From the quote at first on, a scanner that passes over the character after each
\* backslash is at last at some time, and meets the quote d nowhere before.
Path(t, P, first, last, d) ==
  /\ P \subseteq first + 1 .. last /\ first + 1 \in P /\ last \in P
  /\ \A p \in P \ {last} : /\ t[p] # d
                           /\ (IF t[p] = Backslash THEN p + 2 ELSE p + 1) \in P
ReadAs(t, first, last, d) == \E P \in SUBSET (first + 1 .. last) : Path(t, P, first, last, d)

PlainAt(t, w) ==
  /\ \A k \in w.first .. w.last : ~IsSpace(t[k])
  /\ t[w.first] \notin {Quote, Apostrophe, Semicolon}
  /\ w.last = Len(t) \/ IsSpace(t[w.last + 1])
LiteralAt(t, w) ==
  /\ w.delim \in {Quote, Apostrophe} /\ t[w.first] = w.delim /\ t[w.last] = w.delim
  /\ ReadAs(t, w.first, w.last, w.delim)
WordAt(t, w) ==
  /\ w.first \in 1 .. Len(t) /\ w.last \in w.first .. Len(t)
  /\ w.line = NewlinesBefore(t, w.first) + 1 /\ w.op \in Nat \ {0}
  /\ \A k \in w.first .. w.last : t[k] # NL
  /\ IF w.delim = 0 THEN PlainAt(t, w) ELSE LiteralAt(t, w)
CommentAt(t, x) ==
  /\ x.first \in 1 .. Len(t) /\ x.last \in x.first .. Len(t)
  /\ t[x.first] = Semicolon
  /\ \A k \in x.first .. x.last : t[k] # NL
  /\ x.last = Len(t) \/ t[x.last + 1] = NL

In(tokens, k) == \E i \in DOMAIN tokens : k \in tokens[i].first .. tokens[i].last

\* How far the text is words, comments and white space.
Scanned == IF delim = 0 THEN next ELSE from
LastOp == IF words # <<>> /\ words[Len(words)].line = line_num THEN words[Len(words)].op ELSE 0

WordsInv ==
  /\ \A i \in DOMAIN words : WordAt(text, words[i]) /\ words[i].last < Scanned
  /\ \A i, j \in DOMAIN words : i < j => words[i].last < words[j].first
  /\ \A i \in DOMAIN words :
       words[i].op = IF i > 1 /\ words[i - 1].line = words[i].line THEN words[i - 1].op + 1 ELSE 1
CommentsInv ==
  /\ \A i \in DOMAIN comments : CommentAt(text, comments[i]) /\ comments[i].last < Scanned
  /\ \A i \in DOMAIN words, j \in DOMAIN comments :
       words[i].last < comments[j].first \/ comments[j].last < words[i].first
GapsInv == \A k \in 1 .. Scanned - 1 : IsSpace(text[k]) \/ In(words, k) \/ In(comments, k)
PlaceInv ==
  /\ mode = "reading" => line_num = NewlinesBefore(text, Scanned) + 1
  /\ mode = "reading" /\ (delim # 0 \/ (next <= Len(text) /\ text[next] # NL)) => op_num = LastOp
  /\ delim # 0 => text[from] = delim /\ ReadAs(text, from, next, delim)
IsSeq(s) == s \in Seq({s[i] : i \in DOMAIN s})
ScanInv == IsSeq(words) /\ IsSeq(comments) /\ WordsInv /\ CommentsInv /\ GapsInv /\ PlaceInv

-----------------------------------------------------------------------------
(***************************************************************************)
(* Where getSource is in a tidy file that has been compiled.               *)
(***************************************************************************)
Line == Len(source) + 1
Matches(segment, w) == segment.first = w.first /\ Len(segment.text) = w.last - w.first + 1

\* The word is in its segment for good: src are the lines before the current one,
\* and l is what there is of it.
Settled(src, l, w) ==
  IF w.line <= Len(src) THEN 2 * w.op <= Len(src[w.line]) /\ Matches(src[w.line][2 * w.op], w)
  ELSE w.line = Len(src) + 1 /\ 2 * w.op <= Len(l) /\ Matches(l[2 * w.op], w)

\* Of the words ws on a line that end before g, the last one has op n.
OpsBefore(ws, line, g, n) ==
  \/ n = 0 /\ \A i \in DOMAIN ws : ws[i].last < g => ws[i].line # line
  \/ \E i \in DOMAIN ws :
       /\ ws[i].last < g /\ ws[i].line = line /\ ws[i].op = n
       /\ \A j \in DOMAIN ws : ws[j].last < g => j <= i

InThe(w) == /\ curWord.first = w.first /\ Len(curWord.text) = get - w.first
            /\ Len(curLine) + 1 = 2 * w.op /\ w.line = Line
            /\ ~inWhitespace
AtLiteral == \E i \in DOMAIN words : LET w == words[i] IN
               /\ InThe(w) /\ quote = w.delim /\ w.delim # 0
               /\ \E P \in SUBSET (w.first + 1 .. w.last) : Path(text, P, w.first, w.last, w.delim) /\ get \in P
AtWord == /\ quote = 0
          /\ \E i \in DOMAIN words : LET w == words[i] IN
               /\ InThe(w)
               /\ get \in w.first + 1 .. w.last + 1 /\ (w.delim = 0 \/ get = w.last + 1)
AtComment == /\ quote = 0
             /\ \E i \in DOMAIN comments : get \in comments[i].first + 1 .. comments[i].last + 1
             /\ inWhitespace => text[get - 1] \in {Space, Tab, CR}
AtBlank == /\ quote = 0 /\ inWhitespace
           /\ ~In(words, get - 1) /\ ~In(comments, get - 1)
           /\ \E n \in Nat : Len(curLine) = 2 * n /\ OpsBefore(words, Line, get, n)

SettledInv == \A i \in DOMAIN words : words[i].last + 1 < get => Settled(source, curLine, words[i])
LoadingInv == /\ Len(source) = NewlinesBefore(text, get)
              /\ SettledInv
              /\ AtLiteral \/ AtWord \/ AtComment \/ AtBlank
LoadedInv ==
  /\ Len(source) = NewlinesBefore(text, Len(text) + 1) + 1
  /\ \A i \in DOMAIN words : /\ words[i].line <= Len(source) /\ Settled(source, curLine, words[i])
  /\ \A s \in shown : \E w \in ToSet(words), height \in Heights :
       s = [word |-> w, line |-> w.line - 1, segment |-> 2 * (w.op - 1) + 1,
            height |-> height, firstLine |-> FirstLine(w.line - 1, height)]
NotLoading == /\ get = 1 /\ source = <<>> /\ curLine = <<>> /\ curWord = [first |-> 1, text |-> <<>>]
              /\ inWhitespace /\ quote = 0 /\ ~loaded
PlacesInv ==
  /\ mode # "end" => NotLoading
  /\ mode = "end" => delim = 0 /\ next = Len(text) + 1
  /\ ~loaded => shown = {}
  /\ mode = "end" /\ Tidy => IF loaded THEN LoadedInv ELSE LoadingInv

-----------------------------------------------------------------------------
(***************************************************************************)
(* Ends of lines, and sequences that have one element more.                *)
(***************************************************************************)
LEMMA NewlinesNat ==
  ASSUME NEW t, NEW k \in Nat
  PROVE  NewlinesBefore(t, k) \in Nat /\ IsFiniteSet({j \in 1 .. k - 1 : t[j] = NL})
PROOF
<1>1. IsFiniteSet(1 .. k - 1)
  BY FS_Interval
<1>2. {j \in 1 .. k - 1 : t[j] = NL} \subseteq 1 .. k - 1
  OBVIOUS
<1>3. IsFiniteSet({j \in 1 .. k - 1 : t[j] = NL})
  BY <1>1, <1>2, FS_Subset
<1> QED BY <1>3, FS_CardinalityType DEF NewlinesBefore

LEMMA NewlinesNext ==
  ASSUME NEW t, NEW k \in Nat \ {0}
  PROVE  NewlinesBefore(t, k + 1) = IF t[k] = NL THEN NewlinesBefore(t, k) + 1 ELSE NewlinesBefore(t, k)
PROOF
<1> DEFINE before == {j \in 1 .. k - 1 : t[j] = NL}
           upto == {j \in 1 .. (k + 1) - 1 : t[j] = NL}
<1>1. IsFiniteSet(before)
  BY NewlinesNat
<1>2. k \notin before
  OBVIOUS
<1>3. upto = IF t[k] = NL THEN before \cup {k} ELSE before
  OBVIOUS
<1> HIDE DEF before, upto
<1>4. Cardinality(before \cup {k}) = Cardinality(before) + 1
  BY <1>1, <1>2, FS_AddElement
<1>5. NewlinesBefore(t, k) = Cardinality(before) /\ NewlinesBefore(t, k + 1) = Cardinality(upto)
  BY DEF NewlinesBefore, before, upto
<1> QED BY <1>3, <1>4, <1>5

LEMMA NewlinesSame ==
  ASSUME NEW t, NEW i \in Nat, NEW k \in Nat, i <= k, \A j \in i .. k - 1 : t[j] # NL
  PROVE  NewlinesBefore(t, i) = NewlinesBefore(t, k)
PROOF
<1>1. {j \in 1 .. i - 1 : t[j] = NL} = {j \in 1 .. k - 1 : t[j] = NL}
  <2>1. ASSUME NEW j \in 1 .. k - 1, t[j] = NL PROVE j \in 1 .. i - 1
    <3>1. j \notin i .. k - 1
      BY <2>1
    <3> QED BY <3>1
  <2>2. \A j \in 1 .. i - 1 : j \in 1 .. k - 1
    OBVIOUS
  <2> QED BY <2>1, <2>2
<1> QED BY <1>1 DEF NewlinesBefore

LEMMA NewlinesGrow ==
  ASSUME NEW t, NEW i \in Nat, NEW k \in Nat, i <= k
  PROVE  NewlinesBefore(t, i) <= NewlinesBefore(t, k)
PROOF
<1>1. {j \in 1 .. i - 1 : t[j] = NL} \subseteq {j \in 1 .. k - 1 : t[j] = NL}
  OBVIOUS
<1>2. IsFiniteSet({j \in 1 .. k - 1 : t[j] = NL})
  BY NewlinesNat
<1> QED BY <1>1, <1>2, FS_Subset DEF NewlinesBefore

LEMMA NewlineBetween ==
  ASSUME NEW t, NEW i \in Nat \ {0}, NEW k \in Nat, NEW j \in i .. k - 1, t[j] = NL
  PROVE  NewlinesBefore(t, i) < NewlinesBefore(t, k)
PROOF
<1>1. NewlinesBefore(t, i) <= NewlinesBefore(t, j) /\ NewlinesBefore(t, j + 1) <= NewlinesBefore(t, k)
  <2>1. j \in Nat /\ j + 1 \in Nat /\ i <= j /\ j + 1 <= k
    OBVIOUS
  <2> QED BY <2>1, NewlinesGrow
<1>2. NewlinesBefore(t, j + 1) = NewlinesBefore(t, j) + 1
  <2>1. j \in Nat \ {0}
    OBVIOUS
  <2> QED BY <2>1, NewlinesNext
<1>3. /\ NewlinesBefore(t, i) \in Nat /\ NewlinesBefore(t, j) \in Nat /\ NewlinesBefore(t, k) \in Nat
  <2>1. j \in Nat
    OBVIOUS
  <2> QED BY <2>1, NewlinesNat
<1> QED BY <1>1, <1>2, <1>3

LEMMA SeqFacts ==
  ASSUME NEW s, IsSeq(s)
  PROVE  Len(s) \in Nat /\ DOMAIN s = 1 .. Len(s) /\ (s # <<>> => Len(s) \in DOMAIN s)
PROOF
<1>1. Len(s) \in Nat /\ DOMAIN s = 1 .. Len(s)
  BY LenProperties DEF IsSeq
<1>2. s # <<>> => Len(s) # 0
  BY EmptySeq DEF IsSeq
<1> QED BY <1>1, <1>2

LEMMA SeqMore ==
  ASSUME NEW s, IsSeq(s), NEW x
  PROVE  /\ IsSeq(Append(s, x)) /\ Len(Append(s, x)) = Len(s) + 1
         /\ DOMAIN Append(s, x) = 1 .. Len(s) + 1 /\ Append(s, x) # <<>>
         /\ \A i \in 1 .. Len(s) : Append(s, x)[i] = s[i]
         /\ Append(s, x)[Len(s) + 1] = x
PROOF
<1> DEFINE S == {s[i] : i \in DOMAIN s} \cup {x}
           t == Append(s, x)
<1>1. s \in Seq(S)
  BY DEF IsSeq
<1>2. /\ t \in Seq(S) /\ Len(t) = Len(s) + 1 /\ Len(s) \in Nat
      /\ \A i \in 1 .. Len(s) : t[i] = s[i]
      /\ t[Len(s) + 1] = x /\ t # <<>>
  <2>1. x \in S
    OBVIOUS
  <2> HIDE DEF S, t
  <2> QED BY <1>1, <2>1, AppendProperties, LenProperties DEF t
<1> HIDE DEF S, t
<1>3. DOMAIN t = 1 .. Len(s) + 1
  BY <1>2, LenProperties
<1>4. t \in [1 .. Len(s) + 1 -> {t[i] : i \in DOMAIN t}]
  <2>1. t = [i \in 1 .. Len(s) + 1 |-> t[i]]
    BY <1>2, <1>3, LenProperties
  <2>2. \A i \in 1 .. Len(s) + 1 : t[i] \in {t[k] : k \in DOMAIN t}
    BY <1>3
  <2> QED BY <2>1, <2>2
<1>5. IsSeq(t)
  <2>1. Len(s) + 1 \in Nat
    BY <1>2
  <2> QED BY <1>4, <2>1, FunctionIsSequence DEF IsSeq
<1> QED BY <1>2, <1>3, <1>5 DEF t

-----------------------------------------------------------------------------
(***************************************************************************)
(* How a literal is passed over.                                           *)
(***************************************************************************)
LEMMA PathStart ==
  ASSUME NEW t, NEW first \in Nat, NEW d
  PROVE  ReadAs(t, first, first + 1, d)
PROOF
<1>1. Path(t, {first + 1}, first, first + 1, d)
  BY DEF Path
<1>2. {first + 1} \in SUBSET (first + 1 .. first + 1)
  OBVIOUS
<1> QED BY <1>1, <1>2 DEF ReadAs

LEMMA PathOn ==
  ASSUME NEW t, NEW first \in Nat, NEW last \in Nat, NEW d, ReadAs(t, first, last, d), t[last] # d
  PROVE  /\ t[last] # Backslash => ReadAs(t, first, last + 1, d)
         /\ t[last] = Backslash => ReadAs(t, first, last + 2, d)
         /\ first < last
PROOF
<1>1. PICK P \in SUBSET (first + 1 .. last) : Path(t, P, first, last, d)
  BY DEF ReadAs
<1>2. /\ first + 1 \in P /\ last \in P
      /\ \A p \in P \ {last} : t[p] # d /\ (IF t[p] = Backslash THEN p + 2 ELSE p + 1) \in P
  BY <1>1 DEF Path
<1> DEFINE n == IF t[last] = Backslash THEN last + 2 ELSE last + 1
           Q == P \cup {n}
<1>3. n \in Nat /\ n > last /\ (n = last + 1 \/ n = last + 2)
  OBVIOUS
<1>4. ASSUME NEW p \in Q \ {n}
      PROVE t[p] # d /\ (IF t[p] = Backslash THEN p + 2 ELSE p + 1) \in Q
  <2>1. CASE p = last
    BY <2>1
  <2>2. CASE p # last
    BY <1>2, <1>4, <2>2
  <2> QED BY <2>1, <2>2
<1>5. Q \subseteq first + 1 .. n
  BY <1>2, <1>3
<1>6. Path(t, Q, first, n, d)
  <2>1. first + 1 \in Q /\ n \in Q
    BY <1>2
  <2> HIDE DEF Q, n
  <2> QED BY <1>4, <1>5, <2>1 DEF Path
<1>7. ReadAs(t, first, n, d)
  BY <1>5, <1>6 DEF ReadAs
<1>8. first < last
  BY <1>2
<1> QED BY <1>7, <1>8

\* Reading a character, an escape or an octal number.
LEMMA PathStep ==
  ASSUME LexInv, ReadCharacter \/ ReadEscape, mode' = mode, ReadAs(text, from, next, delim)
  PROVE  ReadAs(text, from, next', delim)
PROOF
<1>1. /\ delim \in {Quote, Apostrophe} /\ from \in Nat /\ next \in Nat
      /\ file \in Files
  <2>1. file \in Files /\ delim # 0
    BY ReadPartStep DEF LexInv
  <2> QED BY <2>1, TextFacts DEF LexInv
<1>2. CASE next' = next + 1 /\ text[next] \notin {Backslash, delim}
  BY <1>1, <1>2, PathOn
<1>3. ASSUME text[next] = Backslash PROVE ReadAs(text, from, next + 2, delim)
  <2>1. text[next] # delim
    BY <1>1, <1>3 DEF Backslash, Quote, Apostrophe
  <2> QED BY <1>1, <1>3, <2>1, PathOn
<1>4. CASE next' = next + 2 /\ text[next] = Backslash
  BY <1>3, <1>4
<1>5. ASSUME NEW n \in 1 .. 3, next' = next + 1 + n, text[next] = Backslash,
             \A k \in next + 1 .. next + n : IsOctal(text[k])
      PROVE  ReadAs(text, from, next', delim)
  <2>1. ReadAs(text, from, next + 2, delim)
    BY <1>3, <1>5
  <2>2. \A k \in next + 1 .. next + n : text[k] # delim /\ text[k] # Backslash
    BY <1>1, <1>5 DEF IsOctal, Backslash, Quote, Apostrophe
  <2>3. ASSUME n > 1 PROVE ReadAs(text, from, next + 3, delim)
    <3>1. next + 2 \in next + 1 .. next + n /\ (next + 2) + 1 = next + 3 /\ next + 2 \in Nat
      BY <1>1, <2>3
    <3> QED BY <1>1, <2>1, <2>2, <3>1, PathOn
  <2>4. ASSUME n > 2 PROVE ReadAs(text, from, next + 4, delim)
    <3>1. next + 3 \in next + 1 .. next + n /\ (next + 3) + 1 = next + 4 /\ next + 3 \in Nat /\ n > 1
      BY <1>1, <2>4
    <3> QED BY <1>1, <2>2, <2>3, <3>1, PathOn
  <2>5. next + 1 + 1 = next + 2 /\ next + 1 + 2 = next + 3 /\ next + 1 + 3 = next + 4
    BY <1>1
  <2> QED BY <1>5, <2>1, <2>3, <2>4, <2>5
<1>6. mode' # "IndexError"
  BY ReadPartStep
<1> QED BY <1>2, <1>4, <1>5, <1>6, ReadPartStep

-----------------------------------------------------------------------------
(***************************************************************************)
(* The compiler's scanner keeps ScanInv.                                   *)
(***************************************************************************)
SpacesTo(k) == /\ k \in Nat /\ Scanned <= k /\ \A j \in Scanned .. k - 1 : IsSpace(text[j])

LEMMA ScannedNat ==
  ASSUME LexInv
  PROVE  Scanned \in Nat \ {0} /\ Len(text) \in Nat /\ Scanned <= Len(text) + 1
PROOF
<1>1. Len(text) \in Nat
  BY TextFacts DEF LexInv
<1> QED BY <1>1 DEF LexInv, Scanned

LEMMA WordFacts ==
  ASSUME LexInv, ScanInv, NEW i \in DOMAIN words
  PROVE  /\ words[i].first \in 1 .. Len(text) /\ words[i].last \in words[i].first .. Len(text)
         /\ words[i].first \in Nat /\ words[i].last \in Nat /\ words[i].first <= words[i].last
         /\ words[i].last < Scanned
         /\ words[i].line = NewlinesBefore(text, words[i].first) + 1
         /\ words[i].line \in Nat \ {0} /\ words[i].op \in Nat \ {0}
         /\ i \in Nat \ {0} /\ i <= Len(words)
PROOF
<1>1. WordAt(text, words[i]) /\ words[i].last < Scanned /\ Len(text) \in Nat
  BY ScannedNat DEF ScanInv, WordsInv
<1>2. i \in Nat \ {0} /\ i <= Len(words)
  BY SeqFacts DEF ScanInv
<1>3. words[i].first \in 1 .. Len(text) /\ words[i].last \in words[i].first .. Len(text)
      /\ words[i].line = NewlinesBefore(text, words[i].first) + 1 /\ words[i].op \in Nat \ {0}
  BY <1>1 DEF WordAt
<1>4. words[i].first \in Nat /\ words[i].last \in Nat /\ words[i].first <= words[i].last
  BY <1>1, <1>3
<1>5. NewlinesBefore(text, words[i].first) \in Nat
  BY <1>4, NewlinesNat
<1> QED BY <1>1, <1>2, <1>3, <1>4, <1>5

\* White space is passed over, or nothing is.
LEMMA NoToken ==
  ASSUME LexInv, ScanInv, UNCHANGED <<file, words, comments>>, SpacesTo(Scanned')
  PROVE  IsSeq(words') /\ IsSeq(comments') /\ WordsInv' /\ CommentsInv' /\ GapsInv'
PROOF
<1>1. text' = text /\ words' = words /\ comments' = comments
  BY DEF text
<1>2. Scanned \in Nat /\ Scanned' \in Nat /\ Scanned <= Scanned'
  BY ScannedNat DEF SpacesTo
<1> DEFINE s == Scanned'
<1> HIDE DEF s
<1>3. \A i \in DOMAIN words : words[i].last < s
  BY <1>2, WordFacts DEF s
<1>4. \A i \in DOMAIN comments : CommentAt(text, comments[i]) /\ comments[i].last < s
  <2> TAKE i \in DOMAIN comments
  <2>1. CommentAt(text, comments[i]) /\ comments[i].last < Scanned /\ Len(text) \in Nat
    BY ScannedNat DEF ScanInv, CommentsInv
  <2>2. comments[i].last \in Int
    BY <2>1 DEF CommentAt
  <2> QED BY <1>2, <2>1, <2>2 DEF s
<1>5. \A k \in 1 .. s - 1 : IsSpace(text[k]) \/ In(words, k) \/ In(comments, k)
  <2> TAKE k \in 1 .. s - 1
  <2>1. CASE k \in 1 .. Scanned - 1
    BY <2>1 DEF ScanInv, GapsInv
  <2>2. CASE k \notin 1 .. Scanned - 1
    <3>1. \A j \in Scanned .. s - 1 : IsSpace(text[j])
      BY DEF SpacesTo, s
    <3>2. Scanned \in Nat /\ s \in Nat
      BY <1>2 DEF s
    <3> HIDE DEF s, Scanned
    <3>3. k \in Scanned .. s - 1
      BY <2>2, <3>2
    <3> QED BY <3>1, <3>3
  <2> QED BY <2>1, <2>2
<1>6. WordsInv'
  BY <1>1, <1>3 DEF ScanInv, WordsInv, s
<1>7. CommentsInv'
  BY <1>1, <1>4 DEF ScanInv, CommentsInv, s
<1>8. GapsInv'
  BY <1>1, <1>5 DEF GapsInv, s
<1> QED BY <1>1, <1>6, <1>7, <1>8 DEF ScanInv

\* One word more, which starts where the scanned part ends.
LEMMA NewWord ==
  ASSUME LexInv, ScanInv, mode = "reading", NEW w,
         UNCHANGED <<file, line_num, comments>>, words' = Append(words, w),
         WordAt(text, w), w.first = Scanned, Scanned' = w.last + 1,
         w.line = line_num, w.op = LastOp + 1
  PROVE  /\ IsSeq(words') /\ IsSeq(comments') /\ WordsInv' /\ CommentsInv' /\ GapsInv'
         /\ line_num' = NewlinesBefore(text, Scanned') + 1
         /\ LastOp' = w.op
PROOF
<1>1. text' = text /\ comments' = comments
  BY DEF text
<1> DEFINE n == Len(words)
           m == n + 1
           ws == words'
           s == Scanned'
<1>2. /\ n \in Nat /\ DOMAIN words = 1 .. n /\ IsSeq(ws) /\ Len(ws) = m /\ DOMAIN ws = 1 .. m
      /\ ws # <<>> /\ (\A i \in 1 .. n : ws[i] = words[i]) /\ ws[m] = w
  BY SeqFacts, SeqMore DEF ScanInv
<1>3. /\ Scanned \in Nat \ {0} /\ Len(text) \in Nat /\ w.first \in Nat /\ w.last \in Nat
      /\ w.first <= w.last /\ s = w.last + 1 /\ s \in Nat /\ Scanned <= s
  BY ScannedNat DEF WordAt
<1> HIDE DEF ws, s
<1>4. ASSUME NEW i \in 1 .. n
      PROVE  /\ ws[i] = words[i] /\ WordAt(text, ws[i]) /\ ws[i].last < Scanned
             /\ ws[i].last < s /\ ws[i].last \in Nat /\ ws[i].first \in Nat
  <2>1. i \in DOMAIN words
    BY <1>2
  <2>2. WordAt(text, words[i])
    BY <2>1 DEF ScanInv, WordsInv
  <2>3. words[i].last < Scanned /\ words[i].last \in Nat /\ words[i].first \in Nat
    BY <2>1, WordFacts
  <2> QED BY <1>2, <1>3, <2>2, <2>3
<1>5. \A i \in 1 .. m : i \in 1 .. n \/ i = m
  BY <1>2
<1>6. \A i \in DOMAIN ws : WordAt(text, ws[i]) /\ ws[i].last < s
  BY <1>2, <1>3, <1>4, <1>5
<1>7. \A i, j \in DOMAIN ws : i < j => ws[i].last < ws[j].first
  <2> TAKE i, j \in DOMAIN ws
  <2> HAVE i < j
  <2>1. i \in 1 .. n /\ (j \in 1 .. n \/ j = m)
    BY <1>2, <1>5
  <2>2. CASE j \in 1 .. n
    <3>1. words[i].last < words[j].first
      BY <1>2, <2>1, <2>2 DEF ScanInv, WordsInv
    <3> QED BY <1>2, <2>1, <2>2, <3>1
  <2>3. CASE j = m
    BY <1>2, <1>4, <2>1, <2>3
  <2> QED BY <2>1, <2>2, <2>3
<1>8. \A i \in DOMAIN ws :
        ws[i].op = IF i > 1 /\ ws[i - 1].line = ws[i].line THEN ws[i - 1].op + 1 ELSE 1
  <2> TAKE i \in DOMAIN ws
  <2>1. CASE i \in 1 .. n
    <3>1. words[i].op = IF i > 1 /\ words[i - 1].line = words[i].line THEN words[i - 1].op + 1 ELSE 1
      BY <1>2, <2>1 DEF ScanInv, WordsInv
    <3>2. i > 1 => ws[i - 1] = words[i - 1]
      BY <1>2, <2>1
    <3>3. ws[i] = words[i]
      BY <1>2, <2>1
    <3> QED BY <3>1, <3>2, <3>3
  <2>2. CASE i = m
    <3>1. CASE n = 0
      <4>1. words = <<>>
        BY <3>1, EmptySeq DEF ScanInv, IsSeq
      <4>2. LastOp = 0
        BY <4>1 DEF LastOp
      <4> QED BY <1>2, <2>2, <3>1, <4>2
    <3>2. CASE n # 0
      <4>1. words # <<>> /\ n \in 1 .. n /\ i > 1 /\ i - 1 = n /\ ws[n] = words[n]
        BY <1>2, <2>2, <3>2, EmptySeq
      <4>2. LastOp = IF words[n].line = line_num THEN words[n].op ELSE 0
        BY <4>1 DEF LastOp
      <4>3. ws[i].op = LastOp + 1 /\ ws[i].line = line_num
        BY <1>2, <2>2
      <4>4. words[n].op \in Nat
        <5>1. n \in DOMAIN words
          BY <1>2, <4>1
        <5> QED BY <5>1, WordFacts
      <4> HIDE DEF n
      <4> QED BY <4>1, <4>2, <4>3, <4>4
    <3> QED BY <3>1, <3>2
  <2> QED BY <1>2, <1>5, <2>1, <2>2
<1>9. \A i \in DOMAIN comments : CommentAt(text, comments[i]) /\ comments[i].last < s
  <2> TAKE i \in DOMAIN comments
  <2>1. CommentAt(text, comments[i]) /\ comments[i].last < Scanned /\ Len(text) \in Nat
    BY ScannedNat DEF ScanInv, CommentsInv
  <2>2. comments[i].last \in Int
    BY <2>1 DEF CommentAt
  <2> QED BY <1>3, <2>1, <2>2
<1>10. \A i \in DOMAIN ws, j \in DOMAIN comments :
         ws[i].last < comments[j].first \/ comments[j].last < ws[i].first
  <2> TAKE i \in DOMAIN ws, j \in DOMAIN comments
  <2>1. CASE i \in 1 .. n
    <3>1. words[i].last < comments[j].first \/ comments[j].last < words[i].first
      BY <1>2, <2>1 DEF ScanInv, CommentsInv
    <3> QED BY <1>2, <2>1, <3>1
  <2>2. CASE i = m
    BY <1>2, <2>2 DEF ScanInv, CommentsInv
  <2> QED BY <1>2, <1>5, <2>1, <2>2
<1>11. \A k \in 1 .. s - 1 : IsSpace(text[k]) \/ In(ws, k) \/ In(comments, k)
  <2> TAKE k \in 1 .. s - 1
  <2>1. CASE k \in 1 .. Scanned - 1
    <3>1. In(words, k) => In(ws, k)
      BY <1>2 DEF In
    <3> QED BY <2>1, <3>1 DEF ScanInv, GapsInv
  <2>2. CASE k \notin 1 .. Scanned - 1
    <3>1. k \in w.first .. w.last
      BY <1>3, <2>2
    <3>2. m \in DOMAIN ws /\ ws[m] = w
      BY <1>2
    <3> QED BY <3>1, <3>2 DEF In
  <2> QED BY <2>1, <2>2
<1>12. WordsInv' /\ CommentsInv' /\ GapsInv'
  <2>1. WordsInv'
    BY <1>1, <1>6, <1>7, <1>8 DEF WordsInv, s, ws
  <2>2. CommentsInv'
    BY <1>1, <1>9, <1>10 DEF CommentsInv, s, ws
  <2>3. GapsInv'
    BY <1>1, <1>11 DEF GapsInv, s, ws
  <2> QED BY <2>1, <2>2, <2>3
<1>13. line_num' = NewlinesBefore(text, s) + 1
  <2>1. \A j \in w.first .. s - 1 : text[j] # NL
    BY <1>3 DEF WordAt
  <2>2. NewlinesBefore(text, w.first) = NewlinesBefore(text, s)
    BY <1>3, <2>1, NewlinesSame
  <2> QED BY <2>2 DEF WordAt
<1>14. LastOp' = w.op
  <2>1. ws[Len(ws)].line = line_num /\ ws[Len(ws)].op = w.op
    BY <1>2
  <2> QED BY <1>2, <2>1 DEF LastOp, ws
<1> QED BY <1>1, <1>2, <1>12, <1>13, <1>14 DEF ScanInv, s, ws

\* One comment more.
LEMMA NewComment ==
  ASSUME LexInv, ScanInv, NEW x,
         UNCHANGED <<file, words>>, comments' = Append(comments, x),
         CommentAt(text, x), x.first = Scanned, Scanned' = x.last + 1
  PROVE  IsSeq(words') /\ IsSeq(comments') /\ WordsInv' /\ CommentsInv' /\ GapsInv'
PROOF
<1>1. text' = text /\ words' = words
  BY DEF text
<1> DEFINE n == Len(comments)
           m == n + 1
           cs == comments'
           s == Scanned'
<1>2. /\ n \in Nat /\ DOMAIN comments = 1 .. n /\ IsSeq(cs) /\ DOMAIN cs = 1 .. m
      /\ (\A i \in 1 .. n : cs[i] = comments[i]) /\ cs[m] = x
  BY SeqFacts, SeqMore DEF ScanInv
<1>3. /\ Scanned \in Nat \ {0} /\ Len(text) \in Nat /\ x.first \in Nat /\ x.last \in Nat
      /\ x.first <= x.last /\ s = x.last + 1 /\ s \in Nat /\ Scanned <= s
  BY ScannedNat DEF CommentAt
<1> HIDE DEF cs, s
<1>4. \A i \in 1 .. m : i \in 1 .. n \/ i = m
  BY <1>2
<1>5. \A i \in DOMAIN words : words[i].last < s /\ words[i].last < x.first
  BY <1>3, WordFacts
<1>6. ASSUME NEW i \in 1 .. n PROVE CommentAt(text, cs[i]) /\ cs[i].last < s
  <2>1. CommentAt(text, comments[i]) /\ comments[i].last < Scanned
    BY <1>2 DEF ScanInv, CommentsInv
  <2>2. comments[i].last \in Int
    BY <1>3, <2>1 DEF CommentAt
  <2> QED BY <1>2, <1>3, <2>1, <2>2
<1>7. \A i \in DOMAIN cs : CommentAt(text, cs[i]) /\ cs[i].last < s
  <2>1. CommentAt(text, cs[m]) /\ cs[m].last < s
    BY <1>2, <1>3
  <2> QED BY <1>2, <1>4, <1>6, <2>1
<1>8. \A i \in DOMAIN words, j \in DOMAIN cs :
        words[i].last < cs[j].first \/ cs[j].last < words[i].first
  <2> TAKE i \in DOMAIN words, j \in DOMAIN cs
  <2>1. CASE j \in 1 .. n
    <3>1. words[i].last < comments[j].first \/ comments[j].last < words[i].first
      BY <1>2, <2>1 DEF ScanInv, CommentsInv
    <3> QED BY <1>2, <2>1, <3>1
  <2>2. CASE j = m
    BY <1>2, <1>5, <2>2
  <2> QED BY <1>2, <1>4, <2>1, <2>2
<1>9. \A k \in 1 .. s - 1 : IsSpace(text[k]) \/ In(words, k) \/ In(cs, k)
  <2> TAKE k \in 1 .. s - 1
  <2>1. CASE k \in 1 .. Scanned - 1
    <3>1. In(comments, k) => In(cs, k)
      BY <1>2 DEF In
    <3> QED BY <2>1, <3>1 DEF ScanInv, GapsInv
  <2>2. CASE k \notin 1 .. Scanned - 1
    <3>1. k \in x.first .. x.last
      BY <1>3, <2>2
    <3>2. m \in DOMAIN cs /\ cs[m] = x
      BY <1>2
    <3> QED BY <3>1, <3>2 DEF In
  <2> QED BY <2>1, <2>2
<1>10. WordsInv'
  BY <1>1, <1>5 DEF ScanInv, WordsInv, s
<1>11. CommentsInv'
  BY <1>1, <1>7, <1>8 DEF CommentsInv, s, cs
<1>12. GapsInv'
  BY <1>1, <1>9 DEF GapsInv, s, cs
<1> QED BY <1>1, <1>2, <1>10, <1>11, <1>12 DEF ScanInv, cs

LEMMA LastOpNat ==
  ASSUME LexInv, ScanInv
  PROVE  LastOp \in Nat
PROOF
<1>1. CASE words = <<>>
  BY <1>1 DEF LastOp
<1>2. CASE words # <<>>
  <2>1. Len(words) \in DOMAIN words
    BY <1>2, SeqFacts DEF ScanInv
  <2>2. words[Len(words)].op \in Nat
    BY <2>1, WordFacts
  <2> QED BY <2>2 DEF LastOp
<1> QED BY <1>1, <1>2

\* What the steps below start from, outside of literals.
LEMMA BetweenFacts ==
  ASSUME LexInv, ScanInv, Between
  PROVE  /\ file \in Files /\ mode = "reading" /\ delim = 0 /\ Scanned = next
         /\ next \in 1 .. Len(text) /\ next \in Nat \ {0} /\ Len(text) \in Nat
         /\ line_num = NewlinesBefore(text, next) + 1 /\ NewlinesBefore(text, next) \in Nat
         /\ text[next] # NL => op_num = LastOp
PROOF
<1>1. file \in Files /\ mode = "reading" /\ delim = 0 /\ Scanned = next /\ next <= Len(text)
  BY DEF LexInv, Between, Scanned
<1>2. Len(text) \in Nat /\ next \in 1 .. Len(text) /\ next \in Nat \ {0}
  BY <1>1, TextFacts DEF LexInv
<1>3. line_num = NewlinesBefore(text, next) + 1 /\ (text[next] # NL => op_num = LastOp)
  BY <1>1 DEF ScanInv, PlaceInv
<1>4. NewlinesBefore(text, next) \in Nat
  BY <1>2, NewlinesNat
<1> QED BY <1>1, <1>2, <1>3, <1>4

LEMMA BlankScan ==
  ASSUME LexInv, ScanInv, Blank
  PROVE  ScanInv'
PROOF
<1>1. /\ file \in Files /\ mode = "reading" /\ delim = 0 /\ Scanned = next
      /\ next \in Nat \ {0} /\ line_num = NewlinesBefore(text, next) + 1
      /\ NewlinesBefore(text, next) \in Nat /\ (text[next] # NL => op_num = LastOp)
  BY BetweenFacts DEF Blank
<1>2. /\ text' = text /\ UNCHANGED <<file, words, comments, mode, delim, from>> /\ next' = next + 1
      /\ IsSpace(text[next])
  BY DEF Blank, wordVars, char, text
<1>3. Scanned' = next + 1
  BY <1>1, <1>2 DEF Scanned
<1>4. SpacesTo(next + 1)
  BY <1>1, <1>2 DEF SpacesTo
<1>5. IsSeq(words') /\ IsSeq(comments') /\ WordsInv' /\ CommentsInv' /\ GapsInv'
  BY <1>2, <1>3, <1>4, NoToken
<1>6. NewlinesBefore(text, next + 1) = IF text[next] = NL THEN line_num ELSE NewlinesBefore(text, next)
  BY <1>1, NewlinesNext
<1>7. CASE text[next] = NL
  <2>1. line_num' = line_num + 1 /\ op_num' = 0
    BY <1>7 DEF Blank, char
  <2>2. LastOp' = 0
    <3>1. CASE words = <<>>
      BY <1>2, <3>1 DEF LastOp
    <3>2. CASE words # <<>>
      <4> DEFINE w == words[Len(words)]
      <4>1. Len(words) \in DOMAIN words
        BY <3>2, SeqFacts DEF ScanInv
      <4>2. w.first \in Nat /\ w.last < next /\ w.first <= w.last /\ w.last \in Nat
            /\ w.line = NewlinesBefore(text, w.first) + 1
        BY <1>1, <4>1, WordFacts
      <4>3. w.first <= next
        BY <1>1, <4>2
      <4>4. NewlinesBefore(text, w.first) <= NewlinesBefore(text, next) /\ NewlinesBefore(text, w.first) \in Nat
        BY <1>1, <4>2, <4>3, NewlinesGrow, NewlinesNat
      <4>5. w.line # line_num'
        BY <1>1, <2>1, <4>2, <4>4
      <4> QED BY <1>2, <4>5 DEF LastOp
    <3> QED BY <3>1, <3>2
  <2> QED BY <1>1, <1>2, <1>3, <1>5, <1>6, <1>7, <2>1, <2>2 DEF ScanInv, PlaceInv
<1>8. CASE text[next] # NL
  <2>1. line_num' = line_num /\ op_num' = op_num
    BY <1>8 DEF Blank, char
  <2>2. LastOp' = LastOp
    BY <1>2, <2>1 DEF LastOp
  <2> QED BY <1>1, <1>2, <1>3, <1>5, <1>6, <1>8, <2>1, <2>2 DEF ScanInv, PlaceInv
<1> QED BY <1>7, <1>8

LEMMA PlainWordScan ==
  ASSUME LexInv, ScanInv, PlainWord
  PROVE  ScanInv'
PROOF
<1>1. /\ file \in Files /\ mode = "reading" /\ delim = 0 /\ Scanned = next
      /\ next \in 1 .. Len(text) /\ next \in Nat \ {0} /\ Len(text) \in Nat
      /\ line_num = NewlinesBefore(text, next) + 1 /\ (text[next] # NL => op_num = LastOp)
  BY BetweenFacts DEF PlainWord
<1>2. ~IsSpace(text[next]) /\ text[next] \notin {Quote, Apostrophe, Semicolon}
  BY DEF PlainWord, char
<1> DEFINE last == WordEnd(next)
           w == [line |-> line_num, op |-> op_num + 1, first |-> next, last |-> last,
                 delim |-> 0, value |-> <<>>]
<1>3. /\ last \in next .. Len(text) /\ (last = Len(text) \/ IsSpace(text[last + 1]))
      /\ \A k \in next .. last : ~IsSpace(text[k])
  BY <1>1, <1>2, WordEndFacts
<1>4. /\ text' = text /\ UNCHANGED <<file, line_num, comments, mode, delim, from>>
      /\ next' = last + 1 /\ op_num' = op_num + 1 /\ words' = Append(words, w)
  BY DEF PlainWord, Deliver, wordVars, text
<1> HIDE DEF last
<1>5. IsSpace(NL) /\ text[next] # NL
  BY <1>2 DEF IsSpace, NL, Tab, CR
<1>6. op_num = LastOp /\ LastOp \in Nat
  BY <1>1, <1>5, LastOpNat
<1>7. WordAt(text, w)
  <2>1. \A k \in next .. last : text[k] # NL
    BY <1>3, <1>5
  <2>2. PlainAt(text, w)
    BY <1>2, <1>3 DEF PlainAt
  <2> QED BY <1>1, <1>3, <1>6, <2>1, <2>2 DEF WordAt
<1>8. Scanned' = w.last + 1 /\ w.first = Scanned /\ w.line = line_num /\ w.op = LastOp + 1
  BY <1>1, <1>4, <1>6 DEF Scanned
<1> HIDE DEF w
<1>9. /\ IsSeq(words') /\ IsSeq(comments') /\ WordsInv' /\ CommentsInv' /\ GapsInv'
      /\ line_num' = NewlinesBefore(text, Scanned') + 1 /\ LastOp' = w.op
  BY <1>1, <1>4, <1>7, <1>8, NewWord
<1>10. PlaceInv'
  BY <1>1, <1>4, <1>6, <1>8, <1>9 DEF PlaceInv
<1> QED BY <1>9, <1>10 DEF ScanInv

LEMMA CommentScan ==
  ASSUME LexInv, ScanInv, Comment
  PROVE  ScanInv'
PROOF
<1>1. /\ file \in Files /\ mode = "reading" /\ delim = 0 /\ Scanned = next
      /\ next \in 1 .. Len(text) /\ next \in Nat \ {0} /\ Len(text) \in Nat
      /\ line_num = NewlinesBefore(text, next) + 1
  BY BetweenFacts DEF Comment
<1> DEFINE end == LineEnd(next)
           last == IF text[end] = NL THEN end - 1 ELSE end
           x == [first |-> next, last |-> last]
<1>2. /\ end \in next .. Len(text) /\ (end = Len(text) \/ text[end] = NL)
      /\ \A k \in next .. end - 1 : text[k] # NL
  BY <1>1, LineEndFacts
<1>3. text[next] = Semicolon /\ text[next] # NL
  BY DEF Comment, char, Semicolon, NL
<1>4. /\ text' = text /\ UNCHANGED <<file, line_num, words, mode, delim, from>>
      /\ next' = last + 1 /\ comments' = Append(comments, x)
  BY DEF Comment, wordVars, text
<1> HIDE DEF end
<1>5. last \in next .. Len(text) /\ \A k \in next .. last : text[k] # NL
  <2>1. CASE text[end] = NL
    BY <1>1, <1>2, <1>3, <2>1
  <2>2. CASE text[end] # NL
    <3>1. \A k \in next .. end : k \in next .. end - 1 \/ k = end
      BY <1>1, <1>2
    <3> QED BY <1>2, <2>2, <3>1
  <2> QED BY <2>1, <2>2
<1>6. last = Len(text) \/ text[last + 1] = NL
  <2>1. CASE text[end] = NL
    <3>1. last + 1 = end
      BY <1>1, <1>2, <2>1
    <3> QED BY <2>1, <3>1
  <2>2. CASE text[end] # NL
    BY <1>2, <2>2
  <2> QED BY <2>1, <2>2
<1> HIDE DEF last
<1>7. CommentAt(text, x)
  BY <1>1, <1>3, <1>5, <1>6 DEF CommentAt
<1>8. Scanned' = x.last + 1 /\ x.first = Scanned /\ x.last = last
  BY <1>1, <1>4 DEF Scanned
<1> HIDE DEF x
<1>9. IsSeq(words') /\ IsSeq(comments') /\ WordsInv' /\ CommentsInv' /\ GapsInv'
  BY <1>4, <1>7, <1>8, NewComment
<1>10. line_num' = NewlinesBefore(text, last + 1) + 1
  <2> DEFINE n == last + 1
  <2>1. n \in Nat /\ next \in Nat /\ next <= n /\ \A k \in next .. n - 1 : text[k] # NL
    BY <1>1, <1>5
  <2> HIDE DEF n
  <2>2. NewlinesBefore(text, next) = NewlinesBefore(text, n)
    BY <2>1, NewlinesSame
  <2> QED BY <1>1, <1>4, <2>2 DEF n
<1>11. ~(last + 1 <= Len(text) /\ text[last + 1] # NL)
  BY <1>1, <1>5, <1>6
<1>12. PlaceInv'
  BY <1>1, <1>4, <1>8, <1>10, <1>11 DEF PlaceInv
<1> QED BY <1>9, <1>12 DEF ScanInv

LEMMA OpenLiteralScan ==
  ASSUME LexInv, ScanInv, OpenLiteral
  PROVE  ScanInv'
PROOF
<1>1. /\ mode = "reading" /\ delim = 0 /\ Scanned = next /\ next \in Nat
      /\ line_num = NewlinesBefore(text, next) + 1 /\ (text[next] # NL => op_num = LastOp)
  BY BetweenFacts DEF OpenLiteral
<1>2. /\ text' = text /\ UNCHANGED <<file, line_num, op_num, words, comments, mode>>
      /\ from' = next /\ next' = next + 1 /\ delim' = text[next]
      /\ delim' # 0 /\ text[next] # NL
  BY DEF OpenLiteral, char, text, Quote, Apostrophe, NL
<1>3. Scanned' = next /\ SpacesTo(next)
  BY <1>1, <1>2 DEF Scanned, SpacesTo
<1>4. IsSeq(words') /\ IsSeq(comments') /\ WordsInv' /\ CommentsInv' /\ GapsInv'
  BY <1>2, <1>3, NoToken
<1>5. ReadAs(text, next, next + 1, delim')
  BY <1>1, PathStart
<1>6. LastOp' = LastOp
  BY <1>2 DEF LastOp
<1>7. PlaceInv'
  BY <1>1, <1>2, <1>3, <1>5, <1>6 DEF PlaceInv
<1> QED BY <1>4, <1>7 DEF ScanInv

LEMMA ReadScan ==
  ASSUME LexInv, ScanInv, ReadCharacter \/ ReadEscape
  PROVE  ScanInv'
PROOF
<1>1. /\ UNCHANGED <<file, line_num, op_num, delim, from, words, comments>> /\ text' = text
      /\ delim # 0 /\ mode = "reading"
  BY ReadPartStep DEF text
<1>2. Scanned' = Scanned /\ LastOp' = LastOp
  BY <1>1 DEF Scanned, LastOp
<1>3. SpacesTo(Scanned')
  BY <1>2, ScannedNat DEF SpacesTo
<1>4. IsSeq(words') /\ IsSeq(comments') /\ WordsInv' /\ CommentsInv' /\ GapsInv'
  BY <1>1, <1>3, NoToken
<1>5. text[from] = delim /\ ReadAs(text, from, next, delim)
  BY <1>1 DEF ScanInv, PlaceInv
<1>6. ReadAs(text, from, next', delim)
  <2>1. CASE mode' = mode
    BY <1>5, <2>1, PathStep
  <2>2. CASE mode' # mode
    <3>1. next' = next
      BY <2>2, ReadPartStep
    <3> QED BY <1>5, <3>1
  <2> QED BY <2>1, <2>2
<1>7. PlaceInv'
  BY <1>1, <1>2, <1>5, <1>6 DEF ScanInv, PlaceInv
<1> QED BY <1>4, <1>7 DEF ScanInv

LEMMA CloseLiteralScan ==
  ASSUME LexInv, ScanInv, CloseLiteral
  PROVE  ScanInv'
PROOF
<1>1. InLiteral /\ mode = "reading" /\ delim # 0 /\ Scanned = from
  BY DEF CloseLiteral, InLiteral, Scanned
<1>2. /\ from \in 1 .. Len(text) /\ LineEnd(from) \in 1 .. Len(text) /\ Len(text) \in Nat
      /\ next \in Nat /\ from < next /\ next <= LineEnd(from)
      /\ file \in Files /\ delim \in {Quote, Apostrophe}
  BY <1>1, WithinLine DEF LexInv
<1>3. /\ line_num = NewlinesBefore(text, from) + 1 /\ op_num = LastOp /\ LastOp \in Nat
      /\ text[from] = delim /\ ReadAs(text, from, next, delim)
  BY <1>1, LastOpNat DEF ScanInv, PlaceInv
<1> DEFINE w == [line |-> line_num, op |-> op_num + 1, first |-> from, last |-> next,
                 delim |-> delim, value |-> res]
<1>4. /\ text' = text /\ UNCHANGED <<file, line_num, from, comments, mode>>
      /\ next' = next + 1 /\ op_num' = op_num + 1 /\ words' = Append(words, w)
      /\ delim' = 0 /\ text[next] = delim
  BY DEF CloseLiteral, Deliver, text, char
<1>5. WordAt(text, w)
  <2>1. \A k \in from .. next : text[k] # NL
    <3>1. \A k \in from .. LineEnd(from) - 1 : text[k] # NL
      BY <1>2, LineEndFacts
    <3>2. \A k \in from .. next : k = next \/ k \in from .. LineEnd(from) - 1
      BY <1>2
    <3>3. text[next] # NL
      BY <1>2, <1>4 DEF Quote, Apostrophe, NL
    <3> QED BY <3>1, <3>2, <3>3
  <2>2. LiteralAt(text, w)
    BY <1>2, <1>3, <1>4 DEF LiteralAt
  <2>3. w.first \in 1 .. Len(text) /\ w.last \in w.first .. Len(text)
    BY <1>2
  <2>4. w.line = NewlinesBefore(text, w.first) + 1 /\ w.op \in Nat \ {0} /\ w.delim # 0
    BY <1>1, <1>3
  <2>5. \A k \in w.first .. w.last : text[k] # NL
    BY <2>1
  <2> HIDE DEF w
  <2> QED BY <2>2, <2>3, <2>4, <2>5 DEF WordAt
<1>6. Scanned' = w.last + 1 /\ w.first = Scanned /\ w.line = line_num /\ w.op = LastOp + 1
  BY <1>1, <1>3, <1>4 DEF Scanned
<1> HIDE DEF w
<1>7. /\ IsSeq(words') /\ IsSeq(comments') /\ WordsInv' /\ CommentsInv' /\ GapsInv'
      /\ line_num' = NewlinesBefore(text, Scanned') + 1 /\ LastOp' = w.op
  BY <1>1, <1>4, <1>5, <1>6, NewWord
<1>8. PlaceInv'
  BY <1>3, <1>4, <1>6, <1>7 DEF PlaceInv
<1> QED BY <1>7, <1>8 DEF ScanInv

LEMMA ScanStep ==
  ASSUME LexInv, ScanInv, [LexerNext]_lexerVars
  PROVE  ScanInv'
PROOF
<1>1. CASE UNCHANGED lexerVars
  BY <1>1 DEF lexerVars, wordVars, ScanInv, WordsInv, CommentsInv, GapsInv, PlaceInv, IsSeq,
              Scanned, LastOp, text
<1>2. CASE EndOfInput \/ Unterminated
  <2>1. /\ UNCHANGED <<file, words, comments, line_num, op_num, delim, from, next>>
        /\ text' = text /\ mode' # "reading"
    BY <1>2 DEF EndOfInput, Unterminated, wordVars, text
  <2>2. Scanned' = Scanned
    BY <2>1 DEF Scanned
  <2>3. SpacesTo(Scanned')
    BY <2>2, ScannedNat DEF SpacesTo
  <2>4. IsSeq(words') /\ IsSeq(comments') /\ WordsInv' /\ CommentsInv' /\ GapsInv'
    BY <2>1, <2>3, NoToken
  <2>5. PlaceInv'
    BY <2>1 DEF ScanInv, PlaceInv
  <2> QED BY <2>4, <2>5 DEF ScanInv
<1> QED BY <1>1, <1>2, BlankScan, PlainWordScan, CommentScan, OpenLiteralScan, ReadScan,
           CloseLiteralScan DEF LexerNext

LEMMA ScanInit ==
  ASSUME Init
  PROVE  ScanInv
PROOF
<1>1. /\ words = <<>> /\ comments = <<>> /\ next = 1 /\ delim = 0 /\ line_num = 1 /\ op_num = 0
  BY DEF Init, LexerInit
<1>2. Scanned = 1 /\ LastOp = 0
  BY <1>1 DEF Scanned, LastOp
<1>3. IsSeq(words) /\ IsSeq(comments)
  BY <1>1 DEF IsSeq
<1>4. NewlinesBefore(text, 1) = 0
  <2>1. {j \in 1 .. 1 - 1 : text[j] = NL} = {}
    OBVIOUS
  <2> QED BY <2>1, FS_EmptySet DEF NewlinesBefore
<1>5. WordsInv /\ CommentsInv /\ GapsInv
  BY <1>1, <1>2 DEF WordsInv, CommentsInv, GapsInv
<1>6. PlaceInv
  BY <1>1, <1>2, <1>4 DEF PlaceInv
<1> QED BY <1>3, <1>5, <1>6 DEF ScanInv

-----------------------------------------------------------------------------
(***************************************************************************)
(* What follows from where the words and the comments are.                 *)
(***************************************************************************)
LEMMA CommentFacts ==
  ASSUME LexInv, ScanInv, NEW i \in DOMAIN comments
  PROVE  /\ comments[i].first \in Nat /\ comments[i].last \in Nat
         /\ comments[i].first <= comments[i].last /\ comments[i].last <= Len(text)
         /\ text[comments[i].first] = Semicolon
         /\ \A k \in comments[i].first .. comments[i].last : text[k] # NL
         /\ comments[i].last = Len(text) \/ text[comments[i].last + 1] = NL
PROOF
<1>1. CommentAt(text, comments[i]) /\ Len(text) \in Nat
  BY ScannedNat DEF ScanInv, CommentsInv
<1> QED BY <1>1 DEF CommentAt

LEMMA WordMore ==
  ASSUME LexInv, ScanInv, NEW i \in DOMAIN words
  PROVE  /\ \A k \in words[i].first .. words[i].last : text[k] # NL
         /\ IF words[i].delim = 0 THEN PlainAt(text, words[i]) ELSE LiteralAt(text, words[i])
         /\ words[i].delim = 0 => /\ ~IsSpace(text[words[i].first])
                                  /\ text[words[i].first] \notin {Quote, Apostrophe, Semicolon}
         /\ words[i].delim # 0 => /\ text[words[i].first] = words[i].delim
                                  /\ words[i].delim \in {Quote, Apostrophe}
         /\ text[words[i].first] \notin {Tab, NL, CR, Space}
PROOF
<1>1. WordAt(text, words[i])
  BY DEF ScanInv, WordsInv
<1>2. words[i].first \in words[i].first .. words[i].last
  BY WordFacts
<1>3. CASE words[i].delim = 0
  <2>1. PlainAt(text, words[i])
    BY <1>1, <1>3 DEF WordAt
  <2>2. \A x \in {Tab, NL, CR, Space} : IsSpace(x)
    BY DEF IsSpace, Tab, NL, CR, Space
  <2> QED BY <1>1, <1>2, <1>3, <2>1, <2>2 DEF WordAt, PlainAt
<1>4. CASE words[i].delim # 0
  <2>1. LiteralAt(text, words[i])
    BY <1>1, <1>4 DEF WordAt
  <2> QED BY <1>1, <1>4, <2>1 DEF WordAt, LiteralAt, Quote, Apostrophe, Tab, NL, CR, Space
<1> QED BY <1>3, <1>4

\* A character is in one word at most, or in a comment.
LEMMA OneToken ==
  ASSUME LexInv, ScanInv, NEW i \in DOMAIN words, NEW k \in words[i].first .. words[i].last
  PROVE  /\ \A j \in DOMAIN words : k \in words[j].first .. words[j].last => j = i
         /\ ~In(comments, k)
PROOF
<1>1. ASSUME NEW j \in DOMAIN words, k \in words[j].first .. words[j].last, j # i PROVE FALSE
  <2>1. i \in Nat /\ j \in Nat
    BY WordFacts
  <2>2. words[i].last < words[j].first \/ words[j].last < words[i].first
    <3>1. i < j \/ j < i
      BY <1>1, <2>1
    <3> QED BY <3>1 DEF ScanInv, WordsInv
  <2>3. /\ words[i].first \in Nat /\ words[i].last \in Nat
        /\ words[j].first \in Nat /\ words[j].last \in Nat
    BY WordFacts
  <2> QED BY <1>1, <2>2, <2>3
<1>2. ASSUME NEW j \in DOMAIN comments, k \in comments[j].first .. comments[j].last PROVE FALSE
  <2>1. words[i].last < comments[j].first \/ comments[j].last < words[i].first
    BY DEF ScanInv, CommentsInv
  <2>2. /\ words[i].first \in Nat /\ words[i].last \in Nat
        /\ comments[j].first \in Nat /\ comments[j].last \in Nat
    BY WordFacts, CommentFacts
  <2> QED BY <1>2, <2>1, <2>2
<1> QED BY <1>1, <1>2 DEF In

LEMMA SettledKept ==
  ASSUME NEW src, NEW l \in Seq(Segments), NEW x \in Segments, NEW w,
         w.op \in Nat \ {0}, Settled(src, l, w)
  PROVE  Settled(src, Append(l, x), w)
PROOF
<1>1. /\ Len(l) \in Nat /\ Len(Append(l, x)) = Len(l) + 1
      /\ \A i \in 1 .. Len(l) : Append(l, x)[i] = l[i]
  BY AppendProperties, LenProperties
<1>2. CASE w.line <= Len(src)
  BY <1>2 DEF Settled
<1>3. CASE ~(w.line <= Len(src))
  <2>1. w.line = Len(src) + 1 /\ 2 * w.op <= Len(l) /\ Matches(l[2 * w.op], w)
    BY <1>3 DEF Settled
  <2>2. 2 * w.op \in 1 .. Len(l) /\ 2 * w.op <= Len(l) + 1
    BY <1>1, <2>1
  <2>3. Append(l, x)[2 * w.op] = l[2 * w.op]
    BY <1>1, <2>2
  <2> QED BY <1>1, <1>3, <2>1, <2>2, <2>3 DEF Settled
<1> QED BY <1>2, <1>3

LEMMA SettledLast ==
  ASSUME NEW src \in Seq(Seq(Segments)), NEW l \in Seq(Segments), NEW x \in Segments, NEW w,
         w.line = Len(src) + 1, 2 * w.op = Len(l) + 1, Matches(x, w)
  PROVE  Settled(src, Append(l, x), w)
PROOF
<1>1. Len(l) \in Nat /\ Len(Append(l, x)) = Len(l) + 1 /\ Append(l, x)[Len(l) + 1] = x
  BY AppendProperties, LenProperties
<1>2. Len(src) \in Nat /\ ~(w.line <= Len(src))
  BY LenProperties
<1>3. Append(l, x)[2 * w.op] = x
  BY <1>1
<1> QED BY <1>1, <1>2, <1>3 DEF Settled

LEMMA SettledLine ==
  ASSUME NEW src \in Seq(Seq(Segments)), NEW l \in Seq(Segments), NEW m, NEW w,
         w.line \in Nat \ {0}, Settled(src, l, w)
  PROVE  Settled(Append(src, l), m, w) /\ w.line <= Len(Append(src, l))
PROOF
<1>1. /\ Len(src) \in Nat /\ Len(Append(src, l)) = Len(src) + 1 /\ Append(src, l)[Len(src) + 1] = l
      /\ \A i \in 1 .. Len(src) : Append(src, l)[i] = src[i]
  BY AppendProperties, LenProperties
<1>2. CASE w.line <= Len(src)
  <2>1. w.line \in 1 .. Len(src) /\ w.line <= Len(src) + 1
    BY <1>1, <1>2
  <2> QED BY <1>1, <1>2, <2>1 DEF Settled
<1>3. CASE ~(w.line <= Len(src))
  <2>1. w.line = Len(src) + 1 /\ 2 * w.op <= Len(l) /\ Matches(l[2 * w.op], w)
    BY <1>3 DEF Settled
  <2>2. w.line <= Len(Append(src, l)) /\ Append(src, l)[w.line] = l
    BY <1>1, <2>1
  <2> QED BY <2>1, <2>2 DEF Settled
<1> QED BY <1>2, <1>3

\* The word that comes next on a line has the next op.
LEMMA NextOp ==
  ASSUME LexInv, ScanInv, NEW i \in DOMAIN words, NEW n \in Nat,
         OpsBefore(words, words[i].line, words[i].first, n)
  PROVE  words[i].op = n + 1
PROOF
<1> DEFINE first == words[i].first
           line == words[i].line
<1>1. i \in Nat \ {0} /\ first \in Nat /\ words[i].last \in Nat /\ first <= words[i].last
  BY WordFacts
<1>2. words[i].op = IF i > 1 /\ words[i - 1].line = line THEN words[i - 1].op + 1 ELSE 1
  BY DEF ScanInv, WordsInv
<1>3. ASSUME i > 1 PROVE i - 1 \in DOMAIN words /\ words[i - 1].last < first
  <2>1. i - 1 \in DOMAIN words /\ i - 1 < i
    BY <1>1, <1>3, SeqFacts DEF ScanInv
  <2> QED BY <2>1 DEF ScanInv, WordsInv
<1>4. ASSUME NEW k \in DOMAIN words, words[k].last < first PROVE k \in Nat /\ k < i
  <2>1. k \in Nat /\ words[k].first \in Nat /\ words[k].last \in Nat /\ words[k].first <= words[k].last
    BY WordFacts
  <2>2. ~(i < k)
    <3>1. i < k => words[i].last < words[k].first
      BY DEF ScanInv, WordsInv
    <3> QED BY <1>1, <1>4, <2>1, <3>1
  <2>3. k # i
    BY <1>1, <1>4
  <2> QED BY <1>1, <2>1, <2>2, <2>3
<1> HIDE DEF first, line
<1>5. OpsBefore(words, line, first, n)
  BY DEF first, line
<1>6. CASE n = 0 /\ \A k \in DOMAIN words : words[k].last < first => words[k].line # line
  BY <1>2, <1>3, <1>6
<1>7. ASSUME NEW k \in DOMAIN words, words[k].last < first, words[k].line = line,
             words[k].op = n, \A j \in DOMAIN words : words[j].last < first => j <= k
      PROVE  words[i].op = n + 1
  <2>1. k \in Nat /\ k < i /\ k >= 1
    BY <1>4, <1>7, WordFacts
  <2>2. i > 1
    BY <1>1, <2>1
  <2>3. i - 1 <= k
    BY <1>3, <1>7, <2>2
  <2>4. k = i - 1
    BY <1>1, <2>1, <2>3
  <2> QED BY <1>2, <1>7, <2>2, <2>4
<1> QED BY <1>5, <1>6, <1>7 DEF OpsBefore

-----------------------------------------------------------------------------
(***************************************************************************)
(* getSource keeps PlacesInv, step by step.                                *)
(***************************************************************************)
Loading == LexInv /\ ViewType /\ ScanInv /\ Tidy /\ mode = "end" /\ ~loaded /\ LoadingInv
           /\ Scanned = Len(text) + 1

LEMMA LoadingFacts ==
  ASSUME Loading
  PROVE  /\ get \in Nat \ {0} /\ Len(text) \in Nat /\ get <= Len(text) + 1
         /\ Len(source) \in Nat /\ Line = Len(source) + 1 /\ Len(curLine) \in Nat
         /\ Line = NewlinesBefore(text, get) + 1
         /\ source \in Seq(Seq(Segments)) /\ curLine \in Seq(Segments) /\ curWord \in Segments
PROOF
<1>1. Len(text) \in Nat
  BY TextFacts DEF Loading, LexInv
<1>2. source \in Seq(Seq(Segments)) /\ curLine \in Seq(Segments) /\ curWord \in Segments
  BY DEF Loading, ViewType
<1>3. Len(source) \in Nat /\ Len(curLine) \in Nat
  BY <1>2, LenProperties
<1> QED BY <1>1, <1>2, <1>3 DEF Loading, ViewType, LoadingInv, Line

\* After white space, what is not white space starts a word or a comment.
LEMMA TokenStarts ==
  ASSUME Loading, get <= Len(text), ~In(words, get - 1), ~In(comments, get - 1),
         text[get] \notin {Tab, NL, CR, Space}
  PROVE  \/ \E i \in DOMAIN words : words[i].first = get
         \/ \E i \in DOMAIN comments : comments[i].first = get
PROOF
<1>1. get \in Nat \ {0} /\ Len(text) \in Nat /\ get \in DOMAIN text
  BY LoadingFacts, TextFacts DEF Loading, LexInv
<1>2. ~IsSpace(text[get])
  BY <1>1 DEF Loading, Tidy
<1>3. In(words, get) \/ In(comments, get)
  <2>1. get \in 1 .. Scanned - 1
    BY <1>1 DEF Loading
  <2> QED BY <1>2, <2>1 DEF Loading, ScanInv, GapsInv
<1>4. ASSUME NEW i \in DOMAIN words, get \in words[i].first .. words[i].last
      PROVE words[i].first = get
  <2>1. words[i].first \in Nat /\ words[i].last \in Nat
    BY WordFacts DEF Loading
  <2>2. get - 1 \notin words[i].first .. words[i].last
    BY DEF In
  <2> QED BY <1>1, <1>4, <2>1, <2>2
<1>5. ASSUME NEW i \in DOMAIN comments, get \in comments[i].first .. comments[i].last
      PROVE comments[i].first = get
  <2>1. comments[i].first \in Nat /\ comments[i].last \in Nat
    BY CommentFacts DEF Loading
  <2>2. get - 1 \notin comments[i].first .. comments[i].last
    BY DEF In
  <2> QED BY <1>1, <1>5, <2>1, <2>2
<1> QED BY <1>3, <1>4, <1>5 DEF In

\* No word or comment starts with white space.
LEMMA NoTokenStarts ==
  ASSUME Loading, get <= Len(text), text[get] \in {Tab, NL, CR, Space},
         \A i \in DOMAIN words : get - 1 \in words[i].first .. words[i].last => get - 1 = words[i].last,
         ~In(comments, get - 1)
  PROVE  ~In(words, get) /\ ~In(comments, get)
PROOF
<1>1. get \in Nat \ {0} /\ Len(text) \in Nat
  BY LoadingFacts
<1>2. ASSUME NEW i \in DOMAIN words, get \in words[i].first .. words[i].last PROVE FALSE
  <2>1. words[i].first \in Nat /\ words[i].last \in Nat
    BY WordFacts DEF Loading
  <2>2. words[i].first # get
    BY WordMore DEF Loading
  <2>3. get - 1 \in words[i].first .. words[i].last
    BY <1>1, <1>2, <2>1, <2>2
  <2> QED BY <1>1, <1>2, <2>1, <2>3
<1>3. ASSUME NEW i \in DOMAIN comments, get \in comments[i].first .. comments[i].last PROVE FALSE
  <2>1. comments[i].first \in Nat /\ comments[i].last \in Nat /\ text[comments[i].first] = Semicolon
    BY CommentFacts DEF Loading
  <2>2. comments[i].first # get
    BY <2>1 DEF Semicolon, Tab, NL, CR, Space
  <2>3. get - 1 \in comments[i].first .. comments[i].last
    BY <1>1, <1>3, <2>1, <2>2
  <2> QED BY <2>3 DEF In
<1> QED BY <1>2, <1>3 DEF In

\* Outside of literals, the words that end before get have their segment, or get
\* it with the next segment.
LEMMA AllSettled ==
  ASSUME Loading, quote = 0
  PROVE  \A i \in DOMAIN words : words[i].last < get => Settled(source, Append(curLine, curWord), words[i])
PROOF
<1> TAKE i \in DOMAIN words
<1> HAVE words[i].last < get
<1>1. /\ words[i].first \in Nat /\ words[i].last \in Nat /\ words[i].first <= words[i].last
      /\ words[i].op \in Nat \ {0}
  BY WordFacts DEF Loading
<1>2. /\ get \in Nat \ {0} /\ Line = Len(source) + 1 /\ Len(curLine) \in Nat
      /\ source \in Seq(Seq(Segments)) /\ curLine \in Seq(Segments) /\ curWord \in Segments
  BY LoadingFacts
<1>3. CASE words[i].last + 1 < get
  <2>1. Settled(source, curLine, words[i])
    BY <1>3 DEF Loading, LoadingInv, SettledInv
  <2> QED BY <1>1, <1>2, <2>1, SettledKept
<1>4. CASE ~(words[i].last + 1 < get)
  <2>1. get = words[i].last + 1 /\ get - 1 \in words[i].first .. words[i].last
    BY <1>1, <1>2, <1>4
  <2>2. (\A j \in DOMAIN words : get - 1 \in words[j].first .. words[j].last => j = i)
        /\ ~In(comments, get - 1) /\ In(words, get - 1)
    BY <2>1, OneToken DEF Loading, In
  <2>3. ~AtLiteral
    <3>1. \A j \in DOMAIN words : words[j].delim # 0 => words[j].delim # quote
      OBVIOUS
    <3> QED BY <3>1 DEF AtLiteral
  <2>4. ~AtComment
    <3>1. ASSUME NEW j \in DOMAIN comments, get \in comments[j].first + 1 .. comments[j].last + 1
          PROVE FALSE
      <4>1. comments[j].first \in Nat /\ comments[j].last \in Nat
        BY CommentFacts DEF Loading
      <4>2. get - 1 \in comments[j].first .. comments[j].last
        BY <1>2, <3>1, <4>1
      <4> QED BY <2>2, <4>2 DEF In
    <3> QED BY <3>1 DEF AtComment
  <2>5. AtWord
    BY <2>2, <2>3, <2>4 DEF Loading, LoadingInv, AtBlank
  <2>6. PICK j \in DOMAIN words : InThe(words[j]) /\ get \in words[j].first + 1 .. words[j].last + 1
    BY <2>5 DEF AtWord
  <2>7. j = i
    <3>1. words[j].first \in Nat /\ words[j].last \in Nat
      BY WordFacts DEF Loading
    <3>2. get - 1 \in words[j].first .. words[j].last
      BY <1>2, <2>6, <3>1
    <3> QED BY <2>2, <3>2
  <2>8. Matches(curWord, words[i])
    <3>1. curWord.first = words[i].first /\ Len(curWord.text) = get - words[i].first
      BY <2>6, <2>7 DEF InThe
    <3>2. get - words[i].first = words[i].last - words[i].first + 1
      BY <1>1, <1>2, <2>1
    <3> QED BY <3>1, <3>2 DEF Matches
  <2>9. words[i].line = Len(source) + 1 /\ 2 * words[i].op = Len(curLine) + 1
    BY <1>2, <2>6, <2>7 DEF InThe
  <2> QED BY <1>2, <2>8, <2>9, SettledLast
<1> QED BY <1>3, <1>4

LEMMA StartSettles ==
  ASSUME Loading, quote = 0, get' = get + 1, source' = source, words' = words,
         curLine' = Append(curLine, curWord)
  PROVE  SettledInv'
PROOF
<1>1. ASSUME NEW i \in DOMAIN words, words[i].last + 1 < get + 1
      PROVE  Settled(source, Append(curLine, curWord), words[i])
  <2>1. words[i].last \in Nat /\ get \in Nat
    BY WordFacts, LoadingFacts DEF Loading
  <2>2. words[i].last < get
    BY <1>1, <2>1
  <2> QED BY <2>2, AllSettled
<1> QED BY <1>1 DEF SettledInv

LEMMA KeepsSettled ==
  ASSUME Loading, source' = source, words' = words, curLine' = curLine,
         \A i \in DOMAIN words : words[i].last + 1 < get' => words[i].last + 1 < get
  PROVE  SettledInv'
PROOF
<1>1. SettledInv
  BY DEF Loading, LoadingInv
<1> QED BY <1>1 DEF SettledInv

\* A word that ends before get does not end just before it.
LEMMA NoneEnds ==
  ASSUME Loading, get' = get + 1,
         \A i \in DOMAIN words : get - 1 \in words[i].first .. words[i].last => words[i].last # get - 1
  PROVE  \A i \in DOMAIN words : words[i].last + 1 < get' => words[i].last + 1 < get
PROOF
<1> TAKE i \in DOMAIN words
<1> HAVE words[i].last + 1 < get'
<1>1. /\ words[i].first \in Nat /\ words[i].last \in Nat /\ words[i].first <= words[i].last
      /\ get \in Nat
  BY WordFacts, LoadingFacts DEF Loading
<1>2. words[i].last # get - 1
  <2>1. words[i].last \in words[i].first .. words[i].last
    BY <1>1
  <2> QED BY <2>1
<1> QED BY <1>1, <1>2

LEMMA SameLine ==
  ASSUME Loading, get <= Len(text), text[get] # NL
  PROVE  NewlinesBefore(text, get + 1) = Len(source)
PROOF
<1>1. get \in Nat \ {0}
  BY LoadingFacts
<1>2. Len(source) = NewlinesBefore(text, get)
  BY DEF Loading, LoadingInv
<1> QED BY <1>1, <1>2, NewlinesNext

LEMMA NewLineLoads ==
  ASSUME Loading, NewLine
  PROVE  LoadingInv'
PROOF
<1>1. /\ get \in Nat \ {0} /\ Len(text) \in Nat /\ Len(source) \in Nat
      /\ source \in Seq(Seq(Segments)) /\ curLine \in Seq(Segments) /\ curWord \in Segments
      /\ Len(source) = NewlinesBefore(text, get)
  BY LoadingFacts DEF Loading, LoadingInv
<1>2. quote = 0 /\ text[get] = NL /\ get <= Len(text)
  BY DEF NewLine, Reading, c, NL, CR, Space
<1> DEFINE l == Append(curLine, curWord)
<1>3. /\ source' = Append(source, l) /\ curLine' = <<>> /\ inWhitespace' = TRUE /\ quote' = 0
      /\ get' = get + 1 /\ text' = text /\ words' = words /\ comments' = comments
  BY <1>2 DEF NewLine, EndLine, Read, lexerVars, text
<1>4. l \in Seq(Segments) /\ Len(source') = Len(source) + 1
  BY <1>1, <1>3, AppendProperties
<1>5. NewlinesBefore(text, get + 1) = Len(source) + 1
  BY <1>1, <1>2, NewlinesNext
<1>6. ASSUME NEW i \in DOMAIN words
      PROVE  /\ words[i].last # get /\ words[i].first # get /\ get \notin words[i].first .. words[i].last
             /\ words[i].last \in Nat /\ words[i].first \in Nat /\ words[i].first <= words[i].last
  <2>1. words[i].last \in Nat /\ words[i].first \in Nat /\ words[i].first <= words[i].last
    BY WordFacts DEF Loading
  <2>2. get \notin words[i].first .. words[i].last
    BY <1>2, WordMore DEF Loading
  <2> QED BY <2>1, <2>2
<1>7. SettledInv'
  <2>1. ASSUME NEW i \in DOMAIN words, words[i].last + 1 < get + 1
        PROVE  Settled(source', curLine', words[i])
    <3>1. words[i].last < get /\ words[i].line \in Nat \ {0}
      BY <1>1, <1>6, <2>1, WordFacts DEF Loading
    <3>2. Settled(source, l, words[i])
      BY <1>2, <3>1, AllSettled
    <3> HIDE DEF l
    <3> QED BY <1>1, <1>3, <1>4, <3>1, <3>2, SettledLine
  <2> QED BY <1>3, <2>1 DEF SettledInv
<1>8. ~In(words, get) /\ ~In(comments, get)
  <2>1. \A i \in DOMAIN comments : get \notin comments[i].first .. comments[i].last
    BY <1>2, CommentFacts DEF Loading
  <2> QED BY <1>6, <2>1 DEF In
<1>9. OpsBefore(words, Len(source) + 2, get + 1, 0)
  <2>1. ASSUME NEW i \in DOMAIN words, words[i].last < get + 1
        PROVE  words[i].line # Len(source) + 2
    <3>1. words[i].first < get /\ words[i].first \in Nat \ {0}
      BY <1>1, <1>6, <2>1, WordFacts DEF Loading
    <3>2. NewlinesBefore(text, words[i].first) <= NewlinesBefore(text, get)
      BY <1>1, <3>1, NewlinesGrow
    <3>3. words[i].line = NewlinesBefore(text, words[i].first) + 1 /\ NewlinesBefore(text, words[i].first) \in Nat
      BY <3>1, WordFacts, NewlinesNat DEF Loading
    <3> QED BY <1>1, <3>2, <3>3
  <2> QED BY <2>1 DEF OpsBefore
<1>10. AtBlank'
  <2>1. Line' = Len(source) + 2 /\ get' - 1 = get /\ Len(curLine') = 2 * 0
    BY <1>1, <1>3, <1>4 DEF Line
  <2>2. OpsBefore(words, Line', get', 0) /\ 0 \in Nat
    BY <1>3, <1>9, <2>1
  <2>3. \E n \in Nat : Len(curLine') = 2 * n /\ OpsBefore(words, Line', get', n)
    BY <2>1, <2>2
  <2> QED BY <1>3, <1>8, <2>1, <2>3 DEF AtBlank
<1> QED BY <1>3, <1>4, <1>5, <1>7, <1>10 DEF LoadingInv

\* A blank after blanks.
LEMMA BlankStays ==
  ASSUME Loading, AtBlank, get <= Len(text), text[get] \in {Tab, CR, Space},
         get' = get + 1, UNCHANGED <<source, curLine, quote, inWhitespace, text, words, comments>>
  PROVE  LoadingInv'
PROOF
<1>1. /\ get \in Nat \ {0} /\ quote = 0 /\ inWhitespace
      /\ ~In(words, get - 1) /\ ~In(comments, get - 1)
  BY LoadingFacts DEF AtBlank
<1>2. ~In(words, get) /\ ~In(comments, get)
  BY <1>1, NoTokenStarts DEF In
<1>3. text[get] # NL
  BY DEF Tab, CR, Space, NL
<1>4. SettledInv'
  <2>1. \A i \in DOMAIN words : get - 1 \notin words[i].first .. words[i].last
    BY <1>1 DEF In
  <2> QED BY <2>1, NoneEnds, KeepsSettled
<1>5. PICK n \in Nat : Len(curLine) = 2 * n /\ OpsBefore(words, Line, get, n)
  BY DEF AtBlank
<1>6. \A i \in DOMAIN words : words[i].last < get + 1 <=> words[i].last < get
  <2> TAKE i \in DOMAIN words
  <2>1. words[i].first \in Nat /\ words[i].last \in Nat /\ words[i].first <= words[i].last
    BY WordFacts DEF Loading
  <2>2. words[i].last # get
    <3>1. words[i].last \in words[i].first .. words[i].last
      BY <2>1
    <3> QED BY <1>2, <3>1 DEF In
  <2> QED BY <1>1, <2>1, <2>2
<1>7. OpsBefore(words, Line, get + 1, n)
  BY <1>5, <1>6 DEF OpsBefore
<1>8. AtBlank'
  <2>1. Line' = Line /\ get' - 1 = get
    BY <1>1 DEF Line
  <2> QED BY <1>1, <1>2, <1>5, <1>7, <2>1 DEF AtBlank
<1> QED BY <1>3, <1>4, <1>8, SameLine DEF LoadingInv

\* The kind of a character, as a step that depends on it sees it.
LEMMA Kinds ==
  ASSUME Loading
  PROVE  /\ SameKind => (inWhitespace <=> c = Space) /\ (inWhitespace' <=> c = Space)
         /\ OtherKind => (inWhitespace <=> c # Space) /\ (inWhitespace' <=> c = Space)
         /\ ReadTab => (inWhitespace' <=> inWhitespace)
         /\ inWhitespace \in BOOLEAN
PROOF
<1>1. inWhitespace \in BOOLEAN
  BY DEF Loading, ViewType
<1>2. SameKind => inWhitespace' = inWhitespace /\ (c = Space) = inWhitespace
  BY DEF SameKind
<1>3. OtherKind => inWhitespace' = ~inWhitespace /\ (c = Space) # inWhitespace
  BY DEF OtherKind
<1>4. ReadTab => inWhitespace' = inWhitespace
  BY DEF ReadTab
<1> DEFINE space == c = Space
<1>5. space \in BOOLEAN
  OBVIOUS
<1>6. SameKind => space = inWhitespace
  BY <1>2
<1>7. OtherKind => space # inWhitespace
  BY <1>3
<1> HIDE DEF space
<1>8. SameKind => (inWhitespace <=> space) /\ (inWhitespace' <=> space)
  BY <1>1, <1>2, <1>5, <1>6
<1>9. OtherKind => (inWhitespace <=> ~space) /\ (inWhitespace' <=> space)
  BY <1>1, <1>3, <1>5, <1>7
<1> QED BY <1>1, <1>4, <1>8, <1>9 DEF space

\* What follows blanks and is no blank starts a word or a comment.
LEMMA FromBlank ==
  ASSUME Loading, AtBlank, OtherKind
  PROVE  LoadingInv'
PROOF
<1>1. /\ get \in Nat \ {0} /\ Len(text) \in Nat /\ Len(source) \in Nat /\ Len(curLine) \in Nat
      /\ Line = Len(source) + 1 /\ Line = NewlinesBefore(text, get) + 1
      /\ source \in Seq(Seq(Segments)) /\ curLine \in Seq(Segments) /\ curWord \in Segments
  BY LoadingFacts
<1>2. /\ quote = 0 /\ inWhitespace /\ ~In(words, get - 1) /\ ~In(comments, get - 1)
  BY DEF AtBlank
<1>3. /\ get <= Len(text) /\ c = text[get] /\ text[get] \notin {Tab, NL, CR, Space}
  BY <1>2 DEF OtherKind, Reading, c
<1>4. /\ text' = text /\ words' = words /\ comments' = comments /\ source' = source
      /\ get' = get + 1 /\ curLine' = Append(curLine, curWord)
      /\ curWord' = [first |-> get, text |-> <<c>>] /\ inWhitespace' = FALSE
      /\ quote' = IF text[get] \in {Quote, Apostrophe} THEN text[get] ELSE 0
  BY <1>2, <1>3 DEF OtherKind, StartSegment, Segment, Read, lexerVars, text
<1>5. Len(source') = NewlinesBefore(text, get')
  BY <1>3, <1>4, SameLine
<1>6. SettledInv'
  BY <1>2, <1>4, StartSettles
<1>7. Len(curLine') = Len(curLine) + 1 /\ Len(curWord'.text) = 1 /\ curWord'.first = get
  BY <1>1, <1>4, AppendProperties
<1>8. ASSUME NEW i \in DOMAIN words, words[i].first = get
      PROVE  AtLiteral' \/ AtWord'
  <2>1. /\ words[i].first \in Nat /\ words[i].last \in Nat /\ get <= words[i].last
        /\ words[i].line = Line
    BY <1>1, <1>8, WordFacts DEF Loading
  <2>2. PICK n \in Nat : Len(curLine) = 2 * n /\ OpsBefore(words, Line, get, n)
    BY DEF AtBlank
  <2>3. words[i].op = n + 1
    BY <1>8, <2>1, <2>2, NextOp DEF Loading
  <2>4. InThe(words[i])'
    <3>1. Len(curLine') + 1 = 2 * words[i].op
      BY <1>7, <2>2, <2>3
    <3>2. Len(curWord'.text) = get' - words[i].first
      BY <1>1, <1>4, <1>7, <1>8
    <3> QED BY <1>4, <1>7, <1>8, <2>1, <3>1, <3>2 DEF InThe, Line
  <2>5. CASE words[i].delim = 0
    <3>1. quote' = 0
      BY <1>4, <1>8, <2>5, WordMore DEF Loading
    <3>2. get' \in words[i].first + 1 .. words[i].last + 1
      BY <1>1, <1>4, <1>8, <2>1
    <3> QED BY <1>4, <2>4, <2>5, <3>1, <3>2 DEF AtWord
  <2>6. CASE words[i].delim # 0
    <3>1. LiteralAt(text, words[i]) /\ quote' = words[i].delim
      BY <1>4, <1>8, <2>6, WordMore DEF Loading
    <3>2. PICK P \in SUBSET (words[i].first + 1 .. words[i].last) :
            Path(text, P, words[i].first, words[i].last, words[i].delim)
      BY <3>1 DEF LiteralAt, ReadAs
    <3>3. get' \in P
      BY <1>4, <1>8, <3>2 DEF Path
    <3> QED BY <1>4, <2>4, <2>6, <3>1, <3>2, <3>3 DEF AtLiteral
  <2> QED BY <2>5, <2>6
<1>9. ASSUME NEW i \in DOMAIN comments, comments[i].first = get PROVE AtComment'
  <2>1. /\ comments[i].first \in Nat /\ comments[i].last \in Nat /\ get <= comments[i].last
        /\ text[get] = Semicolon
    BY <1>9, CommentFacts DEF Loading
  <2>2. quote' = 0
    BY <1>4, <2>1 DEF Semicolon, Quote, Apostrophe
  <2>3. get' \in comments[i].first + 1 .. comments[i].last + 1
    BY <1>1, <1>4, <1>9, <2>1
  <2> QED BY <1>4, <2>2, <2>3 DEF AtComment
<1>10. AtLiteral' \/ AtWord' \/ AtComment'
  BY <1>2, <1>3, <1>8, <1>9, TokenStarts
<1> QED BY <1>4, <1>5, <1>6, <1>10 DEF LoadingInv

\* On through a word, or from its end to the blank after it.
LEMMA FromWord ==
  ASSUME Loading, AtWord, ReadTab \/ SameKind \/ OtherKind
  PROVE  LoadingInv'
PROOF
<1>1. /\ get \in Nat \ {0} /\ Len(text) \in Nat /\ Len(source) \in Nat /\ Len(curLine) \in Nat
      /\ Line = Len(source) + 1
      /\ source \in Seq(Seq(Segments)) /\ curLine \in Seq(Segments) /\ curWord \in Segments
  BY LoadingFacts
<1>2. get <= Len(text)
  BY DEF ReadTab, SameKind, OtherKind, Reading
<1>3. quote = 0
  BY DEF AtWord
<1>4. PICK i \in DOMAIN words :
        /\ InThe(words[i]) /\ get \in words[i].first + 1 .. words[i].last + 1
        /\ words[i].delim = 0 \/ get = words[i].last + 1
  BY DEF AtWord
<1>5. /\ words[i].first \in Nat /\ words[i].last \in Nat /\ words[i].first <= words[i].last
      /\ words[i].op \in Nat \ {0} /\ words[i].last <= Len(text)
  BY WordFacts DEF Loading
<1>6. /\ curWord.first = words[i].first /\ Len(curWord.text) = get - words[i].first
      /\ Len(curLine) + 1 = 2 * words[i].op /\ words[i].line = Line /\ ~inWhitespace
  BY <1>4 DEF InThe
<1>7. /\ text' = text /\ words' = words /\ comments' = comments /\ source' = source
      /\ get' = get + 1 /\ Line' = Line
  BY DEF ReadTab, SameKind, OtherKind, Read, lexerVars, text, Line
<1>8. get - 1 \in words[i].first .. words[i].last
  BY <1>1, <1>4, <1>5
<1>9. (\A j \in DOMAIN words : get - 1 \in words[j].first .. words[j].last => j = i) /\ ~In(comments, get - 1)
  BY <1>8, OneToken DEF Loading
<1>10. CASE get <= words[i].last
  <2>1. words[i].delim = 0 /\ get \in words[i].first .. words[i].last
    BY <1>1, <1>4, <1>5, <1>10
  <2>2. ~IsSpace(text[get])
    <3>1. PlainAt(text, words[i])
      BY <2>1, WordMore DEF Loading
    <3> QED BY <2>1, <3>1 DEF PlainAt
  <2>3. text[get] \notin {Tab, NL, CR, Space}
    BY <2>2 DEF IsSpace, Tab, NL, CR, Space
  <2>4. c = text[get]
    BY <2>3 DEF c
  <2>5. SameKind
    BY <1>6, <2>3, <2>4, Kinds DEF ReadTab
  <2>6. /\ curLine' = curLine /\ curWord' = [curWord EXCEPT !.text = @ \o <<c>>]
        /\ inWhitespace' = inWhitespace /\ quote' = 0
    BY <1>3, <2>5 DEF SameKind, Append2
  <2>7. curWord'.first = words[i].first /\ Len(curWord'.text) = get' - words[i].first
    <3>1. curWord.text \in Seq(Nat) /\ curWord'.text = curWord.text \o <<c>> /\ curWord'.first = curWord.first
      BY <1>1, <2>6 DEF Segments
    <3>2. c \in Nat
      BY <1>1, <1>2, <2>4, TextFacts DEF Loading, LexInv
    <3>3. Len(curWord.text \o <<c>>) = Len(curWord.text) + 1
      <4>1. <<c>> \in Seq(Nat) /\ Len(<<c>>) = 1
        BY <3>2
      <4> QED BY <3>1, <4>1, ConcatProperties
    <3>4. get' = get + 1
      BY <1>7
    <3>5. Len(curWord'.text) = (get - words[i].first) + 1 /\ curWord'.first = words[i].first
      BY <1>6, <3>1, <3>3
    <3>6. get \in Int /\ words[i].first \in Int
      BY <1>1, <1>5
    <3>7. get' - words[i].first = (get - words[i].first) + 1
      BY <3>4, <3>6
    <3> QED BY <3>5, <3>7
  <2>8. InThe(words[i])'
    <3>1. ~inWhitespace'
      BY <1>6, <2>5, Kinds
    <3>2. curLine' = curLine
      BY <2>6
    <3>3. Len(curLine') + 1 = 2 * words[i].op
      BY <1>6, <3>2
    <3>4. words[i].line = Line'
      BY <1>6, <1>7
    <3> QED BY <1>7, <2>7, <3>1, <3>3, <3>4 DEF InThe
  <2>9. AtWord'
    <3>1. get' \in words[i].first + 1 .. words[i].last + 1
      BY <1>1, <1>5, <1>7, <2>1
    <3> QED BY <1>7, <2>1, <2>6, <2>8, <3>1 DEF AtWord
  <2>10. SettledInv'
    <3>1. \A j \in DOMAIN words : get - 1 \in words[j].first .. words[j].last => words[j].last # get - 1
      BY <1>1, <1>5, <1>9, <1>10
    <3> QED BY <1>7, <2>6, <3>1, NoneEnds, KeepsSettled
  <2> QED BY <1>2, <1>7, <2>3, <2>9, <2>10, SameLine DEF LoadingInv
<1>11. CASE get = words[i].last + 1
  <2>1. text[get] \in {Space, NL, CR}
    <3>1. words[i].last < Len(text)
      BY <1>2, <1>5, <1>11
    <3>2. Follows(words[i].last) = text[get]
      BY <1>11, <3>1 DEF Follows
    <3>3. CASE words[i].delim # 0
      BY <3>2, <3>3 DEF Loading, Tidy
    <3>4. CASE words[i].delim = 0
      <4>1. text[get] # Tab
        BY <3>2, <3>4 DEF Loading, Tidy
      <4>2. IsSpace(text[get])
        <5>1. PlainAt(text, words[i])
          BY <3>4, WordMore DEF Loading
        <5> QED BY <1>11, <3>1, <5>1 DEF PlainAt
      <4>3. get \in DOMAIN text
        BY <1>1, <1>2, TextFacts DEF Loading, LexInv
      <4> QED BY <4>1, <4>2, <4>3 DEF Loading, Tidy
    <3> QED BY <3>3, <3>4
  <2>2. c \in {Space, NL} /\ (c = NL <=> text[get] = NL)
    BY <1>3, <2>1 DEF c, Space, NL, CR
  <2>3. OtherKind /\ c = Space /\ text[get] \in {Space, CR}
    <3>1. c # Tab /\ Space # NL
      BY <2>2 DEF Space, NL, Tab
    <3> QED BY <1>6, <2>1, <2>2, <3>1, Kinds DEF ReadTab, SameKind, OtherKind
  <2>4. /\ curLine' = Append(curLine, curWord) /\ inWhitespace' /\ quote' = 0
    <3>1. curLine' = Append(curLine, curWord) /\ quote' = 0
      BY <2>3 DEF OtherKind, StartSegment, Space, Quote, Apostrophe
    <3> QED BY <2>3, <3>1, Kinds
  <2>5. Len(curLine') = 2 * words[i].op
    <3>1. Len(curLine') = Len(curLine) + 1
      BY <1>1, <2>4, AppendProperties
    <3> QED BY <1>6, <3>1
  <2>6. ~In(words, get) /\ ~In(comments, get)
    <3>1. \A j \in DOMAIN words : get - 1 \in words[j].first .. words[j].last => get - 1 = words[j].last
      BY <1>1, <1>5, <1>9, <1>11
    <3> QED BY <1>2, <1>9, <2>3, <3>1, NoTokenStarts
  <2>7. SettledInv'
    BY <1>3, <1>7, <2>4, StartSettles
  <2>8. OpsBefore(words, Line, get + 1, words[i].op)
    <3>1. ASSUME NEW j \in DOMAIN words, words[j].last < get + 1 PROVE j <= i
      <4>1. /\ words[j].first \in Nat /\ words[j].last \in Nat /\ words[j].first <= words[j].last
            /\ i \in Nat /\ j \in Nat
        BY WordFacts DEF Loading
      <4>2. words[j].last # get
        <5>1. words[j].last \in words[j].first .. words[j].last
          BY <4>1
        <5> QED BY <2>6, <5>1 DEF In
      <4>3. i < j => words[i].last < words[j].first
        BY DEF Loading, ScanInv, WordsInv
      <4>4. ~(words[i].last < words[j].first)
        <5>1. words[j].last <= get - 1 /\ words[i].last = get - 1
          <6>1. get \in Nat /\ words[j].last \in Nat /\ words[j].last < get + 1 /\ words[j].last # get
            BY <1>1, <3>1, <4>1, <4>2
          <6>2. words[i].last = get - 1
            BY <1>5, <1>11
          <6> QED BY <6>1, <6>2
        <5>2. get - 1 \in Int
          BY <1>1
        <5> QED BY <4>1, <5>1, <5>2
      <4> QED BY <4>1, <4>3, <4>4
    <3>2. words[i].last < get + 1
      BY <1>5, <1>11
    <3> QED BY <1>6, <3>1, <3>2 DEF OpsBefore
  <2>9. AtBlank'
    <3>1. get' - 1 = get /\ words[i].op \in Nat
      BY <1>1, <1>5, <1>7
    <3>2. \E n \in Nat : Len(curLine') = 2 * n /\ OpsBefore(words, Line, get + 1, n)
      BY <2>5, <2>8, <3>1
    <3> QED BY <1>7, <2>4, <2>6, <3>1, <3>2 DEF AtBlank
  <2>10. text[get] # NL
    BY <2>3 DEF Space, CR, NL
  <2> QED BY <1>2, <1>7, <2>7, <2>9, <2>10, SameLine DEF LoadingInv
<1>12. get <= words[i].last \/ get = words[i].last + 1
  BY <1>1, <1>4, <1>5
<1> QED BY <1>10, <1>11, <1>12

\* On through a comment, which no quote after a blank interrupts.
LEMMA FromComment ==
  ASSUME Loading, AtComment, ReadTab \/ SameKind \/ OtherKind
  PROVE  LoadingInv'
PROOF
<1>1. /\ get \in Nat \ {0} /\ Len(text) \in Nat /\ Len(source) \in Nat
      /\ source \in Seq(Seq(Segments)) /\ curLine \in Seq(Segments) /\ curWord \in Segments
  BY LoadingFacts
<1>2. /\ get <= Len(text) /\ c # NL
  BY DEF ReadTab, SameKind, OtherKind, Reading, NL, Tab
<1>3. quote = 0 /\ (inWhitespace => text[get - 1] \in {Space, Tab, CR})
  BY DEF AtComment
<1>4. PICK i \in DOMAIN comments : get \in comments[i].first + 1 .. comments[i].last + 1
  BY DEF AtComment
<1>5. /\ comments[i].first \in Nat /\ comments[i].last \in Nat
      /\ comments[i].last = Len(text) \/ text[comments[i].last + 1] = NL
  BY CommentFacts DEF Loading
<1>6. /\ text' = text /\ words' = words /\ comments' = comments /\ source' = source
      /\ get' = get + 1
  BY DEF ReadTab, SameKind, OtherKind, Read, lexerVars, text
<1>7. text[get] # NL /\ c = (IF text[get] = CR THEN Space ELSE text[get])
  BY <1>2, <1>3 DEF c, NL, CR
<1>8. get \in comments[i].first + 1 .. comments[i].last
  BY <1>1, <1>2, <1>4, <1>5, <1>7
<1>9. get' \in comments[i].first + 1 .. comments[i].last + 1
  BY <1>1, <1>5, <1>6, <1>8
<1>10. In(comments, get - 1)
  <2>1. get - 1 \in comments[i].first .. comments[i].last
    BY <1>1, <1>5, <1>8
  <2> QED BY <2>1 DEF In
<1>11. inWhitespace => text[get] \notin {Quote, Apostrophe}
  BY <1>3, <1>8 DEF Loading, Tidy
<1>12. AtComment'
  <2>1. quote' = 0
    <3>1. CASE OtherKind /\ inWhitespace
      <4>1. c = text[get]
        BY <1>7, <3>1, Kinds
      <4> QED BY <1>11, <3>1, <4>1 DEF OtherKind
    <3>2. CASE OtherKind /\ ~inWhitespace
      <4>1. c = Space
        BY <3>2, Kinds
      <4> QED BY <3>2, <4>1 DEF OtherKind, Space, Quote, Apostrophe
    <3>3. CASE ReadTab \/ SameKind
      BY <1>3, <3>3 DEF ReadTab, SameKind
    <3> QED BY <3>1, <3>2, <3>3
  <2>2. inWhitespace' => text[get] \in {Space, Tab, CR}
    <3>1. ReadTab => text[get] = Tab
      BY <1>7 DEF ReadTab, Space, Tab
    <3> QED BY <1>7, <3>1, Kinds
  <2>3. get' - 1 = get
    BY <1>1, <1>6
  <2> QED BY <1>6, <1>9, <2>1, <2>2, <2>3 DEF AtComment
<1>13. SettledInv'
  <2>1. curLine' = curLine \/ curLine' = Append(curLine, curWord)
    BY DEF ReadTab, SameKind, OtherKind, Append2, StartSegment
  <2>2. \A j \in DOMAIN words : get - 1 \notin words[j].first .. words[j].last
    BY <1>10, OneToken DEF Loading
  <2> QED BY <1>3, <1>6, <2>1, <2>2, NoneEnds, KeepsSettled, StartSettles
<1> QED BY <1>2, <1>6, <1>7, <1>12, <1>13, SameLine DEF LoadingInv

\* On through a literal, as the compiler has read it.
LEMMA FromLiteral ==
  ASSUME Loading, AtLiteral, InQuote
  PROVE  LoadingInv'
PROOF
<1>1. /\ get \in Nat \ {0} /\ Len(text) \in Nat /\ Len(source) \in Nat
      /\ source \in Seq(Seq(Segments)) /\ curLine \in Seq(Segments) /\ curWord \in Segments
      /\ Len(source) = NewlinesBefore(text, get)
  BY LoadingFacts DEF Loading, LoadingInv
<1>2. PICK i \in DOMAIN words :
        /\ InThe(words[i]) /\ quote = words[i].delim /\ words[i].delim # 0
        /\ \E P \in SUBSET (words[i].first + 1 .. words[i].last) :
             Path(text, P, words[i].first, words[i].last, words[i].delim) /\ get \in P
  BY DEF AtLiteral
<1> DEFINE first == words[i].first
           last == words[i].last
           d == words[i].delim
<1>3. PICK P \in SUBSET (first + 1 .. last) : Path(text, P, first, last, d) /\ get \in P
  BY <1>2
<1>4. /\ first \in Nat /\ last \in Nat /\ last <= Len(text) /\ get \in first + 1 .. last
  BY <1>3, WordFacts DEF Loading
<1>5. /\ curWord.first = first /\ Len(curWord.text) = get - first
      /\ Len(curLine) + 1 = 2 * words[i].op /\ words[i].line = Line /\ ~inWhitespace
  BY <1>2 DEF InThe
<1>6. c = text[get] /\ quote = d /\ d # 0 /\ d \in {Quote, Apostrophe} /\ text[last] = d
  <2>1. LiteralAt(text, words[i])
    BY <1>2, WordMore DEF Loading
  <2> QED BY <1>2, <2>1 DEF c, LiteralAt
<1>7. /\ text' = text /\ words' = words /\ comments' = comments /\ source' = source /\ Line' = Line
      /\ curLine' = curLine /\ inWhitespace' = inWhitespace
  BY DEF InQuote, Append2, Read, lexerVars, text, Line
<1>8. \A k \in first .. last : text[k] # NL
  BY WordMore DEF Loading
<1>9. \A k \in first .. last, j \in DOMAIN words : k \in words[j].first .. words[j].last => j = i
  BY OneToken DEF Loading
<1>10. curWord.text \in Seq(Nat) /\ \A k \in 1 .. Len(text) : text[k] \in Nat
  BY <1>1, TextFacts DEF Loading, LexInv, Segments
<1> HIDE DEF first, last, d
\* n characters of the word have been read.
<1>11. ASSUME NEW n \in 1 .. 2, NEW chars \in Seq(Nat), Len(chars) = n, Append2(chars), get' = get + n,
              get + n <= last + 1
       PROVE  SettledInv' /\ Len(source') = NewlinesBefore(text, get') /\ InThe(words[i])'
  <2>1. NewlinesBefore(text, get) = NewlinesBefore(text, get + n)
    <3>1. \A k \in get .. get + n - 1 : text[k] # NL
      BY <1>1, <1>4, <1>8, <1>11
    <3>2. get \in Nat /\ get + n \in Nat /\ get <= get + n
      BY <1>1
    <3> DEFINE m == get + n
    <3>3. m \in Nat /\ get <= m /\ \A k \in get .. m - 1 : text[k] # NL
      BY <3>1, <3>2
    <3> HIDE DEF m
    <3>4. NewlinesBefore(text, get) = NewlinesBefore(text, m)
      BY <3>2, <3>3, NewlinesSame
    <3> QED BY <3>4 DEF m
  <2>2. InThe(words[i])'
    <3>1. curWord'.first = curWord.first /\ curWord'.text = curWord.text \o chars
      BY <1>1, <1>11 DEF Append2, Segments
    <3>2. Len(curWord'.text) = Len(curWord.text) + n
      BY <1>10, <1>11, <3>1, ConcatProperties
    <3>3. Len(curWord'.text) = get' - first
      BY <1>1, <1>4, <1>5, <1>11, <3>2
    <3> QED BY <1>5, <1>7, <3>1, <3>3 DEF InThe, first
  <2>3. ASSUME NEW j \in DOMAIN words, words[j].last + 1 < get' PROVE words[j].last + 1 < get
    <3>1. words[j].first \in Nat /\ words[j].last \in Nat /\ words[j].first <= words[j].last
      BY WordFacts DEF Loading
    <3>2. CASE j = i
      <4>1. last + 1 < get + n
        BY <1>11, <2>3, <3>2 DEF last
      <4> QED BY <1>1, <1>4, <1>11, <4>1
    <3>3. CASE j # i
      <4>1. words[j].last \notin first .. last
        <5>1. words[j].last \in words[j].first .. words[j].last
          BY <3>1
        <5> QED BY <1>9, <3>3, <5>1
      <4>2. words[j].last < get + n - 1
        BY <1>1, <1>11, <2>3, <3>1
      <4>3. words[j].last < last
        BY <1>1, <1>4, <1>11, <3>1, <4>2
      <4>4. words[j].last < first
        BY <1>4, <3>1, <4>1, <4>3
      <4> QED BY <1>1, <1>4, <3>1, <4>4
    <3> QED BY <3>2, <3>3
  <2>4. SettledInv'
    BY <1>7, <2>3, KeepsSettled
  <2> QED BY <1>1, <1>7, <1>11, <2>1, <2>2, <2>4
<1>12. CASE get = last
  <2>1. c = d /\ c # Backslash
    BY <1>6, <1>12 DEF Quote, Apostrophe, Backslash
  <2>2. Append2(<<c>>) /\ quote' = 0 /\ get' = get + 1
    BY <1>6, <2>1 DEF InQuote, Read
  <2>3. <<c>> \in Seq(Nat) /\ Len(<<c>>) = 1 /\ get + 1 <= last + 1
    BY <1>1, <1>4, <1>6, <1>10, <1>12
  <2>4. SettledInv' /\ Len(source') = NewlinesBefore(text, get') /\ InThe(words[i])'
    <3>1. 1 \in 1 .. 2
      OBVIOUS
    <3> QED BY <1>11, <2>2, <2>3, <3>1
  <2>5. get' \in first + 1 .. last + 1 /\ get' = last + 1
    BY <1>1, <1>4, <1>12, <2>2
  <2>6. AtWord'
    BY <1>7, <2>2, <2>4, <2>5 DEF AtWord, first, last
  <2> QED BY <1>7, <2>4, <2>6 DEF LoadingInv
<1>13. CASE get # last
  <2>1. text[get] # d /\ (IF text[get] = Backslash THEN get + 2 ELSE get + 1) \in P
    BY <1>3, <1>13 DEF Path
  <2>2. get < Len(text)
    BY <1>1, <1>4, <1>13
  <2>3. ASSUME get' \in P, quote' = quote, InThe(words[i])' PROVE AtLiteral'
    BY <1>2, <1>3, <1>7, <2>3 DEF AtLiteral, first, last, d
  <2>4. CASE text[get] = Backslash
    <3>1. Append2(<<c, text[get + 1]>>) /\ get' = get + 2 /\ quote' = quote
      BY <1>6, <2>2, <2>4 DEF InQuote, Read
    <3>2. get' \in P /\ get + 2 <= last + 1
      <4>1. get + 2 \in P
        BY <2>1, <2>4
      <4>2. get + 2 \in first + 1 .. last
        BY <1>3, <4>1
      <4> QED BY <1>1, <1>4, <3>1, <4>1, <4>2
    <3>3. <<c, text[get + 1]>> \in Seq(Nat) /\ Len(<<c, text[get + 1]>>) = 2
      <4>1. c \in Nat /\ text[get + 1] \in Nat
        BY <1>1, <1>4, <1>6, <1>10, <2>2
      <4> QED BY <4>1
    <3>4. SettledInv' /\ Len(source') = NewlinesBefore(text, get') /\ InThe(words[i])'
      <4>1. 2 \in 1 .. 2
        OBVIOUS
      <4> QED BY <1>11, <3>1, <3>2, <3>3, <4>1
    <3> QED BY <1>7, <2>3, <3>1, <3>2, <3>4 DEF LoadingInv
  <2>5. CASE text[get] # Backslash
    <3>1. Append2(<<c>>) /\ get' = get + 1 /\ quote' = quote
      BY <1>6, <2>1, <2>5 DEF InQuote, Read
    <3>2. get' \in P /\ get + 1 <= last + 1
      BY <1>1, <1>4, <2>1, <2>5, <3>1
    <3>3. <<c>> \in Seq(Nat) /\ Len(<<c>>) = 1
      BY <1>1, <1>4, <1>6, <1>10
    <3>4. SettledInv' /\ Len(source') = NewlinesBefore(text, get') /\ InThe(words[i])'
      <4>1. 1 \in 1 .. 2
        OBVIOUS
      <4> QED BY <1>11, <3>1, <3>2, <3>3, <4>1
    <3> QED BY <1>7, <2>3, <3>1, <3>2, <3>4 DEF LoadingInv
  <2> QED BY <2>4, <2>5
<1> QED BY <1>12, <1>13

\* The end of the file ends its last line.
LEMMA FileLoads ==
  ASSUME Loading, EndOfFile, shown = {}
  PROVE  LoadedInv'
PROOF
<1>1. /\ get \in Nat \ {0} /\ Len(text) \in Nat /\ Len(source) \in Nat /\ get = Len(text) + 1
      /\ source \in Seq(Seq(Segments)) /\ curLine \in Seq(Segments) /\ curWord \in Segments
      /\ Len(source) = NewlinesBefore(text, get)
  BY LoadingFacts DEF Loading, LoadingInv, EndOfFile
<1> DEFINE l == Append(curLine, curWord)
<1>2. /\ source' = Append(source, l) /\ text' = text /\ words' = words /\ curLine' = curLine
      /\ shown' = {}
  BY DEF EndOfFile, EndLine, lexerVars, text
<1>3. l \in Seq(Segments) /\ Len(source') = Len(source) + 1
  BY <1>1, <1>2, AppendProperties
<1>4. \A i \in DOMAIN words : words[i].last < get
  BY <1>1, WordFacts DEF Loading
<1>5. ASSUME AtLiteral PROVE FALSE
  <2>1. PICK i \in DOMAIN words :
          \E P \in SUBSET (words[i].first + 1 .. words[i].last) : get \in P
    BY <1>5 DEF AtLiteral
  <2>2. words[i].last \in Nat /\ words[i].first \in Nat /\ get <= words[i].last
    <3>1. words[i].last \in Nat /\ words[i].first \in Nat
      BY WordFacts DEF Loading
    <3>2. get \in words[i].first + 1 .. words[i].last
      BY <2>1
    <3> QED BY <3>1, <3>2
  <2> QED BY <1>1, <1>4, <2>2
<1>6. quote = 0
  BY <1>5 DEF Loading, LoadingInv, AtWord, AtComment, AtBlank
<1>7. ASSUME NEW i \in DOMAIN words
      PROVE  words[i].line <= Len(source') /\ Settled(source', curLine', words[i])
  <2>1. words[i].line \in Nat \ {0} /\ Settled(source, l, words[i])
    BY <1>4, <1>6, AllSettled, WordFacts DEF Loading
  <2> HIDE DEF l
  <2> QED BY <1>1, <1>2, <1>3, <2>1, SettledLine
<1> QED BY <1>1, <1>2, <1>3, <1>7 DEF LoadedInv

\* Every step of getSource keeps its place among the words.
LEMMA LoadingStep ==
  ASSUME Loading, ViewNext, shown = {}
  PROVE  IF loaded' THEN LoadedInv' ELSE LoadingInv'
PROOF
<1>1. ~loaded /\ Len(text) \in Nat
  BY LoadingFacts DEF Loading
<1>2. CASE NewLine
  <2>1. loaded' = loaded
    BY <1>2 DEF NewLine, Read
  <2> QED BY <1>1, <1>2, <2>1, NewLineLoads
<1>3. CASE EndOfFile
  BY <1>3, FileLoads DEF EndOfFile
<1>4. CASE \E w \in ToSet(words), height \in Heights : PrintSource(w, height)
  BY <1>1, <1>4 DEF PrintSource
<1>5. CASE InQuote
  <2>1. loaded' = loaded /\ quote # 0
    BY <1>5 DEF InQuote, Read
  <2>2. AtLiteral
    BY <2>1 DEF Loading, LoadingInv, AtWord, AtComment, AtBlank
  <2> QED BY <1>1, <1>5, <2>1, <2>2, FromLiteral
<1>6. CASE ReadTab \/ SameKind \/ OtherKind
  <2>1. loaded' = loaded /\ quote = 0 /\ get <= Len(text)
    BY <1>6 DEF ReadTab, SameKind, OtherKind, Read, Reading
  <2>2. ~AtLiteral
    BY <2>1 DEF AtLiteral
  <2>3. CASE AtWord
    BY <1>1, <1>6, <2>1, <2>3, FromWord
  <2>4. CASE AtComment
    BY <1>1, <1>6, <2>1, <2>4, FromComment
  <2>5. CASE AtBlank /\ OtherKind
    BY <1>1, <2>1, <2>5, FromBlank
  <2>6. CASE AtBlank /\ ~OtherKind
    <3>1. inWhitespace /\ inWhitespace = TRUE
      BY <2>6, Kinds DEF AtBlank
    <3>2. CASE ReadTab
      <4>1. text[get] = Tab
        BY <2>1, <3>2 DEF ReadTab, c, Space, Tab
      <4>2. /\ UNCHANGED <<source, curLine, quote, inWhitespace, text, words, comments>>
            /\ get' = get + 1
        BY <3>1, <3>2 DEF ReadTab, Append2, Read, lexerVars, text
      <4> QED BY <1>1, <2>1, <2>6, <4>1, <4>2, BlankStays
    <3>3. CASE SameKind
      <4>1. c = Space
        BY <3>1, <3>3, Kinds
      <4>2. text[get] \in {Space, CR}
        BY <4>1 DEF c
      <4>3. /\ UNCHANGED <<source, curLine, quote, inWhitespace, text, words, comments>>
            /\ get' = get + 1
        BY <3>3 DEF SameKind, Append2, Read, lexerVars, text
      <4> QED BY <1>1, <2>1, <2>6, <4>2, <4>3, BlankStays
    <3> QED BY <1>6, <2>6, <3>2, <3>3
  <2> QED BY <2>2, <2>3, <2>4, <2>5, <2>6 DEF Loading, LoadingInv
<1> QED BY <1>2, <1>3, <1>4, <1>5, <1>6 DEF ViewNext

LEMMA PlacesInit ==
  ASSUME Init
  PROVE  PlacesInv
PROOF
BY DEF Init, LexerInit, PlacesInv, NotLoading

\* The end of the input starts getSource.
LEMMA PlacesLex ==
  ASSUME LexInv, ScanInv, PlacesInv, [LexerNext]_lexerVars, UNCHANGED viewVars
  PROVE  PlacesInv'
PROOF
<1>1. CASE mode = "end"
  <2>1. UNCHANGED lexerVars
    BY <1>1 DEF LexerNext, Blank, PlainWord, Comment, OpenLiteral, EndOfInput, ReadCharacter,
                ReadEscape, CloseLiteral, Unterminated, Between, InLiteral
  <2>2. UNCHANGED <<text, words, comments, mode, delim, next>>
    BY <2>1 DEF lexerVars, wordVars, text
  <2> QED BY <1>1, <2>2 DEF PlacesInv, LoadedInv, LoadingInv, SettledInv, AtLiteral, AtWord,
          AtComment, AtBlank, InThe, Line, Tidy, Follows, FirstLine, LastLineFrom, viewVars
<1>2. CASE mode # "end" /\ mode' # "end"
  BY <1>2 DEF PlacesInv, NotLoading, viewVars
<1>3. CASE mode # "end" /\ mode' = "end"
  <2>1. EndOfInput
    BY <1>3 DEF LexerNext, lexerVars, Blank, PlainWord, Comment, OpenLiteral, ReadCharacter,
                ReadEscape, Take, Raise, CloseLiteral, Unterminated
  <2>2. /\ text' = text /\ UNCHANGED <<words, comments, delim, next>>
        /\ delim = 0 /\ next = Len(text) + 1
    <3>1. text' = text /\ UNCHANGED <<words, comments, delim, next>>
      BY <2>1 DEF EndOfInput, wordVars, text
    <3>2. delim = 0 /\ next > Len(text) /\ next \in 1 .. Len(text) + 1 /\ Len(text) \in Nat
      BY <2>1, TextFacts DEF EndOfInput, LexInv
    <3> QED BY <3>1, <3>2
  <2>3. /\ get' = 1 /\ source' = <<>> /\ curLine' = <<>> /\ inWhitespace' /\ quote' = 0 /\ ~loaded'
        /\ shown' = {}
    BY <1>3 DEF PlacesInv, NotLoading, viewVars
  <2>4. \A i \in DOMAIN words : words[i].last \in Nat /\ words[i].last >= 1
    <3> TAKE i \in DOMAIN words
    <3>1. words[i].first \in 1 .. Len(text) /\ words[i].last \in Nat /\ words[i].first <= words[i].last
      BY WordFacts
    <3> QED BY <3>1
  <2>5. ~In(words, 0) /\ ~In(comments, 0)
    <3>1. \A i \in DOMAIN words : 0 \notin words[i].first .. words[i].last
      BY WordFacts
    <3>2. ASSUME NEW i \in DOMAIN comments PROVE 0 \notin comments[i].first .. comments[i].last
      <4>1. CommentAt(text, comments[i])
        BY DEF ScanInv, CommentsInv
      <4> QED BY <4>1 DEF CommentAt
    <3> QED BY <3>1, <3>2 DEF In
  <2>6. NewlinesBefore(text, 1) = 0
    <3>1. {j \in 1 .. 1 - 1 : text[j] = NL} = {}
      OBVIOUS
    <3> QED BY <3>1, FS_EmptySet DEF NewlinesBefore
  <2>7. OpsBefore(words, Line', 1, 0)
    BY <2>4 DEF OpsBefore
  <2>8. AtBlank'
    <3>1. Len(curLine') = 2 * 0 /\ get' - 1 = 0 /\ 0 \in Nat
      BY <2>3
    <3>2. \E n \in Nat : Len(curLine') = 2 * n /\ OpsBefore(words, Line', 1, n)
      BY <2>7, <3>1
    <3> QED BY <2>2, <2>3, <2>5, <3>1, <3>2 DEF AtBlank
  <2>9. SettledInv'
    <3>1. \A i \in DOMAIN words : ~(words[i].last + 1 < 1)
      BY <2>4
    <3> QED BY <2>2, <2>3, <3>1 DEF SettledInv
  <2>10. Len(source') = 0
    BY <2>3
  <2>11. LoadingInv'
    BY <2>2, <2>3, <2>6, <2>8, <2>9, <2>10 DEF LoadingInv
  <2> QED BY <1>3, <2>2, <2>3, <2>11 DEF PlacesInv
<1> QED BY <1>1, <1>2, <1>3

LEMMA PlacesStep ==
  ASSUME TypeInv, ScanInv, PlacesInv, [Next]_vars
  PROVE  PlacesInv'
PROOF
<1>1. LexInv /\ ViewType
  BY DEF TypeInv
<1>2. CASE [LexerNext]_lexerVars /\ UNCHANGED viewVars
  BY <1>1, <1>2, PlacesLex
<1>3. CASE ViewNext
  <2>1. UNCHANGED lexerVars
    BY <1>3, ViewKeepsLexer DEF ViewKeeps
  <2>2. UNCHANGED <<text, words, comments, mode, delim, next>>
    BY <2>1 DEF lexerVars, wordVars, text
  <2>3. mode = "end"
    BY <1>1, <1>3 DEF PlacesInv, NotLoading, ViewNext, NewLine, ReadTab, SameKind, OtherKind,
                      InQuote, EndOfFile, PrintSource, Reading
  <2>4. delim = 0 /\ next = Len(text) + 1 /\ Scanned = Len(text) + 1
    BY <2>3 DEF PlacesInv, Scanned
  <2>5. Tidy' = Tidy
    BY <2>2 DEF Tidy, Follows
  <2>6. CASE ~loaded
    <3>1. shown = {}
      BY <2>6 DEF PlacesInv
    <3>2. shown' = {}
      BY <1>3, <2>6, <3>1 DEF ViewNext, NewLine, ReadTab, SameKind, OtherKind, InQuote, Read,
                              EndOfFile, PrintSource
    <3>3. ASSUME Tidy PROVE IF loaded' THEN LoadedInv' ELSE LoadingInv'
      <4>1. Loading
        BY <1>1, <2>3, <2>4, <2>6, <3>3 DEF Loading, PlacesInv
      <4> QED BY <1>3, <3>1, <4>1, LoadingStep
    <3> QED BY <2>2, <2>3, <2>4, <2>5, <3>2, <3>3 DEF PlacesInv
  <2>7. CASE loaded
    <3>1. PICK w \in ToSet(words), height \in Heights : PrintSource(w, height)
      BY <1>3, <2>7 DEF ViewNext, NewLine, ReadTab, SameKind, OtherKind, InQuote, EndOfFile, Reading
    <3>2. /\ UNCHANGED <<source, curLine, loaded>>
          /\ shown' = {[word |-> w, line |-> w.line - 1, segment |-> 2 * (w.op - 1) + 1,
                        height |-> height, firstLine |-> FirstLine(w.line - 1, height)]}
      BY <3>1 DEF PrintSource
    <3>3. ASSUME Tidy PROVE LoadedInv'
      <4>1. LoadedInv
        BY <2>3, <2>7, <3>3 DEF PlacesInv
      <4>2. \A s \in shown' : \E v \in ToSet(words), h \in Heights :
              s = [word |-> v, line |-> v.line - 1, segment |-> 2 * (v.op - 1) + 1,
                   height |-> h, firstLine |-> FirstLine(v.line - 1, h)]
        BY <3>2
      <4> QED BY <2>2, <3>2, <4>1, <4>2 DEF LoadedInv, FirstLine, LastLineFrom
    <3> QED BY <2>2, <2>3, <2>4, <2>5, <2>7, <3>2, <3>3 DEF PlacesInv
  <2> QED BY <2>6, <2>7
<1> QED BY <1>2, <1>3 DEF Next, vars

-----------------------------------------------------------------------------
(***************************************************************************)
(* What is shown at a word.                                                *)
(***************************************************************************)
\* In what getSource has returned, every word has its segment.
LEMMA WordStandsOut ==
  ASSUME LexInv, ScanInv, Tidy, LoadedInv, NEW s \in shown
  PROVE  LET segment == source[s.line + 1][s.segment + 1] IN
         /\ segment.first = s.word.first
         /\ segment.first + Len(segment.text) - 1 = s.word.last
PROOF
<1>1. PICK w \in ToSet(words), height \in Heights :
        s = [word |-> w, line |-> w.line - 1, segment |-> 2 * (w.op - 1) + 1,
             height |-> height, firstLine |-> FirstLine(w.line - 1, height)]
  BY DEF LoadedInv
<1>2. PICK i \in DOMAIN words : w = words[i]
  BY DEF ToSet
<1>3. /\ w.first \in Nat /\ w.last \in Nat /\ w.line \in Nat \ {0} /\ w.op \in Nat \ {0}
  BY <1>2, WordFacts
<1>4. w.line <= Len(source) /\ Settled(source, curLine, w)
  BY <1>2 DEF LoadedInv
<1>5. Matches(source[w.line][2 * w.op], w)
  BY <1>4 DEF Settled
<1>6. s.line + 1 = w.line /\ s.segment + 1 = 2 * w.op /\ s.word = w
  BY <1>1, <1>3
<1> HIDE DEF LoadedInv
<1> DEFINE segment == source[w.line][2 * w.op]
<1>7. segment.first = w.first /\ Len(segment.text) = w.last - w.first + 1
  BY <1>5 DEF Matches
<1> HIDE DEF segment
<1>8. segment.first + Len(segment.text) - 1 = w.last
  BY <1>3, <1>7
<1>9. segment = source[s.line + 1][s.segment + 1]
  BY <1>6 DEF segment
<1> QED BY <1>6, <1>7, <1>8, <1>9

\* The window holds the line, and its border does not cover it, if a line follows.
LEMMA FirstLineFacts ==
  ASSUME NEW line \in Nat, NEW height \in Nat \ {0}, Len(source) \in Nat, line < Len(source) - 1
  PROVE  line - FirstLine(line, height) + 1 \in 1 .. height
PROOF
<1> DEFINE half == (height - 1) \div 2
           first == AtLeast(line - half, 0)
           end == LastLineFrom(first, height)
<1>1. half \in Nat /\ 2 * half <= height - 1
  OBVIOUS
<1> HIDE DEF half
<1>2. first \in Nat /\ first <= line /\ line - first <= half
  BY <1>1 DEF AtLeast
<1> HIDE DEF first
<1>3. end = IF first + height < Len(source) - 1 THEN first + height ELSE Len(source) - 1
  BY DEF LastLineFrom, AtMost
<1>4. end \in Nat /\ end <= first + height /\ line < end
  BY <1>1, <1>2, <1>3
<1> HIDE DEF end
<1>5. FirstLine(line, height) = IF end - first < height THEN AtLeast(0, end - height) ELSE first
  BY DEF FirstLine, first, end, half
<1>6. CASE end - first < height
  <2>1. AtLeast(0, end - height) <= first /\ AtLeast(0, end - height) \in Nat
    BY <1>2, <1>4, <1>6 DEF AtLeast
  <2>2. line - AtLeast(0, end - height) <= height - 1
    BY <1>2, <1>4, <1>6 DEF AtLeast
  <2> QED BY <1>2, <1>5, <1>6, <2>1, <2>2
<1>7. CASE ~(end - first < height)
  BY <1>1, <1>2, <1>5, <1>7
<1> QED BY <1>6, <1>7

\* The last line of a file that is ended holds no word.
LEMMA WordBeforeLast ==
  ASSUME LexInv, ScanInv, Tidy, Ended, LoadedInv, NEW i \in DOMAIN words
  PROVE  words[i].line < Len(source) /\ Len(source) \in Nat
PROOF
<1>1. /\ words[i].first \in Nat \ {0} /\ words[i].last \in Nat /\ words[i].first <= words[i].last
      /\ words[i].last <= Len(text) /\ Len(text) \in Nat
      /\ words[i].line = NewlinesBefore(text, words[i].first) + 1
  <2>1. Len(text) \in Nat /\ words[i].first \in 1 .. Len(text)
    BY ScannedNat, WordFacts
  <2> QED BY <2>1, WordFacts
<1>2. text[Len(text)] = NL /\ Len(text) \in words[i].first .. Len(text)
  BY <1>1 DEF Ended
<1>3. NewlinesBefore(text, words[i].first) < NewlinesBefore(text, Len(text) + 1)
  <2> DEFINE k == Len(text) + 1
  <2>1. k \in Nat /\ Len(text) \in words[i].first .. k - 1
    BY <1>1, <1>2
  <2> HIDE DEF k
  <2>2. NewlinesBefore(text, words[i].first) < NewlinesBefore(text, k)
    BY <1>1, <1>2, <2>1, NewlineBetween
  <2> QED BY <2>2 DEF k
<1>4. Len(source) = NewlinesBefore(text, Len(text) + 1) + 1
  BY DEF LoadedInv
<1>5. NewlinesBefore(text, words[i].first) \in Nat /\ NewlinesBefore(text, Len(text) + 1) \in Nat
  <2>1. Len(text) + 1 \in Nat
    BY <1>1
  <2> QED BY <1>1, <2>1, NewlinesNat
<1> QED BY <1>1, <1>3, <1>4, <1>5

LEMMA LineVisible ==
  ASSUME LexInv, ScanInv, Tidy, Ended, LoadedInv, NEW s \in shown
  PROVE  s.line - s.firstLine + 1 \in 1 .. s.height
PROOF
<1>1. PICK w \in ToSet(words), height \in Heights :
        s = [word |-> w, line |-> w.line - 1, segment |-> 2 * (w.op - 1) + 1,
             height |-> height, firstLine |-> FirstLine(w.line - 1, height)]
  BY DEF LoadedInv
<1>2. PICK i \in DOMAIN words : w = words[i]
  BY DEF ToSet
<1> DEFINE line == w.line - 1
<1>3. line \in Nat /\ line < Len(source) - 1 /\ Len(source) \in Nat
  BY <1>2, WordFacts, WordBeforeLast
<1>4. height \in Nat \ {0}
  BY HeightsAssumption
<1> HIDE DEF line
<1>5. line - FirstLine(line, height) + 1 \in 1 .. height
  BY <1>3, <1>4, FirstLineFacts
<1>6. s.line = line /\ s.firstLine = FirstLine(line, height) /\ s.height = height
  BY <1>1 DEF line
<1> QED BY <1>5, <1>6

ScanNextStep == TypeInv /\ ScanInv /\ [Next]_vars => ScanInv'

LEMMA ScanKept == ScanNextStep
PROOF
<1>1. [Next]_vars => [LexerNext]_lexerVars
  BY ViewKeepsLexer DEF Next, vars, ViewKeeps
<1> QED BY <1>1, ScanStep DEF ScanNextStep, TypeInv

\* Shown is only what getSource has returned.
LEMMA NothingShown ==
  ASSUME PlacesInv, NEW s \in shown
  PROVE  loaded /\ mode = "end"
PROOF
BY DEF PlacesInv, NotLoading

\* Of a tidy file, the segment that stands out is the word the process has stopped
\* at: the compiler and getSource count lines and words alike, and cut words and
\* literals at the same characters (debugger.cpp:242-310, debuggerview.cpp:346-411,
\* CodeIterator.py:84-149).
THEOREM CurrentWordStandsOutHolds == Spec => []CurrentWordStandsOut
PROOF
<1>1. TypeInv /\ ScanInv /\ PlacesInv => CurrentWordStandsOut
  <2> SUFFICES ASSUME TypeInv, ScanInv, PlacesInv, Tidy, NEW s \in shown
               PROVE  LET segment == source[s.line + 1][s.segment + 1] IN
                      /\ segment.first = s.word.first
                      /\ segment.first + Len(segment.text) - 1 = s.word.last
    BY DEF CurrentWordStandsOut
  <2>1. LexInv /\ LoadedInv
    BY NothingShown DEF TypeInv, PlacesInv
  <2> QED BY <2>1, WordStandsOut
<1>2. TypeInv /\ ScanInv /\ [Next]_vars => ScanInv'
  BY ScanKept DEF ScanNextStep
<1>3. TypeInv /\ ScanInv /\ PlacesInv /\ [Next]_vars => PlacesInv'
  BY PlacesStep
<1>4. Init => ScanInv /\ PlacesInv
  BY ScanInit, PlacesInit
<1> QED BY <1>1, <1>2, <1>3, <1>4, TypeInvInit, TypeInvStep, PTL DEF Spec

\* The current line is in the window and not under its border, for windows of
\* every height: the lines that printSource chooses hold it wherever it is in a
\* file whose last line is ended (debuggerview.cpp:361-366, 373-375).
THEOREM CurrentLineVisibleHolds == Spec => []CurrentLineVisible
PROOF
<1>1. TypeInv /\ ScanInv /\ PlacesInv => CurrentLineVisible
  <2> SUFFICES ASSUME TypeInv, ScanInv, PlacesInv, Tidy, Ended, NEW s \in shown
               PROVE  s.line - s.firstLine + 1 \in 1 .. s.height
    BY DEF CurrentLineVisible
  <2>1. LexInv /\ LoadedInv
    BY NothingShown DEF TypeInv, PlacesInv
  <2> QED BY <2>1, LineVisible
<1>2. TypeInv /\ ScanInv /\ [Next]_vars => ScanInv'
  BY ScanKept DEF ScanNextStep
<1>3. TypeInv /\ ScanInv /\ PlacesInv /\ [Next]_vars => PlacesInv'
  BY PlacesStep
<1>4. Init => ScanInv /\ PlacesInv
  BY ScanInit, PlacesInit
<1> QED BY <1>1, <1>2, <1>3, <1>4, TypeInvInit, TypeInvStep, PTL DEF Spec

-----------------------------------------------------------------------------
(***************************************************************************)
(* From the characters of a string to the bytes the assembler puts.        *)
(***************************************************************************)
\* Octal numbers, digit by digit.
LEMMA OctalUpTo ==
  ASSUME NEW s \in Seq(Int)
  PROVE  \E f \in [0 .. Len(s) -> Int] :
           /\ f[0] = 0
           /\ \A i \in 1 .. Len(s) : f[i] = 8 * f[i - 1] + s[i] - 48
           /\ OctalValue(s) = f[Len(s)]
PROOF
<1> DEFINE n == Len(s)
           h == [i \in 1 .. n |-> [v \in Int |-> 8 * v + s[i] - 48]]
           Body(f) == [i \in 0 .. n |-> IF i = 0 THEN 0 ELSE 8 * f[i - 1] + s[i] - 48]
<1>1. n \in Nat /\ \A i \in 1 .. n : s[i] \in Int
  BY LenProperties, ElementOfSeq
<1>2. h \in [1 .. n -> [Int -> Int]]
  BY <1>1
<1>3. PICK f \in [0 .. n -> Int] : f[0] = 0 /\ \A i \in 1 .. n : f[i] = h[i][f[i - 1]]
  <2>1. 0 \in Int
    OBVIOUS
  <2> HIDE DEF n, h
  <2>2. \E f : Recursive(f, Int, 0, n, h)
    BY <1>1, <1>2, <2>1, Recursion, Zenon
  <2> QED BY <2>2 DEF Recursive
<1>4. ASSUME NEW g, g = Body(g)
      PROVE  /\ g[0] = 0 /\ \A i \in 1 .. n : g[i] = 8 * g[i - 1] + s[i] - 48
             /\ g \in [0 .. n -> Int]
  <2>0. \A i \in 0 .. n : g[i] = IF i = 0 THEN 0 ELSE 8 * g[i - 1] + s[i] - 48
    <3> HIDE DEF n
    <3> QED BY <1>4
  <2>1. g[0] = 0
    BY <1>1, <2>0
  <2>2. \A i \in 1 .. n : g[i] = 8 * g[i - 1] + s[i] - 48
    <3> HIDE DEF n
    <3> QED BY <1>1, <2>0
  <2> DEFINE T == {k \in Nat : k <= n => g[k] \in Int}
  <2>3. 0 \in T
    BY <2>1
  <2>4. ASSUME NEW k \in Nat, k \in T PROVE k + 1 \in T
    <3> SUFFICES ASSUME k + 1 <= n PROVE g[k + 1] \in Int
      OBVIOUS
    <3>1. g[k] \in Int /\ k + 1 \in 1 .. n
      BY <1>1, <2>4
    <3>2. g[k + 1] = 8 * g[k + 1 - 1] + s[k + 1] - 48
      BY <2>2, <3>1
    <3>3. s[k + 1] \in Int
      BY <1>1, <3>1
    <3> QED BY <3>1, <3>2, <3>3
  <2>5. Nat \subseteq T
    <3> HIDE DEF T
    <3> QED BY <2>3, <2>4, AllNat
  <2>6. \A k \in 0 .. n : g[k] \in Int
    BY <1>1, <2>5
  <2>7. g = [k \in 0 .. n |-> g[k]]
    BY <1>4
  <2>8. g \in [0 .. n -> Int]
    BY <2>6, <2>7
  <2> QED BY <2>1, <2>2, <2>8
<1>5. f = Body(f)
  <2>1. \A i \in 0 .. n : i # 0 => f[i - 1] \in Int /\ i \in 1 .. n
    BY <1>1
  <2>2. \A i \in 0 .. n : i # 0 => h[i][f[i - 1]] = 8 * f[i - 1] + s[i] - 48
    BY <2>1
  <2>3. \A i \in 0 .. n : f[i] = IF i = 0 THEN 0 ELSE 8 * f[i - 1] + s[i] - 48
    BY <1>3, <2>1, <2>2
  <2> QED BY <2>3
<1>6. PICK g : g = Body(g) /\ OctalValue(s) = g[n]
  <2> DEFINE g == CHOOSE g : g = Body(g)
  <2>1. g = Body(g)
    BY <1>5, Zenon
  <2>2. OctalValue(s) = g[n]
    BY DEF OctalValue
  <2> QED BY <2>1, <2>2
<1> QED BY <1>4, <1>6

LEMMA OctalOf3 ==
  ASSUME NEW x \in Int, NEW y \in Int, NEW z \in Int
  PROVE  OctalValue(<<x, y, z>>) = 64 * (x - 48) + (8 * (y - 48) + (z - 48))
PROOF
<1> DEFINE s == <<x, y, z>>
<1>1. s \in Seq(Int) /\ Len(s) = 3 /\ s[1] = x /\ s[2] = y /\ s[3] = z
  OBVIOUS
<1> HIDE DEF s
<1>2. PICK f \in [0 .. Len(s) -> Int] :
        /\ f[0] = 0
        /\ \A i \in 1 .. Len(s) : f[i] = 8 * f[i - 1] + s[i] - 48
        /\ OctalValue(s) = f[Len(s)]
  BY <1>1, OctalUpTo
<1>3. f[1] = 8 * f[0] + x - 48 /\ f[2] = 8 * f[1] + y - 48 /\ f[3] = 8 * f[2] + z - 48
  <2>1. f[1] = 8 * f[1 - 1] + s[1] - 48 /\ f[2] = 8 * f[2 - 1] + s[2] - 48
        /\ f[3] = 8 * f[3 - 1] + s[3] - 48
    BY <1>1, <1>2
  <2> QED BY <1>1, <2>1
<1>4. OctalValue(s) = 64 * (x - 48) + (8 * (y - 48) + (z - 48))
  <2>1. f[0] = 0 /\ OctalValue(s) = f[3]
    BY <1>1, <1>2
  <2>2. f[1] = x - 48
    BY <1>3, <2>1
  <2>3. f[2] = 8 * (x - 48) + (y - 48)
    BY <1>3, <2>2
  <2>4. f[3] = 64 * (x - 48) + (8 * (y - 48) + (z - 48))
    <3>1. \A w \in Int : 8 * w + z - 48 = 8 * w + (z - 48)
      OBVIOUS
    <3>2. 8 * (8 * (x - 48) + (y - 48)) + (z - 48) = 64 * (x - 48) + (8 * (y - 48) + (z - 48))
      OBVIOUS
    <3> QED BY <1>3, <2>3, <3>1, <3>2
  <2> QED BY <2>1, <2>4
<1> QED BY <1>4 DEF s

LEMMA ThreeDigits ==
  ASSUME NEW n \in 0 .. 255
  PROVE  /\ OctalDigits(n, 3) = <<48 + n \div 64, 48 + ((n \div 8) % 8), 48 + (n % 8)>>
         /\ n \div 64 \in 0 .. 7 /\ (n \div 8) % 8 \in 0 .. 7 /\ n % 8 \in 0 .. 7
         /\ 64 * (n \div 64) + (8 * ((n \div 8) % 8) + (n % 8)) = n
PROOF
<1>1. 8^0 = 1 /\ 8^1 = 8 /\ 8^2 = 64 /\ 8^3 = 512 /\ 8^4 = 4096 /\ 8^5 = 32768
      /\ 8^6 = 262144 /\ 8^7 = 2097152
  OBVIOUS
<1> DEFINE P(k) == n < 8^k /\ (k = 3 \/ n >= 8^(k - 1))
<1>2. \A k \in 3 .. 8 : P(k) => k = 3
  <2> SUFFICES ASSUME NEW k \in 3 .. 8, P(k), k # 3 PROVE FALSE
    OBVIOUS
  <2>1. k - 1 \in {3, 4, 5, 6, 7} /\ n >= 8^(k - 1)
    OBVIOUS
  <2>2. 8^(k - 1) >= 512
    <3>1. CASE k - 1 = 3  BY <1>1, <3>1
    <3>2. CASE k - 1 = 4  BY <1>1, <3>2
    <3>3. CASE k - 1 = 5  BY <1>1, <3>3
    <3>4. CASE k - 1 = 6  BY <1>1, <3>4
    <3>5. CASE k - 1 = 7  BY <1>1, <3>5
    <3> QED BY <2>1, <3>1, <3>2, <3>3, <3>4, <3>5
  <2> QED BY <2>1, <2>2
<1>3. P(3)
  BY <1>1
<1>4. (CHOOSE k \in 3 .. 8 : P(k)) = 3
  BY <1>2, <1>3
<1> DEFINE d == [i \in 1 .. 3 |-> 48 + ((n \div 8^(3 - i)) % 8)]
<1>5. OctalDigits(n, 3) = d
  <2> DEFINE count == CHOOSE k \in 3 .. 8 : P(k)
  <2>1. OctalDigits(n, 3) = [i \in 1 .. count |-> 48 + ((n \div 8^(count - i)) % 8)]
    BY DEF OctalDigits
  <2>2. count = 3
    BY <1>4
  <2> HIDE DEF count
  <2> QED BY <2>1, <2>2
<1>6. /\ n \div 64 \in 0 .. 7 /\ (n \div 8) % 8 \in 0 .. 7 /\ n % 8 \in 0 .. 7
      /\ 64 * (n \div 64) + (8 * ((n \div 8) % 8) + (n % 8)) = n
      /\ (n \div 64) % 8 = n \div 64 /\ n \div 1 = n
  OBVIOUS
<1>7. d[1] = 48 + n \div 64 /\ d[2] = 48 + ((n \div 8) % 8) /\ d[3] = 48 + (n % 8)
  <2>1. 3 - 1 = 2 /\ 3 - 2 = 1 /\ 3 - 3 = 0
    OBVIOUS
  <2> QED BY <1>1, <1>6, <2>1
<1>8. d = <<d[1], d[2], d[3]>>
  OBVIOUS
<1> HIDE DEF d
<1> QED BY <1>5, <1>6, <1>7, <1>8

\* How many digits stand at a place.
LEMMA DigitCountFacts ==
  ASSUME NEW t, NEW i \in Nat, Len(t) \in Nat
  PROVE  LET n == DigitCount(t, i) IN
         /\ n \in 0 .. 3
         /\ \A k \in 0 .. n - 1 : i + k <= Len(t) /\ IsDigit(t[i + k])
         /\ n = 3 \/ i + n > Len(t) \/ ~IsDigit(t[i + n])
PROOF
<1> DEFINE Is(k) == i + k <= Len(t) /\ IsDigit(t[i + k])
           P(n) == /\ \A k \in 0 .. n - 1 : i + k <= Len(t) /\ IsDigit(t[i + k])
                   /\ n = 3 \/ i + n > Len(t) \/ ~IsDigit(t[i + n])
<1>1. \E n \in 0 .. 3 : P(n)
  <2>1. CASE ~Is(0)
    <3>1. P(0)
      BY <2>1
    <3> QED BY <3>1
  <2>2. CASE Is(0) /\ ~Is(1)
    <3>1. P(1)
      BY <2>2
    <3> QED BY <3>1
  <2>3. CASE Is(0) /\ Is(1) /\ ~Is(2)
    <3>1. P(2)
      BY <2>3
    <3> QED BY <3>1
  <2>4. CASE Is(0) /\ Is(1) /\ Is(2)
    <3>1. P(3)
      BY <2>4
    <3> QED BY <3>1
  <2> QED BY <2>1, <2>2, <2>3, <2>4
<1>2. DigitCount(t, i) = CHOOSE n \in 0 .. 3 : P(n)
  BY DEF DigitCount
<1> HIDE DEF P
<1>3. DigitCount(t, i) \in 0 .. 3 /\ P(DigitCount(t, i))
  BY <1>1, <1>2
<1> QED BY <1>3 DEF P

\* The bytes from the i-th character on, when those of the places after it are given.
BytesFrom(t, bytes, i) ==
  IF i > Len(t) THEN <<>>
  ELSE IF t[i] # Backslash THEN <<t[i]>> \o bytes[i + 1]
  ELSE IF i = Len(t) THEN <<RunsOn>>
  ELSE IF DigitCount(t, i + 1) > 0
  THEN <<OctalValue(SubSeq(t, i + 1, i + DigitCount(t, i + 1))) % 256>>
       \o bytes[i + 1 + DigitCount(t, i + 1)]
  ELSE <<IF t[i + 1] \in DOMAIN GasEscape THEN GasEscape[t[i + 1]] ELSE t[i + 1]>>
       \o bytes[i + 2]

LEMMA BytesFromLater ==
  ASSUME NEW t, Len(t) \in Nat, NEW i \in 1 .. Len(t) + 1, NEW f, NEW g,
         \A j \in 1 .. Len(t) + 1 : j > i => f[j] = g[j]
  PROVE  BytesFrom(t, f, i) = BytesFrom(t, g, i)
PROOF
<1>1. CASE i > Len(t)
  BY <1>1 DEF BytesFrom
<1>2. CASE i <= Len(t) /\ t[i] # Backslash
  <2>1. f[i + 1] = g[i + 1]
    BY <1>2
  <2> QED BY <1>2, <2>1 DEF BytesFrom
<1>3. CASE i = Len(t) /\ t[i] = Backslash
  BY <1>3 DEF BytesFrom
<1>4. CASE i < Len(t) /\ t[i] = Backslash
  <2> DEFINE n == DigitCount(t, i + 1)
  <2>1. /\ n \in 0 .. 3
        /\ \A k \in 0 .. n - 1 : i + 1 + k <= Len(t) /\ IsDigit(t[i + 1 + k])
    <3>1. i + 1 \in Nat
      OBVIOUS
    <3> QED BY <3>1, DigitCountFacts
  <2> HIDE DEF n
  <2>2. n > 0 => f[i + 1 + n] = g[i + 1 + n]
    <3> SUFFICES ASSUME n > 0 PROVE f[i + 1 + n] = g[i + 1 + n]
      OBVIOUS
    <3>1. n - 1 \in 0 .. n - 1
      BY <2>1
    <3>2. i + 1 + (n - 1) <= Len(t)
      BY <2>1, <3>1
    <3> QED BY <2>1, <3>2
  <2>3. f[i + 2] = g[i + 2]
    BY <1>4
  <2> QED BY <1>4, <2>2, <2>3 DEF BytesFrom, n
<1> QED BY <1>1, <1>2, <1>3, <1>4

LEMMA AssembledFrom ==
  ASSUME NEW t, Len(t) \in Nat
  PROVE  \E f : /\ Assembled(t) = f[1]
               /\ \A i \in 1 .. Len(t) + 1 : f[i] = BytesFrom(t, f, i)
PROOF
<1> DEFINE n == Len(t) + 1
           From(f, i) == f[i] = BytesFrom(t, f, i)
           T == {k \in Nat : k <= n => \E f : /\ f = [i \in 1 .. n |-> f[i]]
                                            /\ \A i \in 1 .. n : i > n - k => From(f, i)}
<1>1. 0 \in T
  <2> DEFINE f == [i \in 1 .. n |-> <<>>]
  <2>1. f = [i \in 1 .. n |-> f[i]] /\ \A i \in 1 .. n : ~(i > n - 0)
    OBVIOUS
  <2> HIDE DEF f
  <2> QED BY <2>1
<1>2. ASSUME NEW k \in Nat, k \in T PROVE k + 1 \in T
  <2> SUFFICES ASSUME k + 1 <= n
               PROVE  \E f : /\ f = [i \in 1 .. n |-> f[i]]
                            /\ \A i \in 1 .. n : i > n - (k + 1) => From(f, i)
    OBVIOUS
  <2>1. PICK f : /\ f = [i \in 1 .. n |-> f[i]]
                 /\ \A i \in 1 .. n : i > n - k => From(f, i)
    BY <1>2
  <2> DEFINE m == n - k
             g == [i \in 1 .. n |-> IF i = m THEN BytesFrom(t, f, m) ELSE f[i]]
  <2>2. m \in 1 .. n
    OBVIOUS
  <2>3. g = [i \in 1 .. n |-> g[i]]
    OBVIOUS
  <2>4. g[m] = BytesFrom(t, f, m) /\ \A i \in 1 .. n : i # m => g[i] = f[i]
    BY <2>2
  <2> HIDE DEF g
  <2>5. ASSUME NEW i \in 1 .. n, i >= m PROVE From(g, i)
    <3>1. \A j \in 1 .. n : j > i => f[j] = g[j]
      BY <2>2, <2>4, <2>5
    <3>2. BytesFrom(t, f, i) = BytesFrom(t, g, i)
      BY <3>1, BytesFromLater
    <3>3. CASE i = m
      BY <2>4, <3>2, <3>3
    <3>4. CASE i > m
      <4>1. g[i] = f[i] /\ f[i] = BytesFrom(t, f, i)
        BY <2>1, <2>4, <3>4
      <4> QED BY <3>2, <4>1
    <3> QED BY <2>2, <2>5, <3>3, <3>4
  <2>6. \A i \in 1 .. n : i > n - (k + 1) => From(g, i)
    BY <2>2, <2>5
  <2> QED BY <2>3, <2>6
<1>3. n \in T
  <2> HIDE DEF T
  <2>1. Nat \subseteq T
    BY <1>1, <1>2, AllNat
  <2> QED BY <2>1
<1> DEFINE Body(f) == [i \in 1 .. n |-> BytesFrom(t, f, i)]
<1>4. \E f : f = Body(f)
  <2>1. PICK f : /\ f = [i \in 1 .. n |-> f[i]]
                 /\ \A i \in 1 .. n : i > n - n => From(f, i)
    BY <1>3
  <2>2. \A i \in 1 .. n : f[i] = BytesFrom(t, f, i)
    BY <2>1
  <2>3. [i \in 1 .. n |-> f[i]] = Body(f)
    BY <2>2
  <2> QED BY <2>1, <2>3
<1> DEFINE f == CHOOSE f : f = Body(f)
<1>5. f = Body(f)
  BY <1>4, Zenon
<1>6. Assembled(t) = f[1]
  BY DEF Assembled, BytesFrom
<1> HIDE DEF f
<1>7. \A i \in 1 .. n : f[i] = BytesFrom(t, f, i)
  BY <1>5
<1> QED BY <1>6, <1>7

-----------------------------------------------------------------------------
Plain == 0 .. 255 \ {Backslash}

LEMMA OneBeforeThree ==
  ASSUME NEW d \in Int, NEW x \in Int, NEW y \in Int, NEW z \in Int
  PROVE  <<d>> \o <<48 + x, 48 + y, 48 + z>> = <<d, 48 + x, 48 + y, 48 + z>>
PROOF
<1> DEFINE a == <<d>>
           b == <<48 + x, 48 + y, 48 + z>>
           e == <<d, 48 + x, 48 + y, 48 + z>>
<1>1. /\ a \in Seq(Int) /\ Len(a) = 1 /\ a[1] = d
      /\ b \in Seq(Int) /\ Len(b) = 3 /\ b[1] = 48 + x /\ b[2] = 48 + y /\ b[3] = 48 + z
      /\ e \in Seq(Int) /\ Len(e) = 4 /\ e[1] = d /\ e[2] = 48 + x /\ e[3] = 48 + y
      /\ e[4] = 48 + z
  OBVIOUS
<1> HIDE DEF a, b, e
<1> DEFINE g == a \o b
<1>2. /\ g \in Seq(Int) /\ Len(g) = Len(a) + Len(b)
      /\ \A i \in 1 .. Len(a) + Len(b) : g[i] = IF i <= Len(a) THEN a[i] ELSE b[i - Len(a)]
  BY <1>1, ConcatProperties
<1> HIDE DEF g
<1>3. g \in Seq(Int) /\ Len(g) = 4 /\ \A i \in 1 .. 4 : g[i] = IF i <= 1 THEN a[i] ELSE b[i - 1]
  <2>1. Len(a) + Len(b) = 4
    BY <1>1
  <2> QED BY <1>1, <1>2, <2>1
<1>4. g[1] = a[1] /\ g[2] = b[1] /\ g[3] = b[2] /\ g[4] = b[3]
  <2>1. \A i \in 2 .. 4 : g[i] = b[i - 1]
    BY <1>3
  <2>2. g[1] = a[1]
    BY <1>3
  <2>3. g[2] = b[2 - 1] /\ g[3] = b[3 - 1] /\ g[4] = b[4 - 1]
    BY <2>1
  <2> QED BY <2>2, <2>3
<1>5. \A i \in 1 .. Len(g) : g[i] = e[i]
  <2>1. \A i \in 1 .. Len(g) : i = 1 \/ i = 2 \/ i = 3 \/ i = 4
    BY <1>3
  <2>2. g[1] = e[1] /\ g[2] = e[2] /\ g[3] = e[3] /\ g[4] = e[4]
    BY <1>1, <1>4
  <2> QED BY <2>1, <2>2
<1>6. g = e
  <2>1. g \in Seq(Int) /\ e \in Seq(Int) /\ Len(g) = Len(e)
    BY <1>1, <1>3
  <2> QED BY <1>5, <2>1, SeqEqual
<1> QED BY <1>6 DEF g, a, b, e

\* A character stands for itself, or is a backslash and three digits.
LEMMA EscapedAsIs ==
  ASSUME NEW n \in Plain
  PROVE  /\ EscapedAs(n, 3) \in Seq(Int)
         /\ \/ EscapedAs(n, 3) = <<n>>
            \/ \E x, y, z \in 0 .. 7 : /\ EscapedAs(n, 3) = <<Backslash, 48 + x, 48 + y, 48 + z>>
                                       /\ 64 * x + (8 * y + z) = n
PROOF
<1>1. n \in 0 .. 255 /\ n \in Int /\ Backslash \in Int
  BY DEF Plain, Backslash
<1>2. CASE EscapedAs(n, 3) = <<n>>
  <2>1. <<n>> \in Seq(Int)
    BY <1>1
  <2> QED BY <1>2, <2>1, Zenon
<1>3. CASE EscapedAs(n, 3) # <<n>>
  <2> DEFINE x == n \div 64
             y == (n \div 8) % 8
             z == n % 8
  <2>1. OctalDigits(n, 3) = <<48 + x, 48 + y, 48 + z>> /\ x \in 0 .. 7 /\ y \in 0 .. 7
        /\ z \in 0 .. 7 /\ 64 * x + (8 * y + z) = n
    BY <1>1, ThreeDigits
  <2>2. EscapedAs(n, 3) = <<Backslash>> \o OctalDigits(n, 3)
    BY <1>3 DEF EscapedAs
  <2> HIDE DEF x, y, z
  <2>3. <<Backslash>> \o <<48 + x, 48 + y, 48 + z>> = <<Backslash, 48 + x, 48 + y, 48 + z>>
    BY <1>1, <2>1, OneBeforeThree
  <2>4. <<Backslash, 48 + x, 48 + y, 48 + z>> \in Seq(Int)
    BY <1>1, <2>1
  <2> QED BY <2>1, <2>2, <2>3, <2>4
<1> QED BY <1>2, <1>3

\* The assembler reads an escaped character back.
LEMMA OneEscaped ==
  ASSUME NEW n \in Plain, NEW t \in Seq(Int), NEW i \in Nat \ {0},
         i + Len(EscapedAs(n, 3)) - 1 <= Len(t),
         \A k \in 1 .. Len(EscapedAs(n, 3)) : t[i + k - 1] = EscapedAs(n, 3)[k],
         NEW f, \A j \in 1 .. Len(t) + 1 : f[j] = BytesFrom(t, f, j)
  PROVE  f[i] = <<n>> \o f[i + Len(EscapedAs(n, 3))]
PROOF
<1> DEFINE e == EscapedAs(n, 3)
<1>1. Len(t) \in Nat /\ n \in Int /\ n \in 0 .. 255 /\ n # Backslash
  <2>1. Len(t) \in Nat
    BY LenProperties
  <2>2. n \in 0 .. 255 /\ n # Backslash
    BY DEF Plain
  <2>3. 0 .. 255 \subseteq Int
    OBVIOUS
  <2> QED BY <2>1, <2>2, <2>3, Zenon
<1>2. i + Len(e) - 1 <= Len(t) /\ \A k \in 1 .. Len(e) : t[i + k - 1] = e[k]
  OBVIOUS
<1>3. CASE e = <<n>>
  <2> HIDE DEF e
  <2>1. Len(e) = 1 /\ e[1] = n
    BY <1>3
  <2>2. t[i + 1 - 1] = n /\ i <= Len(t)
    BY <1>2, <2>1
  <2>3. i \in 1 .. Len(t) + 1 /\ ~(i > Len(t)) /\ t[i] # Backslash /\ t[i] = n
    BY <1>1, <2>2
  <2>4. f[i] = <<n>> \o f[i + 1]
    BY <2>3 DEF BytesFrom
  <2> QED BY <2>1, <2>4 DEF e
<1>4. ASSUME NEW x \in 0 .. 7, NEW y \in 0 .. 7, NEW z \in 0 .. 7,
             e = <<Backslash, 48 + x, 48 + y, 48 + z>>, 64 * x + (8 * y + z) = n
      PROVE  f[i] = <<n>> \o f[i + Len(e)]
  <2> HIDE DEF e
  <2>1. Len(e) = 4 /\ e[1] = Backslash /\ e[2] = 48 + x /\ e[3] = 48 + y /\ e[4] = 48 + z
    BY <1>4
  <2>2. /\ t[i + 1 - 1] = Backslash /\ t[i + 2 - 1] = 48 + x /\ t[i + 3 - 1] = 48 + y
        /\ t[i + 4 - 1] = 48 + z /\ i + 3 <= Len(t)
    <3>1. 1 \in 1 .. Len(e) /\ 2 \in 1 .. Len(e) /\ 3 \in 1 .. Len(e) /\ 4 \in 1 .. Len(e)
      BY <2>1
    <3>2. t[i + 1 - 1] = e[1] /\ t[i + 2 - 1] = e[2] /\ t[i + 3 - 1] = e[3]
          /\ t[i + 4 - 1] = e[4]
      BY <1>2, <3>1
    <3>3. i + 3 <= Len(t)
      BY <1>1, <1>2, <2>1
    <3> QED BY <2>1, <3>2, <3>3
  <2>3. t[i] = Backslash /\ t[i + 1] = 48 + x /\ t[i + 2] = 48 + y /\ t[i + 3] = 48 + z
    BY <2>2
  <2>0. i + 3 <= Len(t) /\ i \in Int /\ i > 0 /\ Len(t) \in Int
    <3>1. i + 3 <= Len(t)
      BY <2>2
    <3> QED BY <1>1, <3>1
  <2> DEFINE m == DigitCount(t, i + 1)
  <2>4. m = 3
    <3>1. /\ m \in 0 .. 3
          /\ m = 3 \/ i + 1 + m > Len(t) \/ ~IsDigit(t[i + 1 + m])
      <4>1. i + 1 \in Nat
        OBVIOUS
      <4> QED BY <1>1, <4>1, DigitCountFacts
    <3> HIDE DEF m
    <3>2. SUFFICES ASSUME m \in 0 .. 2 PROVE FALSE
      BY <3>1
    <3>3. t[i + 1 + m] \in {48 + x, 48 + y, 48 + z} /\ i + 1 + m <= Len(t)
      <4>1. m = 0 \/ m = 1 \/ m = 2
        BY <3>2
      <4>2. i + 1 + 0 = i + 1 /\ i + 1 + 1 = i + 2 /\ i + 1 + 2 = i + 3
        OBVIOUS
      <4>3. CASE m = 0
        BY <2>0, <2>3, <4>2, <4>3, SMTT(30)
      <4>4. CASE m = 1
        BY <2>0, <2>3, <4>2, <4>4, SMTT(30)
      <4>5. CASE m = 2
        BY <2>0, <2>3, <4>2, <4>5, SMTT(30)
      <4> QED BY <4>1, <4>3, <4>4, <4>5
    <3>4. IsDigit(t[i + 1 + m])
      <4>1. 48 + x \in 48 .. 57 /\ 48 + y \in 48 .. 57 /\ 48 + z \in 48 .. 57
        OBVIOUS
      <4> QED BY <3>3, <4>1 DEF IsDigit
    <3> QED BY <1>1, <3>1, <3>2, <3>3, <3>4
  <2>5. SubSeq(t, i + 1, i + 3) = <<48 + x, 48 + y, 48 + z>>
    <3>1. i + 1 \in 1 .. Len(t) + 1 /\ i + 3 \in Int
      BY <2>0
    <3> DEFINE u == SubSeq(t, i + 1, i + 3)
               v == <<48 + x, 48 + y, 48 + z>>
    <3>2. /\ u \in Seq(Int) /\ Len(u) = 3
          /\ \A k \in 1 .. 3 : u[k] = t[i + 1 + k - 1]
      <4>1. i + 1 \in Int /\ i + 3 \in Int /\ \A k \in i + 1 .. i + 3 : t[k] \in Int
        BY <1>1, <2>2, ElementOfSeq
      <4>2. /\ u \in Seq(Int)
            /\ Len(u) = (IF i + 1 <= i + 3 THEN i + 3 - (i + 1) + 1 ELSE 0)
            /\ \A k \in 1 .. i + 3 - (i + 1) + 1 : u[k] = t[i + 1 + k - 1]
        BY <4>1, SubSeqProperties
      <4> QED BY <4>2
    <3>3. v \in Seq(Int) /\ Len(v) = 3 /\ v[1] = 48 + x /\ v[2] = 48 + y /\ v[3] = 48 + z
      OBVIOUS
    <3> HIDE DEF u, v
    <3>4. u[1] = t[i + 1 + 1 - 1] /\ u[2] = t[i + 1 + 2 - 1] /\ u[3] = t[i + 1 + 3 - 1]
      BY <3>2
    <3>5. u[1] = v[1] /\ u[2] = v[2] /\ u[3] = v[3]
      BY <2>3, <3>3, <3>4
    <3>6. \A k \in 1 .. Len(u) : u[k] = v[k]
      <4>1. \A k \in 1 .. Len(u) : k = 1 \/ k = 2 \/ k = 3
        BY <3>2
      <4> QED BY <3>5, <4>1
    <3>7. u = v
      BY <3>2, <3>3, <3>6, SeqEqual
    <3> QED BY <3>7 DEF u, v
  <2>6. OctalValue(<<48 + x, 48 + y, 48 + z>>) = n
    <3> DEFINE X == 48 + x
               Y == 48 + y
               Z == 48 + z
    <3>1. X \in Int /\ Y \in Int /\ Z \in Int /\ X - 48 = x /\ Y - 48 = y /\ Z - 48 = z
      OBVIOUS
    <3> HIDE DEF X, Y, Z
    <3>2. OctalValue(<<X, Y, Z>>) = 64 * (X - 48) + (8 * (Y - 48) + (Z - 48))
      BY <3>1, OctalOf3
    <3> QED BY <1>4, <3>1, <3>2 DEF X, Y, Z
  <2>7. n % 256 = n
    BY <1>1
  <2>8. i \in 1 .. Len(t) + 1 /\ ~(i > Len(t)) /\ i # Len(t)
    BY <2>0
  <2>9. f[i] = <<OctalValue(SubSeq(t, i + 1, i + m)) % 256>> \o f[i + 1 + m]
    <3>1. f[i] = BytesFrom(t, f, i)
      BY <2>8
    <3>2. m > 0
      BY <2>4
    <3> QED BY <2>3, <2>8, <3>1, <3>2 DEF BytesFrom
  <2> HIDE DEF m
  <2>10. f[i] = <<n>> \o f[i + 1 + 3]
    BY <2>4, <2>5, <2>6, <2>7, <2>9
  <2>11. i + 1 + 3 = i + Len(e)
    BY <2>1
  <2> QED BY <2>10, <2>11
<1>5. \/ e = <<n>>
      \/ \E x, y, z \in 0 .. 7 : /\ e = <<Backslash, 48 + x, 48 + y, 48 + z>>
                                 /\ 64 * x + (8 * y + z) = n
  BY EscapedAsIs
<1> QED BY <1>3, <1>4, <1>5

Pieces(s) == [i \in DOMAIN s |-> EscapedAs(s[i], 3)]

LEMMA PiecesAre ==
  ASSUME NEW s \in Seq(Plain)
  PROVE  /\ Pieces(s) \in Seq(Seq(Int)) /\ Len(Pieces(s)) = Len(s)
         /\ \A i \in 1 .. Len(s) : Pieces(s)[i] = EscapedAs(s[i], 3)
PROOF
<1>1. Len(s) \in Nat /\ DOMAIN s = 1 .. Len(s) /\ \A i \in 1 .. Len(s) : s[i] \in Plain
  BY LenProperties, ElementOfSeq
<1>2. \A i \in 1 .. Len(s) : EscapedAs(s[i], 3) \in Seq(Int)
  BY <1>1, EscapedAsIs, Zenon
<1>3. Pieces(s) = [i \in 1 .. Len(s) |-> EscapedAs(s[i], 3)]
  BY <1>1 DEF Pieces
<1>4. Pieces(s) \in [1 .. Len(s) -> Seq(Int)]
  BY <1>2, <1>3
<1>5. Pieces(s) \in Seq(Seq(Int)) /\ Len(Pieces(s)) = Len(s)
  BY <1>1, <1>4, FunctionIsSequence
<1> QED BY <1>3, <1>5

LEMMA EscapedInSeq ==
  ASSUME NEW s \in Seq(Plain)
  PROVE  Escaped(s) \in Seq(Int)
PROOF
<1>1. Escaped(s) = FlattenSeq(Pieces(s))
  BY DEF Escaped, Pieces
<1> QED BY <1>1, PiecesAre, FlattenInSeq

LEMMA EscapedConcat ==
  ASSUME NEW a \in Seq(Plain), NEW b \in Seq(Plain)
  PROVE  Escaped(a \o b) = Escaped(a) \o Escaped(b)
PROOF
<1> DEFINE g == a \o b
           p == Pieces(a)
           q == Pieces(b)
           r == Pieces(g)
           u == p \o q
<1>1. /\ g \in Seq(Plain) /\ Len(g) = Len(a) + Len(b)
      /\ \A i \in 1 .. Len(a) + Len(b) : g[i] = IF i <= Len(a) THEN a[i] ELSE b[i - Len(a)]
  BY ConcatProperties
<1>2. Len(a) \in Nat /\ Len(b) \in Nat
  BY LenProperties
<1>3. /\ p \in Seq(Seq(Int)) /\ Len(p) = Len(a)
      /\ \A i \in 1 .. Len(a) : p[i] = EscapedAs(a[i], 3)
  BY PiecesAre
<1>4. /\ q \in Seq(Seq(Int)) /\ Len(q) = Len(b)
      /\ \A i \in 1 .. Len(b) : q[i] = EscapedAs(b[i], 3)
  BY PiecesAre
<1> HIDE DEF g
<1>5. /\ r \in Seq(Seq(Int)) /\ Len(r) = Len(g)
      /\ \A i \in 1 .. Len(g) : r[i] = EscapedAs(g[i], 3)
  BY <1>1, PiecesAre
<1> HIDE DEF p, q, r
<1>6. /\ u \in Seq(Seq(Int)) /\ Len(u) = Len(p) + Len(q)
      /\ \A i \in 1 .. Len(p) + Len(q) : u[i] = IF i <= Len(p) THEN p[i] ELSE q[i - Len(p)]
  <2> DEFINE S == Seq(Int)
  <2>1. p \in Seq(S) /\ q \in Seq(S)
    BY <1>3, <1>4
  <2> HIDE DEF S, u
  <2>2. /\ p \o q \in Seq(S) /\ Len(p \o q) = Len(p) + Len(q)
        /\ \A i \in 1 .. Len(p) + Len(q) :
             (p \o q)[i] = IF i <= Len(p) THEN p[i] ELSE q[i - Len(p)]
    BY <2>1, ConcatProperties
  <2> QED BY <2>2 DEF S, u
<1>7. FlattenSeq(u) = FlattenSeq(p) \o FlattenSeq(q)
  BY <1>3, <1>4, FlattenConcat
<1> HIDE DEF u
<1>8. \A i \in 1 .. Len(r) : r[i] = u[i]
  <2> SUFFICES ASSUME NEW i \in 1 .. Len(r) PROVE r[i] = u[i]
    OBVIOUS
  <2>1. i \in 1 .. Len(a) + Len(b) /\ r[i] = EscapedAs(g[i], 3)
    BY <1>1, <1>5
  <2>2. CASE i <= Len(a)
    <3>1. i \in 1 .. Len(a)
      BY <1>2, <2>1, <2>2
    <3>2. g[i] = a[i] /\ u[i] = p[i]
      BY <1>1, <1>2, <1>3, <1>4, <1>6, <2>1, <2>2
    <3> QED BY <1>3, <2>1, <3>1, <3>2
  <2>3. CASE ~(i <= Len(a))
    <3>1. i - Len(a) \in 1 .. Len(b)
      BY <1>2, <2>1, <2>3
    <3>2. g[i] = b[i - Len(a)] /\ u[i] = q[i - Len(a)]
      BY <1>1, <1>2, <1>3, <1>4, <1>6, <2>1, <2>3
    <3> QED BY <1>4, <2>1, <3>1, <3>2
  <2> QED BY <2>2, <2>3
<1>9. r = u
  BY <1>1, <1>3, <1>4, <1>5, <1>6, <1>8, SeqEqual
<1>10. /\ Escaped(g) = FlattenSeq(r) /\ Escaped(a) = FlattenSeq(p)
       /\ Escaped(b) = FlattenSeq(q)
  BY DEF Escaped, Pieces, p, q, r
<1>11. Escaped(g) = Escaped(a) \o Escaped(b)
  BY <1>7, <1>9, <1>10
<1> QED BY <1>11 DEF g

LEMMA EscapedOne ==
  ASSUME NEW n \in Plain
  PROVE  <<n>> \in Seq(Plain) /\ Escaped(<<n>>) = EscapedAs(n, 3)
PROOF
<1>1. <<n>> \in Seq(Plain) /\ Len(<<n>>) = 1 /\ <<n>>[1] = n
  OBVIOUS
<1> DEFINE e == EscapedAs(n, 3)
           p == Pieces(<<n>>)
<1>2. e \in Seq(Int)
  BY EscapedAsIs
<1>3. p \in Seq(Seq(Int)) /\ Len(p) = 1 /\ p[1] = e
  <2>1. 1 \in 1 .. Len(<<n>>)
    BY <1>1
  <2> QED BY <1>1, <2>1, PiecesAre
<1>4. Escaped(<<n>>) = FlattenSeq(p)
  BY DEF Escaped, Pieces
<1> HIDE DEF e, p
<1>5. p = <<e>>
  <2>1. <<e>> \in Seq(Seq(Int)) /\ Len(<<e>>) = 1 /\ <<e>>[1] = e
    BY <1>2
  <2>2. \A i \in 1 .. 1 : i = 1
    OBVIOUS
  <2> QED BY <1>3, <2>1, <2>2, SeqEqual
<1>6. FlattenSeq(<<e>>) = e
  BY <1>2, FlattenOne
<1> QED BY <1>1, <1>4, <1>5, <1>6 DEF e

\* The assembler reads the escaped characters of a string back, from any of
\* them on.
LEMMA AssembledEscaped ==
  ASSUME NEW s \in Seq(Plain)
  PROVE  Assembled(Escaped(s)) = s
PROOF
<1> DEFINE t == Escaped(s)
<1>0. \A x, y, z \in Seq(Plain) : (x \o y) \o z = x \o (y \o z)
  BY ConcatAssociative, Z3T(60)
<1>1. t \in Seq(Int) /\ Len(t) \in Nat
  BY EscapedInSeq, LenProperties
<1>2. PICK f : Assembled(t) = f[1] /\ \A i \in 1 .. Len(t) + 1 : f[i] = BytesFrom(t, f, i)
  BY <1>1, AssembledFrom
<1> DEFINE At(a, w) == f[Len(Escaped(a)) + 1] = w
           T == {k \in Nat : \A w \in Seq(Plain) : Len(w) = k =>
                               \A a \in Seq(Plain) : a \o w = s => At(a, w)}
<1> HIDE DEF t, At
<1>3. 0 \in T
  <2> SUFFICES ASSUME NEW w \in Seq(Plain), Len(w) = 0, NEW a \in Seq(Plain), a \o w = s
               PROVE  At(a, w)
    OBVIOUS
  <2>1. w = <<>>
    BY EmptySeq
  <2>2. a = s
    BY <2>1, ConcatEmptySeq
  <2>3. Len(t) + 1 \in 1 .. Len(t) + 1 /\ Len(t) + 1 > Len(t)
    BY <1>1
  <2>4. f[Len(t) + 1] = <<>>
    BY <1>2, <2>3 DEF BytesFrom
  <2> QED BY <2>1, <2>2, <2>4 DEF t, At
<1>4. ASSUME NEW k \in Nat, k \in T PROVE k + 1 \in T
  <2> SUFFICES ASSUME NEW w \in Seq(Plain), Len(w) = k + 1, NEW a \in Seq(Plain), a \o w = s
               PROVE  At(a, w)
    OBVIOUS
  <2> DEFINE n == w[1]
             v == Tail(w)
             b == a \o <<n>>
             e == EscapedAs(n, 3)
             A == Escaped(a)
             B == Escaped(b)
             V == Escaped(v)
  <2>1. n \in Plain /\ v \in Seq(Plain) /\ Len(v) = k /\ w = <<n>> \o v
    <3>1. w # <<>>
      <4>1. Len(<<>>) = 0
        BY EmptySeq
      <4> QED BY <4>1
    <3>2. /\ v \in Seq(Plain) /\ Len(v) = Len(w) - 1
          /\ \A i \in 1 .. Len(v) : v[i] = w[i + 1]
      BY <3>1, HeadTailProperties
    <3>3. 1 \in 1 .. Len(w)
      OBVIOUS
    <3>4. n \in Plain
      BY <3>3, ElementOfSeq
    <3> HIDE DEF n, v
    <3> DEFINE g == <<n>> \o v
    <3>5. <<n>> \in Seq(Plain) /\ Len(<<n>>) = 1 /\ <<n>>[1] = n
      BY <3>4
    <3>6. /\ g \in Seq(Plain) /\ Len(g) = Len(<<n>>) + Len(v)
          /\ \A i \in 1 .. Len(<<n>>) + Len(v) :
               g[i] = IF i <= Len(<<n>>) THEN <<n>>[i] ELSE v[i - Len(<<n>>)]
      BY <3>2, <3>5, ConcatProperties
    <3> HIDE DEF g
    <3>7. Len(g) = Len(w)
      BY <3>2, <3>5, <3>6
    <3>8. \A i \in 1 .. Len(w) : g[i] = w[i]
      <4> SUFFICES ASSUME NEW i \in 1 .. Len(w) PROVE g[i] = w[i]
        OBVIOUS
      <4>1. g[i] = IF i <= 1 THEN <<n>>[i] ELSE v[i - 1]
        BY <3>2, <3>5, <3>6, <3>7
      <4>2. CASE i = 1
        BY <3>5, <4>1, <4>2 DEF n
      <4>3. CASE i # 1
        <5>1. i - 1 \in 1 .. Len(v) /\ i - 1 + 1 = i /\ ~(i <= 1)
          BY <3>2, <4>3
        <5>2. v[i - 1] = w[i - 1 + 1]
          BY <3>2, <5>1
        <5> QED BY <4>1, <5>1, <5>2
      <4> QED BY <4>2, <4>3
    <3>9. g = w
      BY <3>6, <3>7, <3>8, SeqEqual
    <3> QED BY <3>2, <3>4, <3>9 DEF g
  <2> HIDE DEF n, v
  <2>2. <<n>> \in Seq(Plain) /\ Escaped(<<n>>) = e /\ e \in Seq(Int)
    BY <2>1, EscapedOne, EscapedAsIs
  <2>3. b \in Seq(Plain)
    BY <2>2, ConcatProperties
  <2>4. b \o v = s
    <3> DEFINE z == <<n>>
    <3>1. a \in Seq(Plain) /\ z \in Seq(Plain) /\ v \in Seq(Plain)
      BY <2>1, <2>2
    <3> HIDE DEF z
    <3>2. (a \o z) \o v = a \o (z \o v)
      BY <1>0, <3>1
    <3> QED BY <2>1, <3>2 DEF z
  <2>5. At(b, v)
    BY <1>4, <2>1, <2>3, <2>4
  <2>6. B = A \o e
    BY <2>2, EscapedConcat
  <2>7. t = B \o V
    BY <2>1, <2>3, <2>4, EscapedConcat DEF t
  <2>8. A \in Seq(Int) /\ B \in Seq(Int) /\ V \in Seq(Int)
    BY <2>1, <2>3, EscapedInSeq
  <2> HIDE DEF b, e, A, B, V
  <2>9. Len(A) \in Nat /\ Len(e) \in Nat /\ Len(B) \in Nat /\ Len(V) \in Nat
    BY <2>2, <2>8, LenProperties
  <2>10. /\ Len(B) = Len(A) + Len(e)
         /\ \A i \in 1 .. Len(A) + Len(e) : B[i] = IF i <= Len(A) THEN A[i] ELSE e[i - Len(A)]
    BY <2>2, <2>6, <2>8, ConcatProperties
  <2>11. /\ Len(t) = Len(B) + Len(V)
         /\ \A i \in 1 .. Len(B) + Len(V) : t[i] = IF i <= Len(B) THEN B[i] ELSE V[i - Len(B)]
    BY <2>7, <2>8, ConcatProperties
  <2> DEFINE j == Len(A) + 1
  <2>12. j + Len(e) - 1 <= Len(t) /\ \A i \in 1 .. Len(e) : t[j + i - 1] = e[i]
    <3>1. j + Len(e) - 1 <= Len(t)
      BY <2>9, <2>10, <2>11
    <3>2. ASSUME NEW i \in 1 .. Len(e) PROVE t[j + i - 1] = e[i]
      <4> DEFINE m == Len(A) + i
      <4>1. /\ m \in 1 .. Len(A) + Len(e) /\ m \in 1 .. Len(B) + Len(V) /\ m <= Len(B)
            /\ ~(m <= Len(A)) /\ m - Len(A) = i /\ j + i - 1 = m
        BY <2>9, <2>10
      <4> HIDE DEF m, j
      <4>2. t[m] = B[m] /\ B[m] = e[m - Len(A)]
        BY <2>10, <2>11, <4>1
      <4> QED BY <4>1, <4>2
    <3> QED BY <3>1, <3>2
  <2>13. j \in Nat \ {0}
    BY <2>9
  <2> HIDE DEF j
  <2>14. f[j] = <<n>> \o f[j + Len(e)]
    BY <1>1, <1>2, <2>1, <2>12, <2>13, OneEscaped DEF e
  <2>15. j + Len(e) = Len(B) + 1
    BY <2>9, <2>10 DEF j
  <2>16. f[Len(B) + 1] = v
    BY <2>5 DEF B, At
  <2>17. f[j] = w
    BY <2>1, <2>14, <2>15, <2>16
  <2> QED BY <2>17 DEF j, A, At
<1>5. Len(s) \in T
  <2>1. Nat \subseteq T
    <3> HIDE DEF T
    <3> QED BY <1>3, <1>4, AllNat
  <2> QED BY <2>1, LenProperties
<1>6. <<>> \in Seq(Plain) /\ <<>> \o s = s
  BY EmptySeq, ConcatEmptySeq
<1>7. At(<<>>, s)
  BY <1>5, <1>6
<1>8. Len(Escaped(<<>>)) = 0
  <2>1. Pieces(<<>>) = <<>>
    BY DEF Pieces
  <2>2. Escaped(<<>>) = FlattenSeq(Pieces(<<>>))
    BY DEF Escaped, Pieces
  <2>3. Escaped(<<>>) = <<>>
    BY <2>1, <2>2, FlattenEmpty
  <2> QED BY <2>3, EmptySeq
<1>9. f[1] = s
  BY <1>7, <1>8 DEF At
<1> QED BY <1>2, <1>9 DEF t

\* What is read of a literal is a sequence of numbers.
ValuesInv == /\ IsSeq(words) /\ res \in Seq(Int)
             /\ \A i \in DOMAIN words : words[i].value \in Seq(Int)

LEMMA ValuesStep ==
  ASSUME LexInv, ValuesInv, [LexerNext]_lexerVars
  PROVE  ValuesInv'
PROOF
<1>1. ASSUME NEW d, NEW first, NEW last, NEW v, v \in Seq(Int), UNCHANGED res,
             Deliver(first, last, d, v)
      PROVE  ValuesInv'
  <2> DEFINE w == [line |-> line_num, op |-> op_num + 1, first |-> first,
                   last |-> last, delim |-> d, value |-> v]
             n == Len(words)
  <2>1. words' = Append(words, w) /\ w.value = v
    BY <1>1 DEF Deliver
  <2> HIDE DEF w
  <2>2. /\ IsSeq(words') /\ DOMAIN words' = 1 .. n + 1 /\ words'[n + 1] = w
        /\ (\A i \in 1 .. n : words'[i] = words[i]) /\ n \in Nat /\ DOMAIN words = 1 .. n
    BY <2>1, SeqMore, SeqFacts DEF ValuesInv
  <2>3. ASSUME NEW i \in 1 .. n + 1 PROVE words'[i].value \in Seq(Int)
    <3>1. CASE i = n + 1
      BY <1>1, <2>1, <2>2, <3>1
    <3>2. CASE i # n + 1
      <4>1. i \in 1 .. n
        BY <2>2, <3>2
      <4> QED BY <2>2, <4>1 DEF ValuesInv
    <3> QED BY <3>1, <3>2
  <2> QED BY <1>1, <2>2, <2>3 DEF ValuesInv
<1>2. ASSUME UNCHANGED words, res' = res \/ res' = <<>> \/ \E v \in Int : res' = Append(res, v)
      PROVE  ValuesInv'
  <2>1. <<>> \in Seq(Int) /\ \A v \in Int : Append(res, v) \in Seq(Int)
    BY AppendProperties, EmptySeq DEF ValuesInv
  <2> QED BY <1>2, <2>1 DEF ValuesInv
<1>3. CASE UNCHANGED <<res, words>>
  BY <1>2, <1>3
<1>4. CASE PlainWord
  <2>1. <<>> \in Seq(Int) /\ UNCHANGED res /\ Deliver(next, WordEnd(next), 0, <<>>)
    BY <1>4 DEF PlainWord, wordVars
  <2> QED BY <1>1, <2>1
<1>5. CASE OpenLiteral
  BY <1>2, <1>5 DEF OpenLiteral
<1>6. CASE CloseLiteral
  <2>1. UNCHANGED res /\ Deliver(from, next, delim, res) /\ res \in Seq(Int)
    BY <1>6 DEF CloseLiteral, ValuesInv
  <2> QED BY <1>1, <2>1
<1>7. ASSUME InLiteral
      PROVE  /\ \A i \in Int : ~Past(i) /\ next <= i => text[i] \in Int
             /\ next \in Int /\ text \in Seq(Nat) /\ Len(text) \in Nat
             /\ LineEnd(from) <= Len(text) /\ LineEnd(from) \in Int /\ next >= 1
  <2>1. /\ text \in Seq(Nat) /\ Len(text) \in Nat /\ next \in Nat /\ from < next
        /\ from \in 1 .. Len(text) /\ LineEnd(from) \in 1 .. Len(text)
        /\ \A i \in Int : Past(i) <=> i > LineEnd(from)
    BY <1>7, WithinLine, TextFacts DEF LexInv
  <2>2. ASSUME NEW i \in Int, ~Past(i), next <= i PROVE text[i] \in Int
    <3>1. i \in 1 .. Len(text)
      BY <2>1, <2>2
    <3>2. text[i] \in Nat
      BY <2>1, <3>1, ElementOfSeq
    <3> QED BY <3>2
  <2> QED BY <2>1, <2>2
<1>8. CASE ReadCharacter
  <2>1. InLiteral /\ UNCHANGED words
    BY <1>8 DEF ReadCharacter, ReadPart
  <2>2. res' = res \/ (res' = Append(res, text[next]) /\ ~Past(next))
    BY <1>8 DEF ReadCharacter, Raise, Take, char
  <2> QED BY <1>2, <1>7, <2>1, <2>2
<1>9. CASE ReadEscape
  <2>1. InLiteral /\ UNCHANGED words
    BY <1>9 DEF ReadEscape, ReadPart
  <2>2. CASE res' = res
    BY <1>2, <2>1, <2>2
  <2>3. CASE res' # res
    <3> DEFINE n == OctalCount(next + 1)
               s == SubSeq(text, next + 1, next + n)
               e == text[next + 1]
    <3>1. /\ ~Past(next + 1)
          /\ \/ e \in DOMAIN LetterEscape /\ res' = Append(res, LetterEscape[e])
             \/ IsOctal(e) /\ res' = Append(res, OctalValue(s))
             \/ res' = Append(res, e)
      BY <1>9, <2>3 DEF ReadEscape, Raise, Take
    <3>2. e \in Int
      <4>1. next \in Int
        BY <1>7, <2>1
      <4>2. next + 1 \in Int /\ next <= next + 1
        BY <4>1
      <4> QED BY <1>7, <2>1, <3>1, <4>2
    <3>3. e \in DOMAIN LetterEscape => LetterEscape[e] \in Int
      BY DEF LetterEscape, NL, CR, Tab
    <3>4. IsOctal(e) => OctalValue(s) \in Int
      <4> SUFFICES ASSUME IsOctal(e) PROVE OctalValue(s) \in Int
        OBVIOUS
      <4>1. n \in 1 .. 3 /\ next + n <= LineEnd(from)
        BY <2>1, <3>1, OctalWithin
      <4> HIDE DEF n
      <4>2. text \in Seq(Nat) /\ next + 1 \in 1 .. Len(text) /\ next + n \in next + 1 .. Len(text)
        BY <1>7, <2>1, <4>1, SMTT(30)
      <4>3. s \in Seq(Int)
        <5>1. \A i \in next + 1 .. next + n : text[i] \in Int
          <6>1. \A i \in next + 1 .. next + n : i \in 1 .. Len(text)
            BY <1>7, <2>1, <4>1, <4>2
          <6>2. \A i \in 1 .. Len(text) : text[i] \in Nat
            BY <4>2, ElementOfSeq
          <6> QED BY <6>1, <6>2
        <5>2. next + 1 \in Int /\ next + n \in Int
          BY <4>2
        <5> QED BY <5>1, <5>2, SubSeqProperties
      <4> HIDE DEF s
      <4>4. PICK f \in [0 .. Len(s) -> Int] : OctalValue(s) = f[Len(s)]
        BY <4>3, OctalUpTo
      <4>5. Len(s) \in 0 .. Len(s)
        BY <4>3, LenProperties
      <4> QED BY <4>4, <4>5
    <3> QED BY <1>2, <2>1, <3>1, <3>2, <3>3, <3>4
  <2> QED BY <2>2, <2>3
<1> QED
  BY <1>3, <1>4, <1>5, <1>6, <1>8, <1>9
     DEF LexerNext, Blank, Comment, EndOfInput, Unterminated, lexerVars, wordVars

\* What escape_gas_string writes is read back by the assembler as the characters of
\* the string, one byte each, for every string of a program without a backslash in it
\* (main.py:399-411, 474-476).
THEOREM StringsAssembleHolds == Spec => []StringsAssemble
PROOF
<1>1. ValuesInv => StringsAssemble
  <2> SUFFICES ASSUME ValuesInv, NEW s \in Strings, Backslash \notin ToSet(s),
                      ToSet(s) \subseteq 0 .. 255
               PROVE  Assembled(Escaped(s)) = s
    BY DEF StringsAssemble
  <2>1. s \in Seq(Int)
    BY DEF Strings, ValuesInv
  <2>2. s \in Seq(Plain)
    <3>1. Len(s) \in Nat /\ DOMAIN s = 1 .. Len(s)
      BY <2>1, LenProperties
    <3>2. \A i \in 1 .. Len(s) : s[i] \in Plain
      BY <3>1 DEF ToSet, Plain
    <3>3. s = [i \in 1 .. Len(s) |-> s[i]]
      BY <2>1, <3>1
    <3>4. s \in [1 .. Len(s) -> Plain]
      BY <3>2, <3>3
    <3> QED BY <3>1, <3>4, FunctionIsSequence
  <2> QED BY <2>2, AssembledEscaped
<1>2. TypeInv /\ ValuesInv /\ [Next]_vars => ValuesInv'
  <2>1. [Next]_vars => [LexerNext]_lexerVars
    BY ViewKeepsLexer DEF Next, vars, ViewKeeps
  <2> QED BY <2>1, ValuesStep DEF TypeInv
<1>3. Init => ValuesInv
  <2>1. <<>> \in Seq(Int) /\ <<>> \in Seq({<<>>[i] : i \in DOMAIN <<>>}) /\ DOMAIN <<>> = {}
    BY EmptySeq
  <2> QED BY <2>1 DEF Init, LexerInit, ValuesInv, IsSeq
<1> QED BY <1>1, <1>2, <1>3, TypeInvInit, TypeInvStep, PTL DEF Spec
=============================================================================
