--------------------------- MODULE DebuggeeIO_proofs ---------------------------
(***************************************************************************)
(* Proofs about DebuggeeIO, for all letters, programs and sizes of the     *)
(* pipes and the window: what arrives is what was sent, in order.          *)
(***************************************************************************)
EXTENDS DebuggeeIO, SequenceFacts

-----------------------------------------------------------------------------
(***************************************************************************)
(* Lines and letters.                                                      *)
(***************************************************************************)
\* getline's first line: up to the first newline.
LEMMA FirstLine ==
  ASSUME NEW s \in Seq(Letters \cup {Newline}), Newline \in Range(s), NEW n,
         n = SelectInSeq(s, LAMBDA c : c = Newline)
  PROVE  /\ n \in 1 .. Len(s) /\ s[n] = Newline
         /\ SubSeq(s, 1, n - 1) \in Seq(Letters) /\ Len(SubSeq(s, 1, n - 1)) = n - 1
         /\ SubSeq(s, n + 1, Len(s)) \in Seq(Letters \cup {Newline})
         /\ s = (SubSeq(s, 1, n - 1) \o <<Newline>>) \o SubSeq(s, n + 1, Len(s))
PROOF
<1> DEFINE I == {i \in 1 .. Len(s) : s[i] = Newline}
<1>1. I \subseteq Nat /\ I # {}
  BY LenProperties DEF Range
<1>2. n = CHOOSE x \in I : \A y \in I : x =< y
  BY <1>1 DEF SelectInSeq, Min
<1>3. \E x \in I : \A y \in I : x <= y
  BY <1>1, LeastNat
<1>4. n \in I /\ \A y \in I : n <= y
  BY <1>2, <1>3
<1>5. n \in 1 .. Len(s) /\ s[n] = Newline /\ n \in Nat /\ Len(s) \in Nat
  BY <1>1, <1>4, LenProperties
<1>6. \A i \in 1 .. n - 1 : s[i] \in Letters
  <2> TAKE i \in 1 .. n - 1
  <2>1. i \in 1 .. Len(s) /\ ~(n <= i)
    BY <1>5
  <2>2. i \notin I
    BY <1>4, <2>1
  <2>3. s[i] \in Letters \cup {Newline}
    BY <2>1, ElementOfSeq
  <2> QED BY <2>1, <2>2, <2>3
<1> HIDE DEF I
<1>7. n - 1 \in 0 .. Len(s) /\ n \in 0 .. Len(s) /\ n - 1 \in Int /\ 1 \in Int
  BY <1>5
<1>8. SubSeq(s, 1, n - 1) \in Seq(Letters)
  BY <1>6, <1>7, SubSeqProperties
<1>9. Len(SubSeq(s, 1, n - 1)) = n - 1
  BY <1>7, FirstElements
<1>10. /\ SubSeq(s, n + 1, Len(s)) \in Seq(Letters \cup {Newline})
       /\ s = SubSeq(s, 1, n) \o SubSeq(s, n + 1, Len(s))
  BY <1>7, Cut
<1>11. SubSeq(s, 1, n) = SubSeq(s, 1, n - 1) \o <<Newline>>
  <2>1. 1 \in 1 .. Len(s) /\ n \in 1 .. Len(s)
    BY <1>5
  <2>2. SubSeq(s, 1, n) = SubSeq(s, 1, n - 1) \o <<s[n]>>
    BY <2>1, SubSeqRecursiveSecond
  <2> QED BY <1>5, <2>2
<1> QED BY <1>5, <1>8, <1>9, <1>10, <1>11

\* Without a newline there are only letters.
LEMMA OneLine ==
  ASSUME NEW s \in Seq(Letters \cup {Newline}), Newline \notin Range(s)
  PROVE  s \in Seq(Letters)
PROOF
<1>1. Len(s) \in Nat /\ s \in [1 .. Len(s) -> Letters \cup {Newline}]
  BY LenProperties
<1>2. \A i \in 1 .. Len(s) : s[i] \in Letters
  BY <1>1 DEF Range
<1>3. s \in [1 .. Len(s) -> Letters]
  BY <1>1, <1>2
<1> QED BY <1>1, <1>3

-----------------------------------------------------------------------------
(***************************************************************************)
(* The operators that the properties look at the histories with.           *)
(***************************************************************************)
Characters == Letters \cup {Newline}
Entry == [to : {"debugger", "process"}, text : Seq(Letters)]

LettersIn(s) == [i \in DOMAIN s |-> IF s[i] \in Letters THEN <<s[i]>> ELSE <<>>]

LEMMA LettersInTyped ==
  ASSUME NEW s \in Seq(Characters)
  PROVE  LettersIn(s) \in Seq(Seq(Letters)) /\ Len(LettersIn(s)) = Len(s)
PROOF
<1>1. Len(s) \in Nat /\ DOMAIN s = 1 .. Len(s)
  BY LenProperties
<1>2. \A i \in 1 .. Len(s) : (IF s[i] \in Letters THEN <<s[i]>> ELSE <<>>) \in Seq(Letters)
  OBVIOUS
<1>3. LettersIn(s) \in [1 .. Len(s) -> Seq(Letters)]
  BY <1>1, <1>2 DEF LettersIn
<1>4. LettersIn(s) \in Seq(Seq(Letters))
  BY <1>1, <1>3
<1> QED BY <1>1, <1>3, <1>4, LenProperties

LEMMA LettersOfTyped ==
  ASSUME NEW s \in Seq(Characters)
  PROVE  LettersOf(s) \in Seq(Letters)
PROOF
BY LettersInTyped, FlattenInSeq DEF LettersOf, LettersIn

LEMMA LettersOfConcat ==
  ASSUME NEW s \in Seq(Characters), NEW t \in Seq(Characters)
  PROVE  LettersOf(s \o t) = LettersOf(s) \o LettersOf(t)
PROOF
<1> DEFINE u == s \o t
<1>1. /\ u \in Seq(Characters) /\ Len(u) = Len(s) + Len(t)
      /\ \A i \in 1 .. Len(s) + Len(t) : u[i] = IF i <= Len(s) THEN s[i] ELSE t[i - Len(s)]
  BY ConcatProperties
<1> HIDE DEF u
<1> DEFINE a == LettersIn(s)
           b == LettersIn(t)
           c == LettersIn(u)
<1>2. /\ a \in Seq(Seq(Letters)) /\ Len(a) = Len(s)
      /\ b \in Seq(Seq(Letters)) /\ Len(b) = Len(t)
      /\ c \in Seq(Seq(Letters)) /\ Len(c) = Len(u)
  BY <1>1, LettersInTyped
<1>3. /\ Len(s) \in Nat /\ DOMAIN s = 1 .. Len(s)
      /\ Len(t) \in Nat /\ DOMAIN t = 1 .. Len(t) /\ DOMAIN u = 1 .. Len(u)
  BY <1>1, LenProperties
<1>4. /\ \A i \in 1 .. Len(s) : a[i] = IF s[i] \in Letters THEN <<s[i]>> ELSE <<>>
      /\ \A i \in 1 .. Len(t) : b[i] = IF t[i] \in Letters THEN <<t[i]>> ELSE <<>>
      /\ \A i \in 1 .. Len(u) : c[i] = IF u[i] \in Letters THEN <<u[i]>> ELSE <<>>
  BY <1>3 DEF LettersIn
<1> HIDE DEF a, b, c
<1>5. /\ a \o b \in Seq(Seq(Letters)) /\ Len(a \o b) = Len(a) + Len(b)
      /\ \A i \in 1 .. Len(a) + Len(b) :
           (a \o b)[i] = IF i <= Len(a) THEN a[i] ELSE b[i - Len(a)]
  BY <1>2, ConcatProperties
<1>6. ASSUME NEW i \in 1 .. Len(c) PROVE c[i] = (a \o b)[i]
  <2>1. CASE i <= Len(s)
    <3>1. i \in 1 .. Len(s) /\ u[i] = s[i] /\ (a \o b)[i] = a[i]
      BY <1>1, <1>2, <1>3, <1>5, <2>1
    <3>2. c[i] = IF u[i] \in Letters THEN <<u[i]>> ELSE <<>>
      BY <1>2, <1>4
    <3> QED BY <1>4, <3>1, <3>2
  <2>2. CASE ~(i <= Len(s))
    <3>1. i - Len(s) \in 1 .. Len(t) /\ u[i] = t[i - Len(s)] /\ (a \o b)[i] = b[i - Len(s)]
      BY <1>1, <1>2, <1>3, <1>5, <2>2
    <3>2. c[i] = IF u[i] \in Letters THEN <<u[i]>> ELSE <<>>
      BY <1>2, <1>4
    <3> QED BY <1>4, <3>1, <3>2
  <2> QED BY <2>1, <2>2
<1>7. Len(c) = Len(a \o b)
  BY <1>1, <1>2, <1>5
<1>8. c = a \o b
  BY <1>2, <1>5, <1>6, <1>7, SeqEqual
<1>9. FlattenSeq(c) = FlattenSeq(a) \o FlattenSeq(b)
  BY <1>2, <1>8, FlattenConcat
<1> QED BY <1>9 DEF a, b, c, u, LettersIn, LettersOf

LEMMA LettersOfEmpty == LettersOf(<<>>) = <<>>
PROOF
<1>1. LettersIn(<<>>) \in Seq(Seq(Letters)) /\ Len(LettersIn(<<>>)) = 0
  BY LettersInTyped, EmptySeq
<1>2. LettersIn(<<>>) = <<>>
  BY <1>1, EmptySeq
<1> QED BY <1>2, FlattenEmpty DEF LettersOf, LettersIn

LEMMA LettersOfOne ==
  ASSUME NEW c \in Characters
  PROVE  LettersOf(<<c>>) = IF c \in Letters THEN <<c>> ELSE <<>>
PROOF
<1> DEFINE x == IF c \in Letters THEN <<c>> ELSE <<>>
<1>1. LettersIn(<<c>>) = <<x>>
  BY DEF LettersIn
<1>2. x \in Seq(Letters)
  OBVIOUS
<1> HIDE DEF x
<1>3. LettersOf(<<c>>) = x
  BY <1>1, <1>2, FlattenOne DEF LettersOf, LettersIn
<1> QED BY <1>3 DEF x

\* Letters stay as they are.
LEMMA LettersOfLetters ==
  ASSUME NEW s \in Seq(Letters)
  PROVE  LettersOf(s) = s
PROOF
<1> DEFINE T == {k \in Nat : \A t \in Seq(Letters) : Len(t) = k => LettersOf(t) = t}
<1>1. 0 \in T
  <2>1. \A t \in Seq(Letters) : Len(t) = 0 => t = <<>>
    BY EmptySeq
  <2> QED BY <2>1, LettersOfEmpty
<1>2. ASSUME NEW k \in Nat, k \in T PROVE k + 1 \in T
  <2> SUFFICES ASSUME NEW t \in Seq(Letters), Len(t) = k + 1 PROVE LettersOf(t) = t
    OBVIOUS
  <2>1. t # <<>>
    BY EmptySeq
  <2>2. PICK u \in Seq(Letters), c \in Letters : t = Append(u, c)
    BY <2>1, SequenceEmptyOrAppend
  <2>3. Len(u) = k
    BY <2>2, AppendProperties, LenProperties
  <2>4. LettersOf(u) = u
    BY <1>2, <2>3
  <2>5. t = u \o <<c>>
    BY <2>2, AppendIsConcat
  <2>6. u \in Seq(Characters) /\ <<c>> \in Seq(Characters) /\ c \in Characters
    BY SeqMonotonic DEF Characters
  <2>7. LettersOf(u \o <<c>>) = LettersOf(u) \o LettersOf(<<c>>)
    BY <2>6, LettersOfConcat
  <2>8. LettersOf(<<c>>) = <<c>>
    BY <2>6, LettersOfOne
  <2> QED BY <2>4, <2>5, <2>7, <2>8
<1>3. Len(s) \in T
  BY <1>1, <1>2, AllNat, LenProperties
<1> QED BY <1>3

TextsIn(e) == [i \in DOMAIN e |-> e[i].text]
TextsTo(who, e) == [i \in DOMAIN e |-> IF e[i].to = who THEN e[i].text ELSE <<>>]
Ended(e) == [i \in DOMAIN e |-> Append(e[i], Newline)]

LEMMA EntriesTyped ==
  ASSUME NEW e \in Seq(Entry), NEW who
  PROVE  /\ TextsIn(e) \in Seq(Seq(Letters)) /\ Len(TextsIn(e)) = Len(e)
         /\ TextsTo(who, e) \in Seq(Seq(Letters)) /\ Len(TextsTo(who, e)) = Len(e)
         /\ \A i \in 1 .. Len(e) :
              /\ TextsIn(e)[i] = e[i].text
              /\ TextsTo(who, e)[i] = IF e[i].to = who THEN e[i].text ELSE <<>>
PROOF
<1>1. Len(e) \in Nat /\ DOMAIN e = 1 .. Len(e) /\ \A i \in 1 .. Len(e) : e[i] \in Entry
  BY LenProperties, ElementOfSeq
<1>2. TextsIn(e) \in [1 .. Len(e) -> Seq(Letters)]
  BY <1>1 DEF TextsIn, Entry
<1>3. TextsTo(who, e) \in [1 .. Len(e) -> Seq(Letters)]
  <2>1. \A i \in 1 .. Len(e) : (IF e[i].to = who THEN e[i].text ELSE <<>>) \in Seq(Letters)
    BY <1>1 DEF Entry
  <2> QED BY <1>1, <2>1 DEF TextsTo
<1>4. TextsIn(e) \in Seq(Seq(Letters)) /\ Len(TextsIn(e)) = Len(e)
  BY <1>1, <1>2, FunctionIsSequence
<1>5. TextsTo(who, e) \in Seq(Seq(Letters)) /\ Len(TextsTo(who, e)) = Len(e)
  BY <1>1, <1>3, FunctionIsSequence
<1>6. \A i \in 1 .. Len(e) :
        /\ TextsIn(e)[i] = e[i].text
        /\ TextsTo(who, e)[i] = IF e[i].to = who THEN e[i].text ELSE <<>>
  BY <1>1 DEF TextsIn, TextsTo
<1> QED BY <1>4, <1>5, <1>6

\* An entered line comes after those entered before.
LEMMA TextAppend ==
  ASSUME NEW e \in Seq(Entry), NEW x \in Entry, NEW who
  PROVE  /\ TextOf(e) \in Seq(Letters) /\ TextTo(who, e) \in Seq(Letters)
         /\ TextOf(Append(e, x)) = TextOf(e) \o x.text
         /\ TextTo(who, Append(e, x)) =
              TextTo(who, e) \o (IF x.to = who THEN x.text ELSE <<>>)
PROOF
<1> DEFINE u == Append(e, x)
           y == IF x.to = who THEN x.text ELSE <<>>
<1>1. /\ u \in Seq(Entry) /\ Len(u) = Len(e) + 1 /\ u[Len(e) + 1] = x
      /\ \A i \in 1 .. Len(e) : u[i] = e[i]
  BY AppendProperties
<1>2. Len(e) \in Nat /\ x.text \in Seq(Letters) /\ y \in Seq(Letters)
  BY LenProperties DEF Entry
<1>3. u[Len(e) + 1].to = x.to /\ u[Len(e) + 1].text = x.text
  BY <1>1
<1> HIDE DEF u
<1>4. \A i \in 1 .. Len(e) : /\ TextsIn(e)[i] = e[i].text
                           /\ TextsTo(who, e)[i] = IF e[i].to = who THEN e[i].text ELSE <<>>
  BY EntriesTyped
<1>5. \A i \in 1 .. Len(u) : /\ TextsIn(u)[i] = u[i].text
                            /\ TextsTo(who, u)[i] = IF u[i].to = who THEN u[i].text ELSE <<>>
  BY <1>1, EntriesTyped
<1>6. TextsIn(u) = Append(TextsIn(e), x.text)
  <2>1. /\ TextsIn(e) \in Seq(Seq(Letters)) /\ Len(TextsIn(e)) = Len(e)
        /\ TextsIn(u) \in Seq(Seq(Letters)) /\ Len(TextsIn(u)) = Len(e) + 1
    BY <1>1, EntriesTyped
  <2>2. ASSUME NEW i \in 1 .. Len(e) PROVE TextsIn(u)[i] = TextsIn(e)[i]
    <3>1. i \in 1 .. Len(u)
      BY <1>1, <1>2
    <3> QED BY <1>1, <1>4, <1>5, <3>1
  <2>3. TextsIn(u)[Len(e) + 1] = x.text
    <3>1. Len(e) + 1 \in 1 .. Len(u)
      BY <1>1, <1>2
    <3> QED BY <1>1, <1>3, <1>5, <3>1
  <2> QED BY <1>2, <2>1, <2>2, <2>3, OneMore
<1>7. TextsTo(who, u) = Append(TextsTo(who, e), y)
  <2>1. /\ TextsTo(who, e) \in Seq(Seq(Letters)) /\ Len(TextsTo(who, e)) = Len(e)
        /\ TextsTo(who, u) \in Seq(Seq(Letters)) /\ Len(TextsTo(who, u)) = Len(e) + 1
    BY <1>1, EntriesTyped
  <2>2. ASSUME NEW i \in 1 .. Len(e) PROVE TextsTo(who, u)[i] = TextsTo(who, e)[i]
    <3>1. i \in 1 .. Len(u)
      BY <1>1, <1>2
    <3> QED BY <1>1, <1>4, <1>5, <3>1
  <2>3. TextsTo(who, u)[Len(e) + 1] = y
    <3>1. Len(e) + 1 \in 1 .. Len(u)
      BY <1>1, <1>2
    <3> QED BY <1>1, <1>3, <1>5, <3>1
  <2> HIDE DEF y
  <2> QED BY <1>2, <2>1, <2>2, <2>3, OneMore
<1> HIDE DEF y
<1>8. TextsIn(e) \in Seq(Seq(Letters)) /\ TextsTo(who, e) \in Seq(Seq(Letters))
  BY EntriesTyped
<1>9. /\ FlattenSeq(TextsIn(u)) = FlattenSeq(TextsIn(e)) \o x.text
      /\ FlattenSeq(TextsTo(who, u)) = FlattenSeq(TextsTo(who, e)) \o y
  BY <1>2, <1>6, <1>7, <1>8, FlattenAppend
<1>10. FlattenSeq(TextsIn(e)) \in Seq(Letters) /\ FlattenSeq(TextsTo(who, e)) \in Seq(Letters)
  BY <1>8, FlattenInSeq
<1> QED BY <1>9, <1>10 DEF TextOf, TextTo, TextsIn, TextsTo, u, y

LEMMA TextEmpty ==
  TextOf(<<>>) = <<>> /\ TextTo("process", <<>>) = <<>> /\ EndedLines(<<>>) = <<>>
PROOF
<1>1. /\ TextsIn(<<>>) = <<>> /\ TextsTo("process", <<>>) = <<>> /\ Ended(<<>>) = <<>>
  BY DEF TextsIn, TextsTo, Ended
<1> QED BY <1>1, FlattenEmpty DEF TextOf, TextTo, EndedLines, TextsIn, TextsTo, Ended

\* A line comes after those displayed before.
LEMMA EndedAppend ==
  ASSUME NEW e \in Seq(Seq(Letters)), NEW x \in Seq(Letters)
  PROVE  /\ EndedLines(e) \in Seq(Characters)
         /\ EndedLines(Append(e, x)) = EndedLines(e) \o (x \o <<Newline>>)
PROOF
<1> DEFINE u == Append(e, x)
           y == Append(x, Newline)
<1>1. /\ u \in Seq(Seq(Letters)) /\ Len(u) = Len(e) + 1 /\ u[Len(e) + 1] = x
      /\ \A i \in 1 .. Len(e) : u[i] = e[i]
  BY AppendProperties
<1>2. Len(e) \in Nat /\ Newline \in Characters /\ x \in Seq(Characters)
  BY LenProperties, SeqMonotonic DEF Characters
<1>3. y \in Seq(Characters) /\ y = x \o <<Newline>>
  BY <1>2, AppendProperties, AppendIsConcat
<1> HIDE DEF u
<1>4. ASSUME NEW s \in Seq(Seq(Letters))
      PROVE  /\ Ended(s) \in Seq(Seq(Characters)) /\ Len(Ended(s)) = Len(s)
             /\ \A i \in 1 .. Len(s) : Ended(s)[i] = Append(s[i], Newline)
  <2>1. Len(s) \in Nat /\ DOMAIN s = 1 .. Len(s)
    BY LenProperties
  <2>2. \A i \in 1 .. Len(s) : Append(s[i], Newline) \in Seq(Characters)
    <3> TAKE i \in 1 .. Len(s)
    <3>1. s[i] \in Seq(Letters)
      BY ElementOfSeq
    <3>2. s[i] \in Seq(Characters)
      BY <3>1, SeqMonotonic DEF Characters
    <3> QED BY <1>2, <3>2, AppendProperties
  <2>3. Ended(s) \in [1 .. Len(s) -> Seq(Characters)]
    BY <2>1, <2>2 DEF Ended
  <2>4. Ended(s) \in Seq(Seq(Characters)) /\ Len(Ended(s)) = Len(s)
    BY <2>1, <2>3, FunctionIsSequence
  <2> QED BY <2>1, <2>4 DEF Ended
<1>5. Ended(u) = Append(Ended(e), y)
  <2>1. /\ Ended(e) \in Seq(Seq(Characters)) /\ Len(Ended(e)) = Len(e)
        /\ Ended(u) \in Seq(Seq(Characters)) /\ Len(Ended(u)) = Len(e) + 1
    BY <1>1, <1>4
  <2>2. ASSUME NEW i \in 1 .. Len(e) PROVE Ended(u)[i] = Ended(e)[i]
    <3>1. i \in 1 .. Len(u) /\ u[i] = e[i]
      BY <1>1, <1>2
    <3> QED BY <1>1, <1>4, <3>1
  <2>3. Ended(u)[Len(e) + 1] = y
    <3>1. Len(e) + 1 \in 1 .. Len(u) /\ u[Len(e) + 1] = x
      BY <1>1, <1>2
    <3> QED BY <1>1, <1>4, <3>1
  <2> HIDE DEF y
  <2> QED BY <1>2, <1>3, <2>1, <2>2, <2>3, OneMore
<1> HIDE DEF y
<1>6. Ended(e) \in Seq(Seq(Characters))
  BY <1>4
<1>7. FlattenSeq(Ended(u)) = FlattenSeq(Ended(e)) \o y
  BY <1>3, <1>5, <1>6, FlattenAppend
<1>8. FlattenSeq(Ended(e)) \in Seq(Characters)
  BY <1>6, FlattenInSeq
<1> QED BY <1>3, <1>7, <1>8 DEF EndedLines, Ended, u

-----------------------------------------------------------------------------
(***************************************************************************)
(* Types.                                                                  *)
(***************************************************************************)
LEMMA Sizes ==
  ASSUME session \in Sessions
  PROVE  /\ OutSize \in Nat /\ InSize \in Nat /\ Columns \in Nat /\ Columns >= 2
         /\ Newline \notin Letters /\ session.letters \in Nat /\ session.output \in Nat
         /\ \A text \in session.texts : text \in Seq(Characters) /\ text # <<>>
PROOF
<1>1. \A text \in session.texts : text \in Texts
  BY DEF Texts
<1> QED BY <1>1, SizesAssumption, LettersAssumption, TextsAssumption DEF Characters

LEMMA InitTypes == Init => TypeOK
PROOF
<1> SUFFICES ASSUME Init PROVE TypeOK
  OBVIOUS
<1>1. session \in Sessions
  BY DEF Init
<1>2. OutSize \in Nat /\ InSize \in Nat /\ Columns \in Nat /\ Columns >= 2
  BY <1>1, Sizes
<1>3. /\ out = <<>> /\ in = <<>> /\ mReadBuf = <<>> /\ line = <<>> /\ mOutput = <<>>
      /\ mInputWindow = <<>> /\ request = <<>> /\ printed = <<>> /\ typed = <<>>
      /\ taken = <<>> /\ entered = <<>>
  BY DEF Init
<1>4. /\ out \in Seq(Characters) /\ in \in Seq(Letters) /\ mReadBuf \in Seq(Characters)
      /\ line \in Seq(Letters) /\ mOutput \in Seq(Seq(Letters)) /\ mInputWindow \in Seq(Letters)
      /\ request \in Seq(Letters) /\ printed \in Seq(Characters) /\ typed \in Seq(Letters)
      /\ taken \in Seq(Letters) /\ entered \in Seq(Entry)
  BY <1>3
<1>5. Len(out) <= OutSize /\ Len(in) <= InSize /\ Len(mInputWindow) < Columns
  BY <1>2, <1>3, EmptySeq
<1> QED BY <1>4, <1>5 DEF Init, TypeOK, Characters, Entry

LEMMA WriteTypes ==
  ASSUME TypeOK, NEW text \in session.texts, Write(text)
  PROVE  TypeOK'
PROOF
<1>1. text \in Seq(Characters) /\ OutSize \in Nat
  BY Sizes DEF TypeOK
<1>2. out \in Seq(Characters) /\ printed \in Seq(Characters)
  BY DEF TypeOK, Characters
<1>3. /\ out \o text \in Seq(Characters) /\ Len(out \o text) = Len(out) + Len(text)
      /\ printed \o text \in Seq(Characters)
  BY <1>1, <1>2, ConcatProperties
<1>4. out' \in Seq(Characters) /\ Len(out') <= OutSize /\ printed' \in Seq(Characters)
      /\ overflow' \in BOOLEAN
  BY <1>2, <1>3 DEF Write, TypeOK
<1> QED BY <1>4 DEF Write, TypeOK, outputVars, inputVars, Characters

LEMMA ReadTypes ==
  ASSUME TypeOK, Read
  PROVE  TypeOK' /\ taken' \o in' = taken \o in
PROOF
<1>1. in \in Seq(Letters) /\ taken \in Seq(Letters) /\ Len(in) \in Nat /\ InSize \in Nat
  BY Sizes, LenProperties DEF TypeOK
<1>2. PICK n \in 1 .. Len(in) : /\ taken' = taken \o SubSeq(in, 1, n)
                                /\ in' = SubSeq(in, n + 1, Len(in))
  BY DEF Read
<1>3. n \in 0 .. Len(in)
  BY <1>1
<1> DEFINE a == SubSeq(in, 1, n)
           b == SubSeq(in, n + 1, Len(in))
<1>4. a \in Seq(Letters) /\ b \in Seq(Letters) /\ Len(b) = Len(in) - n /\ in = a \o b
  BY <1>1, <1>3, Cut
<1>5. taken' = taken \o a /\ in' = b
  BY <1>2
<1> HIDE DEF a, b
<1>6. taken' \in Seq(Letters) /\ (taken \o a) \o b = taken \o (a \o b)
  BY <1>1, <1>4, <1>5, ConcatProperties, ConcatAssociative
<1>7. in' \in Seq(Letters) /\ Len(in') <= InSize
  BY <1>1, <1>4, <1>5 DEF TypeOK
<1>8. TypeOK'
  BY <1>6, <1>7 DEF Read, TypeOK, outputVars, inputVars
<1> QED BY <1>4, <1>5, <1>6, <1>8

LEMMA TypeTypes ==
  ASSUME TypeOK, NEW k \in Letters, Type(k)
  PROVE  typed' \in Seq(Letters) /\ mInputWindow' \in Seq(Letters) /\ Len(mInputWindow') < Columns
PROOF
<1>1. typed \in Seq(Letters) /\ mInputWindow \in Seq(Letters)
  BY DEF TypeOK
<1>2. /\ Append(typed, k) \in Seq(Letters) /\ Append(mInputWindow, k) \in Seq(Letters)
      /\ Len(Append(mInputWindow, k)) = Len(mInputWindow) + 1
  BY <1>1, AppendProperties
<1> QED BY <1>2 DEF Type

LEMMA EnterTypes ==
  ASSUME TypeOK, NEW to \in {"debugger", "process"}, EnterLine(to)
  PROVE  /\ mInputWindow' \in Seq(Letters) /\ Len(mInputWindow') < Columns
         /\ typed' \in Seq(Letters) /\ entered' \in Seq(Entry)
PROOF
<1>1. mInputWindow' \in Seq(Letters) /\ Len(mInputWindow') < Columns
  <2>1. Columns \in Nat /\ Columns >= 2
    BY Sizes DEF TypeOK
  <2> QED BY <2>1, EmptySeq DEF EnterLine
<1>2. [to |-> to, text |-> mInputWindow] \in Entry /\ entered \in Seq(Entry)
  BY DEF TypeOK, Entry
<1>3. Append(entered, [to |-> to, text |-> mInputWindow]) \in Seq(Entry)
  BY <1>2, AppendProperties
<1>4. entered' \in Seq(Entry)
  BY <1>2, <1>3 DEF EnterLine
<1> QED BY <1>1, <1>4 DEF EnterLine, TypeOK

LEMMA PromptTypes ==
  ASSUME TypeOK, Prompt
  PROVE  TypeOK'
PROOF
<1>1. CASE \E k \in Letters : Type(k)
  BY <1>1, TypeTypes DEF Prompt, Type, TypeOK, processVars, outputVars
<1>2. CASE EnterLine("debugger") /\ Goto("command") /\ UNCHANGED request
  BY <1>2, EnterTypes DEF Prompt, Goto, TypeOK, processVars, outputVars, Entry
<1> QED BY <1>1, <1>2 DEF Prompt

LEMMA InputTypes ==
  ASSUME TypeOK, Input
  PROVE  TypeOK'
PROOF
<1>1. CASE \E k \in Letters : Type(k)
  BY <1>1, TypeTypes DEF Input, Type, TypeOK, outputVars, processVars
<1>2. CASE InputEntered
  <2>1. request' \in Seq(Letters)
    BY <1>2 DEF InputEntered, TypeOK
  <2>2. at' \in {"drain", "send"}
    BY <1>2 DEF InputEntered, Goto
  <2> QED BY <1>2, <2>1, <2>2, EnterTypes
          DEF Input, InputEntered, TypeOK, outputVars, processVars, Entry
<1>3. CASE Goto("drain") /\ UNCHANGED inputVars
  BY <1>3 DEF Input, Goto, TypeOK, outputVars, processVars, inputVars
<1> QED BY <1>1, <1>2, <1>3 DEF Input

LEMMA SendTypes ==
  ASSUME TypeOK, Send
  PROVE  TypeOK'
PROOF
<1>1. in \in Seq(Letters) /\ request \in Seq(Letters)
  BY DEF TypeOK
<1>2. in \o request \in Seq(Letters) /\ Len(in \o request) = Len(in) + Len(request)
  BY <1>1, ConcatProperties
<1>3. in' \in Seq(Letters) /\ Len(in') <= InSize /\ request' \in Seq(Letters)
  BY <1>1, <1>2, EmptySeq DEF Send, HasRoom, TypeOK
<1> QED BY <1>3 DEF Send, Goto, TypeOK, outputVars

\* What getLine does to the texts it has: a line is taken, the pipe is read, or the rest
\* is taken as a line because the pipe is empty.
Takes(s) ==
  /\ line' = <<>>
  /\ \/ s = <<>> /\ UNCHANGED mOutput
     \/ s # <<>> /\ mOutput' = Append(mOutput, s) /\ UNCHANGED at
TakesLine ==
  \E s, rest \in Seq(Characters) :
    /\ s \in Seq(Letters) /\ mReadBuf = (s \o <<Newline>>) \o rest
    /\ Takes(line \o s) /\ mReadBuf' = rest /\ UNCHANGED out
ReadsPipe == /\ out # <<>> /\ mReadBuf \in Seq(Letters)
             /\ line' = line \o mReadBuf /\ mReadBuf' = out /\ out' = <<>>
             /\ UNCHANGED <<mOutput, mRunning, at>>
TakesRest == /\ out = <<>> /\ mReadBuf \in Seq(Letters)
             /\ Takes(line \o mReadBuf) /\ mReadBuf' = <<>> /\ UNCHANGED out

LEMMA GotTakes ==
  ASSUME NEW s, Got(s)
  PROVE  Takes(s)
PROOF
BY DEF Got, Takes

LEMMA DrainSteps ==
  ASSUME TypeOK, Drain
  PROVE  TakesLine \/ ReadsPipe \/ TakesRest
PROOF
<1>1. mReadBuf \in Seq(Characters)
  BY DEF TypeOK, Characters
<1>2. CASE Newline \in Range(mReadBuf)
  <2> DEFINE n == SelectInSeq(mReadBuf, LAMBDA c : c = Newline)
             s == SubSeq(mReadBuf, 1, n - 1)
             rest == SubSeq(mReadBuf, n + 1, Len(mReadBuf))
  <2>1. /\ Got(line \o s) /\ mReadBuf' = rest /\ UNCHANGED out
    BY <1>2 DEF Drain
  <2>2. /\ s \in Seq(Letters) /\ rest \in Seq(Characters)
        /\ mReadBuf = (s \o <<Newline>>) \o rest
    BY <1>1, <1>2, FirstLine DEF Characters
  <2> HIDE DEF n, s, rest
  <2>3. s \in Seq(Characters)
    BY <2>2, SeqMonotonic DEF Characters
  <2>4. Takes(line \o s)
    BY <2>1, GotTakes
  <2> QED BY <2>1, <2>2, <2>3, <2>4 DEF TakesLine
<1>3. CASE Newline \notin Range(mReadBuf)
  <2>1. mReadBuf \in Seq(Letters)
    BY <1>1, <1>3, OneLine DEF Characters
  <2>2. CASE out # <<>>
    BY <1>3, <2>1, <2>2 DEF Drain, ReadsPipe
  <2>3. CASE out = <<>>
    <3>1. Got(line \o mReadBuf) /\ mReadBuf' = <<>> /\ UNCHANGED out
      BY <1>3, <2>3 DEF Drain
    <3> QED BY <2>1, <2>3, <3>1, GotTakes DEF TakesRest
  <2> QED BY <2>2, <2>3
<1> QED BY <1>2, <1>3

LEMMA TakesTypes ==
  ASSUME TypeOK, NEW s \in Seq(Letters), Takes(line \o s)
  PROVE  line' \in Seq(Letters) /\ mOutput' \in Seq(Seq(Letters))
PROOF
<1>1. line \in Seq(Letters) /\ mOutput \in Seq(Seq(Letters))
  BY DEF TypeOK
<1>2. line \o s \in Seq(Letters)
  BY <1>1, ConcatProperties
<1>3. Append(mOutput, line \o s) \in Seq(Seq(Letters))
  BY <1>1, <1>2, AppendProperties
<1> QED BY <1>1, <1>3, EmptySeq DEF Takes

LEMMA DrainTypes ==
  ASSUME TypeOK, Drain
  PROVE  TypeOK'
PROOF
<1>1. mRunning' \in BOOLEAN /\ at' \in {"command", "waitpid", "drain"}
  BY DEF Drain, Got, TurnEnds, Leave, Goto, TypeOK
<1>2. /\ out' \in Seq(Characters) /\ Len(out') <= OutSize /\ mReadBuf' \in Seq(Characters)
      /\ line' \in Seq(Letters) /\ mOutput' \in Seq(Seq(Letters))
  <2>1. /\ out \in Seq(Characters) /\ mReadBuf \in Seq(Characters) /\ line \in Seq(Letters)
        /\ mOutput \in Seq(Seq(Letters)) /\ Len(out) <= OutSize /\ OutSize \in Nat
    BY Sizes DEF TypeOK, Characters
  <2>2. CASE TakesLine
    BY <2>1, <2>2, TakesTypes DEF TakesLine
  <2>3. CASE ReadsPipe
    <3>1. line \o mReadBuf \in Seq(Letters)
      BY <2>1, <2>3, ConcatProperties DEF ReadsPipe
    <3> QED BY <2>1, <2>3, <3>1, EmptySeq DEF ReadsPipe
  <2>4. CASE TakesRest
    BY <2>1, <2>4, TakesTypes, EmptySeq DEF TakesRest
  <2> QED BY <2>2, <2>3, <2>4, DrainSteps
<1> QED BY <1>1, <1>2 DEF Drain, TypeOK, inputVars, Characters

LEMMA TypesStep ==
  ASSUME TypeOK, [Next]_vars
  PROVE  TypeOK'
PROOF
<1>1. CASE \E text \in session.texts : Write(text)
  BY <1>1, WriteTypes
<1>2. CASE Read
  BY <1>2, ReadTypes
<1>3. CASE \E how \in {"stopped", "exited"} : Halt(how)
  BY <1>3 DEF Halt, TypeOK, outputVars, inputVars
<1>4. CASE Prompt
  BY <1>4, PromptTypes
<1>5. CASE WaitPid
  BY <1>5 DEF WaitPid, Goto, TypeOK, processVars, outputVars, inputVars
<1>6. CASE Input
  BY <1>6, InputTypes
<1>7. CASE Send
  BY <1>7, SendTypes
<1>8. CASE Drain
  BY <1>8, DrainTypes
<1>9. CASE Command
  BY <1>9 DEF Command, Goto, TypeOK, outputVars, inputVars
<1>10. CASE UNCHANGED vars
  BY <1>10 DEF vars, processVars, outputVars, inputVars, TypeOK
<1> QED BY <1>1, <1>2, <1>3, <1>4, <1>5, <1>6, <1>7, <1>8, <1>9, <1>10 DEF Next, Process, Turn

\* The state keeps its type: a pipe never holds more than its size, a line never more
\* than the window, and what is taken for a line has no newline (debuggerview.cpp:437-471).
THEOREM TypeCorrect == Spec => []TypeOK
PROOF
BY InitTypes, TypesStep, PTL DEF Spec

-----------------------------------------------------------------------------
(***************************************************************************)
(* From the keys to the lines: what is typed is entered or in the window.  *)
(***************************************************************************)
TypingInv == typed = TextOf(entered) \o mInputWindow

LEMMA TypingPrefixes ==
  \A s, t : (Typing!IsPrefix(s, t) <=> IsPrefix(s, t))
            /\ (Typing!IsStrictPrefix(s, t) <=> IsStrictPrefix(s, t))
PROOF
BY DEF Typing!IsPrefix, Typing!IsStrictPrefix, IsPrefix, IsStrictPrefix

LEMMA KeysStep ==
  ASSUME [Next]_vars
  PROVE  \/ UNCHANGED <<typed, entered, mInputWindow>>
         \/ \E k \in Letters : Type(k)
         \/ EnterLine("debugger")
         \/ EnterLine("process")
PROOF
BY DEF Next, Process, Turn, Write, Read, Halt, Prompt, Command, WaitPid, Input, InputEntered, Send, Drain,
       vars, inputVars

LEMMA EnteredText ==
  ASSUME TypeOK, NEW to \in {"debugger", "process"}, EnterLine(to)
  PROVE  /\ TextOf(entered') = TextOf(entered) \o mInputWindow
         /\ TextTo("process", entered') =
              TextTo("process", entered) \o (IF to = "process" THEN mInputWindow ELSE <<>>)
PROOF
<1> DEFINE x == [to |-> to, text |-> mInputWindow]
<1>1. /\ entered \in Seq(Entry) /\ mInputWindow \in Seq(Letters)
      /\ x \in Entry /\ x.to = to /\ x.text = mInputWindow
  BY DEF TypeOK, Entry
<1> HIDE DEF x
<1>2. TextOf(entered) \in Seq(Letters) /\ TextTo("process", entered) \in Seq(Letters)
  BY <1>1, TextAppend
<1>3. CASE mInputWindow = <<>>
  <2>1. entered' = entered
    BY <1>3 DEF EnterLine
  <2>2. /\ TextOf(entered) \o <<>> = TextOf(entered)
        /\ TextTo("process", entered) \o <<>> = TextTo("process", entered)
    BY <1>2, ConcatEmptySeq
  <2> QED BY <1>3, <2>1, <2>2
<1>4. CASE mInputWindow # <<>>
  <2>1. entered' = Append(entered, x)
    BY <1>4 DEF EnterLine, x
  <2>2. /\ TextOf(Append(entered, x)) = TextOf(entered) \o x.text
        /\ TextTo("process", Append(entered, x)) =
             TextTo("process", entered) \o (IF x.to = "process" THEN x.text ELSE <<>>)
    BY <1>1, TextAppend
  <2> QED BY <1>1, <2>1, <2>2
<1> QED BY <1>3, <1>4

LEMMA TypingStep ==
  ASSUME TypeOK, TypingInv, [Next]_vars
  PROVE  TypingInv' /\ [Typing!Send \/ Typing!Receive]_<<typed, TextOf(entered)>>
PROOF
<1>1. /\ typed \in Seq(Letters) /\ mInputWindow \in Seq(Letters) /\ entered \in Seq(Entry)
      /\ TextOf(entered) \in Seq(Letters) /\ typed = TextOf(entered) \o mInputWindow
  <2>1. entered \in Seq(Entry)
    BY DEF TypeOK, Entry
  <2>2. [to |-> "process", text |-> <<>>] \in Entry
    BY DEF Entry
  <2>3. TextOf(entered) \in Seq(Letters)
    BY <2>1, <2>2, TextAppend
  <2> QED BY <2>1, <2>3 DEF TypeOK, TypingInv
<1>2. CASE UNCHANGED <<typed, entered, mInputWindow>>
  BY <1>1, <1>2 DEF TypingInv
<1>3. CASE \E k \in Letters : Type(k)
  <2>1. PICK k \in Letters : Type(k)
    BY <1>3
  <2>2. /\ typed' = Append(typed, k) /\ mInputWindow' = Append(mInputWindow, k)
        /\ entered' = entered
    BY <2>1 DEF Type
  <2>3. <<k>> \in Seq(Letters) /\ <<k>> # <<>>
    OBVIOUS
  <2>4. typed' = typed \o <<k>> /\ mInputWindow' = mInputWindow \o <<k>>
    BY <1>1, <2>2, AppendIsConcat
  <2>5. (TextOf(entered) \o mInputWindow) \o <<k>> = TextOf(entered) \o (mInputWindow \o <<k>>)
    BY <1>1, <2>3, ConcatAssociative
  <2>6. TypingInv'
    BY <1>1, <2>2, <2>4, <2>5 DEF TypingInv
  <2>7. IsStrictPrefix(typed, typed')
    BY <1>1, <2>3, <2>4, Continued
  <2> QED BY <2>2, <2>6, <2>7, TypingPrefixes DEF Typing!Send
<1>4. ASSUME NEW to \in {"debugger", "process"}, EnterLine(to)
      PROVE  TypingInv' /\ [Typing!Send \/ Typing!Receive]_<<typed, TextOf(entered)>>
  <2>1. mInputWindow' = <<>> /\ typed' = typed
    BY <1>4 DEF EnterLine
  <2>2. TextOf(entered') = typed
    BY <1>1, <1>4, EnteredText
  <2>3. typed \o <<>> = typed /\ TextOf(entered) \o <<>> = TextOf(entered)
    BY <1>1, ConcatEmptySeq
  <2>4. TypingInv'
    BY <2>1, <2>2, <2>3 DEF TypingInv
  <2>5. CASE mInputWindow = <<>>
    BY <1>1, <2>1, <2>2, <2>3, <2>4, <2>5
  <2>6. CASE mInputWindow # <<>>
    <3>1. IsStrictPrefix(TextOf(entered), TextOf(entered'))
      BY <1>1, <2>2, <2>6, Continued
    <3>2. IsPrefix(TextOf(entered'), typed)
      BY <1>1, <2>2, <2>3, EmptySeq, Continued
    <3> QED BY <2>1, <2>4, <3>1, <3>2, TypingPrefixes DEF Typing!Receive
  <2> QED BY <2>5, <2>6
<1> QED BY <1>2, <1>3, <1>4, KeysStep

\* Whatever becomes of the process between two keys, what is typed reaches a command or
\* the process in its order, each letter once (debuggerview.cpp:12-81).
THEOREM TypingInOrderHolds == Spec => TypingInOrder
PROOF
<1>1. Init => TypingInv /\ Typing!Init
  BY TextEmpty DEF Init, TypingInv, Typing!Init
<1>2. TypeOK /\ TypingInv /\ [Next]_vars => TypingInv'
  BY TypingStep
<1>3. TypeOK /\ TypingInv /\ [Next]_vars
        => [Typing!Send \/ Typing!Receive]_<<typed, TextOf(entered)>>
  BY TypingStep
<1> QED BY <1>1, <1>2, <1>3, TypeCorrect, PTL DEF Spec, TypingInOrder, Typing!Spec

-----------------------------------------------------------------------------
(***************************************************************************)
(* From the lines to the process: what is entered for it is read, in the   *)
(* pipe, or being sent; nothing else is.                                   *)
(***************************************************************************)
RequestInv == at \notin {"send", "killed"} => request = <<>>
DeliveryInv == RequestInv /\ TextTo("process", entered) = taken \o (in \o request)

LEMMA DeliveryPrefixes ==
  \A s, t : (Delivery!IsPrefix(s, t) <=> IsPrefix(s, t))
            /\ (Delivery!IsStrictPrefix(s, t) <=> IsStrictPrefix(s, t))
PROOF
BY DEF Delivery!IsPrefix, Delivery!IsStrictPrefix, IsPrefix, IsStrictPrefix

LEMMA RequestStep ==
  ASSUME RequestInv, [Next]_vars
  PROVE  RequestInv'
PROOF
BY DEF RequestInv, Next, Process, Turn, Write, Read, Halt, Prompt, Command, Type, EnterLine, Goto, WaitPid,
       Input, InputEntered, Send, Drain, Got, TurnEnds, Leave, vars, inputVars

LEMMA LinesStep ==
  ASSUME [Next]_vars
  PROVE  \/ UNCHANGED <<entered, taken, in, request>>
         \/ Read /\ UNCHANGED <<entered, request>>
         \/ EnterLine("debugger") /\ UNCHANGED <<taken, in, request>>
         \/ EnterLine("process") /\ request' = mInputWindow /\ UNCHANGED <<taken, in>> /\ at = "input"
         \/ in' = in \o request /\ request' = <<>> /\ UNCHANGED <<entered, taken>>
PROOF
<1>1. CASE Process
  BY <1>1 DEF Process, Write, Read, Halt, inputVars
<1>2. CASE Prompt
  BY <1>2 DEF Prompt, Type, processVars
<1>3. CASE Turn
  BY <1>3 DEF Turn, WaitPid, Input, InputEntered, Type, Send, Drain, processVars, inputVars
<1>4. CASE Command
  BY <1>4 DEF Command, inputVars
<1>5. CASE UNCHANGED vars
  BY <1>5 DEF vars, processVars, inputVars
<1> QED BY <1>1, <1>2, <1>3, <1>4, <1>5 DEF Next

LEMMA DeliveryStep ==
  ASSUME TypeOK, TypeOK', DeliveryInv, [Next]_vars
  PROVE  /\ DeliveryInv'
         /\ [Delivery!Send \/ Delivery!Receive]_<<TextTo("process", entered), taken>>
PROOF
<1> DEFINE sent == TextTo("process", entered)
<1>1. /\ taken \in Seq(Letters) /\ in \in Seq(Letters) /\ request \in Seq(Letters)
      /\ mInputWindow \in Seq(Letters)
      /\ taken' \in Seq(Letters) /\ in' \in Seq(Letters) /\ request' \in Seq(Letters)
  BY DEF TypeOK
<1>2. sent = taken \o (in \o request)
  BY DEF DeliveryInv
<1>3. in \o request \in Seq(Letters) /\ in \o <<>> = in /\ taken \o in \in Seq(Letters)
  BY <1>1, ConcatProperties, ConcatEmptySeq
<1>4. sent \in Seq(Letters) /\ sent \o <<>> = sent
  <2> HIDE DEF sent
  <2>1. sent \in Seq(Letters)
    BY <1>1, <1>2, <1>3, ConcatProperties
  <2> QED BY <2>1, ConcatEmptySeq
<1>5. RequestInv'
  BY RequestStep DEF DeliveryInv
<1>6. ASSUME sent' = sent, taken' = taken, in' \o request' = in \o request
      PROVE  /\ DeliveryInv'
             /\ [Delivery!Send \/ Delivery!Receive]_<<sent, taken>>
  BY <1>2, <1>5, <1>6 DEF DeliveryInv
<1>7. CASE UNCHANGED <<entered, taken, in, request>>
  BY <1>6, <1>7
<1>8. CASE Read /\ UNCHANGED <<entered, request>>
  <2>1. taken' \o in' = taken \o in /\ sent' = sent /\ request' = request
    BY <1>8, ReadTypes
  <2>2. in' \o request \in Seq(Letters)
    BY <1>1, ConcatProperties
  <2>3. (taken \o in) \o request = taken \o (in \o request)
    <3>1. taken \in Seq(Letters) /\ in \in Seq(Letters) /\ request \in Seq(Letters)
      BY <1>1
    <3> QED BY <3>1, ConcatAssociative
  <2>4. (taken' \o in') \o request = taken' \o (in' \o request)
    <3>1. taken' \in Seq(Letters) /\ in' \in Seq(Letters) /\ request \in Seq(Letters)
      BY <1>1
    <3> QED BY <3>1, ConcatAssociative
  <2>5. sent = taken' \o (in' \o request)
    BY <1>2, <2>1, <2>3, <2>4
  <2>6. DeliveryInv'
    BY <1>5, <2>1, <2>5 DEF DeliveryInv
  <2>7. IsPrefix(taken', sent)
    BY <1>1, <2>2, <2>5, Continued
  <2>8. IsStrictPrefix(taken, taken')
    <3>1. PICK n \in 1 .. Len(in) : taken' = taken \o SubSeq(in, 1, n)
      BY <1>8 DEF Read
    <3>2. n \in 0 .. Len(in)
      BY <1>1, LenProperties
    <3>3. SubSeq(in, 1, n) \in Seq(Letters) /\ Len(SubSeq(in, 1, n)) = n /\ n # 0
      BY <1>1, <3>2, Cut
    <3>4. SubSeq(in, 1, n) # <<>>
      BY <3>3, EmptySeq
    <3> QED BY <1>1, <3>1, <3>3, <3>4, Continued
  <2> QED BY <2>1, <2>6, <2>7, <2>8, DeliveryPrefixes DEF Delivery!Receive
<1>9. CASE EnterLine("debugger") /\ UNCHANGED <<taken, in, request>>
  <2>1. sent' = sent \o <<>>
    BY <1>9, EnteredText
  <2> QED BY <1>4, <1>6, <1>9, <2>1
<1>10. CASE EnterLine("process") /\ request' = mInputWindow /\ UNCHANGED <<taken, in>>
            /\ at = "input"
  <2>1. sent' = sent \o mInputWindow
    BY <1>10, EnteredText
  <2>2. request = <<>> /\ sent = taken \o in
    BY <1>2, <1>3, <1>10 DEF DeliveryInv, RequestInv
  <2>3. (taken \o in) \o mInputWindow = taken \o (in \o mInputWindow)
    <3>1. taken \in Seq(Letters) /\ in \in Seq(Letters) /\ mInputWindow \in Seq(Letters)
      BY <1>1
    <3> QED BY <3>1, ConcatAssociative
  <2>4. DeliveryInv'
    BY <1>5, <1>10, <2>1, <2>2, <2>3 DEF DeliveryInv
  <2>5. CASE mInputWindow = <<>>
    BY <1>4, <1>10, <2>1, <2>4, <2>5
  <2>6. CASE mInputWindow # <<>>
    <3>1. IsStrictPrefix(sent, sent')
      BY <1>1, <1>4, <2>1, <2>6, Continued
    <3> QED BY <1>10, <2>4, <3>1, DeliveryPrefixes DEF Delivery!Send
  <2> QED BY <2>5, <2>6
<1>11. CASE in' = in \o request /\ request' = <<>> /\ UNCHANGED <<entered, taken>>
  <2>1. in' \o request' = in'
    BY <1>1, <1>11, ConcatEmptySeq
  <2> QED BY <1>6, <1>11, <2>1
<1> QED BY <1>7, <1>8, <1>9, <1>10, <1>11, LinesStep

\* What is entered while the process runs, and nothing else, reaches it in its order, each
\* letter once (debuggerview.cpp:444-447, debugeepipe.hpp:63-66).
THEOREM InputInOrderHolds == Spec => InputInOrder
PROOF
<1>1. Init => DeliveryInv /\ Delivery!Init
  BY TextEmpty DEF Init, DeliveryInv, RequestInv, Delivery!Init
<1>2. TypeOK /\ TypeOK' /\ DeliveryInv /\ [Next]_vars => DeliveryInv'
  BY DeliveryStep
<1>3. TypeOK /\ TypeOK' /\ DeliveryInv /\ [Next]_vars
        => [Delivery!Send \/ Delivery!Receive]_<<TextTo("process", entered), taken>>
  BY DeliveryStep
<1> QED BY <1>1, <1>2, <1>3, TypeCorrect, PTL DEF Spec, InputInOrder, Delivery!Spec

-----------------------------------------------------------------------------
(***************************************************************************)
(* From the process to the lines: what has been printed is displayed, or   *)
(* in line, mReadBuf and the pipe, in this order.                          *)
(***************************************************************************)
Displayed == FlattenSeq(mOutput) \o line
ToCome == LettersOf(mReadBuf) \o LettersOf(out)
DisplayInv == LettersOf(printed) = Displayed \o ToCome

LEMMA DisplayPrefixes ==
  \A s, t : (Display!IsPrefix(s, t) <=> IsPrefix(s, t))
            /\ (Display!IsStrictPrefix(s, t) <=> IsStrictPrefix(s, t))
PROOF
BY DEF Display!IsPrefix, Display!IsStrictPrefix, IsPrefix, IsStrictPrefix

LEMMA DisplayTypes ==
  ASSUME TypeOK
  PROVE  /\ printed \in Seq(Characters) /\ mReadBuf \in Seq(Characters) /\ out \in Seq(Characters)
         /\ line \in Seq(Letters) /\ mOutput \in Seq(Seq(Letters))
         /\ FlattenSeq(mOutput) \in Seq(Letters) /\ Displayed \in Seq(Letters)
         /\ LettersOf(mReadBuf) \in Seq(Letters) /\ LettersOf(out) \in Seq(Letters)
         /\ LettersOf(printed) \in Seq(Letters) /\ ToCome \in Seq(Letters)
PROOF
<1>1. /\ printed \in Seq(Characters) /\ mReadBuf \in Seq(Characters) /\ out \in Seq(Characters)
      /\ line \in Seq(Letters) /\ mOutput \in Seq(Seq(Letters))
  BY DEF TypeOK, Characters
<1>2. FlattenSeq(mOutput) \in Seq(Letters)
  BY <1>1, FlattenInSeq
<1>3. Displayed \in Seq(Letters)
  BY <1>1, <1>2, ConcatProperties DEF Displayed
<1>4. /\ LettersOf(mReadBuf) \in Seq(Letters) /\ LettersOf(out) \in Seq(Letters)
      /\ LettersOf(printed) \in Seq(Letters)
  BY <1>1, LettersOfTyped
<1>5. ToCome \in Seq(Letters)
  BY <1>4, ConcatProperties DEF ToCome
<1> QED BY <1>1, <1>2, <1>3, <1>4, <1>5

\* A line that is taken is added to what is displayed, empty or not.
LEMMA TakesDisplays ==
  ASSUME TypeOK, NEW s \in Seq(Letters), Takes(line \o s)
  PROVE  Displayed' = Displayed \o s
PROOF
<1>1. /\ line \in Seq(Letters) /\ mOutput \in Seq(Seq(Letters))
      /\ FlattenSeq(mOutput) \in Seq(Letters)
  BY DisplayTypes
<1>2. line \o s \in Seq(Letters)
  BY <1>1, ConcatProperties
<1>3. (FlattenSeq(mOutput) \o line) \o s = FlattenSeq(mOutput) \o (line \o s)
  <2>1. FlattenSeq(mOutput) \in Seq(Letters) /\ line \in Seq(Letters) /\ s \in Seq(Letters)
    BY <1>1
  <2> QED BY <2>1, ConcatAssociative
<1>4. line' = <<>> /\ Displayed' = FlattenSeq(mOutput') \o line'
  BY DEF Takes, Displayed
<1>5. CASE line \o s = <<>>
  <2>1. mOutput' = mOutput
    BY <1>5 DEF Takes
  <2> QED BY <1>3, <1>4, <1>5, <2>1 DEF Displayed
<1>6. CASE line \o s # <<>>
  <2>1. mOutput' = Append(mOutput, line \o s)
    BY <1>6 DEF Takes
  <2>2. FlattenSeq(mOutput') = FlattenSeq(mOutput) \o (line \o s)
    BY <1>1, <1>2, <2>1, FlattenAppend
  <2>3. FlattenSeq(mOutput') \in Seq(Letters)
    BY <1>1, <1>2, <2>2, ConcatProperties
  <2>4. FlattenSeq(mOutput') \o <<>> = FlattenSeq(mOutput')
    BY <2>3, ConcatEmptySeq
  <2> QED BY <1>3, <1>4, <2>2, <2>4 DEF Displayed
<1> QED BY <1>5, <1>6

\* What getLine moves from the buffers to the display is what comes next.
LEMMA DrainMoves ==
  ASSUME TypeOK, Drain
  PROVE  \E s \in Seq(Letters) : Displayed' = Displayed \o s /\ ToCome = s \o ToCome'
PROOF
<1> DEFINE pipe == LettersOf(out)
<1>1. /\ mReadBuf \in Seq(Characters) /\ out \in Seq(Characters) /\ line \in Seq(Letters)
      /\ FlattenSeq(mOutput) \in Seq(Letters) /\ pipe \in Seq(Letters)
  BY DisplayTypes
<1>2. CASE TakesLine
  <2>1. PICK s, rest \in Seq(Characters) :
          /\ s \in Seq(Letters) /\ mReadBuf = (s \o <<Newline>>) \o rest
          /\ Takes(line \o s) /\ mReadBuf' = rest /\ UNCHANGED out
    BY <1>2 DEF TakesLine
  <2>2. Displayed' = Displayed \o s
    BY <2>1, TakesDisplays
  <2>3. LettersOf(mReadBuf) = s \o LettersOf(rest)
    <3>1. Newline \in Characters /\ Newline \notin Letters
      BY LettersAssumption DEF Characters
    <3>2. <<Newline>> \in Seq(Characters)
      BY <3>1
    <3>3. s \o <<Newline>> \in Seq(Characters)
      BY <2>1, <3>2, ConcatProperties
    <3>4. LettersOf(mReadBuf) = LettersOf(s \o <<Newline>>) \o LettersOf(rest)
      BY <2>1, <3>3, LettersOfConcat
    <3>5. LettersOf(s \o <<Newline>>) = LettersOf(s) \o LettersOf(<<Newline>>)
      BY <2>1, <3>2, LettersOfConcat
    <3>6. LettersOf(<<Newline>>) = <<>> /\ LettersOf(s) = s
      BY <2>1, <3>1, LettersOfOne, LettersOfLetters
    <3>7. s \o <<>> = s
      BY <2>1, ConcatEmptySeq
    <3> QED BY <3>4, <3>5, <3>6, <3>7
  <2>4. ToCome = s \o ToCome'
    <3>1. LettersOf(rest) \in Seq(Letters) /\ pipe \in Seq(Letters) /\ s \in Seq(Letters)
      BY <1>1, <2>1, LettersOfTyped
    <3> DEFINE r == LettersOf(rest)
    <3>2. ToCome = (s \o r) \o pipe /\ ToCome' = r \o pipe
      BY <2>1, <2>3 DEF ToCome
    <3> HIDE DEF r, pipe
    <3>3. r \in Seq(Letters) /\ pipe \in Seq(Letters) /\ s \in Seq(Letters)
      BY <3>1 DEF r
    <3>4. (s \o r) \o pipe = s \o (r \o pipe)
      BY <3>3, ConcatAssociative
    <3> QED BY <3>2, <3>4
  <2> QED BY <2>1, <2>2, <2>4
<1>3. CASE ReadsPipe
  <2>1. /\ mReadBuf \in Seq(Letters) /\ line' = line \o mReadBuf /\ mReadBuf' = out /\ out' = <<>>
        /\ mOutput' = mOutput
    BY <1>3 DEF ReadsPipe
  <2>2. Displayed' = Displayed \o mReadBuf
    <3>1. FlattenSeq(mOutput) \in Seq(Letters) /\ line \in Seq(Letters) /\ mReadBuf \in Seq(Letters)
      BY <1>1, <2>1
    <3>2. (FlattenSeq(mOutput) \o line) \o mReadBuf = FlattenSeq(mOutput) \o (line \o mReadBuf)
      BY <3>1, ConcatAssociative
    <3> QED BY <2>1, <3>2 DEF Displayed
  <2>3. ToCome = mReadBuf \o ToCome'
    <3>1. LettersOf(mReadBuf) = mReadBuf
      BY <2>1, LettersOfLetters
    <3>2. ToCome' = pipe \o <<>>
      BY <2>1, LettersOfEmpty DEF ToCome
    <3>3. pipe \o <<>> = pipe
      BY <1>1, ConcatEmptySeq
    <3> QED BY <3>1, <3>2, <3>3 DEF ToCome
  <2> QED BY <2>1, <2>2, <2>3
<1>4. CASE TakesRest
  <2>1. /\ mReadBuf \in Seq(Letters) /\ Takes(line \o mReadBuf) /\ mReadBuf' = <<>>
        /\ out = <<>> /\ out' = <<>>
    BY <1>4 DEF TakesRest
  <2>2. Displayed' = Displayed \o mReadBuf
    BY <2>1, TakesDisplays
  <2>3. LettersOf(mReadBuf) = mReadBuf
    BY <2>1, LettersOfLetters
  <2>4. ToCome = mReadBuf \o <<>> /\ ToCome' = <<>> \o <<>>
    BY <2>1, <2>3, LettersOfEmpty DEF ToCome
  <2>5. <<>> \o <<>> = <<>>
    BY ConcatEmptySeq, EmptySeq
  <2> QED BY <2>1, <2>2, <2>4, <2>5
<1> QED BY <1>2, <1>3, <1>4, DrainSteps

LEMMA DisplayStep ==
  ASSUME TypeOK, TypeOK', DisplayInv, [Next]_vars
  PROVE  /\ DisplayInv'
         /\ [Display!Send \/ Display!Receive]_<<LettersOf(printed), Displayed>>
PROOF
<1>1. /\ printed \in Seq(Characters) /\ out \in Seq(Characters)
      /\ Displayed \in Seq(Letters) /\ LettersOf(mReadBuf) \in Seq(Letters)
      /\ LettersOf(out) \in Seq(Letters) /\ LettersOf(printed) \in Seq(Letters)
      /\ ToCome \in Seq(Letters)
  BY DisplayTypes
<1>2. LettersOf(printed) = Displayed \o ToCome
  BY DEF DisplayInv
<1>3. CASE UNCHANGED <<printed, out, outputVars>>
  BY <1>2, <1>3 DEF DisplayInv, Displayed, ToCome, outputVars
<1>4. CASE \E text \in session.texts : Write(text) /\ printed' # printed
  <2>1. PICK text \in session.texts : Write(text) /\ printed' # printed
    BY <1>4
  <2>2. /\ out' = out \o text /\ printed' = printed \o text
        /\ mReadBuf' = mReadBuf /\ line' = line /\ mOutput' = mOutput
    BY <2>1 DEF Write, outputVars
  <2>3. text \in Seq(Characters)
    BY Sizes DEF TypeOK
  <2> DEFINE new == LettersOf(text)
             old == LettersOf(out)
             buf == LettersOf(mReadBuf)
  <2>4. new \in Seq(Letters)
    BY <2>3, LettersOfTyped
  <2>5. LettersOf(printed') = LettersOf(printed) \o new /\ LettersOf(out') = old \o new
    BY <1>1, <2>2, <2>3, LettersOfConcat
  <2>6. Displayed' = Displayed /\ ToCome' = buf \o (old \o new) /\ ToCome = buf \o old
    BY <2>2, <2>5 DEF Displayed, ToCome
  <2>7. buf \in Seq(Letters) /\ old \in Seq(Letters)
    BY <1>1
  <2> HIDE DEF new, old, buf
  <2>8. (buf \o old) \o new = buf \o (old \o new)
    <3>1. buf \in Seq(Letters) /\ old \in Seq(Letters) /\ new \in Seq(Letters)
      BY <2>4, <2>7
    <3> QED BY <3>1, ConcatAssociative
  <2>9. (Displayed \o ToCome) \o new = Displayed \o (ToCome \o new)
    <3>1. Displayed \in Seq(Letters) /\ ToCome \in Seq(Letters) /\ new \in Seq(Letters)
      BY <1>1, <2>4
    <3> QED BY <3>1, ConcatAssociative
  <2>10. DisplayInv'
    BY <1>2, <2>5, <2>6, <2>8, <2>9 DEF DisplayInv
  <2>11. CASE new = <<>>
    <3>1. LettersOf(printed) \o <<>> = LettersOf(printed)
      BY <1>1, ConcatEmptySeq
    <3> QED BY <2>5, <2>6, <2>10, <2>11, <3>1
  <2>12. CASE new # <<>>
    <3>1. IsStrictPrefix(LettersOf(printed), LettersOf(printed'))
      BY <1>1, <2>4, <2>5, <2>12, Continued
    <3> QED BY <2>6, <2>10, <3>1, DisplayPrefixes DEF Display!Send, Displayed
  <2> QED BY <2>11, <2>12
<1>5. CASE Drain
  <2>1. printed' = printed
    BY <1>5 DEF Drain
  <2>2. PICK s \in Seq(Letters) : Displayed' = Displayed \o s /\ ToCome = s \o ToCome'
    BY <1>5, DrainMoves
  <2>3. ToCome' \in Seq(Letters) /\ Displayed' \in Seq(Letters)
    <3>1. /\ mReadBuf' \in Seq(Characters) /\ out' \in Seq(Characters)
          /\ line' \in Seq(Letters) /\ mOutput' \in Seq(Seq(Letters))
      BY DEF TypeOK, Characters
    <3>2. /\ LettersOf(mReadBuf') \in Seq(Letters) /\ LettersOf(out') \in Seq(Letters)
          /\ FlattenSeq(mOutput') \in Seq(Letters)
      BY <3>1, LettersOfTyped, FlattenInSeq
    <3>3. ToCome' \in Seq(Letters)
      BY <3>2, ConcatProperties DEF ToCome
    <3>4. Displayed' \in Seq(Letters)
      BY <3>1, <3>2, ConcatProperties DEF Displayed
    <3> QED BY <3>3, <3>4
  <2>4. (Displayed \o s) \o ToCome' = Displayed \o (s \o ToCome')
    <3>1. Displayed \in Seq(Letters) /\ s \in Seq(Letters) /\ ToCome' \in Seq(Letters)
      BY <1>1, <2>3
    <3> QED BY <3>1, ConcatAssociative
  <2>5. LettersOf(printed) = Displayed' \o ToCome'
    BY <1>2, <2>2, <2>4
  <2>6. DisplayInv'
    BY <2>1, <2>5 DEF DisplayInv
  <2>7. CASE s = <<>>
    <3>1. Displayed \o <<>> = Displayed
      BY <1>1, ConcatEmptySeq
    <3> QED BY <2>1, <2>2, <2>6, <2>7, <3>1
  <2>8. CASE s # <<>>
    <3>1. IsStrictPrefix(Displayed, Displayed')
      BY <1>1, <2>2, <2>8, Continued
    <3>2. IsPrefix(Displayed', LettersOf(printed))
      BY <2>3, <2>5, Continued
    <3> QED BY <2>1, <2>6, <3>1, <3>2, DisplayPrefixes DEF Display!Receive, Displayed
  <2> QED BY <2>7, <2>8
<1>6. \/ UNCHANGED <<printed, out, outputVars>>
      \/ \E text \in session.texts : Write(text) /\ printed' # printed
      \/ Drain
  <2>1. CASE Process
    <3>1. ASSUME NEW text \in session.texts, Write(text), printed' = printed
          PROVE  UNCHANGED <<printed, out, outputVars>>
      <4>1. CASE out' = out
        BY <3>1, <4>1 DEF Write
      <4>2. CASE out' = out \o text /\ printed' = printed \o text
        <5>1. text \in Seq(Characters) /\ text # <<>>
          BY Sizes DEF TypeOK
        <5>2. printed \o text # printed
          BY <1>1, <5>1, ConcatEqualIffEmpty
        <5> QED BY <3>1, <4>2, <5>2
      <4> QED BY <3>1, <4>1, <4>2 DEF Write
    <3>2. ASSUME Read PROVE UNCHANGED <<printed, out, outputVars>>
      BY <3>2 DEF Read
    <3>3. ASSUME NEW how, Halt(how) PROVE UNCHANGED <<printed, out, outputVars>>
      BY <3>3 DEF Halt
    <3> QED BY <2>1, <3>1, <3>2, <3>3 DEF Process
  <2>2. CASE Prompt \/ Command
    BY <2>2 DEF Prompt, Command, processVars
  <2>3. CASE Turn
    BY <2>3 DEF Turn, WaitPid, Input, Send, processVars
  <2>4. CASE UNCHANGED vars
    BY <2>4 DEF vars, processVars
  <2> QED BY <2>1, <2>2, <2>3, <2>4 DEF Next
<1> QED BY <1>3, <1>4, <1>5, <1>6

\* What the process has printed is displayed in its order, each character once, wherever
\* getLine finds the pipe empty and cuts a line (debuggerview.cpp:449-455,
\* debugeepipe.hpp:56-61).
THEOREM DisplayInOrderHolds == Spec => DisplayInOrder
PROOF
<1>1. Init => DisplayInv /\ Display!Init
  <2> SUFFICES ASSUME Init PROVE DisplayInv /\ Display!Init
    OBVIOUS
  <2>1. <<>> \o <<>> = <<>>
    BY ConcatEmptySeq, EmptySeq
  <2>2. printed = <<>> /\ mReadBuf = <<>> /\ out = <<>> /\ mOutput = <<>> /\ line = <<>>
    BY DEF Init
  <2> QED BY <2>1, <2>2, LettersOfEmpty, FlattenEmpty
          DEF DisplayInv, Displayed, ToCome, Display!Init
<1>2. TypeOK /\ TypeOK' /\ DisplayInv /\ [Next]_vars => DisplayInv'
  BY DisplayStep
<1>3. TypeOK /\ TypeOK' /\ DisplayInv /\ [Next]_vars
        => [Display!Send \/ Display!Receive]_<<LettersOf(printed), FlattenSeq(mOutput) \o line>>
  BY DisplayStep DEF Displayed
<1> QED BY <1>1, <1>2, <1>3, TypeCorrect, PTL DEF Spec, DisplayInOrder, Display!Spec

-----------------------------------------------------------------------------
(***************************************************************************)
(* A process that prints only whole lines.  A text is whole when it ends   *)
(* with a newline and no line of it is empty: such texts stay whole when   *)
(* they are put together, and when the first line is taken from them.      *)
(***************************************************************************)
Whole(s) ==
  s # <<>> => /\ s[1] # Newline /\ s[Len(s)] = Newline
              /\ \A i \in 1 .. Len(s) - 1 : s[i] = Newline => s[i + 1] # Newline

LEMMA WholeConcat ==
  ASSUME NEW s \in Seq(Characters), NEW t \in Seq(Characters), Whole(s), Whole(t)
  PROVE  Whole(s \o t)
PROOF
<1>1. CASE s = <<>>
  <2>1. <<>> \o t = t
    BY ConcatEmptySeq
  <2> QED BY <1>1, <2>1
<1>2. CASE t = <<>>
  <2>1. s \o <<>> = s
    BY ConcatEmptySeq
  <2> QED BY <1>2, <2>1
<1>3. CASE s # <<>> /\ t # <<>>
  <2> DEFINE u == s \o t
  <2>1. /\ Len(u) = Len(s) + Len(t) /\ Len(s) \in Nat \ {0} /\ Len(t) \in Nat \ {0}
        /\ \A i \in 1 .. Len(s) + Len(t) : u[i] = IF i <= Len(s) THEN s[i] ELSE t[i - Len(s)]
    BY <1>3, ConcatProperties, EmptySeq
  <2> HIDE DEF u
  <2>2. /\ s[1] # Newline /\ s[Len(s)] = Newline /\ t[1] # Newline /\ t[Len(t)] = Newline
        /\ \A i \in 1 .. Len(s) - 1 : s[i] = Newline => s[i + 1] # Newline
        /\ \A i \in 1 .. Len(t) - 1 : t[i] = Newline => t[i + 1] # Newline
    BY <1>3 DEF Whole
  <2>3. u[1] = s[1] /\ u[Len(u)] = t[Len(t)]
    <3>1. /\ 1 \in 1 .. Len(s) + Len(t) /\ 1 <= Len(s)
          /\ Len(s) + Len(t) \in 1 .. Len(s) + Len(t) /\ ~(Len(s) + Len(t) <= Len(s))
          /\ Len(s) + Len(t) - Len(s) = Len(t)
      BY <2>1
    <3> QED BY <2>1, <3>1
  <2>4. ASSUME NEW i \in 1 .. Len(u) - 1, u[i] = Newline PROVE u[i + 1] # Newline
    <3>1. i \in 1 .. Len(s) + Len(t) /\ i + 1 \in 1 .. Len(s) + Len(t)
      BY <2>1
    <3>2. CASE i < Len(s)
      <4>1. i \in 1 .. Len(s) - 1 /\ u[i] = s[i] /\ u[i + 1] = s[i + 1]
        BY <2>1, <3>1, <3>2
      <4> QED BY <2>2, <2>4, <4>1
    <3>3. CASE i = Len(s)
      <4>1. ~(i + 1 <= Len(s)) /\ i + 1 - Len(s) = 1
        BY <2>1, <3>3
      <4>2. u[i + 1] = t[1]
        BY <2>1, <3>1, <4>1
      <4> QED BY <2>2, <4>2
    <3>4. CASE i > Len(s)
      <4>1. /\ i - Len(s) \in 1 .. Len(t) - 1 /\ ~(i <= Len(s)) /\ ~(i + 1 <= Len(s))
            /\ i + 1 - Len(s) = (i - Len(s)) + 1
        BY <2>1, <3>1, <3>4
      <4>2. u[i] = t[i - Len(s)] /\ u[i + 1] = t[(i - Len(s)) + 1]
        BY <2>1, <3>1, <4>1
      <4> QED BY <2>2, <2>4, <4>1, <4>2
    <3> QED BY <2>1, <3>1, <3>2, <3>3, <3>4
  <2>5. Whole(u)
    BY <2>2, <2>3, <2>4 DEF Whole
  <2> QED BY <2>5 DEF u
<1> QED BY <1>1, <1>2, <1>3

\* The first line of a whole text is not empty, and what follows it is whole.
LEMMA WholeRest ==
  ASSUME NEW s \in Seq(Letters), NEW r \in Seq(Characters), Whole((s \o <<Newline>>) \o r)
  PROVE  s # <<>> /\ Whole(r)
PROOF
<1> DEFINE a == s \o <<Newline>>
           u == a \o r
<1>1. /\ a \in Seq(Characters) /\ Len(a) = Len(s) + 1 /\ a[Len(a)] = Newline /\ Len(s) \in Nat
  <2>1. s \in Seq(Characters) /\ <<Newline>> \in Seq(Characters)
    BY SeqMonotonic DEF Characters
  <2>2. /\ a \in Seq(Characters) /\ Len(a) = Len(s) + Len(<<Newline>>)
        /\ \A i \in 1 .. Len(s) + Len(<<Newline>>) :
             a[i] = IF i <= Len(s) THEN s[i] ELSE <<Newline>>[i - Len(s)]
    BY <2>1, ConcatProperties
  <2>3. Len(s) \in Nat /\ Len(<<Newline>>) = 1 /\ <<Newline>>[1] = Newline
    BY LenProperties
  <2>4. Len(s) + 1 \in 1 .. Len(s) + 1 /\ ~(Len(s) + 1 <= Len(s)) /\ Len(s) + 1 - Len(s) = 1
    BY <2>3
  <2> QED BY <2>2, <2>3, <2>4
<1> HIDE DEF a
<1>2. /\ u \in Seq(Characters) /\ Len(u) = Len(a) + Len(r) /\ Len(a) \in Nat /\ Len(r) \in Nat
      /\ \A i \in 1 .. Len(a) + Len(r) : u[i] = IF i <= Len(a) THEN a[i] ELSE r[i - Len(a)]
  BY <1>1, ConcatProperties, LenProperties
<1>3. Whole(u)
  BY DEF a
<1> HIDE DEF u
<1>4. Len(a) \in 1 .. Len(a) + Len(r) /\ u[Len(a)] = Newline
  BY <1>1, <1>2
<1>5. u # <<>>
  BY <1>2, <1>4, EmptySeq
<1>6. /\ u[1] # Newline /\ u[Len(u)] = Newline
      /\ \A i \in 1 .. Len(u) - 1 : u[i] = Newline => u[i + 1] # Newline
  BY <1>3, <1>5 DEF Whole
<1>7. s # <<>>
  <2> SUFFICES ASSUME s = <<>> PROVE FALSE
    OBVIOUS
  <2>1. Len(a) = 1
    BY <1>1, EmptySeq
  <2> QED BY <1>4, <1>6, <2>1
<1>8. ASSUME r # <<>>
      PROVE  /\ r[1] # Newline /\ r[Len(r)] = Newline
             /\ \A i \in 1 .. Len(r) - 1 : r[i] = Newline => r[i + 1] # Newline
  <2>1. Len(r) \in Nat \ {0}
    BY <1>8, EmptySeq
  <2>2. ASSUME NEW i \in 1 .. Len(r) PROVE u[Len(a) + i] = r[i] /\ Len(a) + i \in 1 .. Len(u)
    <3>1. Len(a) + i \in 1 .. Len(a) + Len(r) /\ ~(Len(a) + i <= Len(a)) /\ Len(a) + i - Len(a) = i
      BY <1>2
    <3> QED BY <1>2, <3>1
  <2>3. r[1] # Newline
    <3>1. 1 \in 1 .. Len(r) /\ Len(a) \in 1 .. Len(u) - 1
      BY <1>1, <1>2, <2>1
    <3>2. u[Len(a) + 1] # Newline
      BY <1>4, <1>6, <3>1
    <3> QED BY <2>2, <3>1, <3>2
  <2>4. r[Len(r)] = Newline
    <3>1. Len(r) \in 1 .. Len(r)
      BY <2>1
    <3> QED BY <1>2, <1>6, <2>2, <3>1
  <2>5. ASSUME NEW i \in 1 .. Len(r) - 1, r[i] = Newline PROVE r[i + 1] # Newline
    <3>1. /\ i \in 1 .. Len(r) /\ i + 1 \in 1 .. Len(r) /\ Len(a) + i \in 1 .. Len(u) - 1
          /\ (Len(a) + i) + 1 = Len(a) + (i + 1)
      BY <1>2, <2>1
    <3>2. u[Len(a) + i] = Newline
      BY <2>2, <2>5, <3>1
    <3>3. u[(Len(a) + i) + 1] # Newline
      BY <1>6, <3>1, <3>2
    <3> QED BY <2>2, <3>1, <3>3
  <2> QED BY <2>3, <2>4, <2>5
<1> QED BY <1>7, <1>8 DEF Whole

\* A whole text without a newline is empty.
LEMMA WholeLetters ==
  ASSUME NEW s \in Seq(Letters), Whole(s)
  PROVE  s = <<>>
PROOF
<1> SUFFICES ASSUME s # <<>> PROVE FALSE
  OBVIOUS
<1>1. s[Len(s)] = Newline /\ Len(s) \in 1 .. Len(s)
  BY EmptySeq DEF Whole
<1>2. s[Len(s)] \in Letters
  BY <1>1, ElementOfSeq
<1> QED BY <1>1, <1>2, LettersAssumption

\* What a process writes at a time that prints whole lines.
LEMMA WholeTexts ==
  ASSUME session \in Sessions, WholeLines, NEW t \in session.texts
  PROVE  Whole(t)
PROOF
<1>1. t \in Seq(Characters) /\ Len(t) \in Nat /\ DOMAIN t = 1 .. Len(t)
  BY Sizes, LenProperties
<1>2. Len(t) > 1 /\ t[Len(t)] = Newline /\ Newline \notin Range(Front(t))
  BY DEF WholeLines, Last
<1>3. \A i \in 1 .. Len(t) - 1 : t[i] # Newline
  <2> TAKE i \in 1 .. Len(t) - 1
  <2>1. Len(t) - 1 \in 0 .. Len(t)
    BY <1>1, <1>2
  <2>2. /\ Front(t) \in Seq(Characters) /\ Len(Front(t)) = Len(t) - 1 /\ Front(t)[i] = t[i]
    BY <1>1, <2>1, FirstElements DEF Front
  <2>3. i \in DOMAIN Front(t)
    BY <2>2, LenProperties
  <2> QED BY <1>2, <2>2, <2>3 DEF Range
<1>4. 1 \in 1 .. Len(t) - 1
  BY <1>1, <1>2
<1> QED BY <1>2, <1>3, <1>4 DEF Whole

\* When the last turn begins the process has stopped, and it prints nothing until the
\* next command lets it go on.
Between == at \in {"prompt", "command"}
StoppedInv ==
  /\ Between => process # "running"
  /\ at \in {"input", "send", "drain"} /\ res # "none" => process # "running"

LEMMA StoppedStep ==
  ASSUME TypeOK, StoppedInv, [Next]_vars
  PROVE  StoppedInv'
PROOF
<1>1. CASE Process
  BY <1>1 DEF Process, Write, Read, Halt, StoppedInv, Between, inputVars
<1>2. CASE Prompt \/ Command
  BY <1>2 DEF Prompt, Command, Type, Goto, StoppedInv, Between, processVars
<1>3. CASE WaitPid
  BY <1>3 DEF WaitPid, Goto, StoppedInv, Between, processVars
<1>4. CASE Input
  BY <1>4 DEF Input, Type, InputEntered, Goto, StoppedInv, Between, processVars
<1>5. CASE Send
  BY <1>5 DEF Send, Goto, StoppedInv, Between
<1>6. CASE Drain
  BY <1>6 DEF Drain, Got, TurnEnds, Leave, Goto, StoppedInv, Between
<1>7. CASE UNCHANGED vars
  BY <1>7 DEF vars, processVars, inputVars, StoppedInv, Between
<1> QED BY <1>1, <1>2, <1>3, <1>4, <1>5, <1>6, <1>7 DEF Next, Turn

\* What has been printed is displayed line by line, and the rest is whole in mReadBuf and
\* the pipe, where nothing is left between two waits.
ShownInv ==
  WholeLines =>
    /\ line = <<>> /\ Whole(mReadBuf) /\ Whole(out)
    /\ printed = EndedLines(mOutput) \o (mReadBuf \o out)
    /\ Between => mReadBuf = <<>> /\ out = <<>>

\* All actions but two leave what has been printed and displayed alone.
LEMMA OutputSteps ==
  ASSUME [Next]_vars
  PROVE  /\ session' = session
         /\ \/ /\ UNCHANGED <<printed, out, outputVars>>
               /\ Between' => Between
            \/ \E text \in session.texts : Write(text)
            \/ Drain
PROOF
<1>1. CASE Process
  BY <1>1 DEF Process, Write, Read, Halt, Between
<1>2. CASE Prompt \/ Command
  BY <1>2 DEF Prompt, Command, Goto, Between, processVars
<1>3. CASE Turn
  <2>1. CASE WaitPid \/ Input
    BY <2>1 DEF WaitPid, Input, InputEntered, Type, Goto, Between, processVars
  <2>2. CASE Send
    BY <2>2 DEF Send, Goto, Between
  <2>3. CASE Drain
    BY <2>3 DEF Drain
  <2> QED BY <1>3, <2>1, <2>2, <2>3 DEF Turn
<1>4. CASE UNCHANGED vars
  BY <1>4 DEF vars, processVars, outputVars, Between
<1> QED BY <1>1, <1>2, <1>3, <1>4 DEF Next

LEMMA ShownDrain ==
  ASSUME TypeOK, ShownInv, WholeLines, Drain
  PROVE  /\ line' = <<>> /\ Whole(mReadBuf') /\ Whole(out')
         /\ printed = EndedLines(mOutput') \o (mReadBuf' \o out')
         /\ Between' => mReadBuf' = <<>> /\ out' = <<>>
PROOF
<1>1. /\ mReadBuf \in Seq(Characters) /\ out \in Seq(Characters) /\ mOutput \in Seq(Seq(Letters))
  BY DisplayTypes
<1>2. /\ line = <<>> /\ Whole(mReadBuf) /\ Whole(out)
      /\ printed = EndedLines(mOutput) \o (mReadBuf \o out)
  BY DEF ShownInv
<1>3. at = "drain"
  BY DEF Drain
<1>4. <<>> \o <<>> = <<>> /\ Whole(<<>>) /\ <<>> \o out = out /\ out \o <<>> = out
  BY <1>1, ConcatEmptySeq, EmptySeq DEF Whole
<1>5. CASE TakesLine
  <2>1. PICK s, rest \in Seq(Characters) :
          /\ s \in Seq(Letters) /\ mReadBuf = (s \o <<Newline>>) \o rest
          /\ Takes(line \o s) /\ mReadBuf' = rest /\ UNCHANGED out
    BY <1>5 DEF TakesLine
  <2>2. s # <<>> /\ Whole(rest)
    BY <1>2, <2>1, WholeRest
  <2>3. line \o s = s
    BY <1>2, <2>1, ConcatEmptySeq
  <2>4. line' = <<>> /\ mOutput' = Append(mOutput, s) /\ at' = at
    BY <2>1, <2>2, <2>3 DEF Takes
  <2> DEFINE a == s \o <<Newline>>
             e == EndedLines(mOutput)
  <2>5. e \in Seq(Characters) /\ EndedLines(mOutput') = e \o a
    BY <1>1, <2>1, <2>4, EndedAppend
  <2>6. a \in Seq(Characters)
    <3>1. s \in Seq(Characters) /\ <<Newline>> \in Seq(Characters)
      BY <2>1 DEF Characters
    <3> QED BY <3>1, ConcatProperties
  <2>7. printed = e \o ((a \o rest) \o out)
    BY <1>2, <2>1
  <2> HIDE DEF a, e
  <2>8. (a \o rest) \o out = a \o (rest \o out)
    <3>1. a \in Seq(Characters) /\ rest \in Seq(Characters) /\ out \in Seq(Characters)
      BY <1>1, <2>1, <2>6
    <3> QED BY <3>1, ConcatAssociative
  <2>9. e \o (a \o (rest \o out)) = (e \o a) \o (rest \o out)
    <3>1. rest \o out \in Seq(Characters)
      BY <1>1, <2>1, ConcatProperties
    <3> DEFINE r == rest \o out
    <3> HIDE DEF r
    <3>2. e \in Seq(Characters) /\ a \in Seq(Characters) /\ r \in Seq(Characters)
      BY <2>5, <2>6, <3>1 DEF r
    <3>3. (e \o a) \o r = e \o (a \o r)
      BY <3>2, ConcatAssociative
    <3> QED BY <3>3 DEF r
  <2>10. printed = EndedLines(mOutput') \o (rest \o out)
    BY <2>5, <2>7, <2>8, <2>9
  <2> QED BY <1>2, <1>3, <2>1, <2>2, <2>4, <2>10 DEF Between
<1>6. CASE ReadsPipe
  <2>1. /\ mReadBuf \in Seq(Letters) /\ line' = line \o mReadBuf /\ mReadBuf' = out /\ out' = <<>>
        /\ mOutput' = mOutput /\ at' = at
    BY <1>6 DEF ReadsPipe
  <2>2. mReadBuf = <<>>
    BY <1>2, <2>1, WholeLetters
  <2> QED BY <1>2, <1>3, <1>4, <2>1, <2>2 DEF Between
<1>7. CASE TakesRest
  <2>1. /\ mReadBuf \in Seq(Letters) /\ Takes(line \o mReadBuf) /\ mReadBuf' = <<>>
        /\ out = <<>> /\ out' = <<>>
    BY <1>7 DEF TakesRest
  <2>2. mReadBuf = <<>>
    BY <1>2, <2>1, WholeLetters
  <2>3. line' = <<>> /\ mOutput' = mOutput
    BY <1>2, <1>4, <2>1, <2>2 DEF Takes
  <2> QED BY <1>2, <1>4, <2>1, <2>2, <2>3
<1> QED BY <1>5, <1>6, <1>7, DrainSteps

LEMMA ShownStep ==
  ASSUME TypeOK, StoppedInv, ShownInv, [Next]_vars
  PROVE  ShownInv'
PROOF
<1>1. session' = session
  BY OutputSteps
<1> SUFFICES ASSUME WholeLines
             PROVE  /\ line' = <<>> /\ Whole(mReadBuf') /\ Whole(out')
                    /\ printed' = EndedLines(mOutput') \o (mReadBuf' \o out')
                    /\ Between' => mReadBuf' = <<>> /\ out' = <<>>
  BY <1>1 DEF ShownInv, WholeLines
<1>2. /\ line = <<>> /\ Whole(mReadBuf) /\ Whole(out)
      /\ printed = EndedLines(mOutput) \o (mReadBuf \o out)
      /\ Between => mReadBuf = <<>> /\ out = <<>>
  BY DEF ShownInv
<1>3. CASE UNCHANGED <<printed, out, outputVars>> /\ (Between' => Between)
  BY <1>2, <1>3 DEF outputVars
<1>4. ASSUME NEW text \in session.texts, Write(text)
      PROVE  /\ line' = <<>> /\ Whole(mReadBuf') /\ Whole(out')
             /\ printed' = EndedLines(mOutput') \o (mReadBuf' \o out')
             /\ Between' => mReadBuf' = <<>> /\ out' = <<>>
  <2>1. ~Between' /\ line' = line /\ mReadBuf' = mReadBuf /\ mOutput' = mOutput
    BY <1>4 DEF Write, StoppedInv, Between, outputVars
  <2>2. CASE out' = out /\ printed' = printed
    BY <1>2, <2>1, <2>2
  <2>3. CASE out' = out \o text /\ printed' = printed \o text
    <3>1. text \in Seq(Characters) /\ Whole(text)
      BY Sizes, WholeTexts DEF TypeOK
    <3>2. out \in Seq(Characters) /\ mReadBuf \in Seq(Characters) /\ mOutput \in Seq(Seq(Letters))
      BY DisplayTypes
    <3>3. Whole(out')
      BY <1>2, <2>3, <3>1, <3>2, WholeConcat
    <3> DEFINE e == EndedLines(mOutput)
               b == mReadBuf \o out
    <3>4. e \in Seq(Characters)
      <4>1. <<>> \in Seq(Letters)
        OBVIOUS
      <4> QED BY <3>2, <4>1, EndedAppend
    <3>5. b \in Seq(Characters)
      BY <3>2, ConcatProperties
    <3>6. b \o text = mReadBuf \o (out \o text)
      <4>1. mReadBuf \in Seq(Characters) /\ out \in Seq(Characters) /\ text \in Seq(Characters)
        BY <3>1, <3>2
      <4> QED BY <4>1, ConcatAssociative
    <3> HIDE DEF e, b
    <3>7. (e \o b) \o text = e \o (b \o text)
      <4>1. e \in Seq(Characters) /\ b \in Seq(Characters) /\ text \in Seq(Characters)
        BY <3>1, <3>4, <3>5
      <4> QED BY <4>1, ConcatAssociative
    <3>8. printed' = e \o (mReadBuf \o (out \o text))
      BY <1>2, <2>3, <3>6, <3>7 DEF e, b
    <3> QED BY <1>2, <2>1, <2>3, <3>3, <3>8 DEF e
  <2> QED BY <1>4, <2>2, <2>3 DEF Write
<1>5. CASE Drain
  <2>1. printed' = printed
    BY <1>5 DEF Drain
  <2> QED BY <1>5, <2>1, ShownDrain
<1> QED BY <1>3, <1>4, <1>5, OutputSteps

\* When the debugger asks for a command, nothing that the process has printed is left in
\* the pipe or in a buffer, if it prints whole lines (debuggerview.cpp:437-471).
THEOREM OutputShownHolds == Spec => []OutputShown
PROOF
<1>1. Init => StoppedInv /\ ShownInv
  <2> SUFFICES ASSUME Init PROVE StoppedInv /\ ShownInv
    OBVIOUS
  <2>1. <<>> \o <<>> = <<>> /\ Whole(<<>>)
    BY ConcatEmptySeq, EmptySeq DEF Whole
  <2>2. /\ printed = <<>> /\ mReadBuf = <<>> /\ out = <<>> /\ mOutput = <<>> /\ line = <<>>
        /\ at = "waitpid"
    BY DEF Init
  <2> QED BY <2>1, <2>2, TextEmpty DEF StoppedInv, ShownInv, Between
<1>2. TypeOK /\ StoppedInv /\ ShownInv /\ [Next]_vars => (StoppedInv /\ ShownInv)'
  BY StoppedStep, ShownStep
<1>3. TypeOK /\ ShownInv => OutputShown
  <2> SUFFICES ASSUME TypeOK, ShownInv, at = "prompt", WholeLines
               PROVE  printed = EndedLines(mOutput)
    BY DEF OutputShown
  <2>1. printed = EndedLines(mOutput) \o (<<>> \o <<>>)
    BY DEF ShownInv, Between
  <2>2. mOutput \in Seq(Seq(Letters)) /\ <<>> \in Seq(Letters)
    BY DisplayTypes
  <2>3. EndedLines(mOutput) \in Seq(Characters)
    BY <2>2, EndedAppend
  <2>4. <<>> \o <<>> = <<>> /\ EndedLines(mOutput) \o <<>> = EndedLines(mOutput)
    BY <2>3, ConcatEmptySeq, EmptySeq
  <2> QED BY <2>1, <2>4
<1> QED BY <1>1, <1>2, <1>3, TypeCorrect, PTL DEF Spec
================================================================================
