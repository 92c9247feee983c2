---------------------------- MODULE SequenceFacts ----------------------------
(***************************************************************************)
(* Facts about numbers and sequences that the proofs share.                *)
(***************************************************************************)
EXTENDS Integers, Sequences, SequencesExt, SequenceTheorems, WellFoundedInduction, TLAPS

\* Every set of natural numbers that is not empty has a least element.
LEMMA LeastNat ==
  ASSUME NEW T, T \subseteq Nat, T # {}
  PROVE  \E x \in T : \A y \in T : x <= y
PROOF
<1> DEFINE R == OpToRel(<, Nat)
<1>1. IsWellFoundedOn(R, Nat)
  BY NatLessThanWellFounded
<1>2. \A x, y \in Nat : <<y, x>> \in R <=> y < x
  BY DEF OpToRel
<1> HIDE DEF R
<1>3. PICK x \in T : \A y \in T : <<y, x>> \notin R
  BY <1>1, WFMin
<1>4. ASSUME NEW y \in T PROVE x <= y
  <2>1. x \in Nat /\ y \in Nat /\ <<y, x>> \notin R
    BY <1>3
  <2>2. ~(y < x)
    BY <1>2, <2>1, Zenon
  <2> QED BY <2>1, <2>2
<1> QED BY <1>4

\* A set of numbers with an upper bound has a greatest element.
LEMMA GreatestBelow ==
  ASSUME NEW n \in Nat, NEW T, T \subseteq 0 .. n, T # {}
  PROVE  \E x \in T : \A y \in T : y <= x
PROOF
<1> DEFINE D == {n - x : x \in T}
<1>1. D \subseteq Nat /\ D # {}
  <2>1. \A x \in T : n - x \in Nat
    OBVIOUS
  <2> QED BY <2>1
<1>2. PICK d \in D : \A e \in D : d <= e
  BY <1>1, LeastNat
<1>3. PICK x \in T : d = n - x
  BY <1>2
<1>4. ASSUME NEW y \in T PROVE y <= x
  <2>1. n - x <= n - y
    BY <1>2, <1>3
  <2>2. x \in Int /\ y \in Int
    OBVIOUS
  <2> QED BY <2>1, <2>2
<1> QED BY <1>4

\* Induction, with a set for the predicate.
LEMMA AllNat ==
  ASSUME NEW S, 0 \in S, \A n \in Nat : n \in S => n + 1 \in S
  PROVE  Nat \subseteq S
PROOF
<1> SUFFICES ASSUME Nat \ S # {} PROVE FALSE
  OBVIOUS
<1>1. PICK x \in Nat \ S : \A y \in Nat \ S : x <= y
  BY LeastNat
<1>2. x - 1 \in Nat /\ x - 1 \in S
  BY <1>1
<1> QED BY <1>1, <1>2

\* A function that is defined from each number to the next.
Recursive(f, S, a, n, h) ==
  f \in [0 .. n -> S] /\ f[0] = a /\ \A i \in 1 .. n : f[i] = h[i][f[i - 1]]

LEMMA Recursion ==
  ASSUME NEW S, NEW a \in S, NEW n \in Nat, NEW h \in [1 .. n -> [S -> S]]
  PROVE  \E f : Recursive(f, S, a, n, h)
PROOF
<1> DEFINE F(f, k) == f = [i \in 0 .. k |-> IF i = 0 THEN a ELSE h[i][f[i - 1]]]
           T == {k \in Nat : k <= n => \E f \in [0 .. k -> S] : F(f, k)}
<1>1. 0 \in T
  <2> DEFINE f == [i \in 0 .. 0 |-> a]
  <2>1. f \in [0 .. 0 -> S] /\ F(f, 0)
    OBVIOUS
  <2> QED BY <2>1
<1>2. ASSUME NEW k \in Nat, k \in T PROVE k + 1 \in T
  <2> SUFFICES ASSUME k + 1 <= n PROVE \E f \in [0 .. k + 1 -> S] : F(f, k + 1)
    OBVIOUS
  <2>1. PICK f \in [0 .. k -> S] : F(f, k)
    BY <1>2
  <2> DEFINE g == [i \in 0 .. k + 1 |-> IF i <= k THEN f[i] ELSE h[i][f[k]]]
  <2>2. f[k] \in S /\ k + 1 \in 1 .. n
    OBVIOUS
  <2>3. g \in [0 .. k + 1 -> S]
    BY <2>2
  <2>4. \A i \in 0 .. k + 1 : g[i] = IF i = 0 THEN a ELSE h[i][g[i - 1]]
    <3> SUFFICES ASSUME NEW i \in 0 .. k + 1
                 PROVE  g[i] = IF i = 0 THEN a ELSE h[i][g[i - 1]]
      OBVIOUS
    <3>1. CASE i <= k
      <4>1. g[i] = f[i] /\ (i # 0 => g[i - 1] = f[i - 1]) /\ i \in 0 .. k
        BY <3>1
      <4>2. f[i] = IF i = 0 THEN a ELSE h[i][f[i - 1]]
        BY <2>1, <4>1
      <4> QED BY <4>1, <4>2
    <3>2. CASE i = k + 1
      <4>1. g[i] = h[i][f[k]] /\ i # 0 /\ g[i - 1] = f[k]
        BY <3>2
      <4> QED BY <4>1
    <3> QED BY <3>1, <3>2
  <2> HIDE DEF g
  <2>5. F(g, k + 1)
    BY <2>3, <2>4
  <2> QED BY <2>3, <2>5
<1>3. n \in T
  <2> HIDE DEF T
  <2>1. Nat \subseteq T
    BY <1>1, <1>2, AllNat
  <2> QED BY <2>1
<1>4. PICK f \in [0 .. n -> S] : F(f, n)
  BY <1>3
<1>5. \A i \in 0 .. n : f[i] = IF i = 0 THEN a ELSE h[i][f[i - 1]]
  BY <1>4
<1>6. Recursive(f, S, a, n, h)
  BY <1>5 DEF Recursive
<1> QED BY <1>6

\* The first n elements of a sequence.
LEMMA FirstElements ==
  ASSUME NEW S, NEW s \in Seq(S), NEW n \in 0 .. Len(s)
  PROVE  /\ SubSeq(s, 1, n) \in Seq(S)
         /\ Len(SubSeq(s, 1, n)) = n
         /\ \A i \in 1 .. n : SubSeq(s, 1, n)[i] = s[i]
PROOF
<1>1. 1 \in Int /\ n \in Int /\ \A i \in 1 .. n : s[i] \in S
  OBVIOUS
<1>2. /\ SubSeq(s, 1, n) \in Seq(S)
      /\ Len(SubSeq(s, 1, n)) = (IF 1 <= n THEN n - 1 + 1 ELSE 0)
      /\ \A i \in 1 .. n - 1 + 1 : SubSeq(s, 1, n)[i] = s[1 + i - 1]
  BY <1>1, SubSeqProperties
<1> QED BY <1>2

\* A function on the first n numbers is a sequence.
LEMMA FunctionIsSequence ==
  ASSUME NEW S, NEW n \in Nat, NEW f \in [1 .. n -> S]
  PROVE  f \in Seq(S) /\ Len(f) = n
PROOF
<1>1. f \in Seq(S)
  OBVIOUS
<1> QED BY <1>1, LenProperties

\* A sequence with one more element.
LEMMA OneMore ==
  ASSUME NEW S, NEW a \in Seq(S), NEW x \in S, NEW b \in Seq(S), Len(b) = Len(a) + 1,
         \A i \in 1 .. Len(a) : b[i] = a[i], b[Len(a) + 1] = x
  PROVE  b = Append(a, x)
PROOF
<1> DEFINE c == Append(a, x)
<1>1. /\ c \in Seq(S) /\ Len(c) = Len(a) + 1 /\ \A i \in 1 .. Len(a) : c[i] = a[i]
      /\ c[Len(a) + 1] = x
  BY AppendProperties
<1>2. Len(a) \in Nat
  BY LenProperties
<1> HIDE DEF c
<1>3. \A i \in 1 .. Len(b) : b[i] = c[i]
  BY <1>1, <1>2
<1>4. b = c
  BY <1>1, <1>3, SeqEqual
<1> QED BY <1>4 DEF c
-----------------------------------------------------------------------------
(***************************************************************************)
(* FlattenSeq is the last value of a recursive function on the indices:    *)
(* there is one such function, and so the elements can be taken one by one. *)
(***************************************************************************)
Sums(s, k, f) == f = [i \in 1 .. k |-> IF i = 1 THEN s[i] ELSE f[i - 1] \o s[i]]

LEMMA SumAt ==
  ASSUME NEW s, NEW n, NEW f, Sums(s, n, f), NEW i \in 1 .. n
  PROVE  f[i] = IF i = 1 THEN s[i] ELSE f[i - 1] \o s[i]
PROOF
BY DEF Sums

LEMMA SumNext ==
  ASSUME NEW s, NEW n, NEW f, Sums(s, n, f), NEW j \in Nat \ {0}, j + 1 \in 1 .. n
  PROVE  f[j + 1] = f[j] \o s[j + 1]
PROOF
<1>1. \A i \in 1 .. n : i # 1 => f[i] = f[i - 1] \o s[i]
  BY DEF Sums
<1> DEFINE i == j + 1
<1>2. i # 1 /\ i \in 1 .. n /\ i - 1 = j
  OBVIOUS
<1> HIDE DEF i
<1>3. f[i] = f[i - 1] \o s[i]
  BY <1>1, <1>2
<1>4. f[i] = f[j] \o s[i]
  BY <1>2, <1>3
<1> QED BY <1>4 DEF i

LEMMA SumsExist ==
  ASSUME NEW s, NEW n \in Nat
  PROVE  \E f : Sums(s, n, f)
PROOF
<1> DEFINE T == {k \in Nat : \E f : Sums(s, k, f)}
<1>1. 0 \in T
  <2>1. Sums(s, 0, <<>>)
    BY DEF Sums
  <2> QED BY <2>1
<1>2. ASSUME NEW k \in Nat, k \in T PROVE k + 1 \in T
  <2>1. PICK f : Sums(s, k, f)
    BY <1>2
  <2> DEFINE g == [i \in 1 .. k + 1 |-> IF i <= k THEN f[i]
                                        ELSE IF i = 1 THEN s[i] ELSE f[i - 1] \o s[i]]
  <2>2. ASSUME NEW i \in 1 .. k + 1
        PROVE  g[i] = IF i = 1 THEN s[i] ELSE g[i - 1] \o s[i]
    <3>1. CASE i <= k
      <4>1. g[i] = f[i] /\ i \in 1 .. k
        BY <3>1
      <4>2. f[i] = IF i = 1 THEN s[i] ELSE f[i - 1] \o s[i]
        BY <2>1, <4>1 DEF Sums
      <4>3. i # 1 => g[i - 1] = f[i - 1]
        BY <3>1
      <4> QED BY <4>1, <4>2, <4>3
    <3>2. CASE i = k + 1
      <4>1. i # 1 => g[i - 1] = f[i - 1]
        BY <3>2
      <4>2. g[i] = IF i = 1 THEN s[i] ELSE f[i - 1] \o s[i]
        BY <3>2
      <4> QED BY <4>1, <4>2
    <3> QED BY <3>1, <3>2
  <2>3. g = [i \in 1 .. k + 1 |-> IF i = 1 THEN s[i] ELSE g[i - 1] \o s[i]]
    BY <2>2
  <2> HIDE DEF g
  <2>4. Sums(s, k + 1, g)
    BY <2>3 DEF Sums
  <2> QED BY <2>4
<1>3. Nat \subseteq T
  BY <1>1, <1>2, AllNat
<1> QED BY <1>3

LEMMA FlattenIsSum ==
  ASSUME NEW s, NEW n \in Nat \ {0}, Len(s) = n, NEW f, Sums(s, n, f)
  PROVE  FlattenSeq(s) = f[n]
PROOF
<1> DEFINE g == CHOOSE h : h = [i \in 1 .. Len(s) |-> IF i = 1 THEN s[i] ELSE h[i - 1] \o s[i]]
<1>1. Len(s) # 0
  OBVIOUS
<1>2. FlattenSeq(s) = g[Len(s)]
  BY <1>1 DEF FlattenSeq
<1>3. \E h : h = [i \in 1 .. Len(s) |-> IF i = 1 THEN s[i] ELSE h[i - 1] \o s[i]]
  BY DEF Sums
<1>4. g = [i \in 1 .. Len(s) |-> IF i = 1 THEN s[i] ELSE g[i - 1] \o s[i]]
  BY <1>3
<1> HIDE DEF g
<1>5. Sums(s, n, g)
  BY <1>4 DEF Sums
<1> DEFINE T == {k \in Nat : k + 1 <= n => g[k + 1] = f[k + 1]}
<1>6. 0 \in T
  BY <1>5 DEF Sums
<1>7. ASSUME NEW k \in Nat, k \in T PROVE k + 1 \in T
  <2> SUFFICES ASSUME k + 2 <= n PROVE g[k + 2] = f[k + 2]
    OBVIOUS
  <2>1. g[k + 1] = f[k + 1]
    BY <1>7
  <2>2. k + 1 \in Nat \ {0} /\ k + 1 + 1 \in 1 .. n /\ k + 1 + 1 = k + 2
    BY <1>7
  <2>3. g[k + 1 + 1] = g[k + 1] \o s[k + 1 + 1]
    BY <1>5, <2>2, SumNext
  <2>4. f[k + 1 + 1] = f[k + 1] \o s[k + 1 + 1]
    BY <2>2, SumNext
  <2> QED BY <2>1, <2>2, <2>3, <2>4
<1>8. Nat \subseteq T
  BY <1>6, <1>7, AllNat
<1>9. n - 1 \in Nat /\ n - 1 + 1 = n
  OBVIOUS
<1>10. g[n] = f[n]
  BY <1>8, <1>9
<1> QED BY <1>2, <1>10

\* Nothing gives nothing.
LEMMA FlattenEmpty == FlattenSeq(<<>>) = <<>>
PROOF
BY DEF FlattenSeq

\* One more sequence is appended to the others.
LEMMA FlattenAppend ==
  ASSUME NEW S, NEW s \in Seq(Seq(S)), NEW x \in Seq(S)
  PROVE  FlattenSeq(Append(s, x)) = FlattenSeq(s) \o x
PROOF
<1> DEFINE t == Append(s, x)
           n == Len(s)
<1>1. n \in Nat /\ Len(t) = n + 1 /\ t[n + 1] = x /\ \A i \in 1 .. n : t[i] = s[i]
  BY AppendProperties
<1> HIDE DEF t
<1> HIDE DEF n
<1>2. PICK f : Sums(t, n + 1, f)
  <2>1. n + 1 \in Nat
    BY <1>1
  <2> QED BY <2>1, SumsExist
<1>3. FlattenSeq(t) = f[n + 1]
  BY <1>1, <1>2, FlattenIsSum
<1>4. CASE n = 0
  <2>1. s = <<>>
    BY <1>4, EmptySeq DEF n
  <2>2. f[n + 1] = x
    BY <1>1, <1>2, <1>4, SumAt
  <2> QED BY <1>3, <2>1, <2>2, FlattenEmpty, ConcatEmptySeq DEF t
<1>5. CASE n # 0
  <2> DEFINE g == [i \in 1 .. n |-> f[i]]
  <2>1. ASSUME NEW i \in 1 .. n PROVE g[i] = IF i = 1 THEN s[i] ELSE g[i - 1] \o s[i]
    <3>1. i \in 1 .. n + 1 /\ t[i] = s[i]
      BY <1>1
    <3>2. f[i] = IF i = 1 THEN t[i] ELSE f[i - 1] \o t[i]
      BY <1>2, <3>1, SumAt
    <3>3. g[i] = f[i] /\ (i # 1 => g[i - 1] = f[i - 1])
      BY <1>1
    <3> QED BY <3>1, <3>2, <3>3
  <2>2. g = [i \in 1 .. n |-> IF i = 1 THEN s[i] ELSE g[i - 1] \o s[i]]
    BY <2>1
  <2>3. g[n] = f[n]
    BY <1>1, <1>5
  <2> HIDE DEF g
  <2>4. FlattenSeq(s) = f[n]
    <3>1. Sums(s, n, g)
      BY <2>2 DEF Sums
    <3> QED BY <1>1, <1>5, <2>3, <3>1, FlattenIsSum DEF n
  <2>5. f[n + 1] = f[n] \o x
    <3>1. n \in Nat \ {0} /\ n + 1 \in 1 .. n + 1
      BY <1>1, <1>5
    <3> QED BY <1>1, <1>2, <3>1, SumNext
  <2> QED BY <1>3, <2>4, <2>5 DEF t
<1> QED BY <1>1, <1>4, <1>5

\* Flattening one sequence.
LEMMA FlattenOne ==
  ASSUME NEW S, NEW x \in Seq(S)
  PROVE  FlattenSeq(<<x>>) = x
PROOF
<1>1. <<x>> = Append(<<>>, x) /\ <<>> \in Seq(Seq(S))
  OBVIOUS
<1>2. FlattenSeq(<<x>>) = <<>> \o x
  BY <1>1, FlattenAppend, FlattenEmpty
<1> QED BY <1>2, ConcatEmptySeq

\* The elements are those of the sequences.
LEMMA FlattenInSeq ==
  ASSUME NEW S, NEW s \in Seq(Seq(S))
  PROVE  FlattenSeq(s) \in Seq(S)
PROOF
<1> DEFINE T == {k \in Nat : \A t \in Seq(Seq(S)) : Len(t) = k => FlattenSeq(t) \in Seq(S)}
<1>1. 0 \in T
  <2>1. \A t \in Seq(Seq(S)) : Len(t) = 0 => t = <<>>
    BY EmptySeq
  <2> QED BY <2>1, FlattenEmpty, EmptySeq
<1>2. ASSUME NEW k \in Nat, k \in T PROVE k + 1 \in T
  <2> SUFFICES ASSUME NEW t \in Seq(Seq(S)), Len(t) = k + 1 PROVE FlattenSeq(t) \in Seq(S)
    OBVIOUS
  <2>1. t # <<>>
    BY EmptySeq
  <2>2. PICK u \in Seq(Seq(S)), x \in Seq(S) : t = Append(u, x)
    BY <2>1, SequenceEmptyOrAppend
  <2>3. Len(u) = k
    BY <2>2, AppendProperties, LenProperties
  <2>4. FlattenSeq(u) \in Seq(S)
    BY <1>2, <2>3
  <2> QED BY <2>2, <2>4, FlattenAppend, ConcatProperties
<1>3. Len(s) \in T
  BY <1>1, <1>2, AllNat, LenProperties
<1> QED BY <1>3

\* Flattening commutes with concatenation.
LEMMA FlattenConcat ==
  ASSUME NEW S, NEW s \in Seq(Seq(S)), NEW t \in Seq(Seq(S))
  PROVE  FlattenSeq(s \o t) = FlattenSeq(s) \o FlattenSeq(t)
PROOF
<1>0. \A a, b, c \in Seq(S) : (a \o b) \o c = a \o (b \o c)
  BY ConcatAssociative, Z3
<1> DEFINE T == {k \in Nat : \A u \in Seq(Seq(S)) :
                   Len(u) = k => FlattenSeq(s \o u) = FlattenSeq(s) \o FlattenSeq(u)}
<1>1. 0 \in T
  <2>1. \A u \in Seq(Seq(S)) : Len(u) = 0 => u = <<>>
    BY EmptySeq
  <2>2. s \o <<>> = s /\ FlattenSeq(s) \o <<>> = FlattenSeq(s)
    BY ConcatEmptySeq, FlattenInSeq
  <2> QED BY <2>1, <2>2, FlattenEmpty
<1>2. ASSUME NEW k \in Nat, k \in T PROVE k + 1 \in T
  <2> SUFFICES ASSUME NEW u \in Seq(Seq(S)), Len(u) = k + 1
               PROVE  FlattenSeq(s \o u) = FlattenSeq(s) \o FlattenSeq(u)
    OBVIOUS
  <2>1. u # <<>>
    BY EmptySeq
  <2>2. PICK v \in Seq(Seq(S)), x \in Seq(S) : u = Append(v, x)
    BY <2>1, SequenceEmptyOrAppend
  <2>3. Len(v) = k
    BY <2>2, AppendProperties, LenProperties
  <2>4. FlattenSeq(s \o v) = FlattenSeq(s) \o FlattenSeq(v)
    BY <1>2, <2>3
  <2>5. s \o u = Append(s \o v, x) /\ s \o v \in Seq(Seq(S))
    <3>1. u = v \o <<x>> /\ <<x>> \in Seq(Seq(S))
      BY <2>2, AppendIsConcat
    <3>2. s \o v \in Seq(Seq(S)) /\ Append(s \o v, x) = (s \o v) \o <<x>>
      BY ConcatProperties, AppendIsConcat
    <3> QED BY <3>1, <3>2, ConcatAssociative
  <2>6. FlattenSeq(s \o u) = (FlattenSeq(s) \o FlattenSeq(v)) \o x
    BY <2>4, <2>5, FlattenAppend
  <2>7. FlattenSeq(u) = FlattenSeq(v) \o x
    BY <2>2, FlattenAppend
  <2>8. FlattenSeq(s) \in Seq(S) /\ FlattenSeq(v) \in Seq(S)
    BY FlattenInSeq
  <2> DEFINE a == FlattenSeq(s)
             b == FlattenSeq(v)
  <2> HIDE DEF a, b
  <2>9. (a \o b) \o x = a \o (b \o x)
    <3>1. a \in Seq(S) /\ b \in Seq(S)
      BY <2>8 DEF a, b
    <3> QED BY <1>0, <3>1
  <2> QED BY <2>6, <2>7, <2>9 DEF a, b
<1>3. Len(t) \in T
  BY <1>1, <1>2, AllNat, LenProperties
<1> QED BY <1>3
-----------------------------------------------------------------------------
(***************************************************************************)
(* Sequences cut in two and put together.                                  *)
(***************************************************************************)
LEMMA Cut ==
  ASSUME NEW S, NEW s \in Seq(S), NEW n \in 0 .. Len(s)
  PROVE  /\ SubSeq(s, 1, n) \in Seq(S) /\ SubSeq(s, n + 1, Len(s)) \in Seq(S)
         /\ Len(SubSeq(s, 1, n)) = n /\ Len(SubSeq(s, n + 1, Len(s))) = Len(s) - n
         /\ \A i \in 1 .. n : SubSeq(s, 1, n)[i] = s[i]
         /\ \A i \in 1 .. Len(s) - n : SubSeq(s, n + 1, Len(s))[i] = s[n + i]
         /\ s = SubSeq(s, 1, n) \o SubSeq(s, n + 1, Len(s))
PROOF
<1>1. Len(s) \in Nat /\ n \in Nat /\ n <= Len(s) /\ n + 1 \in Int /\ Len(s) \in Int
  BY LenProperties
<1>2. /\ SubSeq(s, 1, n) \in Seq(S) /\ Len(SubSeq(s, 1, n)) = n
      /\ \A i \in 1 .. n : SubSeq(s, 1, n)[i] = s[i]
  BY FirstElements
<1>3. \A i \in n + 1 .. Len(s) : s[i] \in S
  BY <1>1, ElementOfSeq
<1>4. /\ SubSeq(s, n + 1, Len(s)) \in Seq(S)
      /\ Len(SubSeq(s, n + 1, Len(s))) =
           (IF n + 1 <= Len(s) THEN Len(s) - (n + 1) + 1 ELSE 0)
      /\ \A i \in 1 .. Len(s) - (n + 1) + 1 :
           SubSeq(s, n + 1, Len(s))[i] = s[n + 1 + i - 1]
  BY <1>1, <1>3, SubSeqProperties
<1>5. \A i \in 1 .. Len(s) - n : SubSeq(s, n + 1, Len(s))[i] = s[n + i]
  <2> TAKE i \in 1 .. Len(s) - n
  <2>1. i \in 1 .. Len(s) - (n + 1) + 1 /\ n + 1 + i - 1 = n + i
    BY <1>1
  <2> QED BY <1>4, <2>1
<1>6. s = SubSeq(s, 1, n) \o SubSeq(s, n + 1, Len(s))
  <2>1. 1 \in 1 .. Len(s) + 1 /\ n \in 1 - 1 .. Len(s) /\ Len(s) \in n .. Len(s)
    BY <1>1
  <2>2. SubSeq(s, 1, n) \o SubSeq(s, n + 1, Len(s)) = SubSeq(s, 1, Len(s))
    BY <2>1, ConcatAdjacentSubSeq
  <2> QED BY <2>2, SubSeqFull
<1>7. Len(SubSeq(s, n + 1, Len(s))) = Len(s) - n
  BY <1>1, <1>4
<1> QED BY <1>2, <1>4, <1>5, <1>6, <1>7

\* What a sequence is continued by leaves it a prefix.
LEMMA Continued ==
  ASSUME NEW S, NEW s \in Seq(S), NEW t \in Seq(S)
  PROVE  /\ IsPrefix(s, s \o t)
         /\ t # <<>> => IsStrictPrefix(s, s \o t)
PROOF
<1>1. /\ s \o t \in Seq(S) /\ Len(s) \in Nat /\ Len(t) \in Nat
      /\ Len(s \o t) = Len(s) + Len(t)
      /\ \A i \in 1 .. Len(s) : (s \o t)[i] = s[i]
  BY ConcatProperties, LenProperties
<1> DEFINE u == s \o t
<1> HIDE DEF u
<1>2. u \in Seq(S) /\ Len(s) \in 0 .. Len(u) /\ \A i \in 1 .. Len(s) : u[i] = s[i]
  BY <1>1 DEF u
<1>3. SubSeq(u, 1, Len(s)) = s
  <2>1. /\ SubSeq(u, 1, Len(s)) \in Seq(S) /\ Len(SubSeq(u, 1, Len(s))) = Len(s)
        /\ \A i \in 1 .. Len(s) : SubSeq(u, 1, Len(s))[i] = s[i]
    BY <1>2, FirstElements
  <2> QED BY <2>1, SeqEqual
<1>4. IsPrefix(s, u)
  BY <1>2, <1>3, SubSeqFull DEF IsPrefix
<1>5. t # <<>> => u # s
  BY ConcatEqualIffEmpty DEF u
<1> QED BY <1>4, <1>5 DEF IsStrictPrefix, u
=============================================================================
