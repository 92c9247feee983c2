----------------------------- MODULE Words_proofs -----------------------------
(***************************************************************************)
(* Proofs about the words of a program on the machine, for every size of   *)
(* bytes and words: arithmetic on digits, and what the code of each word   *)
(* that calculates does to the machine when it runs from its first line to *)
(* its last.                                                               *)
(***************************************************************************)
EXTENDS Toolchain, Compiler_proofs

LEMMA StaysIn ==
  ASSUME NEW S, NEW n \in Nat, NEW g, g[0] \in S,
         \A i \in 1 .. n : g[i - 1] \in S => g[i] \in S
  PROVE  \A i \in 0 .. n : g[i] \in S
PROOF
<1> DEFINE T == {k \in Nat : k <= n => g[k] \in S}
<1>1. 0 \in T
  OBVIOUS
<1>2. ASSUME NEW k \in Nat, k \in T PROVE k + 1 \in T
  <2> SUFFICES ASSUME k + 1 <= n PROVE g[k + 1] \in S
    OBVIOUS
  <2>1. k + 1 \in 1 .. n /\ k + 1 - 1 = k /\ g[k] \in S
    BY <1>2
  <2> QED BY <2>1
<1>3. Nat \subseteq T
  <2> HIDE DEF T
  <2> QED BY <1>1, <1>2, AllNat
<1>4. ASSUME NEW i \in 0 .. n PROVE g[i] \in S
  <2>1. i \in Nat /\ i <= n
    OBVIOUS
  <2>2. i \in T
    BY <1>3, <2>1
  <2> QED BY <2>1, <2>2
<1> QED BY <1>4

\* How many values a word holds.
LEMMA WordSizeFacts == WordSize \in Nat /\ WordSize >= 2
PROOF
<1> DEFINE n == WordBits
           h == [i \in 1 .. n |-> [v \in Nat |-> 2 * v]]
           Body(f) == [i \in 0 .. n |-> IF i = 0 THEN 1 ELSE 2 * f[i - 1]]
           g == CHOOSE f : f = Body(f)
<1>0. n \in Nat /\ n >= 1
  BY NumbersAssumption
<1>1. h \in [1 .. n -> [Nat -> Nat]]
  OBVIOUS
<1> HIDE DEF n
<1>2. PICK f \in [0 .. n -> Nat] : f[0] = 1 /\ \A i \in 1 .. n : f[i] = 2 * f[i - 1]
  <2>1. 1 \in Nat
    OBVIOUS
  <2>2. PICK f : Recursive(f, Nat, 1, n, h)
    <3> HIDE DEF h
    <3> QED BY <1>0, <1>1, <2>1, Recursion, Zenon
  <2>3. f \in [0 .. n -> Nat] /\ f[0] = 1 /\ \A i \in 1 .. n : f[i] = h[i][f[i - 1]]
    <3> HIDE DEF h
    <3> QED BY <2>2 DEF Recursive
  <2>4. ASSUME NEW i \in 1 .. n PROVE f[i] = 2 * f[i - 1]
    <3>1. i - 1 \in 0 .. n /\ f[i - 1] \in Nat
      BY <1>0, <2>3
    <3> QED BY <2>3, <3>1
  <2> QED BY <2>3, <2>4
<1>3. f = Body(f)
  <2>1. \A i \in 0 .. n : f[i] = IF i = 0 THEN 1 ELSE 2 * f[i - 1]
    BY <1>0, <1>2
  <2> QED BY <2>1
<1>4. g = Body(g)
  BY <1>3
<1> HIDE DEF g
<1>5. g[0] = 1 /\ \A i \in 1 .. n : g[i] = 2 * g[i - 1]
  BY <1>0, <1>4
<1>6. \A i \in 0 .. n : g[i] \in Nat \ {0}
  <2>1. g[0] \in Nat \ {0}
    BY <1>5
  <2>2. \A i \in 1 .. n : g[i - 1] \in Nat \ {0} => g[i] \in Nat \ {0}
    BY <1>5
  <2> QED BY <1>0, <2>1, <2>2, StaysIn
<1>7. g[n] = 2 * g[n - 1] /\ n - 1 \in 0 .. n
  BY <1>0, <1>5
<1>8. WordSize = g[n]
  BY DEF WordSize, g, n
<1> QED BY <1>6, <1>7, <1>8

LEMMA DivMod ==
  ASSUME NEW m \in Nat \ {0}, NEW x \in Int, NEW q \in Int, NEW r \in 0 .. m - 1, x = m * q + r
  PROVE  x % m = r /\ x \div m = q
PROOF
OBVIOUS

LEMMA DivModIs ==
  ASSUME NEW m \in Nat \ {0}, NEW x \in Int
  PROVE  x = m * (x \div m) + (x % m) /\ x % m \in 0 .. m - 1 /\ x \div m \in Int
PROOF
OBVIOUS

\* What is divided twice.
LEMMA ModTower ==
  ASSUME NEW P \in Nat \ {0}, NEW B \in Nat \ {0}, NEW x \in Int
  PROVE  /\ P * B \in Nat \ {0}
         /\ (x % (P * B)) % B = x % B
         /\ (x % (P * B)) \div B = (x \div B) % P
PROOF
<1> DEFINE M == P * B
           q == x \div M
           r == x % M
           r1 == r \div B
           r0 == r % B
<1>1. M \in Nat \ {0}
  OBVIOUS
<1>2. x = M * q + r /\ r \in 0 .. M - 1 /\ q \in Int
  <2> HIDE DEF M
  <2> QED BY <1>1, DivModIs
<1>3. r = B * r1 + r0 /\ r0 \in 0 .. B - 1 /\ r1 \in Int
  <2>1. r \in Int
    BY <1>2
  <2> HIDE DEF r
  <2> QED BY <2>1, DivModIs
<1> HIDE DEF q, r, r1, r0
<1>4. x = B * (P * q + r1) + r0
  <2>1. M * q = B * (P * q)
    BY <1>2
  <2>2. B * (P * q + r1) = B * (P * q) + B * r1
    BY <1>2, <1>3
  <2> HIDE DEF M
  <2>3. M * q \in Int /\ B * r1 \in Int /\ B * (P * q) \in Int
    BY <1>1, <1>2, <1>3
  <2> QED BY <1>2, <1>3, <2>1, <2>2, <2>3
<1>5. x % B = r0 /\ x \div B = P * q + r1
  <2>1. P * q + r1 \in Int
    BY <1>2, <1>3
  <2> QED BY <1>3, <1>4, <2>1, DivMod
<1>6. r1 \in 0 .. P - 1
  <2>1. r1 >= 0
    <3>1. ASSUME r1 <= -1 PROVE FALSE
      <4>1. B * r1 <= -B
        BY <1>3, <3>1
      <4>2. B * r1 \in Int
        BY <1>3
      <4> QED BY <1>2, <1>3, <4>1, <4>2
    <3> QED BY <1>3, <3>1
  <2>2. r1 <= P - 1
    <3>1. ASSUME r1 >= P PROVE FALSE
      <4>1. B * r1 >= P * B
        BY <1>3, <3>1
      <4>2. B * r1 \in Int
        BY <1>3
      <4> QED BY <1>1, <1>2, <1>3, <4>1, <4>2
    <3> QED BY <1>3, <3>1
  <2> QED BY <1>3, <2>1, <2>2
<1>7. (P * q + r1) % P = r1
  <2>1. P * q + r1 \in Int
    BY <1>2, <1>3
  <2> QED BY <1>2, <1>6, <2>1, DivMod
<1>8. r % B = r0 /\ r \div B = r1
  BY DEF r0, r1
<1> QED BY <1>1, <1>5, <1>7, <1>8 DEF r

\* One more byte.
Capped(v) == IF v * ByteSize < WordSize THEN v * ByteSize ELSE WordSize
CapsTo(g, n) == g[0] = 1 /\ \A i \in 1 .. n : g[i] = Capped(g[i - 1])

\* How many values n bytes hold: the powers of ByteSize up to a word.
LEMMA ValuesAre ==
  ASSUME NEW n \in Nat
  PROVE  \E g : CapsTo(g, n) /\ Values(n) = g[n]
PROOF
<1> DEFINE h == [i \in 1 .. n |-> [v \in Nat |-> Capped(v)]]
           Body(f) == [i \in 0 .. n |-> IF i = 0 THEN 1 ELSE IF f[i - 1] * ByteSize < WordSize
                         THEN f[i - 1] * ByteSize ELSE WordSize]
           g == CHOOSE f : f = Body(f)
<1>1. h \in [1 .. n -> [Nat -> Nat]]
  BY WordSizeFacts, NumbersAssumption DEF Capped
<1>2. PICK f \in [0 .. n -> Nat] : f[0] = 1 /\ \A i \in 1 .. n : f[i] = Capped(f[i - 1])
  <2>1. 1 \in Nat
    OBVIOUS
  <2>2. PICK f : Recursive(f, Nat, 1, n, h)
    <3> HIDE DEF h
    <3> QED BY <1>1, <2>1, Recursion, Zenon
  <2>3. f \in [0 .. n -> Nat] /\ f[0] = 1 /\ \A i \in 1 .. n : f[i] = h[i][f[i - 1]]
    <3> HIDE DEF h
    <3> QED BY <2>2 DEF Recursive
  <2>4. ASSUME NEW i \in 1 .. n PROVE f[i] = Capped(f[i - 1])
    <3>1. i - 1 \in 0 .. n /\ f[i - 1] \in Nat
      BY <2>3
    <3> QED BY <2>3, <3>1
  <2> QED BY <2>3, <2>4
<1>3. f = Body(f)
  <2>1. \A i \in 0 .. n : f[i] = IF i = 0 THEN 1 ELSE Capped(f[i - 1])
    BY <1>2
  <2> QED BY <2>1 DEF Capped
<1>4. g = Body(g)
  BY <1>3
<1> HIDE DEF g
<1>5. g[0] = 1 /\ \A i \in 1 .. n : g[i] = Capped(g[i - 1])
  <2>1. \A i \in 0 .. n : g[i] = IF i = 0 THEN 1 ELSE Capped(g[i - 1])
    BY <1>4 DEF Capped
  <2> QED BY <2>1
<1>6. Values(n) = g[n]
  BY DEF Values, g
<1> QED BY <1>5, <1>6 DEF CapsTo

LEMMA ValuesFacts ==
  /\ Values(0) = 1
  /\ \A n \in Nat : Values(n + 1) = Capped(Values(n))
  /\ \A n \in Nat : Values(n) \in 1 .. WordSize
PROOF
<1>1. Values(0) = 1
  <2>1. PICK g : CapsTo(g, 0) /\ Values(0) = g[0]
    BY ValuesAre
  <2> QED BY <2>1 DEF CapsTo
<1>2. ASSUME NEW n \in Nat PROVE Values(n + 1) = Capped(Values(n))
  <2>1. n + 1 \in Nat
    OBVIOUS
  <2>2. PICK f : CapsTo(f, n) /\ Values(n) = f[n]
    BY ValuesAre
  <2>3. PICK g : CapsTo(g, n + 1) /\ Values(n + 1) = g[n + 1]
    BY <2>1, ValuesAre
  <2> DEFINE T == {k \in Nat : k <= n => f[k] = g[k]}
  <2>4. 0 \in T
    BY <2>2, <2>3 DEF CapsTo
  <2>5. ASSUME NEW k \in Nat, k \in T PROVE k + 1 \in T
    <3> SUFFICES ASSUME k + 1 <= n PROVE f[k + 1] = g[k + 1]
      OBVIOUS
    <3>1. k + 1 \in 1 .. n /\ k + 1 \in 1 .. n + 1 /\ k + 1 - 1 = k /\ f[k] = g[k]
      BY <2>5
    <3>2. f[k + 1] = Capped(f[k]) /\ g[k + 1] = Capped(g[k])
      BY <2>2, <2>3, <3>1 DEF CapsTo
    <3> QED BY <3>1, <3>2
  <2>6. n \in T
    <3> HIDE DEF T
    <3> QED BY <2>4, <2>5, AllNat
  <2>7. n + 1 \in 1 .. n + 1 /\ n + 1 - 1 = n
    OBVIOUS
  <2>8. g[n + 1] = Capped(g[n])
    BY <2>3, <2>7 DEF CapsTo
  <2> QED BY <2>2, <2>3, <2>6, <2>8
<1>3. ASSUME NEW n \in Nat PROVE Values(n) \in 1 .. WordSize
  <2>1. PICK g : CapsTo(g, n) /\ Values(n) = g[n]
    BY ValuesAre
  <2> DEFINE S == 1 .. WordSize
  <2>2. g[0] \in S
    BY <2>1, WordSizeFacts DEF CapsTo
  <2>3. \A v \in S : Capped(v) \in S
    <3> SUFFICES ASSUME NEW v \in S PROVE Capped(v) \in S
      OBVIOUS
    <3>1. v * ByteSize \in Int /\ v * ByteSize >= 1
      BY NumbersAssumption, WordSizeFacts
    <3> QED BY <3>1, WordSizeFacts DEF Capped
  <2>4. \A i \in 1 .. n : g[i - 1] \in S => g[i] \in S
    BY <2>1, <2>3 DEF CapsTo
  <2> HIDE DEF S
  <2>5. \A i \in 0 .. n : g[i] \in S
    BY <2>2, <2>4, StaysIn
  <2> QED BY <2>1, <2>5 DEF S
<1> QED BY <1>1, <1>2, <1>3

-----------------------------------------------------------------------------
Halves(r, base, v, n) == r \in [0 .. n -> Int] /\ r[0] = v /\ \A i \in 1 .. n : r[i] = r[i - 1] \div base

\* The digits of a number, the lowest first.
LEMMA DigitsAre ==
  ASSUME NEW base \in Nat \ {0}, NEW v \in Int, NEW n \in Nat
  PROVE  \E r : /\ Halves(r, base, v, n)
                /\ DigitsIn(base, v, n) = [i \in 0 .. n - 1 |-> r[i] % base]
PROOF
<1> DEFINE h == [i \in 1 .. n |-> [x \in Int |-> x \div base]]
           Body(f) == [i \in 0 .. n |-> IF i = 0 THEN v ELSE f[i - 1] \div base]
           g == CHOOSE f : f = Body(f)
<1>1. h \in [1 .. n -> [Int -> Int]]
  OBVIOUS
<1>2. PICK f \in [0 .. n -> Int] : f[0] = v /\ \A i \in 1 .. n : f[i] = f[i - 1] \div base
  <2>2. PICK f : Recursive(f, Int, v, n, h)
    <3> HIDE DEF h
    <3> QED BY <1>1, Recursion, Zenon
  <2>3. f \in [0 .. n -> Int] /\ f[0] = v /\ \A i \in 1 .. n : f[i] = h[i][f[i - 1]]
    <3> HIDE DEF h
    <3> QED BY <2>2 DEF Recursive
  <2>4. ASSUME NEW i \in 1 .. n PROVE f[i] = f[i - 1] \div base
    <3>1. i - 1 \in 0 .. n /\ f[i - 1] \in Int
      BY <2>3
    <3> QED BY <2>3, <3>1
  <2> QED BY <2>3, <2>4
<1>3. f = Body(f)
  <2>1. \A i \in 0 .. n : f[i] = IF i = 0 THEN v ELSE f[i - 1] \div base
    BY <1>2
  <2> QED BY <2>1
<1>4. g = Body(g)
  BY <1>3
<1> HIDE DEF g
<1>5. g[0] = v /\ \A i \in 1 .. n : g[i] = g[i - 1] \div base
  <2>1. \A i \in 0 .. n : g[i] = IF i = 0 THEN v ELSE g[i - 1] \div base
    BY <1>4
  <2> QED BY <2>1
<1>6. \A i \in 0 .. n : g[i] \in Int
  <2>1. g[0] \in Int
    BY <1>5
  <2>2. \A i \in 1 .. n : g[i - 1] \in Int => g[i] \in Int
    BY <1>5
  <2> QED BY <2>1, <2>2, StaysIn
<1>7. g \in [0 .. n -> Int]
  BY <1>4, <1>6
<1>8. DigitsIn(base, v, n) = [i \in 0 .. n - 1 |-> g[i] % base]
  BY DEF DigitsIn, g
<1> QED BY <1>5, <1>7, <1>8 DEF Halves

LEMMA DigitsType ==
  ASSUME NEW base \in Nat \ {0}, NEW v \in Int, NEW n \in Nat
  PROVE  DigitsIn(base, v, n) \in [0 .. n - 1 -> 0 .. base - 1]
PROOF
<1>1. PICK r : Halves(r, base, v, n) /\ DigitsIn(base, v, n) = [i \in 0 .. n - 1 |-> r[i] % base]
  BY DigitsAre
<1>2. \A i \in 0 .. n - 1 : r[i] % base \in 0 .. base - 1
  BY <1>1 DEF Halves
<1> QED BY <1>1, <1>2

\* The lower bytes of a number are those of what is left of it in as many bytes.
LEMMA LowDigits ==
  ASSUME NEW v \in 0 .. WordSize - 1, NEW n \in Nat
  PROVE  Digits(v % Values(n), n) = Digits(v, n)
PROOF
<1> DEFINE B == ByteSize
           w == v % Values(n)
<1>0. B \in Nat \ {0, 1} /\ WordSize \in Nat \ {0} /\ Values(n) \in 1 .. WordSize /\ w \in Int
  BY NumbersAssumption, WordSizeFacts, ValuesFacts
<1>1. CASE Values(n) = WordSize
  BY <1>0, <1>1
<1>2. CASE Values(n) # WordSize
  <2>1. \A k \in 0 .. n : Values(n - k) # WordSize
    <3> DEFINE g == [k \in 0 .. n |-> Values(n - k)]
               S == 1 .. WordSize - 1
    <3>1. g[0] \in S
      BY <1>0, <1>2
    <3>2. ASSUME NEW i \in 1 .. n, g[i - 1] \in S PROVE g[i] \in S
      <4>1. n - i \in Nat /\ n - i + 1 = n - (i - 1) /\ i - 1 \in 0 .. n
        OBVIOUS
      <4>2. Values(n - (i - 1)) = Capped(Values(n - i)) /\ Values(n - i) \in 1 .. WordSize
        BY <4>1, ValuesFacts
      <4>3. Capped(Values(n - i)) \in S
        BY <3>2, <4>1, <4>2
      <4>4. Values(n - i) # WordSize
        <5> SUFFICES ASSUME Values(n - i) = WordSize PROVE FALSE
          OBVIOUS
        <5>1. Capped(WordSize) = WordSize
          <6>1. ~(WordSize * ByteSize < WordSize)
            BY <1>0
          <6> QED BY <6>1 DEF Capped
        <5> QED BY <1>0, <4>3, <5>1
      <4> QED BY <1>0, <4>2, <4>4
    <3> HIDE DEF g, S
    <3>3. \A k \in 0 .. n : g[k] \in S
      BY <3>1, <3>2, StaysIn
    <3> QED BY <1>0, <3>3 DEF g, S
  <2>2. \A i \in Nat : i <= n => Values(i) \in Nat \ {0} /\ Values(i) # WordSize
    <3> SUFFICES ASSUME NEW i \in Nat, i <= n PROVE Values(i) \in Nat \ {0} /\ Values(i) # WordSize
      OBVIOUS
    <3>1. PICK k \in 0 .. n : n - k = i
      <4>1. n - i \in 0 .. n /\ n - (n - i) = i
        OBVIOUS
      <4> QED BY <4>1
    <3>2. Values(n - k) # WordSize
      BY <2>1
    <3>3. Values(i) \in 1 .. WordSize
      BY ValuesFacts
    <3> QED BY <1>0, <3>1, <3>2, <3>3
  <2>3. \A i \in Nat : i + 1 <= n => Values(i + 1) = Values(i) * B
    <3> SUFFICES ASSUME NEW i \in Nat, i + 1 <= n PROVE Values(i + 1) = Values(i) * B
      OBVIOUS
    <3>1. Values(i + 1) = Capped(Values(i)) /\ Values(i + 1) # WordSize
      BY <2>2, ValuesFacts
    <3> QED BY <3>1 DEF Capped
  <2>0. /\ B \in Nat \ {0} /\ v \in Int /\ w \in Int
        /\ \A x : Digits(x, n) = DigitsIn(B, x, n)
    BY <1>0 DEF Digits
  <2> HIDE DEF w, B
  <2>4. PICK r : Halves(r, B, v, n) /\ Digits(v, n) = [i \in 0 .. n - 1 |-> r[i] % B]
    <3>1. PICK r : Halves(r, B, v, n) /\ DigitsIn(B, v, n) = [i \in 0 .. n - 1 |-> r[i] % B]
      BY <2>0, DigitsAre
    <3> QED BY <2>0, <3>1
  <2>5. PICK s : Halves(s, B, w, n) /\ Digits(w, n) = [i \in 0 .. n - 1 |-> s[i] % B]
    <3>1. PICK s : Halves(s, B, w, n) /\ DigitsIn(B, w, n) = [i \in 0 .. n - 1 |-> s[i] % B]
      BY <2>0, DigitsAre
    <3> QED BY <2>0, <3>1
  <2> DEFINE T == {k \in Nat : k <= n => s[k] = r[k] % Values(n - k)}
  <2>6. 0 \in T
    BY <2>4, <2>5 DEF Halves, w
  <2>7. ASSUME NEW k \in Nat, k + 1 <= n, s[k] = r[k] % Values(n - k)
        PROVE  /\ s[k] % B = r[k] % B
               /\ s[k + 1] = r[k + 1] % Values(n - (k + 1))
    <3> DEFINE P == Values(n - (k + 1))
    <3>1. n - (k + 1) \in Nat /\ n - (k + 1) + 1 = n - k /\ n - k <= n /\ n - (k + 1) <= n
      BY <2>7
    <3>2. P \in Nat \ {0} /\ Values(n - k) = P * B
      BY <2>2, <2>3, <3>1
    <3> HIDE DEF P
    <3>3. r[k] \in Int /\ s[k + 1] = s[k] \div B /\ r[k + 1] = r[k] \div B
      <4>1. k + 1 \in 1 .. n /\ k + 1 - 1 = k /\ k \in 0 .. n
        BY <2>7
      <4> QED BY <2>4, <2>5, <4>1 DEF Halves
    <3>4. (r[k] % (P * B)) % B = r[k] % B /\ (r[k] % (P * B)) \div B = (r[k] \div B) % P
      <4>1. PICK x : x = r[k]
        OBVIOUS
      <4>2. P \in Nat \ {0} /\ B \in Nat \ {0} /\ x \in Int
        BY <2>0, <3>2, <3>3, <4>1
      <4>3. (x % (P * B)) % B = x % B /\ (x % (P * B)) \div B = (x \div B) % P
        BY <4>2, ModTower, ZenonT(60)
      <4> QED BY <4>1, <4>3
    <3> QED BY <2>7, <3>2, <3>3, <3>4 DEF P
  <2>8. ASSUME NEW k \in Nat, k \in T PROVE k + 1 \in T
    BY <2>7, <2>8
  <2>9. Nat \subseteq T
    <3> HIDE DEF T
    <3> QED BY <2>6, <2>8, AllNat
  <2>10. \A i \in 0 .. n - 1 : s[i] % B = r[i] % B
    <3> SUFFICES ASSUME NEW i \in 0 .. n - 1 PROVE s[i] % B = r[i] % B
      OBVIOUS
    <3>1. i \in Nat /\ i + 1 <= n /\ i <= n
      OBVIOUS
    <3>2. i \in T
      BY <2>9, <3>1
    <3>3. s[i] = r[i] % Values(n - i)
      BY <3>1, <3>2
    <3> QED BY <2>7, <3>1, <3>3
  <2> QED BY <2>4, <2>5, <2>10 DEF w
<1> QED BY <1>1, <1>2

-----------------------------------------------------------------------------
Sum(g, base, digits, n) == /\ g \in [0 .. n -> 0 .. WordSize - 1] /\ g[0] = 0
                           /\ \A i \in 1 .. n : g[i] = (digits[n - i] + base * g[i - 1]) % WordSize

\* What is put together from the digits of a number is the number.
LEMMA ValueIs ==
  ASSUME NEW base \in Int, NEW n \in Nat, NEW digits, \A i \in 0 .. n - 1 : digits[i] \in Int
  PROVE  \E g : Sum(g, base, digits, n) /\ ValueIn(base, digits, n) = g[n]
PROOF
<1> DEFINE S == 0 .. WordSize - 1
           H(i, x) == (digits[n - i] + base * x) % WordSize
           h == [i \in 1 .. n |-> [x \in S |-> H(i, x)]]
           Body(f) == [i \in 0 .. n |-> IF i = 0 THEN 0 ELSE (digits[n - i] + base * f[i - 1]) % WordSize]
           g == CHOOSE f : f = Body(f)
<1>0. 0 \in S
  BY WordSizeFacts
<1>1. \A i \in 1 .. n : \A x \in S : H(i, x) \in S
  <2> SUFFICES ASSUME NEW i \in 1 .. n, NEW x \in S PROVE H(i, x) \in S
    OBVIOUS
  <2>1. digits[n - i] \in Int /\ x \in Int
    BY WordSizeFacts
  <2>2. base * x \in Int
    BY <2>1
  <2>3. digits[n - i] + base * x \in Int
    BY <2>1, <2>2
  <2> DEFINE y == digits[n - i] + base * x
  <2> HIDE DEF y
  <2>4. y % WordSize \in S
    BY <2>3, WordSizeFacts DEF y
  <2> QED BY <2>4 DEF y
<1> HIDE DEF S
<1>2. h \in [1 .. n -> [S -> S]]
  BY <1>1
<1>3. PICK f \in [0 .. n -> S] : f[0] = 0 /\ \A i \in 1 .. n : f[i] = H(i, f[i - 1])
  <2>2. PICK f : Recursive(f, S, 0, n, h)
    <3> HIDE DEF h
    <3> QED BY <1>0, <1>2, Recursion, Zenon
  <2>3. f \in [0 .. n -> S] /\ f[0] = 0 /\ \A i \in 1 .. n : f[i] = h[i][f[i - 1]]
    <3> HIDE DEF h
    <3> QED BY <2>2 DEF Recursive
  <2>4. ASSUME NEW i \in 1 .. n PROVE f[i] = H(i, f[i - 1])
    <3>1. i - 1 \in 0 .. n /\ f[i - 1] \in S
      BY <2>3
    <3> HIDE DEF H
    <3> QED BY <2>3, <3>1
  <2> QED BY <2>3, <2>4
<1>4. f = Body(f)
  <2>1. \A i \in 0 .. n : f[i] = IF i = 0 THEN 0 ELSE H(i, f[i - 1])
    BY <1>3
  <2> QED BY <2>1
<1>5. g = Body(g)
  BY <1>4
<1> HIDE DEF g
<1>6. g[0] = 0 /\ \A i \in 1 .. n : g[i] = H(i, g[i - 1])
  <2>1. \A i \in 0 .. n : g[i] = IF i = 0 THEN 0 ELSE H(i, g[i - 1])
    BY <1>5
  <2> QED BY <2>1
<1>7. g \in [0 .. n -> S]
  <2>1. g[0] \in S
    BY <1>0, <1>6
  <2>2. \A i \in 1 .. n : g[i - 1] \in S => g[i] \in S
    <3> HIDE DEF H
    <3> QED BY <1>1, <1>6
  <2>3. \A i \in 0 .. n : g[i] \in S
    BY <2>1, <2>2, StaysIn
  <2> HIDE DEF H
  <2> QED BY <1>5, <2>3
<1>8. ValueIn(base, digits, n) = g[n]
  BY DEF ValueIn, g
<1> QED BY <1>6, <1>7, <1>8 DEF Sum, S

\* Byte is what a byte holds, Machine word what a word holds.
Byte == 0 .. ByteSize - 1
MachineWord == 0 .. WordSize - 1

\* What is loaded is a number that has room in a word.
LEMMA LoadType ==
  ASSUME NEW m, NEW a, NEW n \in Nat, \A i \in 0 .. n - 1 : m[a + i] \in Byte
  PROVE  Load(m, a, n) \in MachineWord /\ Load(m, a, n) < Values(n)
PROOF
<1> DEFINE d == [i \in 0 .. n - 1 |-> m[a + i]]
           B == ByteSize
<1>0. B \in Nat \ {0, 1} /\ WordSize \in Nat \ {0}
  BY NumbersAssumption, WordSizeFacts
<1>1. \A i \in 0 .. n - 1 : d[i] \in 0 .. B - 1
  BY DEF Byte
<1>2. Load(m, a, n) = ValueIn(B, d, n)
  BY DEF Load, Value
<1> HIDE DEF d, B
<1>3. PICK g : Sum(g, B, d, n) /\ ValueIn(B, d, n) = g[n]
  <2>1. B \in Int /\ \A i \in 0 .. n - 1 : d[i] \in Int
    BY <1>0, <1>1
  <2> QED BY <2>1, ValueIs
<1>4. g[n] \in MachineWord
  BY <1>3 DEF Sum, MachineWord
<1> DEFINE T == {k \in Nat : k <= n => g[k] < Values(k)}
<1>5. 0 \in T
  BY <1>3, ValuesFacts DEF Sum
<1>6. ASSUME NEW k \in Nat, k \in T PROVE k + 1 \in T
  <2> SUFFICES ASSUME k + 1 <= n PROVE g[k + 1] < Values(k + 1)
    OBVIOUS
  <2> DEFINE x == d[n - (k + 1)]
             y == g[k]
             V == Values(k)
  <2>1. /\ k + 1 \in 1 .. n /\ k + 1 - 1 = k /\ n - (k + 1) \in 0 .. n - 1 /\ k \in 0 .. n
        /\ k + 1 \in 0 .. n
    OBVIOUS
  <2>2. g[k + 1] = (x + B * y) % WordSize /\ y \in 0 .. WordSize - 1 /\ g[k + 1] \in 0 .. WordSize - 1
    BY <1>3, <2>1 DEF Sum
  <2>3. x \in 0 .. B - 1 /\ y < V /\ V \in 1 .. WordSize /\ Values(k + 1) = Capped(V)
    BY <1>1, <1>6, <2>1, ValuesFacts
  <2> HIDE DEF x, y, V
  <2>4. CASE V * B < WordSize
    <3>1. Values(k + 1) = V * B
      BY <2>3, <2>4 DEF Capped, B
    <3>2. B * y <= B * (V - 1)
      BY <1>0, <2>2, <2>3
    <3>3. B * (V - 1) = V * B - B
      BY <1>0, <2>3
    <3>4. B * y \in Nat /\ V * B \in Nat
      BY <1>0, <2>2, <2>3
    <3> DEFINE z == B * y
               u == V * B
    <3>5. z <= u - B /\ z \in Nat /\ u \in Nat /\ u < WordSize
      BY <2>4, <3>2, <3>3, <3>4
    <3> HIDE DEF z, u
    <3>6. x + z < u /\ x + z \in 0 .. WordSize - 1
      BY <1>0, <2>3, <3>5
    <3>7. (x + z) % WordSize = x + z
      BY <1>0, <3>6
    <3>8. g[k + 1] = x + z
      BY <2>2, <3>7 DEF z
    <3> QED BY <3>1, <3>6, <3>8 DEF u
  <2>5. CASE ~(V * B < WordSize)
    <3>1. Values(k + 1) = WordSize
      BY <2>3, <2>5 DEF Capped, B
    <3> QED BY <1>0, <2>2, <3>1
  <2> QED BY <2>4, <2>5
<1>7. n \in T
  <2> HIDE DEF T
  <2> QED BY <1>5, <1>6, AllNat
<1> QED BY <1>2, <1>3, <1>4, <1>7

LEMMA DigitsAreBytes ==
  ASSUME NEW v \in Int, NEW n \in Nat
  PROVE  Digits(v, n) \in [0 .. n - 1 -> Byte]
PROOF
<1>1. ByteSize \in Nat \ {0}
  BY NumbersAssumption
<1>2. DigitsIn(ByteSize, v, n) \in [0 .. n - 1 -> 0 .. ByteSize - 1]
  BY <1>1, DigitsType
<1> QED BY <1>2 DEF Digits, Byte

\* AND and OR of two words are words.
LEMMA BitwiseType ==
  ASSUME NEW a \in Int, NEW b \in Int
  PROVE  BitAnd(a, b) \in MachineWord /\ BitOr(a, b) \in MachineWord
PROOF
<1> DEFINE n == WordBits
<1>0. n \in Nat /\ 2 \in Nat \ {0} /\ 2 \in Int
  BY NumbersAssumption
<1>1. /\ \A i \in 0 .. n - 1 : Bits(a)[i] \in 0 .. 1
      /\ \A i \in 0 .. n - 1 : Bits(b)[i] \in 0 .. 1
  <2>1. \A v \in Int : Bits(v) \in [0 .. n - 1 -> 0 .. 1]
    <3>1. \A v \in Int : DigitsIn(2, v, n) \in [0 .. n - 1 -> 0 .. 2 - 1]
      <4> HIDE DEF n
      <4> QED BY <1>0, DigitsType
    <3>2. 2 - 1 = 1
      OBVIOUS
    <3> QED BY <3>1, <3>2 DEF Bits
  <2> HIDE DEF n
  <2> QED BY <2>1
<1>2. \A d : (\A i \in 0 .. n - 1 : d[i] \in Int) => FromBits(d) \in MachineWord
  <2> SUFFICES ASSUME NEW d, \A i \in 0 .. n - 1 : d[i] \in Int PROVE FromBits(d) \in MachineWord
    OBVIOUS
  <2>1. PICK g : Sum(g, 2, d, n) /\ ValueIn(2, d, n) = g[n]
    <3> HIDE DEF n
    <3> QED BY <1>0, ValueIs
  <2>2. n \in 0 .. n
    BY <1>0
  <2>3. g[n] \in MachineWord
    BY <2>1, <2>2 DEF Sum, MachineWord
  <2> QED BY <2>1, <2>3 DEF FromBits
<1> DEFINE x == [i \in 0 .. n - 1 |-> Bits(a)[i] * Bits(b)[i]]
           y == [i \in 0 .. n - 1 |-> IF Bits(a)[i] + Bits(b)[i] = 0 THEN 0 ELSE 1]
<1>3. \A i \in 0 .. n - 1 : x[i] \in Int
  <2>1. \A i \in 0 .. n - 1 : x[i] = 0 \/ x[i] = 1
    BY <1>1
  <2> QED BY <2>1
<1>4. \A i \in 0 .. n - 1 : y[i] \in Int
  OBVIOUS
<1>5. BitAnd(a, b) = FromBits(x) /\ BitOr(a, b) = FromBits(y)
  BY DEF BitAnd, BitOr
<1> HIDE DEF x, y
<1> QED BY <1>2, <1>3, <1>4, <1>5

-----------------------------------------------------------------------------
LEMMA WrapType == \A x \in Int : Wrap(x) \in MachineWord /\ Wrap(Wrap(x)) = Wrap(x)
PROOF
<1> SUFFICES ASSUME NEW x \in Int PROVE Wrap(x) \in MachineWord /\ Wrap(Wrap(x)) = Wrap(x)
  OBVIOUS
<1>1. x % WordSize \in 0 .. WordSize - 1
  BY WordSizeFacts
<1>2. \A y \in 0 .. WordSize - 1 : y % WordSize = y
  BY WordSizeFacts
<1> QED BY <1>1, <1>2 DEF Wrap, MachineWord

LEMMA WordIsWrapped == \A x \in MachineWord : Wrap(x) = x /\ x \in Int
PROOF
BY WordSizeFacts DEF Wrap, MachineWord

\* A number and the number with full turns more.
LEMMA Turns ==
  ASSUME NEW x \in Int, NEW k \in Int
  PROVE  Wrap(x + k * WordSize) = Wrap(x)
PROOF
<1> DEFINE m == WordSize
           q == x \div m
           r == x % m
<1>1. m \in Nat \ {0}
  BY WordSizeFacts
<1> HIDE DEF m
<1>2. x = m * q + r /\ r \in 0 .. m - 1 /\ q \in Int
  BY <1>1, DivModIs
<1> HIDE DEF q
<1>3. (x + k * m) = m * (q + k) + r
  <2>1. m * (q + k) = m * q + k * m
    BY <1>1, <1>2
  <2>2. m * q \in Int /\ k * m \in Int /\ r \in Int
    BY <1>1, <1>2
  <2> HIDE DEF r
  <2> QED BY <1>2, <2>1, <2>2
<1>4. q + k \in Int /\ x + k * m \in Int
  BY <1>1, <1>2
<1>5. (x + k * m) % m = r
  <2> HIDE DEF r
  <2> QED BY <1>1, <1>2, <1>3, <1>4, DivMod
<1> QED BY <1>5 DEF Wrap, m, r

\* How a number and the word that stands for it compare with zero.
LEMMA SignedTurns ==
  ASSUME NEW a \in MachineWord
  PROVE  \E k \in {0, -1} : Signed(a) = a + k * WordSize
PROOF
<1>1. a \in Int /\ WordSize \in Int /\ 0 * WordSize = 0 /\ (-1) * WordSize = -WordSize
  BY WordSizeFacts DEF MachineWord
<1>2. CASE a >= WordSize \div 2
  <2>1. Signed(a) = a - WordSize
    BY <1>2 DEF Signed
  <2>2. Signed(a) = a + (-1) * WordSize
    BY <1>1, <2>1
  <2> QED BY <2>2
<1>3. CASE ~(a >= WordSize \div 2)
  <2>1. Signed(a) = a + 0 * WordSize
    BY <1>1, <1>3 DEF Signed
  <2> QED BY <2>1
<1> QED BY <1>2, <1>3

\* Calculating with signed numbers and with unsigned ones leaves the same word.
LEMMA SignedArithmetic ==
  ASSUME NEW a \in MachineWord, NEW b \in MachineWord
  PROVE  /\ Wrap(Signed(a) + Signed(b)) = Wrap(a + b)
         /\ Wrap(Signed(a) - Signed(b)) = Wrap(a - b)
         /\ Wrap(Signed(a) * Signed(b)) = Wrap(a * b)
PROOF
<1> DEFINE m == WordSize
<1>0. m \in Int /\ a \in Int /\ b \in Int
  BY WordSizeFacts DEF MachineWord
<1>1. PICK k \in {0, -1} : Signed(a) = a + k * m
  BY SignedTurns
<1>2. PICK j \in {0, -1} : Signed(b) = b + j * m
  BY SignedTurns
<1>3. k \in Int /\ j \in Int /\ \A x, i \in Int : Wrap(x + i * m) = Wrap(x)
  BY Turns
<1> HIDE DEF m
<1>4. k * m \in Int /\ j * m \in Int /\ (k + j) * m = k * m + j * m /\ (k - j) * m = k * m - j * m
      /\ k + j \in Int /\ k - j \in Int
  BY <1>0, <1>3
<1>5. Signed(a) + Signed(b) = (a + b) + (k + j) * m
  BY <1>0, <1>1, <1>2, <1>4
<1>6. Signed(a) - Signed(b) = (a - b) + (k - j) * m
  BY <1>0, <1>1, <1>2, <1>4
<1>7. Signed(a) * Signed(b) = (a * b) + (a * j + k * b + k * j * m) * m
  <2>1. (a + k * m) * (b + j * m) = a * b + a * (j * m) + (k * m) * b + (k * m) * (j * m)
    BY <1>0, <1>4
  <2>2. a * (j * m) = (a * j) * m /\ (k * m) * b = (k * b) * m /\ (k * m) * (j * m) = (k * j * m) * m
    BY <1>0, <1>3
  <2>3. (a * j + k * b + k * j * m) * m = (a * j) * m + (k * b) * m + (k * j * m) * m
    BY <1>0, <1>3
  <2> DEFINE A == a * b
             X == (a * j) * m
             Y == (k * b) * m
             Z == (k * j * m) * m
  <2>4. A \in Int /\ X \in Int /\ Y \in Int /\ Z \in Int
    BY <1>0, <1>3
  <2>5. Signed(a) * Signed(b) = A + X + Y + Z
    BY <1>1, <1>2, <2>1, <2>2
  <2>6. A + (a * j + k * b + k * j * m) * m = A + (X + Y + Z)
    BY <2>3
  <2> HIDE DEF A, X, Y, Z
  <2>7. A + X + Y + Z = A + (X + Y + Z)
    BY <2>4
  <2> QED BY <2>5, <2>6, <2>7 DEF A
<1>8. a + b \in Int /\ a - b \in Int /\ a * b \in Int /\ a * j + k * b + k * j * m \in Int
  BY <1>0, <1>3
<1> QED BY <1>3, <1>4, <1>5, <1>6, <1>7, <1>8

\* Division of numbers that are not negative.
LEMMA Division ==
  ASSUME NEW a \in MachineWord, NEW b \in MachineWord, Signed(a) >= 0, Signed(b) >= 0, b # 0
  PROVE  /\ Signed(a) = a /\ Signed(b) = b
         /\ a \div b \in MachineWord /\ a % b \in MachineWord
         /\ a - b * (a \div b) = a % b
PROOF
<1>1. a \in 0 .. WordSize - 1 /\ b \in 1 .. WordSize - 1 /\ WordSize \in Nat
  BY WordSizeFacts DEF MachineWord
<1>2. Signed(a) = a /\ Signed(b) = b
  BY <1>1 DEF Signed
<1>3. a = b * (a \div b) + (a % b) /\ a % b \in 0 .. b - 1 /\ a \div b \in Int
  BY <1>1, DivModIs
<1> DEFINE q == a \div b
           r == a % b
<1> HIDE DEF q, r
<1>4. a = b * q + r /\ r \in 0 .. b - 1 /\ q \in Int /\ b * q \in Int
  BY <1>1, <1>3 DEF q, r
<1>5. q >= 0
  <2>1. ASSUME q <= -1 PROVE FALSE
    <3>1. b * q <= -b
      BY <1>1, <1>4, <2>1
    <3> QED BY <1>1, <1>4, <3>1
  <2> QED BY <1>4, <2>1
<1>6. q <= b * q
  BY <1>1, <1>4, <1>5
<1>7. q \in 0 .. WordSize - 1 /\ r \in 0 .. WordSize - 1 /\ a - b * q = r
  BY <1>1, <1>4, <1>5, <1>6
<1> QED BY <1>2, <1>7 DEF q, r, MachineWord

\* u is s and then t.
Joins(S, s, t, u) ==
  /\ u \in Seq(S) /\ Len(u) = Len(s) + Len(t) /\ Len(s) \in Nat /\ Len(t) \in Nat
  /\ \A i \in 1 .. Len(s) : u[i] = s[i]
  /\ \A i \in 1 .. Len(t) : u[Len(s) + i] = t[i]

LEMMA JoinFacts ==
  ASSUME NEW S, NEW s \in Seq(S), NEW t \in Seq(S)
  PROVE  Joins(S, s, t, s \o t)
PROOF
<1>1. IsSeq(s) /\ IsSeq(t)
  BY DEF IsSeq
<1> QED BY <1>1, ConcatAt, ConcatProperties DEF Joined, Joins

\* A sequence that has the elements of one and then those of another.
LEMMA JoinIs ==
  ASSUME NEW S, NEW s \in Seq(S), NEW t \in Seq(S), NEW u \in Seq(S),
         Len(u) = Len(s) + Len(t), \A i \in 1 .. Len(s) : u[i] = s[i],
         \A i \in 1 .. Len(t) : u[Len(s) + i] = t[i]
  PROVE  s \o t = u
PROOF
<1>1. /\ s \o t \in Seq(S) /\ Len(s \o t) = Len(s) + Len(t)
      /\ \A i \in 1 .. Len(s) : (s \o t)[i] = s[i]
      /\ \A i \in 1 .. Len(t) : (s \o t)[Len(s) + i] = t[i]
      /\ Len(s) \in Nat /\ Len(t) \in Nat
  BY JoinFacts DEF Joins
<1> DEFINE v == s \o t
<1> HIDE DEF v
<1>2. \A i \in 1 .. Len(v) : v[i] = u[i]
  <2> SUFFICES ASSUME NEW i \in 1 .. Len(v) PROVE v[i] = u[i]
    OBVIOUS
  <2>1. CASE i <= Len(s)
    BY <1>1, <2>1 DEF v
  <2>2. CASE i > Len(s)
    <3>1. PICK j \in 1 .. Len(t) : i = Len(s) + j
      <4>1. i - Len(s) \in 1 .. Len(t) /\ i = Len(s) + (i - Len(s))
        BY <1>1, <2>2 DEF v
      <4> QED BY <4>1
    <3> QED BY <1>1, <3>1 DEF v
  <2> QED BY <1>1, <2>1, <2>2 DEF v
<1>3. v = u
  BY <1>1, <1>2, SeqEqual DEF v
<1> QED BY <1>3 DEF v

\* Tuples one after the other.
LEMMA Join11 ==
  ASSUME NEW a, NEW b
  PROVE  <<a>> \o <<b>> = <<a, b>>
PROOF
<1> DEFINE s == <<a>>  t == <<b>>  u == <<a, b>>  S == {a, b}
<1>1. /\ s \in Seq(S) /\ t \in Seq(S) /\ u \in Seq(S)
      /\ Len(s) = 1 /\ Len(t) = 1 /\ Len(u) = 2
      /\ u[1] = s[1]
      /\ u[2] = t[1]
  OBVIOUS
<1> HIDE DEF s, t, u, S
<1>2. /\ Len(u) = Len(s) + Len(t) /\ \A i \in 1 .. Len(s) : u[i] = s[i]
      /\ \A i \in 1 .. Len(t) : u[Len(s) + i] = t[i]
  BY <1>1
<1>3. s \o t = u
  BY <1>1, <1>2, JoinIs
<1> QED BY <1>3 DEF s, t, u

LEMMA Join21 ==
  ASSUME NEW a, NEW b, NEW c
  PROVE  <<a, b>> \o <<c>> = <<a, b, c>>
PROOF
<1> DEFINE s == <<a, b>>  t == <<c>>  u == <<a, b, c>>  S == {a, b, c}
<1>1. /\ s \in Seq(S) /\ t \in Seq(S) /\ u \in Seq(S)
      /\ Len(s) = 2 /\ Len(t) = 1 /\ Len(u) = 3
      /\ u[1] = s[1] /\ u[2] = s[2]
      /\ u[3] = t[1]
  OBVIOUS
<1> HIDE DEF s, t, u, S
<1>2. /\ Len(u) = Len(s) + Len(t) /\ \A i \in 1 .. Len(s) : u[i] = s[i]
      /\ \A i \in 1 .. Len(t) : u[Len(s) + i] = t[i]
  BY <1>1
<1>3. s \o t = u
  BY <1>1, <1>2, JoinIs
<1> QED BY <1>3 DEF s, t, u

LEMMA Join31 ==
  ASSUME NEW a, NEW b, NEW c, NEW d
  PROVE  <<a, b, c>> \o <<d>> = <<a, b, c, d>>
PROOF
<1> DEFINE s == <<a, b, c>>  t == <<d>>  u == <<a, b, c, d>>  S == {a, b, c, d}
<1>1. /\ s \in Seq(S) /\ t \in Seq(S) /\ u \in Seq(S)
      /\ Len(s) = 3 /\ Len(t) = 1 /\ Len(u) = 4
      /\ u[1] = s[1] /\ u[2] = s[2] /\ u[3] = s[3]
      /\ u[4] = t[1]
  OBVIOUS
<1> HIDE DEF s, t, u, S
<1>2. /\ Len(u) = Len(s) + Len(t) /\ \A i \in 1 .. Len(s) : u[i] = s[i]
      /\ \A i \in 1 .. Len(t) : u[Len(s) + i] = t[i]
  BY <1>1
<1>3. s \o t = u
  BY <1>1, <1>2, JoinIs
<1> QED BY <1>3 DEF s, t, u

LEMMA Join22 ==
  ASSUME NEW a, NEW b, NEW c, NEW d
  PROVE  <<a, b>> \o <<c, d>> = <<a, b, c, d>>
PROOF
<1> DEFINE s == <<a, b>>  t == <<c, d>>  u == <<a, b, c, d>>  S == {a, b, c, d}
<1>1. /\ s \in Seq(S) /\ t \in Seq(S) /\ u \in Seq(S)
      /\ Len(s) = 2 /\ Len(t) = 2 /\ Len(u) = 4
      /\ u[1] = s[1] /\ u[2] = s[2]
      /\ u[3] = t[1] /\ u[4] = t[2]
  OBVIOUS
<1> HIDE DEF s, t, u, S
<1>2. /\ Len(u) = Len(s) + Len(t) /\ \A i \in 1 .. Len(s) : u[i] = s[i]
      /\ \A i \in 1 .. Len(t) : u[Len(s) + i] = t[i]
  BY <1>1
<1>3. s \o t = u
  BY <1>1, <1>2, JoinIs
<1> QED BY <1>3 DEF s, t, u

LEMMA Join23 ==
  ASSUME NEW a, NEW b, NEW c, NEW d, NEW e
  PROVE  <<a, b>> \o <<c, d, e>> = <<a, b, c, d, e>>
PROOF
<1> DEFINE s == <<a, b>>  t == <<c, d, e>>  u == <<a, b, c, d, e>>  S == {a, b, c, d, e}
<1>1. /\ s \in Seq(S) /\ t \in Seq(S) /\ u \in Seq(S)
      /\ Len(s) = 2 /\ Len(t) = 3 /\ Len(u) = 5
      /\ u[1] = s[1] /\ u[2] = s[2]
      /\ u[3] = t[1] /\ u[4] = t[2] /\ u[5] = t[3]
  OBVIOUS
<1> HIDE DEF s, t, u, S
<1>2. /\ Len(u) = Len(s) + Len(t) /\ \A i \in 1 .. Len(s) : u[i] = s[i]
      /\ \A i \in 1 .. Len(t) : u[Len(s) + i] = t[i]
  BY <1>1
<1>3. s \o t = u
  BY <1>1, <1>2, JoinIs
<1> QED BY <1>3 DEF s, t, u

LEMMA Join24 ==
  ASSUME NEW a, NEW b, NEW c, NEW d, NEW e, NEW f
  PROVE  <<a, b>> \o <<c, d, e, f>> = <<a, b, c, d, e, f>>
PROOF
<1> DEFINE s == <<a, b>>  t == <<c, d, e, f>>  u == <<a, b, c, d, e, f>>  S == {a, b, c, d, e, f}
<1>1. /\ s \in Seq(S) /\ t \in Seq(S) /\ u \in Seq(S)
      /\ Len(s) = 2 /\ Len(t) = 4 /\ Len(u) = 6
      /\ u[1] = s[1] /\ u[2] = s[2]
      /\ u[3] = t[1] /\ u[4] = t[2] /\ u[5] = t[3] /\ u[6] = t[4]
  OBVIOUS
<1> HIDE DEF s, t, u, S
<1>2. /\ Len(u) = Len(s) + Len(t) /\ \A i \in 1 .. Len(s) : u[i] = s[i]
      /\ \A i \in 1 .. Len(t) : u[Len(s) + i] = t[i]
  BY <1>1
<1>3. s \o t = u
  BY <1>1, <1>2, JoinIs
<1> QED BY <1>3 DEF s, t, u

LEMMA Join51 ==
  ASSUME NEW a, NEW b, NEW c, NEW d, NEW e, NEW f
  PROVE  <<a, b, c, d, e>> \o <<f>> = <<a, b, c, d, e, f>>
PROOF
<1> DEFINE s == <<a, b, c, d, e>>  t == <<f>>  u == <<a, b, c, d, e, f>>  S == {a, b, c, d, e, f}
<1>1. /\ s \in Seq(S) /\ t \in Seq(S) /\ u \in Seq(S)
      /\ Len(s) = 5 /\ Len(t) = 1 /\ Len(u) = 6
      /\ u[1] = s[1] /\ u[2] = s[2] /\ u[3] = s[3] /\ u[4] = s[4] /\ u[5] = s[5]
      /\ u[6] = t[1]
  OBVIOUS
<1> HIDE DEF s, t, u, S
<1>2. /\ Len(u) = Len(s) + Len(t) /\ \A i \in 1 .. Len(s) : u[i] = s[i]
      /\ \A i \in 1 .. Len(t) : u[Len(s) + i] = t[i]
  BY <1>1
<1>3. s \o t = u
  BY <1>1, <1>2, JoinIs
<1> QED BY <1>3 DEF s, t, u

LEMMA Join10 ==
  ASSUME NEW a
  PROVE  <<a>> \o <<>> = <<a>>
PROOF
<1>1. <<a>> \in Seq({a})
  OBVIOUS
<1> QED BY <1>1, ConcatEmptySeq

-----------------------------------------------------------------------------
(***************************************************************************)
(* The code of the words that calculate, line by line.                     *)
(***************************************************************************)
LEMMA ArithmeticCodeIs ==
  LET start(x) == <<POP("RBX"), POP("RAX"), x, PUSH(Reg("RAX"))>>
      divide == I2("XOR", Reg("RDX"), Reg("RDX"))
      div == I1("DIV", Reg("RBX"))
  IN /\ ArithmeticCode("+") = start(I2("ADD", Reg("RAX"), Reg("RBX")))
     /\ ArithmeticCode("-") = start(I2("SUB", Reg("RAX"), Reg("RBX")))
     /\ ArithmeticCode("*") = start(I1("MUL", Reg("RBX")))
     /\ ArithmeticCode("or") = start(I2("OR", Reg("RAX"), Reg("RBX")))
     /\ ArithmeticCode("&") = start(I2("AND", Reg("RAX"), Reg("RBX")))
     /\ ArithmeticCode("/") = <<POP("RBX"), POP("RAX"), divide, div, PUSH(Reg("RAX"))>>
     /\ ArithmeticCode("%") = <<POP("RBX"), POP("RAX"), divide, div,
                                I2("MOV", Reg("RAX"), Reg("RDX")), PUSH(Reg("RAX"))>>
     /\ ArithmeticCode("divmod") = <<POP("RBX"), POP("RAX"), divide, div,
                                     PUSH(Reg("RAX")), PUSH(Reg("RDX"))>>
PROOF
<1> DEFINE p == PUSH(Reg("RAX"))
           b == POP("RBX")
           a == POP("RAX")
           x == I2("XOR", Reg("RDX"), Reg("RDX"))
           d == I1("DIV", Reg("RBX"))
           m == I2("MOV", Reg("RAX"), Reg("RDX"))
           q == PUSH(Reg("RDX"))
<1>1. Pop2 = <<b, a>> /\ PushRAX = <<p>> /\ DivCode = <<x, d>>
  BY DEF Pop2, PushRAX, DivCode
<1>2. /\ ArithmeticCode("+") = Pop2 \o (<<I2("ADD", Reg("RAX"), Reg("RBX"))>> \o PushRAX)
      /\ ArithmeticCode("-") = Pop2 \o (<<I2("SUB", Reg("RAX"), Reg("RBX"))>> \o PushRAX)
      /\ ArithmeticCode("*") = Pop2 \o (<<I1("MUL", Reg("RBX"))>> \o PushRAX)
      /\ ArithmeticCode("or") = Pop2 \o (<<I2("OR", Reg("RAX"), Reg("RBX"))>> \o PushRAX)
      /\ ArithmeticCode("&") = Pop2 \o (<<I2("AND", Reg("RAX"), Reg("RBX"))>> \o PushRAX)
      /\ ArithmeticCode("/") = Pop2 \o (DivCode \o PushRAX)
      /\ ArithmeticCode("%") = Pop2 \o (DivCode \o <<m>> \o PushRAX)
      /\ ArithmeticCode("divmod") = Pop2 \o (DivCode \o PushRAX \o <<q>>)
  BY DEF ArithmeticCode
<1> HIDE DEF p, b, a, x, d, m, q
<1>3. ASSUME NEW y PROVE Pop2 \o (<<y>> \o PushRAX) = <<b, a, y, p>>
  <2>1. <<y>> \o <<p>> = <<y, p>>
    BY Join11, Zenon
  <2>2. <<b, a>> \o <<y, p>> = <<b, a, y, p>>
    BY Join22, Zenon
  <2> QED BY <1>1, <2>1, <2>2, Zenon
<1>4. <<x, d>> \o <<p>> = <<x, d, p>>
  BY Join21, Zenon
<1>5. Pop2 \o (DivCode \o PushRAX) = <<b, a, x, d, p>>
  <2>1. <<b, a>> \o <<x, d, p>> = <<b, a, x, d, p>>
    BY Join23, Zenon
  <2> QED BY <1>1, <1>4, <2>1, Zenon
<1>6. Pop2 \o (DivCode \o <<m>> \o PushRAX) = <<b, a, x, d, m, p>>
  <2>1. <<x, d>> \o <<m>> = <<x, d, m>>
    BY Join21, Zenon
  <2>2. <<x, d, m>> \o <<p>> = <<x, d, m, p>>
    BY Join31, Zenon
  <2>3. <<b, a>> \o <<x, d, m, p>> = <<b, a, x, d, m, p>>
    BY Join24
  <2> QED BY <1>1, <2>1, <2>2, <2>3, Zenon
<1>7. Pop2 \o (DivCode \o PushRAX \o <<q>>) = <<b, a, x, d, p, q>>
  <2>1. <<x, d, p>> \o <<q>> = <<x, d, p, q>>
    BY Join31, Zenon
  <2>2. <<b, a>> \o <<x, d, p, q>> = <<b, a, x, d, p, q>>
    BY Join24
  <2> QED BY <1>1, <1>4, <2>1, <2>2, Zenon
<1> QED BY <1>2, <1>3, <1>5, <1>6, <1>7, Zenon DEF p, b, a, x, d, m, q

\* The code of a comparison, line by line (main.py:164-193).
LEMMA CompareCodeIs ==
  \A o : CompareCode(o) = <<POP("RBX"), POP("RCX"), I2("XOR", Reg("RAX"), Reg("RAX")),
                            I2("CMP", Reg("RCX"), Reg("RBX")),
                            I1(SetInstruction(o), Reg("AL")), PUSH(Reg("RAX"))>>
PROOF
<1> DEFINE p == PUSH(Reg("RAX"))
           b == POP("RBX")
           a == POP("RCX")
           x == I2("XOR", Reg("RAX"), Reg("RAX"))
           d == I2("CMP", Reg("RCX"), Reg("RBX"))
           e(o) == I1(SetInstruction(o), Reg("AL"))
<1>1. \A o : CompareCode(o) = <<b, a, x, d, e(o)>> \o PushRAX /\ PushRAX = <<p>>
  BY DEF CompareCode, PushRAX
<1> HIDE DEF p, b, a, x, d, e
<1>2. \A o : <<b, a, x, d, e(o)>> \o <<p>> = <<b, a, x, d, e(o), p>>
  BY Join51
<1> QED BY <1>1, <1>2 DEF p, b, a, x, d, e

\* The code of get and set, line by line (main.py:275-291).
LEMMA TransferCodeIs ==
  /\ \A l : AddressCode(l) = <<I2("LEA", Reg("RAX"), Lab(l)), PUSH(Reg("RAX"))>>
  /\ ReadCode(8) = <<POP("RBX"), I2("MOV", Reg("RAX"), Ptr("RBX")), PUSH(Reg("RAX"))>>
  /\ \A n \in {1, 2, 4} : ReadCode(n) = <<POP("RBX"), I2("XOR", Reg("RAX"), Reg("RAX")),
                                          I2("MOV", Reg(SizedRAX(n)), Ptr("RBX")), PUSH(Reg("RAX"))>>
PROOF
<1> DEFINE p == PUSH(Reg("RAX"))
           b == POP("RBX")
           x == I2("XOR", Reg("RAX"), Reg("RAX"))
           e(l) == I2("LEA", Reg("RAX"), Lab(l))
           m(n) == I2("MOV", Reg(SizedRAX(n)), Ptr("RBX"))
<1>1. /\ PushRAX = <<p>>
      /\ \A l : AddressCode(l) = <<e(l)>> \o PushRAX
      /\ ReadCode(8) = (<<b>> \o <<>>) \o <<m(8)>> \o PushRAX
      /\ \A n \in {1, 2, 4} : ReadCode(n) = (<<b>> \o <<x>>) \o <<m(n)>> \o PushRAX
  BY DEF AddressCode, ReadCode, PushRAX
<1>2. SizedRAX(8) = "RAX"
  BY DEF SizedRAX
<1> HIDE DEF p, b, x, e, m
<1>3. \A l : AddressCode(l) = <<e(l), p>>
  BY <1>1, Join11
<1>4. ReadCode(8) = <<b, m(8), p>>
  BY <1>1, Join10, Join11, Join21
<1>5. \A n \in {1, 2, 4} : ReadCode(n) = <<b, x, m(n), p>>
  BY <1>1, Join11, Join21, Join31
<1> QED BY <1>2, <1>3, <1>4, <1>5, Zenon DEF p, b, x, e, m

-----------------------------------------------------------------------------
(***************************************************************************)
(* What the machine does with each line of the code of a word.             *)
(***************************************************************************)
Working == {"RAX", "RBX", "RCX", "RDX"}
Transferred == {"RAX", "EAX", "AX", "AL"}

\* A step that goes on with the next line.
Steps == /\ MachineStep /\ power' = "running" /\ ip \in DOMAIN text
         /\ regs \in [Regs -> Int]
GoesOn == ip' = ip + 1 /\ UNCHANGED <<text, symbols, trace, power>>

\* What a step of the machine says of the line it is at: one lemma for the
\* lines of each kind.
LEMMA LineSteps ==
  ASSUME Steps
  PROVE  /\ power = "running"
         /\ NoOp \/ Push \/ PopReg \/ Mov \/ Lea \/ Alu \/ Mul \/ Div \/ Cmp
            \/ SetByte \/ Jump \/ CallFunction \/ Ret \/ Leave \/ Syscall
PROOF
BY DEF Steps, MachineStep

LEMMA LocSteps ==
  ASSUME Steps, line.ins \in {"LABEL", "LOC", "LCOMM", "QUAD", "DATA"}
  PROVE  GoesOn /\ UNCHANGED <<stack, mem, regs, flags>>
PROOF
BY LineSteps DEF GoesOn, NoOp, Push, PopReg, Mov, Lea, Alu, Mul, Div, Cmp, SetByte, Jump,
   CallFunction, Ret, Leave, Syscall, Instr, Advance, Goto

LEMMA PushSteps ==
  ASSUME Steps, line.ins = "PUSH"
  PROVE  GoesOn /\ UNCHANGED <<mem, regs, flags>> /\ stack' = <<Fetch(line.d)>> \o stack
PROOF
BY LineSteps DEF Steps, GoesOn, NoOp, Push, PopReg, Mov, Lea, Alu, Mul, Div, Cmp, SetByte, Jump,
   CallFunction, Ret, Leave, Syscall, Instr, Advance, Goto, Stop

LEMMA PopSteps ==
  ASSUME Steps, line.ins = "POP"
  PROVE  /\ GoesOn /\ UNCHANGED <<mem, flags>> /\ stack # <<>> /\ stack' = Tail(stack)
         /\ regs' = WriteReg(line.d.v, Head(stack))
PROOF
BY LineSteps DEF Steps, GoesOn, NoOp, Push, PopReg, Mov, Lea, Alu, Mul, Div, Cmp, SetByte, Jump,
   CallFunction, Ret, Leave, Syscall, Instr, Advance, Goto, Stop

LEMMA MovSteps ==
  ASSUME Steps, line.ins = "MOV"
  PROVE  /\ GoesOn /\ UNCHANGED flags /\ Usable(line.d, Width) /\ Usable(line.s, Width)
         /\ regs' = IF line.d.k = "reg" THEN WriteReg(line.d.v, Fetch(line.s)) ELSE regs
         /\ mem' = IF line.d.k = "ptr"
                   THEN Store(mem, ReadReg(line.d.v), Fetch(line.s), Width) ELSE mem
         /\ stack' = IF line.d.k = "stk"
                     THEN [stack EXCEPT ![line.d.v \div 8 + 1] = Fetch(line.s)]
                     ELSE stack
PROOF
BY LineSteps DEF Steps, GoesOn, NoOp, Push, PopReg, Mov, Lea, Alu, Mul, Div, Cmp, SetByte, Jump,
   CallFunction, Ret, Leave, Syscall, Instr, Advance, Goto, Stop

LEMMA LeaSteps ==
  ASSUME Steps, line.ins = "LEA"
  PROVE  GoesOn /\ UNCHANGED <<stack, mem, flags>> /\ regs' = WriteReg(line.d.v, Fetch(line.s))
PROOF
BY LineSteps DEF Steps, GoesOn, NoOp, Push, PopReg, Mov, Lea, Alu, Mul, Div, Cmp, SetByte, Jump,
   CallFunction, Ret, Leave, Syscall, Instr, Advance, Goto, Stop

LEMMA AluSteps ==
  ASSUME Steps, line.ins \in {"ADD", "SUB", "AND", "OR", "XOR"}
  PROVE  Alu
PROOF
BY LineSteps DEF Steps, NoOp, Push, PopReg, Mov, Lea, Mul, Div, Cmp, SetByte, Jump,
   CallFunction, Ret, Leave, Syscall, Instr

LEMMA OtherSteps ==
  ASSUME Steps
  PROVE  /\ line.ins = "MUL" => Mul
         /\ line.ins = "DIV" => Div
         /\ line.ins = "CMP" => Cmp
         /\ line.ins \in {"SETE", "SETNE", "SETL", "SETG", "SETLE", "SETGE"} => SetByte
PROOF
BY LineSteps DEF Steps, NoOp, Push, PopReg, Mov, Lea, Alu, Mul, Div, Cmp, SetByte, Jump,
   CallFunction, Ret, Leave, Syscall, Instr

\* The registers that are not part of another.
LEMMA WholeRegisters ==
  ASSUME NEW r \in Working
  PROVE  /\ SizeOf(r) = 8 /\ Whole(r) = r /\ r \in Regs
         /\ ReadReg(r) = Wrap(regs[r])
         /\ \A v : WriteReg(r, v) = [regs EXCEPT ![r] = v]
PROOF
<1>1. SizeOf(r) = 8 /\ Whole(r) = r /\ r \in Regs /\ r # "RSP"
  BY DEF Working, SizeOf, Whole, Regs
<1>2. Values(8) = WordSize
  BY BytesAssumption DEF Bytes
<1>3. ReadReg(r) = Wrap(regs[r])
  BY <1>1, <1>2 DEF ReadReg, Wrap
<1>4. ASSUME NEW v PROVE WriteReg(r, v) = [regs EXCEPT ![r] = v]
  BY <1>1 DEF WriteReg, Working
<1> QED BY <1>1, <1>3, <1>4

\* AL, AX and EAX are parts of RAX.
LEMMA PartRegisters ==
  /\ SizeOf("AL") = 1 /\ SizeOf("AX") = 2 /\ SizeOf("EAX") = 4 /\ SizeOf("RAX") = 8
  /\ \A r \in Transferred : Whole(r) = "RAX"
  /\ \A r \in Transferred : ReadReg(r) = regs["RAX"] % Values(SizeOf(r))
PROOF
BY DEF Transferred, SizeOf, Whole, ReadReg

\* What is loaded fits the part of RAX; the rest of RAX is zero.
LEMMA PartWrites ==
  ASSUME NEW r \in Transferred, regs \in [Regs -> Int], r # "RAX" => regs["RAX"] = 0,
         NEW v \in Nat, v < Values(SizeOf(r)), v < WordSize
  PROVE  WriteReg(r, v) = [regs EXCEPT !["RAX"] = v]
PROOF
<1>1. Values(SizeOf(r)) \in Nat \ {0}
  <2>1. SizeOf(r) \in Nat
    BY DEF SizeOf
  <2>2. Values(SizeOf(r)) \in 1 .. WordSize
    BY <2>1, ValuesFacts
  <2> QED BY <2>2, WordSizeFacts
<1> DEFINE m == Values(SizeOf(r))
<1>0. m \in Nat \ {0} /\ v < m
  BY <1>1
<1> HIDE DEF m
<1>2. v % m = v /\ 0 % m = 0
  <2>1. v \in 0 .. m - 1 /\ 0 \in 0 .. m - 1 /\ v = m * 0 + v /\ 0 = m * 0 + 0
    BY <1>0
  <2> QED BY <1>0, <2>1, DivMod
<1>3. Whole(r) = "RAX" /\ "RAX" \in Regs
  BY DEF Transferred, Whole, Regs
<1>4. CASE r = "RAX"
  BY <1>4 DEF WriteReg, Whole
<1>5. CASE r = "EAX"
  <2>1. WriteReg(r, v) = [regs EXCEPT !["RAX"] = v % m]
    BY <1>3, <1>5 DEF WriteReg, m
  <2> QED BY <2>1, <1>2
<1>6. CASE r \in {"AL", "AX"}
  <2>1. WriteReg(r, v) = [regs EXCEPT !["RAX"] = (regs["RAX"] - (regs["RAX"] % m)) + (v % m)]
    BY <1>3, <1>6 DEF WriteReg, m
  <2>2. regs["RAX"] = 0
    BY <1>6
  <2>3. (0 - (0 % m)) + (v % m) = v
    BY <1>2
  <2> QED BY <2>1, <2>2, <2>3
<1> QED BY <1>4, <1>5, <1>6 DEF Transferred

-----------------------------------------------------------------------------
\* What a word changes in the machine as long as it is not done.
State(k, m, r, f) == [stack |-> k, mem |-> m, regs |-> r, flags |-> f]
Here == State(stack, mem, regs, flags)
Pushes(s, t, v) == t = State(<<v>> \o s.stack, s.mem, s.regs, s.flags)
Puts(s, t, r, v) == t = State(s.stack, s.mem, [s.regs EXCEPT ![r] = v], s.flags)
Truth(o, a, b) == CASE o = "=" -> a = b [] o = "!=" -> a # b [] o = "<" -> a < b
                    [] o = ">" -> a > b [] o = "<=" -> a <= b [] o = ">=" -> a >= b

\* A line l takes the machine from s to t.
RunsStack(l, s, t) ==
  /\ \A v : l = PUSH(Imm(v)) => Pushes(s, t, Wrap(v))
  /\ \A r \in Working : l = PUSH(Reg(r)) => Pushes(s, t, Wrap(s.regs[r]))
  /\ \A r \in Working : l = POP(r) =>
       s.stack # <<>> /\ t = State(Tail(s.stack), s.mem, [s.regs EXCEPT ![r] = Head(s.stack)], s.flags)
RunsMoves(l, s, t) ==
  /\ \A r \in Working : \A n \in Nat : l = I2("MOV", Reg(r), Stk(n * 8)) =>
       n < Len(s.stack) /\ Puts(s, t, r, s.stack[n + 1])
  /\ \A r \in Working : \A n \in Nat : l = I2("MOV", Stk(n * 8), Reg(r)) =>
       /\ n < Len(s.stack)
       /\ t = State([s.stack EXCEPT ![n + 1] = Wrap(s.regs[r])], s.mem, s.regs, s.flags)
  /\ l = I2("MOV", Reg("RAX"), Reg("RDX")) => Puts(s, t, "RAX", Wrap(s.regs["RDX"]))
RunsTransfers(table, l, s, t) ==
  /\ \A a : l = I2("LEA", Reg("RAX"), Lab(a)) => Puts(s, t, "RAX", table[a])
  /\ \A n \in Sizes : l = I2("MOV", Ptr("RBX"), Reg(SizedRAX(n))) =>
       /\ Mapped(s.mem, Wrap(s.regs["RBX"]), n)
       /\ t = State(s.stack, Store(s.mem, Wrap(s.regs["RBX"]), s.regs["RAX"] % Values(n), n), s.regs, s.flags)
  /\ \A n \in Sizes : l = I2("MOV", Reg(SizedRAX(n)), Ptr("RBX"))
                      /\ (n # 8 => s.regs["RAX"] = 0) /\ (\A a \in DOMAIN s.mem : s.mem[a] \in Byte) =>
       /\ Mapped(s.mem, Wrap(s.regs["RBX"]), n)
       /\ Puts(s, t, "RAX", Load(s.mem, Wrap(s.regs["RBX"]), n))
RunsSums(l, s, t) ==
  LET a == Wrap(s.regs["RAX"])  b == Wrap(s.regs["RBX"]) IN
  /\ \A r \in Working : l = I2("XOR", Reg(r), Reg(r)) => Puts(s, t, r, 0)
  /\ l = I2("ADD", Reg("RAX"), Reg("RBX")) => Puts(s, t, "RAX", Wrap(a + b))
  /\ l = I2("SUB", Reg("RAX"), Reg("RBX")) => Puts(s, t, "RAX", Wrap(a - b))
  /\ l = I2("AND", Reg("RAX"), Reg("RBX")) => Puts(s, t, "RAX", BitAnd(a, b))
  /\ l = I2("OR", Reg("RAX"), Reg("RBX")) => Puts(s, t, "RAX", BitOr(a, b))
RunsProducts(l, s, t) ==
  LET a == s.regs["RAX"]  b == Wrap(s.regs["RBX"]) IN
  /\ l = I1("MUL", Reg("RBX")) =>
       t = State(s.stack, s.mem, [s.regs EXCEPT !["RAX"] = Wrap(a * b), !["RDX"] = (a * b) \div WordSize], s.flags)
  /\ l = I1("DIV", Reg("RBX")) /\ s.regs["RDX"] = 0 =>
       /\ b # 0
       /\ t = State(s.stack, s.mem, [s.regs EXCEPT !["RAX"] = a \div b, !["RDX"] = a % b], s.flags)
RunsTests(l, s, t) ==
  /\ l = I2("CMP", Reg("RCX"), Reg("RBX")) =>
       t = State(s.stack, s.mem, s.regs, <<Wrap(s.regs["RCX"]), Wrap(s.regs["RBX"])>>)
  /\ \A o \in Comparisons : l = I1(SetInstruction(o), Reg("AL")) /\ s.regs["RAX"] = 0 =>
       Puts(s, t, "RAX", IF Truth(o, Signed(s.flags[1]), Signed(s.flags[2])) THEN 1 ELSE 0)
Runs(table, l, s, t) ==
  /\ \A n : l = Loc(n) => t = s
  /\ RunsStack(l, s, t) /\ RunsMoves(l, s, t) /\ RunsTransfers(table, l, s, t)
  /\ RunsSums(l, s, t) /\ RunsProducts(l, s, t) /\ RunsTests(l, s, t)

\* A step of the machine does to the stack, the memory and the registers what
\* Runs says of its line: one lemma for each kind of lines.
LEMMA StackRuns ==
  ASSUME Steps
  PROVE  RunsStack(line, Here, Here')
PROOF
<1>1. ASSUME NEW v, line = PUSH(Imm(v)) PROVE Pushes(Here, Here', Wrap(v))
  <2>1. line.ins = "PUSH" /\ Fetch(line.d) = Wrap(v)
    BY <1>1 DEF PUSH, I1, Imm, Fetch
  <2> QED BY <2>1, PushSteps DEF Pushes, Here, State
<1>2. ASSUME NEW r \in Working, line = PUSH(Reg(r)) PROVE Pushes(Here, Here', Wrap(Here.regs[r]))
  <2>1. line.ins = "PUSH" /\ Fetch(line.d) = ReadReg(r)
    BY <1>2 DEF PUSH, I1, Reg, Fetch
  <2> QED BY <2>1, PushSteps, WholeRegisters DEF Pushes, Here, State
<1>3. ASSUME NEW r \in Working, line = POP(r)
      PROVE  /\ Here.stack # <<>>
             /\ Here' = State(Tail(Here.stack), Here.mem, [Here.regs EXCEPT ![r] = Head(Here.stack)], Here.flags)
  <2>1. line.ins = "POP" /\ line.d.v = r
    BY <1>3 DEF POP, I1, Reg
  <2> QED BY <2>1, PopSteps, WholeRegisters DEF Here, State
<1> QED BY <1>1, <1>2, <1>3 DEF RunsStack

LEMMA MovesRun ==
  ASSUME Steps
  PROVE  RunsMoves(line, Here, Here')
PROOF
<1>0. \A n \in Nat : (n * 8) \div 8 = n
  OBVIOUS
<1>1. ASSUME NEW r \in Working, NEW n \in Nat, line = I2("MOV", Reg(r), Stk(n * 8))
      PROVE  n < Len(Here.stack) /\ Puts(Here, Here', r, Here.stack[n + 1])
  <2>1. /\ line.ins = "MOV" /\ line.d = Reg(r) /\ line.d.k = "reg" /\ line.d.v = r
        /\ line.s = Stk(n * 8) /\ line.s.k = "stk" /\ line.s.v = n * 8
    BY <1>1 DEF I2, Reg, Stk
  <2>2. Fetch(line.s) = stack[n + 1] /\ (Usable(line.s, Width) => n < Len(stack))
    BY <2>1, <1>0 DEF Fetch, Usable, StackTop
  <2> QED BY <2>1, <2>2, MovSteps, WholeRegisters DEF Puts, Here, State
<1>2. ASSUME NEW r \in Working, NEW n \in Nat, line = I2("MOV", Stk(n * 8), Reg(r))
      PROVE  /\ n < Len(Here.stack)
             /\ Here' = State([Here.stack EXCEPT ![n + 1] = Wrap(Here.regs[r])], Here.mem, Here.regs, Here.flags)
  <2>1. /\ line.ins = "MOV" /\ line.s = Reg(r) /\ line.s.k = "reg" /\ line.s.v = r
        /\ line.d = Stk(n * 8) /\ line.d.k = "stk" /\ line.d.v = n * 8
    BY <1>2 DEF I2, Reg, Stk
  <2>2. Fetch(line.s) = Wrap(regs[r]) /\ (Usable(line.d, Width) => n < Len(stack))
    BY <2>1, <1>0, WholeRegisters DEF Fetch, Usable
  <2>3. stack' = [stack EXCEPT ![n + 1] = Wrap(regs[r])] /\ mem' = mem /\ regs' = regs
    BY <2>1, <2>2, <1>0, MovSteps
  <2> QED BY <2>1, <2>2, <2>3, MovSteps DEF Here, State
<1>3. ASSUME line = I2("MOV", Reg("RAX"), Reg("RDX"))
      PROVE  Puts(Here, Here', "RAX", Wrap(Here.regs["RDX"]))
  <2>1. /\ line.ins = "MOV" /\ line.d.k = "reg" /\ line.d.v = "RAX"
        /\ line.s.k = "reg" /\ line.s.v = "RDX" /\ {"RAX", "RDX"} \subseteq Working
    BY <1>3 DEF I2, Reg, Working
  <2>2. Fetch(line.s) = Wrap(regs["RDX"])
    BY <2>1, WholeRegisters DEF Fetch
  <2> QED BY <2>1, <2>2, MovSteps, WholeRegisters DEF Puts, Here, State
<1> QED BY <1>1, <1>2, <1>3 DEF RunsMoves

LEMMA TransferRegisters ==
  ASSUME NEW n \in Sizes
  PROVE  /\ SizedRAX(n) \in Transferred /\ SizeOf(SizedRAX(n)) = n
         /\ SizedRAX(n) = "RAX" <=> n = 8
PROOF
BY DEF Sizes, SizedRAX, Transferred, SizeOf

LEMMA TransfersRun ==
  ASSUME Steps
  PROVE  RunsTransfers(symbols, line, Here, Here')
PROOF
<1>1. ASSUME NEW a, line = I2("LEA", Reg("RAX"), Lab(a))
      PROVE  Puts(Here, Here', "RAX", symbols[a])
  <2>1. /\ line.ins = "LEA" /\ line.d.v = "RAX" /\ line.s.k = "lab" /\ line.s.v = a
        /\ "RAX" \in Working
    BY <1>1 DEF I2, Reg, Lab, Working
  <2>2. Fetch(line.s) = symbols[a]
    BY <2>1 DEF Fetch
  <2> QED BY <2>1, <2>2, LeaSteps, WholeRegisters DEF Puts, Here, State
<1>2. ASSUME NEW n \in Sizes, line = I2("MOV", Ptr("RBX"), Reg(SizedRAX(n)))
      PROVE  /\ Mapped(Here.mem, Wrap(Here.regs["RBX"]), n)
             /\ Here' = State(Here.stack, Store(Here.mem, Wrap(Here.regs["RBX"]), Here.regs["RAX"] % Values(n), n),
                              Here.regs, Here.flags)
  <2>1. /\ line.ins = "MOV" /\ line.d.k = "ptr" /\ line.d.v = "RBX"
        /\ line.s.k = "reg" /\ line.s.v = SizedRAX(n) /\ "RBX" \in Working
    BY <1>2 DEF I2, Reg, Ptr, Working
  <2>2. Width = n
    BY <2>1, TransferRegisters DEF Width
  <2>3. Fetch(line.s) = regs["RAX"] % Values(n)
    BY <2>1, TransferRegisters, PartRegisters DEF Fetch
  <2>4. ReadReg("RBX") = Wrap(regs["RBX"])
    BY <2>1, WholeRegisters
  <2>5. Usable(line.d, n) => Mapped(mem, Wrap(regs["RBX"]), n)
    BY <2>1, <2>4 DEF Usable
  <2> QED BY <2>1, <2>2, <2>3, <2>4, <2>5, MovSteps DEF Here, State
<1>3. ASSUME NEW n \in Sizes, line = I2("MOV", Reg(SizedRAX(n)), Ptr("RBX")),
             n # 8 => Here.regs["RAX"] = 0, \A a \in DOMAIN Here.mem : Here.mem[a] \in Byte
      PROVE  /\ Mapped(Here.mem, Wrap(Here.regs["RBX"]), n)
             /\ Puts(Here, Here', "RAX", Load(Here.mem, Wrap(Here.regs["RBX"]), n))
  <2>1. /\ line.ins = "MOV" /\ line.d.k = "reg" /\ line.d.v = SizedRAX(n)
        /\ line.s.k = "ptr" /\ line.s.v = "RBX" /\ "RBX" \in Working
    BY <1>3 DEF I2, Reg, Ptr, Working
  <2>2. Width = n /\ SizeOf(line.d.v) = n
    BY <2>1, TransferRegisters DEF Width
  <2>3. ReadReg("RBX") = Wrap(regs["RBX"])
    BY <2>1, WholeRegisters
  <2>4. Fetch(line.s) = Load(mem, Wrap(regs["RBX"]), n)
    BY <2>1, <2>2, <2>3 DEF Fetch
  <2>5. Mapped(mem, Wrap(regs["RBX"]), n)
    BY <2>1, <2>2, <2>3, MovSteps DEF Usable
  <2> DEFINE v == Load(mem, Wrap(regs["RBX"]), n)
  <2>6. v \in MachineWord /\ v < Values(n)
    <3>1. \A i \in 0 .. n - 1 : mem[Wrap(regs["RBX"]) + i] \in Byte
      BY <1>3, <2>5 DEF Mapped, Here, State
    <3>2. n \in Nat
      BY DEF Sizes
    <3> QED BY <3>1, <3>2, LoadType
  <2>7. WriteReg(SizedRAX(n), v) = [regs EXCEPT !["RAX"] = v]
    <3>1. v \in Nat /\ v < WordSize
      BY <2>6, WordSizeFacts DEF MachineWord
    <3>2. SizedRAX(n) # "RAX" => regs["RAX"] = 0
      BY <1>3, TransferRegisters DEF Here, State
    <3>3. SizedRAX(n) \in Transferred /\ SizeOf(SizedRAX(n)) = n /\ regs \in [Regs -> Int]
      BY TransferRegisters DEF Steps
    <3> HIDE DEF v
    <3> QED BY <2>6, <3>1, <3>2, <3>3, PartWrites
  <2> QED BY <2>1, <2>4, <2>5, <2>7, MovSteps DEF Puts, Here, State
<1> QED BY <1>1, <1>2, <1>3, Zenon DEF RunsTransfers

LEMMA SumsRun ==
  ASSUME Steps
  PROVE  RunsSums(line, Here, Here')
PROOF
<1> DEFINE a == Wrap(Here.regs["RAX"])
           b == Wrap(Here.regs["RBX"])
<1>1. ASSUME NEW r \in Working, line = I2("XOR", Reg(r), Reg(r)) PROVE Puts(Here, Here', r, 0)
  <2>1. line.ins = "XOR" /\ line.d.v = r /\ r # "RSP"
    BY <1>1 DEF I2, Reg, Working
  <2> QED BY <2>1, AluSteps, WholeRegisters, LineSteps DEF Alu, Instr, Puts, Here, State
<1>2. ASSUME NEW o \in {"ADD", "SUB", "AND", "OR"}, line = I2(o, Reg("RAX"), Reg("RBX"))
      PROVE  /\ line.ins = o /\ Fetch(line.d) = a /\ Fetch(line.s) = b /\ line.d.v = "RAX" /\ Alu
             /\ \A v : WriteReg("RAX", v) = [regs EXCEPT !["RAX"] = v]
  <2>1. /\ line.ins = o /\ line.d.k = "reg" /\ line.d.v = "RAX" /\ line.s.k = "reg"
        /\ line.s.v = "RBX" /\ {"RAX", "RBX"} \subseteq Working
    BY <1>2 DEF I2, Reg, Working
  <2> QED BY <2>1, AluSteps, WholeRegisters DEF Fetch, Here, State
<1>3. line = I2("ADD", Reg("RAX"), Reg("RBX")) => Puts(Here, Here', "RAX", Wrap(a + b))
  BY <1>2 DEF Alu, Instr, Puts, Here, State
<1>4. line = I2("SUB", Reg("RAX"), Reg("RBX")) => Puts(Here, Here', "RAX", Wrap(a - b))
  BY <1>2 DEF Alu, Instr, Puts, Here, State
<1>5. line = I2("AND", Reg("RAX"), Reg("RBX")) => Puts(Here, Here', "RAX", BitAnd(a, b))
  BY <1>2 DEF Alu, Instr, Puts, Here, State
<1>6. line = I2("OR", Reg("RAX"), Reg("RBX")) => Puts(Here, Here', "RAX", BitOr(a, b))
  BY <1>2 DEF Alu, Instr, Puts, Here, State
<1> QED BY <1>1, <1>3, <1>4, <1>5, <1>6 DEF RunsSums

LEMMA ProductsRun ==
  ASSUME Steps
  PROVE  RunsProducts(line, Here, Here')
PROOF
<1> DEFINE a == Here.regs["RAX"]
           b == Wrap(Here.regs["RBX"])
<1>0. "RBX" \in Working /\ {"RAX", "RDX"} \subseteq Regs /\ regs \in [Regs -> Int]
  BY DEF Working, Regs, Steps
<1>1. ASSUME NEW o \in {"MUL", "DIV"}, line = I1(o, Reg("RBX"))
      PROVE  line.ins = o /\ Fetch(line.d) = b
  <2>1. line.ins = o /\ line.d.k = "reg" /\ line.d.v = "RBX"
    BY <1>1 DEF I1, Reg
  <2> QED BY <1>0, <2>1, WholeRegisters DEF Fetch, Here, State
<1>2. ASSUME line = I1("MUL", Reg("RBX"))
      PROVE  Here' = State(Here.stack, Here.mem,
                       [Here.regs EXCEPT !["RAX"] = Wrap(a * b), !["RDX"] = (a * b) \div WordSize], Here.flags)
  BY <1>1, <1>2, OtherSteps DEF Mul, Here, State
<1>3. ASSUME line = I1("DIV", Reg("RBX")), Here.regs["RDX"] = 0
      PROVE  /\ b # 0
             /\ Here' = State(Here.stack, Here.mem,
                          [Here.regs EXCEPT !["RAX"] = a \div b, !["RDX"] = a % b], Here.flags)
  <2>1. regs["RDX"] * WordSize + regs["RAX"] = a
    BY <1>0, <1>3, WordSizeFacts DEF Here, State
  <2>2. Div /\ Fetch(line.d) = b
    BY <1>1, <1>3, OtherSteps
  <2>3. power' = "running"
    BY DEF Steps
  <2> QED BY <2>1, <2>2, <2>3, LineSteps DEF Div, Stop, Here, State
<1> QED BY <1>2, <1>3 DEF RunsProducts

LEMMA TestsRun ==
  ASSUME Steps
  PROVE  RunsTests(line, Here, Here')
PROOF
<1>1. ASSUME line = I2("CMP", Reg("RCX"), Reg("RBX"))
      PROVE  Here' = State(Here.stack, Here.mem, Here.regs, <<Wrap(Here.regs["RCX"]), Wrap(Here.regs["RBX"])>>)
  <2>1. /\ line.ins = "CMP" /\ line.d.k = "reg" /\ line.d.v = "RCX" /\ line.s.k = "reg"
        /\ line.s.v = "RBX" /\ {"RCX", "RBX"} \subseteq Working
    BY <1>1 DEF I2, Reg, Working
  <2>2. Fetch(line.d) = Wrap(regs["RCX"]) /\ Fetch(line.s) = Wrap(regs["RBX"])
    BY <2>1, WholeRegisters DEF Fetch
  <2> QED BY <2>1, <2>2, OtherSteps DEF Cmp, Here, State
<1>2. ASSUME NEW o \in Comparisons, line = I1(SetInstruction(o), Reg("AL")), Here.regs["RAX"] = 0
      PROVE  Puts(Here, Here', "RAX", IF Truth(o, Signed(Here.flags[1]), Signed(Here.flags[2])) THEN 1 ELSE 0)
  <2>1. /\ line.ins = SetInstruction(o) /\ line.d.v = "AL"
        /\ line.ins \in {"SETE", "SETNE", "SETL", "SETG", "SETLE", "SETGE"}
    BY <1>2 DEF I1, Reg, SetInstruction, Comparisons
  <2>2. Condition(line.ins) <=> Truth(o, Signed(flags[1]), Signed(flags[2]))
    BY <2>1 DEF Condition, Truth, SetInstruction, Comparisons
  <2> DEFINE v == IF Condition(line.ins) THEN 1 ELSE 0
  <2>3. WriteReg("AL", v) = [regs EXCEPT !["RAX"] = v]
    <3>1. Values(1) >= 2 /\ Values(1) \in Nat
      <4>1. Values(0) = 1 /\ Values(0 + 1) = Capped(Values(0))
        BY ValuesFacts
      <4> QED BY <4>1, WordSizeFacts, NumbersAssumption DEF Capped
    <3>2. v \in Nat /\ v < 2
      OBVIOUS
    <3>3. "AL" \in Transferred /\ SizeOf("AL") = 1 /\ regs["RAX"] = 0 /\ regs \in [Regs -> Int]
      BY <1>2 DEF Transferred, SizeOf, Steps, Here, State
    <3> HIDE DEF v
    <3> QED BY <3>1, <3>2, <3>3, WordSizeFacts, PartWrites
  <2>4. SetByte
    BY <2>1, OtherSteps
  <2> QED BY <2>1, <2>2, <2>3, <2>4 DEF SetByte, Puts, Here, State
<1> QED BY <1>1, <1>2 DEF RunsTests

LEMMA StepRuns ==
  ASSUME Steps
  PROVE  Runs(symbols, line, Here, Here')
PROOF
<1>1. ASSUME NEW n, line = Loc(n) PROVE Here' = Here
  <2>1. line.ins = "LOC"
    BY <1>1 DEF Loc
  <2> QED BY <2>1, LocSteps DEF Here, State
<1> QED BY <1>1, StackRuns, MovesRun, TransfersRun, SumsRun, ProductsRun, TestsRun DEF Runs

-----------------------------------------------------------------------------
(***************************************************************************)
(* What the code of each word does.                                        *)
(***************************************************************************)
Good(s) == /\ s.stack \in Seq(MachineWord) /\ s.regs \in [Regs -> Int]
           /\ \A a \in DOMAIN s.mem : s.mem[a] \in Byte

\* What the lines that several words have in their code do.
LEMMA RunForms ==
  ASSUME NEW table, NEW s, NEW t
  PROVE  /\ \A r \in Working : Runs(table, PUSH(Reg(r)), s, t) => Pushes(s, t, Wrap(s.regs[r]))
         /\ \A v : Runs(table, PUSH(Imm(v)), s, t) => Pushes(s, t, Wrap(v))
         /\ \A r \in Working : Runs(table, POP(r), s, t) =>
              /\ s.stack # <<>>
              /\ t = State(Tail(s.stack), s.mem, [s.regs EXCEPT ![r] = Head(s.stack)], s.flags)
         /\ \A a : Runs(table, I2("LEA", Reg("RAX"), Lab(a)), s, t) => Puts(s, t, "RAX", table[a])
         /\ Runs(table, I2("MOV", Reg("RAX"), Reg("RDX")), s, t) => Puts(s, t, "RAX", Wrap(s.regs["RDX"]))
         /\ \A r \in Working : Runs(table, I2("XOR", Reg(r), Reg(r)), s, t) => Puts(s, t, r, 0)
PROOF
<1>1. \A r \in Working : Runs(table, PUSH(Reg(r)), s, t) => Pushes(s, t, Wrap(s.regs[r]))
  BY DEF Runs, RunsStack
<1>2. \A v : Runs(table, PUSH(Imm(v)), s, t) => Pushes(s, t, Wrap(v))
  BY DEF Runs, RunsStack
<1>3. \A r \in Working : Runs(table, POP(r), s, t) =>
        /\ s.stack # <<>>
        /\ t = State(Tail(s.stack), s.mem, [s.regs EXCEPT ![r] = Head(s.stack)], s.flags)
  BY DEF Runs, RunsStack
<1>4. \A a : Runs(table, I2("LEA", Reg("RAX"), Lab(a)), s, t) => Puts(s, t, "RAX", table[a])
  BY DEF Runs, RunsTransfers
<1>5. Runs(table, I2("MOV", Reg("RAX"), Reg("RDX")), s, t) => Puts(s, t, "RAX", Wrap(s.regs["RDX"]))
  BY DEF Runs, RunsMoves
<1>6. \A r \in Working : Runs(table, I2("XOR", Reg(r), Reg(r)), s, t) => Puts(s, t, r, 0)
  BY DEF Runs, RunsSums
<1> QED BY <1>1, <1>2, <1>3, <1>4, <1>5, <1>6

LEMMA TwoOff ==
  ASSUME NEW S, NEW s \in Seq(S), s # <<>>, Tail(s) # <<>>
  PROVE  /\ Len(s) >= 2 /\ Head(s) = s[1] /\ Head(Tail(s)) = s[2] /\ s[1] \in S /\ s[2] \in S
         /\ Tail(Tail(s)) = SubSeq(s, 3, Len(s)) /\ SubSeq(s, 3, Len(s)) \in Seq(S)
PROOF
OBVIOUS

LEMMA OneOff ==
  ASSUME NEW S, NEW s \in Seq(S), s # <<>>
  PROVE  /\ Len(s) >= 1 /\ Head(s) = s[1] /\ s[1] \in S
         /\ Tail(s) = SubSeq(s, 2, Len(s)) /\ Tail(s) \in Seq(S)
PROOF
OBVIOUS

Taken(s, t, q, r) ==
  /\ Len(s.stack) >= 2 /\ s.stack[1] \in MachineWord /\ s.stack[2] \in MachineWord
  /\ t = State(SubSeq(s.stack, 3, Len(s.stack)), s.mem,
               [s.regs EXCEPT ![q] = s.stack[1], ![r] = s.stack[2]], s.flags)
  /\ Good(t)

\* Two POPs take the two upper words (main.py:332-341).
LEMMA TwoPops ==
  ASSUME NEW table, NEW s, NEW u, NEW t, NEW q \in Working, NEW r \in Working, q # r, Good(s),
         Runs(table, POP(q), s, u), Runs(table, POP(r), u, t)
  PROVE  Taken(s, t, q, r)
PROOF
<1>1. s.stack # <<>> /\ u = State(Tail(s.stack), s.mem, [s.regs EXCEPT ![q] = Head(s.stack)], s.flags)
  BY RunForms
<1>2. u.stack # <<>> /\ t = State(Tail(u.stack), u.mem, [u.regs EXCEPT ![r] = Head(u.stack)], u.flags)
  BY RunForms
<1>3. s.stack \in Seq(MachineWord) /\ s.regs \in [Regs -> Int] /\ q \in Regs /\ r \in Regs
  BY DEF Good, Working, Regs
<1>4. /\ u.stack = Tail(s.stack) /\ u.mem = s.mem /\ u.flags = s.flags
      /\ u.regs = [s.regs EXCEPT ![q] = Head(s.stack)]
  BY <1>1 DEF State
<1>5. /\ Len(s.stack) >= 2 /\ Head(s.stack) = s.stack[1] /\ Head(Tail(s.stack)) = s.stack[2]
      /\ s.stack[1] \in MachineWord /\ s.stack[2] \in MachineWord
      /\ Tail(Tail(s.stack)) = SubSeq(s.stack, 3, Len(s.stack))
      /\ SubSeq(s.stack, 3, Len(s.stack)) \in Seq(MachineWord)
  BY <1>1, <1>2, <1>3, <1>4, TwoOff
<1>6. t = State(SubSeq(s.stack, 3, Len(s.stack)), s.mem,
                [s.regs EXCEPT ![q] = s.stack[1], ![r] = s.stack[2]], s.flags)
  <2>1. [u.regs EXCEPT ![r] = Head(u.stack)] = [s.regs EXCEPT ![q] = s.stack[1], ![r] = s.stack[2]]
    BY <1>3, <1>4, <1>5
  <2> QED BY <1>2, <1>4, <1>5, <2>1
<1>7. /\ t.stack = SubSeq(s.stack, 3, Len(s.stack)) /\ t.mem = s.mem
      /\ t.regs = [s.regs EXCEPT ![q] = s.stack[1], ![r] = s.stack[2]]
  BY <1>6 DEF State
<1>8. t.regs \in [Regs -> Int]
  <2>1. s.stack[1] \in Int /\ s.stack[2] \in Int
    BY <1>5, WordIsWrapped
  <2> QED BY <1>3, <1>7, <2>1
<1>9. Good(t)
  BY <1>5, <1>7, <1>8 DEF Good
<1> QED BY <1>5, <1>6, <1>9 DEF Taken

\* The word is done: the stack is k, and nothing else is left of it.
Leaves(s, t, k) == t.stack = k /\ t.mem = s.mem /\ t.regs["R12"] = s.regs["R12"]

\* The last line of most words: a register goes onto the stack.
LEMMA PushLeaves ==
  ASSUME NEW table, NEW s, NEW u, NEW t, NEW r \in Working, NEW v \in MachineWord, NEW k,
         Runs(table, PUSH(Reg(r)), u, t), Leaves(s, u, k), u.regs[r] = v
  PROVE  Leaves(s, t, <<v>> \o k)
PROOF
<1>1. t = State(<<Wrap(u.regs[r])>> \o u.stack, u.mem, u.regs, u.flags)
  <2>1. Pushes(u, t, Wrap(u.regs[r]))
    BY RunForms, Zenon
  <2> QED BY <2>1 DEF Pushes
<1>2. Wrap(v) = v
  BY WordIsWrapped
<1> QED BY <1>1, <1>2 DEF Leaves, State

\* +, -, & and | (main.py:125-140).
LEMMA SumDoes ==
  ASSUME NEW table, NEW s0, NEW s1, NEW s2, NEW s3, NEW s4, Good(s0),
         NEW o \in {"ADD", "SUB", "AND", "OR"},
         Runs(table, POP("RBX"), s0, s1), Runs(table, POP("RAX"), s1, s2),
         Runs(table, I2(o, Reg("RAX"), Reg("RBX")), s2, s3), Runs(table, PUSH(Reg("RAX")), s3, s4)
  PROVE  LET a == s0.stack[2]  b == s0.stack[1]
             v == CASE o = "ADD" -> Wrap(a + b) [] o = "SUB" -> Wrap(a - b)
                    [] o = "AND" -> BitAnd(a, b) [] o = "OR" -> BitOr(a, b)
         IN /\ Len(s0.stack) >= 2 /\ a \in MachineWord /\ b \in MachineWord
            /\ Leaves(s0, s4, <<v>> \o SubSeq(s0.stack, 3, Len(s0.stack)))
PROOF
<1> DEFINE a == s0.stack[2]
           b == s0.stack[1]
           k == SubSeq(s0.stack, 3, Len(s0.stack))
           v == CASE o = "ADD" -> Wrap(a + b) [] o = "SUB" -> Wrap(a - b)
                  [] o = "AND" -> BitAnd(a, b) [] o = "OR" -> BitOr(a, b)
<1>1. /\ "RAX" \in Working /\ "RBX" \in Working /\ "RBX" # "RAX"
      /\ {"RAX", "RBX", "R12"} \subseteq Regs /\ s0.regs \in [Regs -> Int]
  BY DEF Working, Regs, Good
<1>2. /\ Len(s0.stack) >= 2 /\ b \in MachineWord /\ a \in MachineWord
      /\ s2 = State(k, s0.mem, [s0.regs EXCEPT !["RBX"] = b, !["RAX"] = a], s0.flags)
  <2>1. Taken(s0, s2, "RBX", "RAX")
    BY <1>1, TwoPops
  <2> QED BY <2>1 DEF Taken
<1>3. /\ s2.regs["RAX"] = a /\ s2.regs["RBX"] = b /\ s2.regs["R12"] = s0.regs["R12"]
      /\ s2.stack = k /\ s2.mem = s0.mem /\ s2.regs \in [Regs -> Int]
  <2>1. a \in Int /\ b \in Int
    BY <1>2, WordIsWrapped
  <2> QED BY <1>1, <1>2, <2>1 DEF State
<1>4. Wrap(a) = a /\ Wrap(b) = b /\ a \in Int /\ b \in Int
  BY <1>2, WordIsWrapped
<1>5. Puts(s2, s3, "RAX", v)
  BY <1>3, <1>4 DEF Runs, RunsSums
<1>6. v \in MachineWord
  <2>1. a + b \in Int /\ a - b \in Int
    BY <1>4
  <2> QED BY <1>4, <2>1, WrapType, BitwiseType
<1> HIDE DEF v
<1>7. Leaves(s0, s3, k) /\ s3.regs["RAX"] = v
  BY <1>1, <1>3, <1>5 DEF Puts, State, Leaves
<1>8. Leaves(s0, s4, <<v>> \o k)
  BY <1>1, <1>6, <1>7, PushLeaves
<1> QED BY <1>2, <1>8 DEF v

\* * (main.py:142-144).
LEMMA ProductDoes ==
  ASSUME NEW table, NEW s0, NEW s1, NEW s2, NEW s3, NEW s4, Good(s0),
         Runs(table, POP("RBX"), s0, s1), Runs(table, POP("RAX"), s1, s2),
         Runs(table, I1("MUL", Reg("RBX")), s2, s3), Runs(table, PUSH(Reg("RAX")), s3, s4)
  PROVE  LET a == s0.stack[2]  b == s0.stack[1]
         IN /\ Len(s0.stack) >= 2 /\ a \in MachineWord /\ b \in MachineWord
            /\ Leaves(s0, s4, <<Wrap(a * b)>> \o SubSeq(s0.stack, 3, Len(s0.stack)))
PROOF
<1> DEFINE a == s0.stack[2]
           b == s0.stack[1]
           k == SubSeq(s0.stack, 3, Len(s0.stack))
           v == Wrap(a * b)
<1>1. /\ "RAX" \in Working /\ "RBX" \in Working /\ "RBX" # "RAX"
      /\ {"RAX", "RBX", "RDX", "R12"} \subseteq Regs /\ s0.regs \in [Regs -> Int]
  BY DEF Working, Regs, Good
<1>2. /\ Len(s0.stack) >= 2 /\ b \in MachineWord /\ a \in MachineWord
      /\ s2 = State(k, s0.mem, [s0.regs EXCEPT !["RBX"] = b, !["RAX"] = a], s0.flags)
  <2>1. Taken(s0, s2, "RBX", "RAX")
    BY <1>1, TwoPops
  <2> QED BY <2>1 DEF Taken
<1>4. Wrap(a) = a /\ Wrap(b) = b /\ a \in Int /\ b \in Int
  BY <1>2, WordIsWrapped
<1>3. /\ s2.regs["RAX"] = a /\ s2.regs["RBX"] = b /\ s2.regs["R12"] = s0.regs["R12"]
      /\ s2.stack = k /\ s2.mem = s0.mem /\ s2.regs \in [Regs -> Int]
  BY <1>1, <1>2, <1>4 DEF State
<1>5. s3 = State(k, s0.mem, [s2.regs EXCEPT !["RAX"] = v, !["RDX"] = (a * b) \div WordSize], s2.flags)
  BY <1>3, <1>4 DEF Runs, RunsProducts
<1>6. v \in MachineWord
  <2>1. a * b \in Int
    BY <1>4
  <2> QED BY <2>1, WrapType
<1> HIDE DEF v
<1>7. Leaves(s0, s3, k) /\ s3.regs["RAX"] = v
  BY <1>1, <1>3, <1>5 DEF State, Leaves
<1>8. Leaves(s0, s4, <<v>> \o k)
  BY <1>1, <1>6, <1>7, PushLeaves
<1> QED BY <1>2, <1>8 DEF v

\* After DIV the quotient is in RAX and the remainder in RDX.
Divided(s, t) ==
  LET a == s.stack[2]  b == s.stack[1] IN
  /\ Len(s.stack) >= 2 /\ a \in MachineWord /\ b \in MachineWord /\ b # 0
  /\ Leaves(s, t, SubSeq(s.stack, 3, Len(s.stack)))
  /\ t.regs \in [Regs -> Int] /\ t.regs["RAX"] = a \div b /\ t.regs["RDX"] = a % b
  /\ a \div b \in MachineWord /\ a % b \in MachineWord

LEMMA WordsDivide ==
  ASSUME NEW a \in MachineWord, NEW b \in MachineWord, b # 0
  PROVE  a \div b \in MachineWord /\ a % b \in MachineWord
PROOF
<1>1. a \in Nat /\ b \in Nat \ {0} /\ a < WordSize /\ b < WordSize /\ WordSize \in Nat
  BY WordSizeFacts DEF MachineWord
<1>2. a = b * (a \div b) + (a % b) /\ a % b \in 0 .. b - 1 /\ a \div b \in Int
  BY <1>1, DivModIs
<1> DEFINE q == a \div b
           r == a % b
<1>3. q \in Int /\ r \in 0 .. b - 1 /\ a = b * q + r
  BY <1>2
<1> HIDE DEF q, r
<1>4. q >= 0
  BY <1>1, <1>3
<1>5. q <= b * q
  BY <1>1, <1>3, <1>4
<1>6. q <= a
  BY <1>1, <1>3, <1>5
<1> QED BY <1>1, <1>3, <1>4, <1>6 DEF MachineWord, q, r

\* DIV of a number by one that is not zero, both of which are not negative.
LEMMA DivideDoes ==
  ASSUME NEW table, NEW s0, NEW s1, NEW s2, NEW s3, NEW s4, Good(s0),
         Runs(table, POP("RBX"), s0, s1), Runs(table, POP("RAX"), s1, s2),
         Runs(table, I2("XOR", Reg("RDX"), Reg("RDX")), s2, s3),
         Runs(table, I1("DIV", Reg("RBX")), s3, s4)
  PROVE  Divided(s0, s4)
PROOF
<1> DEFINE a == s0.stack[2]
           b == s0.stack[1]
           k == SubSeq(s0.stack, 3, Len(s0.stack))
<1>1. /\ "RAX" \in Working /\ "RBX" \in Working /\ "RBX" # "RAX" /\ "RDX" \in Working
      /\ {"RAX", "RBX", "RDX", "R12"} \subseteq Regs /\ s0.regs \in [Regs -> Int]
  BY DEF Working, Regs, Good
<1>2. /\ Len(s0.stack) >= 2 /\ b \in MachineWord /\ a \in MachineWord
      /\ s2 = State(k, s0.mem, [s0.regs EXCEPT !["RBX"] = b, !["RAX"] = a], s0.flags)
  <2>1. Taken(s0, s2, "RBX", "RAX")
    BY <1>1, TwoPops
  <2> QED BY <2>1 DEF Taken
<1>4. Wrap(a) = a /\ Wrap(b) = b /\ a \in Int /\ b \in Int
  BY <1>2, WordIsWrapped
<1>3. s3 = State(k, s0.mem, [s2.regs EXCEPT !["RDX"] = 0], s0.flags)
  <2>1. Puts(s2, s3, "RDX", 0)
    BY <1>1, RunForms, Zenon
  <2> QED BY <1>2, <2>1 DEF Puts, State
<1>5. /\ s3.regs["RAX"] = a /\ s3.regs["RBX"] = b /\ s3.regs["R12"] = s0.regs["R12"]
      /\ s3.regs["RDX"] = 0 /\ s3.stack = k /\ s3.mem = s0.mem /\ s3.regs \in [Regs -> Int]
  <2>1. /\ s2.regs["RAX"] = a /\ s2.regs["RBX"] = b /\ s2.regs["R12"] = s0.regs["R12"]
        /\ s2.regs \in [Regs -> Int]
    BY <1>1, <1>2, <1>4 DEF State
  <2>2. s3.regs = [s2.regs EXCEPT !["RDX"] = 0] /\ s3.stack = k /\ s3.mem = s0.mem
    BY <1>3 DEF State
  <2> QED BY <1>1, <2>1, <2>2
<1>6. /\ b # 0
      /\ s4 = State(k, s0.mem, [s3.regs EXCEPT !["RAX"] = a \div b, !["RDX"] = a % b], s3.flags)
  BY <1>4, <1>5 DEF Runs, RunsProducts
<1>7. a \div b \in MachineWord /\ a % b \in MachineWord
  BY <1>2, <1>6, WordsDivide
<1>8. a \div b \in Int /\ a % b \in Int
  BY <1>7, WordIsWrapped
<1>9. /\ Leaves(s0, s4, k) /\ s4.regs \in [Regs -> Int]
      /\ s4.regs["RAX"] = a \div b /\ s4.regs["RDX"] = a % b
  BY <1>1, <1>5, <1>6, <1>8 DEF State, Leaves
<1> QED BY <1>2, <1>6, <1>7, <1>9 DEF Divided

\* / (main.py:146-149).
LEMMA QuotientDoes ==
  ASSUME NEW table, NEW s, NEW t, NEW u, Divided(s, t), Runs(table, PUSH(Reg("RAX")), t, u)
  PROVE  LET a == s.stack[2]  b == s.stack[1]
         IN Leaves(s, u, <<a \div b>> \o SubSeq(s.stack, 3, Len(s.stack))) /\ u.regs["RDX"] = a % b
PROOF
<1> DEFINE q == s.stack[2] \div s.stack[1]
<1>1. /\ Leaves(s, t, SubSeq(s.stack, 3, Len(s.stack))) /\ t.regs["RAX"] = q
      /\ q \in MachineWord /\ "RAX" \in Working /\ t.regs["RDX"] = s.stack[2] % s.stack[1]
  BY DEF Divided, Working
<1> HIDE DEF q
<1>2. Leaves(s, u, <<q>> \o SubSeq(s.stack, 3, Len(s.stack)))
  BY <1>1, PushLeaves
<1>3. u.regs = t.regs
  <2>1. Pushes(t, u, Wrap(t.regs["RAX"]))
    BY <1>1, RunForms, Zenon
  <2> QED BY <2>1 DEF Pushes, State
<1> QED BY <1>1, <1>2, <1>3 DEF q

\* % (main.py:151-155).
LEMMA RemainderDoes ==
  ASSUME NEW table, NEW s, NEW t, NEW u, NEW x, Divided(s, t),
         Runs(table, I2("MOV", Reg("RAX"), Reg("RDX")), t, u), Runs(table, PUSH(Reg("RAX")), u, x)
  PROVE  LET a == s.stack[2]  b == s.stack[1]
         IN Leaves(s, x, <<a % b>> \o SubSeq(s.stack, 3, Len(s.stack)))
PROOF
<1> DEFINE r == s.stack[2] % s.stack[1]
           k == SubSeq(s.stack, 3, Len(s.stack))
<1>1. /\ Leaves(s, t, k) /\ t.regs["RDX"] = r /\ t.regs \in [Regs -> Int]
      /\ r \in MachineWord /\ "RAX" \in Working /\ {"RAX", "R12"} \subseteq Regs
  BY DEF Divided, Working, Regs
<1> HIDE DEF r, k
<1>2. Wrap(r) = r
  BY <1>1, WordIsWrapped
<1>3. Puts(t, u, "RAX", r)
  BY <1>1, <1>2, RunForms
<1>4. Leaves(s, u, k) /\ u.regs["RAX"] = r
  BY <1>1, <1>3 DEF Puts, State, Leaves
<1>5. Leaves(s, x, <<r>> \o k)
  BY <1>1, <1>4, PushLeaves
<1> QED BY <1>5 DEF r, k

\* divmod leaves the quotient and the remainder (main.py:157-162).
LEMMA BothDo ==
  ASSUME NEW table, NEW s, NEW t, NEW u, NEW x, Divided(s, t),
         Runs(table, PUSH(Reg("RAX")), t, u), Runs(table, PUSH(Reg("RDX")), u, x)
  PROVE  LET a == s.stack[2]  b == s.stack[1]
         IN Leaves(s, x, <<a % b>> \o (<<a \div b>> \o SubSeq(s.stack, 3, Len(s.stack))))
PROOF
<1> DEFINE r == s.stack[2] % s.stack[1]
           k == <<s.stack[2] \div s.stack[1]>> \o SubSeq(s.stack, 3, Len(s.stack))
<1>1. Leaves(s, u, k) /\ u.regs["RDX"] = r
  BY QuotientDoes
<1>2. r \in MachineWord /\ "RDX" \in Working
  BY DEF Divided, Working
<1> HIDE DEF r, k
<1>3. Leaves(s, x, <<r>> \o k)
  BY <1>1, <1>2, PushLeaves
<1> QED BY <1>3 DEF r, k

\* A comparison leaves 1 or 0 (main.py:164-193).
LEMMA CompareDoes ==
  ASSUME NEW table, NEW s0, NEW s1, NEW s2, NEW s3, NEW s4, NEW s5, NEW s6, Good(s0),
         NEW o \in Comparisons,
         Runs(table, POP("RBX"), s0, s1), Runs(table, POP("RCX"), s1, s2),
         Runs(table, I2("XOR", Reg("RAX"), Reg("RAX")), s2, s3),
         Runs(table, I2("CMP", Reg("RCX"), Reg("RBX")), s3, s4),
         Runs(table, I1(SetInstruction(o), Reg("AL")), s4, s5),
         Runs(table, PUSH(Reg("RAX")), s5, s6)
  PROVE  LET v == IF Truth(o, Signed(s0.stack[2]), Signed(s0.stack[1])) THEN 1 ELSE 0
         IN Len(s0.stack) >= 2 /\ Leaves(s0, s6, <<v>> \o SubSeq(s0.stack, 3, Len(s0.stack)))
PROOF
<1> DEFINE a == s0.stack[2]
           b == s0.stack[1]
           k == SubSeq(s0.stack, 3, Len(s0.stack))
           v == IF Truth(o, Signed(a), Signed(b)) THEN 1 ELSE 0
<1>1. /\ "RCX" \in Working /\ "RBX" \in Working /\ "RBX" # "RCX" /\ "RAX" \in Working
      /\ {"RAX", "RBX", "RCX", "R12"} \subseteq Regs /\ s0.regs \in [Regs -> Int]
  BY DEF Working, Regs, Good
<1>2. /\ Len(s0.stack) >= 2 /\ b \in MachineWord /\ a \in MachineWord
      /\ s2 = State(k, s0.mem, [s0.regs EXCEPT !["RBX"] = b, !["RCX"] = a], s0.flags)
  <2>1. Taken(s0, s2, "RBX", "RCX")
    BY <1>1, TwoPops
  <2> QED BY <2>1 DEF Taken
<1>3. Wrap(a) = a /\ Wrap(b) = b /\ a \in Int /\ b \in Int
  BY <1>2, WordIsWrapped
<1>4. /\ s3.regs["RAX"] = 0 /\ s3.regs["RBX"] = b /\ s3.regs["RCX"] = a
      /\ s3.regs["R12"] = s0.regs["R12"]
      /\ s3.stack = k /\ s3.mem = s0.mem /\ s3.regs \in [Regs -> Int]
  <2>1. /\ s2.regs["RCX"] = a /\ s2.regs["RBX"] = b /\ s2.regs["R12"] = s0.regs["R12"]
        /\ s2.stack = k /\ s2.mem = s0.mem /\ s2.regs \in [Regs -> Int]
    BY <1>1, <1>2, <1>3 DEF State
  <2>2. Puts(s2, s3, "RAX", 0)
    BY <1>1, RunForms, Zenon
  <2>3. s3.regs = [s2.regs EXCEPT !["RAX"] = 0] /\ s3.stack = k /\ s3.mem = s0.mem
    BY <2>1, <2>2 DEF Puts, State
  <2> QED BY <1>1, <2>1, <2>3
<1>5. s4 = State(s3.stack, s3.mem, s3.regs, <<a, b>>)
  BY <1>3, <1>4 DEF Runs, RunsTests
<1>6. /\ s4.regs["RAX"] = 0 /\ s4.flags[1] = a /\ s4.flags[2] = b
      /\ s4.regs["R12"] = s0.regs["R12"] /\ s4.regs \in [Regs -> Int]
      /\ s4.stack = k /\ s4.mem = s0.mem
  BY <1>4, <1>5 DEF State
<1>7. Puts(s4, s5, "RAX", v)
  BY <1>6 DEF Runs, RunsTests
<1>8. v \in MachineWord
  BY WordSizeFacts DEF MachineWord
<1> HIDE DEF v
<1>9. Leaves(s0, s5, k) /\ s5.regs["RAX"] = v
  BY <1>1, <1>6, <1>7 DEF Puts, State, Leaves
<1>10. Leaves(s0, s6, <<v>> \o k)
  BY <1>1, <1>8, <1>9, PushLeaves
<1> QED BY <1>2, <1>10 DEF v

TakenOne(s, t, r) ==
  /\ Len(s.stack) >= 1 /\ s.stack[1] \in MachineWord
  /\ Leaves(s, t, SubSeq(s.stack, 2, Len(s.stack)))
  /\ t.regs = [s.regs EXCEPT ![r] = s.stack[1]] /\ Good(t)

\* A POP takes the word on top.
LEMMA PopDoes ==
  ASSUME NEW table, NEW s, NEW t, NEW r \in Working, Good(s), Runs(table, POP(r), s, t)
  PROVE  TakenOne(s, t, r)
PROOF
<1>1. s.stack # <<>> /\ t = State(Tail(s.stack), s.mem, [s.regs EXCEPT ![r] = Head(s.stack)], s.flags)
  BY RunForms
<1>2. /\ Len(s.stack) >= 1 /\ Head(s.stack) = s.stack[1] /\ s.stack[1] \in MachineWord
      /\ Tail(s.stack) = SubSeq(s.stack, 2, Len(s.stack)) /\ Tail(s.stack) \in Seq(MachineWord)
  BY <1>1, OneOff DEF Good
<1>3. t.stack = Tail(s.stack) /\ t.mem = s.mem /\ t.regs = [s.regs EXCEPT ![r] = s.stack[1]]
  BY <1>1, <1>2 DEF State
<1>4. r \in Regs /\ r # "R12" /\ "R12" \in Regs /\ s.regs \in [Regs -> Int]
  BY DEF Working, Regs, Good
<1>5. t.regs["R12"] = s.regs["R12"] /\ t.regs \in [Regs -> Int]
  <2>1. s.stack[1] \in Int
    BY <1>2, WordIsWrapped
  <2> QED BY <1>3, <1>4, <2>1
<1> QED BY <1>2, <1>3, <1>5 DEF Leaves, Good, TakenOne

LEMMA AddressDoes ==
  ASSUME NEW table, NEW s, NEW t, NEW u, NEW a, Good(s), table[a] \in MachineWord,
         Runs(table, I2("LEA", Reg("RAX"), Lab(a)), s, t), Runs(table, PUSH(Reg("RAX")), t, u)
  PROVE  Leaves(s, u, <<table[a]>> \o s.stack)
PROOF
<1>1. Puts(s, t, "RAX", table[a])
  BY RunForms, Zenon
<1>2. "RAX" \in Working /\ {"RAX", "R12"} \subseteq Regs /\ s.regs \in [Regs -> Int]
  BY DEF Working, Regs, Good
<1>3. Leaves(s, t, s.stack) /\ t.regs["RAX"] = table[a]
  BY <1>1, <1>2 DEF Puts, State, Leaves
<1> QED BY <1>2, <1>3, PushLeaves

\* An integer is pushed.
LEMMA LiteralDoes ==
  ASSUME NEW table, NEW s, NEW t, NEW v, Runs(table, PUSH(Imm(v)), s, t)
  PROVE  Leaves(s, t, <<Wrap(v)>> \o s.stack)
PROOF
<1>1. Pushes(s, t, Wrap(v))
  BY RunForms, Zenon
<1> QED BY <1>1 DEF Pushes, State, Leaves

\* Loading from the address on the stack, with RAX cleared before if need be.
LEMMA LoadDoes ==
  ASSUME NEW table, NEW s0, NEW s1, NEW s2, NEW s3, NEW s4, NEW n \in Sizes, Good(s0),
         Runs(table, POP("RBX"), s0, s1),
         (s2 = s1 /\ n = 8) \/ Runs(table, I2("XOR", Reg("RAX"), Reg("RAX")), s1, s2),
         Runs(table, I2("MOV", Reg(SizedRAX(n)), Ptr("RBX")), s2, s3),
         Runs(table, PUSH(Reg("RAX")), s3, s4)
  PROVE  /\ Len(s0.stack) >= 1
         /\ Mapped(s0.mem, s0.stack[1], n)
         /\ Leaves(s0, s4, <<Load(s0.mem, s0.stack[1], n)>> \o SubSeq(s0.stack, 2, Len(s0.stack)))
PROOF
<1> DEFINE a == s0.stack[1]
           k == SubSeq(s0.stack, 2, Len(s0.stack))
           v == Load(s0.mem, a, n)
<1>1. /\ "RBX" \in Working /\ "RAX" \in Working /\ {"RAX", "RBX", "R12"} \subseteq Regs
      /\ s0.regs \in [Regs -> Int] /\ \A x \in DOMAIN s0.mem : s0.mem[x] \in Byte
  BY DEF Working, Regs, Good
<1>2. Len(s0.stack) >= 1 /\ a \in MachineWord /\ Leaves(s0, s1, k) /\ s1.regs = [s0.regs EXCEPT !["RBX"] = a]
  <2>1. TakenOne(s0, s1, "RBX")
    BY <1>1, PopDoes
  <2> QED BY <2>1 DEF TakenOne
<1>3. Wrap(a) = a /\ a \in Int
  BY <1>2, WordIsWrapped
<1>4. s1.regs \in [Regs -> Int] /\ s1.regs["RBX"] = a
  BY <1>1, <1>2, <1>3
<1>5. /\ s2.stack = k /\ s2.mem = s0.mem /\ s2.regs["RBX"] = a /\ s2.regs["R12"] = s0.regs["R12"]
      /\ n # 8 => s2.regs["RAX"] = 0
      /\ s2.regs \in [Regs -> Int]
  <2>1. CASE s2 = s1 /\ n = 8
    BY <2>1, <1>2, <1>4 DEF Leaves
  <2>2. CASE Runs(table, I2("XOR", Reg("RAX"), Reg("RAX")), s1, s2)
    <3>1. Puts(s1, s2, "RAX", 0)
      BY <1>1, <2>2, RunForms, Zenon
    <3>2. s2.regs = [s1.regs EXCEPT !["RAX"] = 0] /\ s2.stack = k /\ s2.mem = s0.mem
      BY <1>2, <3>1 DEF Puts, State, Leaves
    <3>3. s1.regs["R12"] = s0.regs["R12"]
      BY <1>2 DEF Leaves
    <3> QED BY <1>1, <1>4, <3>2, <3>3
  <2> QED BY <2>1, <2>2
<1>6. Mapped(s0.mem, a, n) /\ Puts(s2, s3, "RAX", v)
  BY <1>1, <1>3, <1>5 DEF Runs, RunsTransfers
<1>7. v \in MachineWord
  <2>1. n \in Nat
    BY DEF Sizes
  <2>2. \A i \in 0 .. n - 1 : s0.mem[a + i] \in Byte
    BY <1>1, <1>6 DEF Mapped
  <2> QED BY <2>1, <2>2, LoadType
<1> HIDE DEF v
<1>8. Leaves(s0, s3, k) /\ s3.regs["RAX"] = v
  BY <1>1, <1>5, <1>6 DEF Puts, State, Leaves
<1>9. Leaves(s0, s4, <<v>> \o k)
  BY <1>1, <1>7, <1>8, PushLeaves
<1> QED BY <1>2, <1>6, <1>9 DEF v

Stored(s, t, n) ==
  /\ Len(s.stack) >= 2
  /\ Mapped(s.mem, s.stack[2], n)
  /\ t.stack = SubSeq(s.stack, 3, Len(s.stack))
  /\ t.mem = Store(s.mem, s.stack[2], s.stack[1], n)
  /\ t.regs["R12"] = s.regs["R12"]

\* set stores the upper word where the one below it points (main.py:275-281).
LEMMA StoreDoes ==
  ASSUME NEW table, NEW s0, NEW s1, NEW s2, NEW s3, NEW n \in Sizes, Good(s0),
         Runs(table, POP("RAX"), s0, s1), Runs(table, POP("RBX"), s1, s2),
         Runs(table, I2("MOV", Ptr("RBX"), Reg(SizedRAX(n))), s2, s3)
  PROVE  Stored(s0, s3, n)
PROOF
<1> DEFINE a == s0.stack[2]
           b == s0.stack[1]
           k == SubSeq(s0.stack, 3, Len(s0.stack))
<1>1. /\ "RAX" \in Working /\ "RBX" \in Working /\ "RAX" # "RBX"
      /\ {"RAX", "RBX", "R12"} \subseteq Regs /\ s0.regs \in [Regs -> Int]
  BY DEF Working, Regs, Good
<1>2. /\ Len(s0.stack) >= 2 /\ b \in MachineWord /\ a \in MachineWord
      /\ s2 = State(k, s0.mem, [s0.regs EXCEPT !["RAX"] = b, !["RBX"] = a], s0.flags)
  <2>1. Taken(s0, s2, "RAX", "RBX")
    BY <1>1, TwoPops
  <2> QED BY <2>1 DEF Taken
<1>3. Wrap(a) = a /\ Wrap(b) = b /\ a \in Int /\ b \in Int
  BY <1>2, WordIsWrapped
<1>4. /\ s2.regs["RAX"] = b /\ s2.regs["RBX"] = a /\ s2.regs["R12"] = s0.regs["R12"]
      /\ s2.stack = k /\ s2.mem = s0.mem
  BY <1>1, <1>2, <1>3 DEF State
<1>5. /\ Mapped(s0.mem, a, n)
      /\ s3 = State(s2.stack, Store(s2.mem, a, b % Values(n), n), s2.regs, s2.flags)
  BY <1>3, <1>4 DEF Runs, RunsTransfers
<1>6. Store(s0.mem, a, b % Values(n), n) = Store(s0.mem, a, b, n)
  <2>1. Digits(b % Values(n), n) = Digits(b, n)
    <3>1. n \in Nat /\ b \in 0 .. WordSize - 1
      BY <1>2 DEF Sizes, MachineWord
    <3> QED BY <3>1, LowDigits
  <2> QED BY <2>1 DEF Store
<1> QED BY <1>2, <1>4, <1>5, <1>6 DEF State, Stored

\* swap exchanges two words of the stack (main.py:343-347).
LEMMA SwapDoes ==
  ASSUME NEW table, NEW s0, NEW s1, NEW s2, NEW s3, NEW s4, NEW i \in Nat, NEW j \in Nat, Good(s0),
         Runs(table, I2("MOV", Reg("RAX"), Stk(i * 8)), s0, s1),
         Runs(table, I2("MOV", Reg("RBX"), Stk(j * 8)), s1, s2),
         Runs(table, I2("MOV", Stk(i * 8), Reg("RBX")), s2, s3),
         Runs(table, I2("MOV", Stk(j * 8), Reg("RAX")), s3, s4)
  PROVE  /\ i < Len(s0.stack) /\ j < Len(s0.stack)
         /\ Leaves(s0, s4, [s0.stack EXCEPT ![i + 1] = s0.stack[j + 1], ![j + 1] = s0.stack[i + 1]])
PROOF
<1> DEFINE a == s0.stack[i + 1]
           b == s0.stack[j + 1]
<1>1. /\ "RBX" \in Working /\ "RAX" \in Working /\ {"RAX", "RBX", "R12"} \subseteq Regs
      /\ s0.regs \in [Regs -> Int] /\ s0.stack \in Seq(MachineWord)
  BY DEF Working, Regs, Good
<1>2. /\ i < Len(s0.stack)
      /\ s1 = State(s0.stack, s0.mem, [s0.regs EXCEPT !["RAX"] = a], s0.flags)
  <2>1. i < Len(s0.stack) /\ Puts(s0, s1, "RAX", a)
    BY <1>1 DEF Runs, RunsMoves
  <2> QED BY <2>1 DEF Puts
<1>3. s1.stack = s0.stack /\ s1.mem = s0.mem /\ s1.regs = [s0.regs EXCEPT !["RAX"] = a]
  BY <1>2 DEF State
<1>4. /\ j < Len(s0.stack)
      /\ s2 = State(s0.stack, s0.mem, [s1.regs EXCEPT !["RBX"] = b], s1.flags)
  <2>1. j < Len(s1.stack) /\ Puts(s1, s2, "RBX", s1.stack[j + 1])
    BY <1>1 DEF Runs, RunsMoves
  <2> QED BY <1>3, <2>1 DEF Puts
<1>5. a \in MachineWord /\ b \in MachineWord /\ a \in Int /\ b \in Int /\ Wrap(a) = a /\ Wrap(b) = b
  <2>1. i + 1 \in 1 .. Len(s0.stack) /\ j + 1 \in 1 .. Len(s0.stack)
    BY <1>1, <1>2, <1>4
  <2>2. a \in MachineWord /\ b \in MachineWord
    BY <1>1, <2>1
  <2> QED BY <2>2, WordIsWrapped
<1>6. /\ s2.stack = s0.stack /\ s2.mem = s0.mem /\ s2.regs["RAX"] = a /\ s2.regs["RBX"] = b
      /\ s2.regs["R12"] = s0.regs["R12"]
  <2>1. s2.stack = s0.stack /\ s2.mem = s0.mem /\ s2.regs = [s1.regs EXCEPT !["RBX"] = b]
    BY <1>4 DEF State
  <2> QED BY <1>1, <1>3, <1>5, <2>1
<1>7. s3 = State([s0.stack EXCEPT ![i + 1] = b], s0.mem, s2.regs, s2.flags)
  <2>1. s3 = State([s2.stack EXCEPT ![i + 1] = Wrap(s2.regs["RBX"])], s2.mem, s2.regs, s2.flags)
    BY <1>1 DEF Runs, RunsMoves
  <2> QED BY <1>5, <1>6, <2>1
<1>8. s3.stack = [s0.stack EXCEPT ![i + 1] = b] /\ s3.mem = s0.mem /\ s3.regs = s2.regs
  BY <1>7 DEF State
<1>9. s4 = State([s3.stack EXCEPT ![j + 1] = a], s0.mem, s2.regs, s3.flags)
  <2>1. s4 = State([s3.stack EXCEPT ![j + 1] = Wrap(s3.regs["RAX"])], s3.mem, s3.regs, s3.flags)
    BY <1>1 DEF Runs, RunsMoves
  <2> QED BY <1>5, <1>6, <1>8, <2>1
<1>10. s4.stack = [s0.stack EXCEPT ![i + 1] = b, ![j + 1] = a]
  <2>1. s4.stack = [s3.stack EXCEPT ![j + 1] = a]
    BY <1>9 DEF State
  <2> QED BY <1>8, <2>1
<1> QED BY <1>2, <1>4, <1>6, <1>9, <1>10 DEF Leaves, State

\* n copies of v in front of s.
Copies(v, n, s) == [x \in 1 .. n |-> v] \o s

LEMMA OneMoreCopy ==
  ASSUME NEW S, NEW v \in S, NEW s \in Seq(S), NEW n \in Nat
  PROVE  <<v>> \o Copies(v, n, s) = Copies(v, n + 1, s)
PROOF
<1> DEFINE c(m) == [x \in 1 .. m |-> v]
           l == <<v>> \o (c(n) \o s)
           r == c(n + 1) \o s
<1>1. \A m \in Nat : c(m) \in Seq(S) /\ Len(c(m)) = m /\ \A x \in 1 .. m : c(m)[x] = v
  OBVIOUS
<1>2. <<v>> \in Seq(S) /\ Len(<<v>>) = 1 /\ <<v>>[1] = v /\ Len(s) \in Nat
  OBVIOUS
<1> DEFINE u == <<v>>
           w == c(n) \o s
<1> HIDE DEF c, u, w, r
<1>3. /\ w \in Seq(S) /\ Len(w) = n + Len(s)
      /\ \A x \in 1 .. n : w[x] = v
      /\ \A x \in 1 .. Len(s) : w[n + x] = s[x]
  <2>1. Joins(S, c(n), s, w)
    BY <1>1, JoinFacts DEF w
  <2> QED BY <1>1, <2>1 DEF Joins
<1>4. /\ r \in Seq(S) /\ Len(r) = n + 1 + Len(s)
      /\ \A x \in 1 .. n + 1 : r[x] = v
      /\ \A x \in 1 .. Len(s) : r[n + 1 + x] = s[x]
  <2>1. n + 1 \in Nat
    OBVIOUS
  <2>2. Joins(S, c(n + 1), s, r)
    BY <1>1, <2>1, JoinFacts DEF r
  <2> QED BY <1>1, <2>1, <2>2 DEF Joins
<1>5. /\ l \in Seq(S) /\ Len(l) = 1 + Len(w) /\ l[1] = v
      /\ \A x \in 1 .. Len(w) : l[1 + x] = w[x]
  <2>1. u \in Seq(S) /\ Len(u) = 1 /\ u[1] = v /\ l = u \o w
    BY <1>2 DEF u, w
  <2> HIDE DEF l
  <2>2. Joins(S, u, w, l)
    BY <1>3, <2>1, JoinFacts
  <2> QED BY <2>1, <2>2 DEF Joins
<1> HIDE DEF l
<1>6. Len(l) = Len(r) /\ Len(r) \in Nat
  BY <1>2, <1>3, <1>4, <1>5
<1>7. \A x \in 1 .. Len(l) : l[x] = r[x]
  <2> SUFFICES ASSUME NEW x \in 1 .. Len(l) PROVE l[x] = r[x]
    OBVIOUS
  <2>1. CASE x = 1
    BY <1>4, <1>5, <2>1
  <2>2. CASE x # 1
    <3>1. PICK y \in 1 .. Len(w) : x = 1 + y
      <4>1. x - 1 \in 1 .. Len(w) /\ x = 1 + (x - 1)
        BY <1>2, <1>3, <1>5, <2>2
      <4> QED BY <4>1
    <3>2. l[x] = w[y]
      BY <1>5, <3>1
    <3>3. CASE y <= n
      BY <1>3, <1>4, <3>1, <3>2, <3>3
    <3>4. CASE y > n
      <4>1. PICK z \in 1 .. Len(s) : y = n + z
        <5>1. y - n \in 1 .. Len(s) /\ y = n + (y - n)
          BY <1>2, <1>3, <3>1, <3>4
        <5> QED BY <5>1
      <4>2. x = n + 1 + z
        BY <3>1, <4>1
      <4> QED BY <1>3, <1>4, <3>2, <4>1, <4>2
    <3> QED BY <3>1, <3>3, <3>4
  <2> QED BY <2>1, <2>2
<1>8. l = r
  BY <1>4, <1>5, <1>6, <1>7, SeqEqual
<1> QED BY <1>8 DEF l, r, c, u, w, Copies

\* copy pushes again the words from the one that its first parameter names, as
\* many as its second says (main.py:212-218).
LEMMA CopyDoes ==
  ASSUME NEW table, NEW t, NEW i \in Nat, NEW count \in Nat, Good(t[0]),
         Runs(table, I2("MOV", Reg("RAX"), Stk(i * 8)), t[0], t[1]),
         \A n \in 1 .. count : Runs(table, PUSH(Reg("RAX")), t[n], t[n + 1])
  PROVE  /\ i < Len(t[0].stack)
         /\ Leaves(t[0], t[count + 1], [x \in 1 .. count |-> t[0].stack[i + 1]] \o t[0].stack)
PROOF
<1> DEFINE v == t[0].stack[i + 1]
           k == t[0].stack
           T == {n \in Nat : n <= count => /\ Leaves(t[0], t[n + 1], Copies(v, n, k))
                                           /\ t[n + 1].regs["RAX"] = v}
<1>1. /\ "RAX" \in Working /\ {"RAX", "R12"} \subseteq Regs
      /\ t[0].regs \in [Regs -> Int] /\ k \in Seq(MachineWord)
  BY DEF Working, Regs, Good
<1>2. i < Len(k) /\ Puts(t[0], t[1], "RAX", v)
  BY <1>1 DEF Runs, RunsMoves
<1>3. v \in MachineWord
  <2>1. i + 1 \in 1 .. Len(k)
    BY <1>1, <1>2
  <2> QED BY <1>1, <2>1
<1>4. Leaves(t[0], t[1], k) /\ t[1].regs["RAX"] = v
  BY <1>1, <1>2 DEF Puts, State, Leaves
<1> HIDE DEF v, k
<1>5. 0 \in T
  <2>1. Copies(v, 0, k) = k
    BY <1>1 DEF Copies
  <2> QED BY <1>4, <2>1
<1>6. ASSUME NEW n \in Nat, n \in T PROVE n + 1 \in T
  <2> SUFFICES ASSUME n + 1 <= count
               PROVE  Leaves(t[0], t[n + 1 + 1], Copies(v, n + 1, k)) /\ t[n + 1 + 1].regs["RAX"] = v
    OBVIOUS
  <2>1. Leaves(t[0], t[n + 1], Copies(v, n, k)) /\ t[n + 1].regs["RAX"] = v
    BY <1>6
  <2>2. n + 1 \in 1 .. count
    OBVIOUS
  <2>3. Runs(table, PUSH(Reg("RAX")), t[n + 1], t[n + 1 + 1])
    BY <2>2
  <2> DEFINE a == t[n + 1]
             b == t[n + 1 + 1]
  <2>4. <<v>> \o (Copies(v, n, k)) = Copies(v, n + 1, k)
    <3>1. k \in Seq(MachineWord) /\ v \in MachineWord
      BY <1>1, <1>3
    <3> QED BY <3>1, OneMoreCopy, Zenon
  <2> HIDE DEF a, b
  <2>5. Leaves(t[0], a, Copies(v, n, k)) /\ a.regs["RAX"] = v /\ Runs(table, PUSH(Reg("RAX")), a, b)
    BY <2>1, <2>3 DEF a, b
  <2> DEFINE kk == Copies(v, n, k)
             z == t[0]
  <2> HIDE DEF kk, z
  <2>6. Leaves(z, b, <<v>> \o kk)
    BY <1>1, <1>3, <2>5, PushLeaves DEF kk, z
  <2>7. b.regs = a.regs
    <3>1. Pushes(a, b, Wrap(a.regs["RAX"]))
      BY <1>1, <2>5, RunForms, Zenon
    <3> QED BY <3>1 DEF Pushes, State
  <2> QED BY <2>4, <2>5, <2>6, <2>7 DEF a, b, kk, z
<1>7. Nat \subseteq T
  <2> HIDE DEF T
  <2> QED BY <1>5, <1>6, AllNat
<1>8. count \in T
  BY <1>7
<1> QED BY <1>2, <1>8 DEF v, k, Copies

-----------------------------------------------------------------------------
(***************************************************************************)
(* The numbers of the language are those of the machine.                   *)
(***************************************************************************)
LEMMA SameNumbers ==
  /\ Language!WordSize = WordSize
  /\ \A v : Language!Wrap(v) = Wrap(v)
  /\ \A v : Language!Signed(v) = Signed(v)
  /\ \A a, b : Language!BitAnd(a, b) = BitAnd(a, b) /\ Language!BitOr(a, b) = BitOr(a, b)
  /\ \A m, a, n : Language!Mapped(m, a, n) <=> Mapped(m, a, n)
  /\ \A m, a, n : Language!Load(m, a, n) = Load(m, a, n)
  /\ \A m, a, v, n : Language!Store(m, a, v, n) = Store(m, a, v, n)
PROOF
<1>1. Language!WordSize = WordSize
  BY DEF WordSize, Language!WordSize
<1>2. (\A v : Language!Wrap(v) = Wrap(v)) /\ \A v : Language!Signed(v) = Signed(v)
  BY <1>1 DEF Wrap, Signed, Language!Wrap, Language!Signed
<1>3. \A base, v, n : Language!DigitsIn(base, v, n) = DigitsIn(base, v, n)
  BY DEF DigitsIn, Language!DigitsIn
<1>4. \A base, d, n : Language!ValueIn(base, d, n) = ValueIn(base, d, n)
  BY <1>1 DEF ValueIn, Language!ValueIn
<1>5. \A a, b : Language!BitAnd(a, b) = BitAnd(a, b) /\ Language!BitOr(a, b) = BitOr(a, b)
  BY <1>3, <1>4 DEF BitAnd, BitOr, Bits, FromBits, Language!BitAnd, Language!BitOr, Language!Bits, Language!FromBits
<1>6. \A m, a, n : Language!Mapped(m, a, n) <=> Mapped(m, a, n)
  BY DEF Mapped, Language!Mapped
<1>7. \A m, a, n : Language!Load(m, a, n) = Load(m, a, n)
  BY <1>4 DEF Load, Value, Language!Load, Language!Value
<1>8. \A m, a, v, n : Language!Store(m, a, v, n) = Store(m, a, v, n)
  BY <1>3 DEF Store, Digits, Language!Store, Language!Digits
<1> QED BY <1>1, <1>2, <1>5, <1>6, <1>7, <1>8

-----------------------------------------------------------------------------
(***************************************************************************)
(* The code of a word and what it leaves on the stack.                     *)
(***************************************************************************)
CodeOf(w) == IF w.head = "str" THEN AddressCode(StringLabel(StringNumber(w.params)))
             ELSE PlainCode(w)

\* t are the states of the machine while it runs the code.
Ran(table, code, t) == \A i \in 1 .. Len(code) : Runs(table, code[i], t[i - 1], t[i])

\* What has run a few lines has run each of them.
LEMMA RanLines ==
  ASSUME NEW table, NEW code, NEW t, Ran(table, code, t)
  PROVE  /\ \A a : code = <<a>> => Runs(table, a, t[0], t[1])
         /\ \A a, b : code = <<a, b>> => Runs(table, a, t[0], t[1]) /\ Runs(table, b, t[1], t[2])
         /\ \A a, b, c : code = <<a, b, c>> =>
              Runs(table, a, t[0], t[1]) /\ Runs(table, b, t[1], t[2]) /\ Runs(table, c, t[2], t[3])
         /\ \A a, b, c, d : code = <<a, b, c, d>> =>
              /\ Runs(table, a, t[0], t[1]) /\ Runs(table, b, t[1], t[2])
              /\ Runs(table, c, t[2], t[3]) /\ Runs(table, d, t[3], t[4])
         /\ \A a, b, c, d, e : code = <<a, b, c, d, e>> =>
              /\ Runs(table, a, t[0], t[1]) /\ Runs(table, b, t[1], t[2])
              /\ Runs(table, c, t[2], t[3]) /\ Runs(table, d, t[3], t[4]) /\ Runs(table, e, t[4], t[5])
         /\ \A a, b, c, d, e, f : code = <<a, b, c, d, e, f>> =>
              /\ Runs(table, a, t[0], t[1]) /\ Runs(table, b, t[1], t[2])
              /\ Runs(table, c, t[2], t[3]) /\ Runs(table, d, t[3], t[4]) /\ Runs(table, e, t[4], t[5])
              /\ Runs(table, f, t[5], t[6])
PROOF
<1>1. /\ 1 \in 1 .. Len(code) => Runs(table, code[1], t[0], t[1])
      /\ 2 \in 1 .. Len(code) => Runs(table, code[2], t[1], t[2])
      /\ 3 \in 1 .. Len(code) => Runs(table, code[3], t[2], t[3])
      /\ 4 \in 1 .. Len(code) => Runs(table, code[4], t[3], t[4])
      /\ 5 \in 1 .. Len(code) => Runs(table, code[5], t[4], t[5])
      /\ 6 \in 1 .. Len(code) => Runs(table, code[6], t[5], t[6])
  <2>1. 1 - 1 = 0 /\ 2 - 1 = 1 /\ 3 - 1 = 2 /\ 4 - 1 = 3 /\ 5 - 1 = 4 /\ 6 - 1 = 5
    OBVIOUS
  <2> QED BY <2>1 DEF Ran
<1>2. \A a : code = <<a>> => Runs(table, a, t[0], t[1])
  BY <1>1
<1>3. \A a, b : code = <<a, b>> => Runs(table, a, t[0], t[1]) /\ Runs(table, b, t[1], t[2])
  BY <1>1
<1>4. \A a, b, c : code = <<a, b, c>> =>
        Runs(table, a, t[0], t[1]) /\ Runs(table, b, t[1], t[2]) /\ Runs(table, c, t[2], t[3])
  BY <1>1
<1>5. \A a, b, c, d : code = <<a, b, c, d>> =>
        /\ Runs(table, a, t[0], t[1]) /\ Runs(table, b, t[1], t[2])
        /\ Runs(table, c, t[2], t[3]) /\ Runs(table, d, t[3], t[4])
  BY <1>1
<1>6. \A a, b, c, d, e : code = <<a, b, c, d, e>> =>
        /\ Runs(table, a, t[0], t[1]) /\ Runs(table, b, t[1], t[2])
        /\ Runs(table, c, t[2], t[3]) /\ Runs(table, d, t[3], t[4]) /\ Runs(table, e, t[4], t[5])
  BY <1>1
<1>7. \A a, b, c, d, e, f : code = <<a, b, c, d, e, f>> =>
        /\ Runs(table, a, t[0], t[1]) /\ Runs(table, b, t[1], t[2])
        /\ Runs(table, c, t[2], t[3]) /\ Runs(table, d, t[3], t[4]) /\ Runs(table, e, t[4], t[5])
        /\ Runs(table, f, t[5], t[6])
  BY <1>1
<1> QED BY <1>2, <1>3, <1>4, <1>5, <1>6, <1>7

Calculated(o, a, b) ==
  CASE o = "+" -> Wrap(a + b) [] o = "-" -> Wrap(a - b) [] o = "*" -> Wrap(a * b)
    [] o = "/" -> a \div b [] o = "%" -> a % b [] o = "or" -> BitOr(a, b) [] o = "&" -> BitAnd(a, b)
    [] OTHER -> IF Truth(o, Signed(a), Signed(b)) THEN 1 ELSE 0

Rest(s, n) == SubSeq(s.stack, n + 1, Len(s.stack))
DoesBinary(o, s, t) ==
  /\ Len(s.stack) >= 2
  /\ o \in {"/", "%", "divmod"} => s.stack[1] # 0
  /\ IF o = "divmod" THEN Leaves(s, t, <<s.stack[2] % s.stack[1]>> \o (<<s.stack[2] \div s.stack[1]>> \o Rest(s, 2)))
     ELSE Leaves(s, t, <<Calculated(o, s.stack[2], s.stack[1])>> \o Rest(s, 2))

\* The code of each arithmetic word does what the word says.
LEMMA ArithmeticDoes ==
  ASSUME NEW table, NEW t, NEW o \in Arithmetic, Good(t[0]), Ran(table, ArithmeticCode(o), t)
  PROVE  DoesBinary(o, t[0], t[Len(ArithmeticCode(o))])
PROOF
<1> DEFINE c == ArithmeticCode(o)
           s == t[0]
           sum(x) == <<POP("RBX"), POP("RAX"), x, PUSH(Reg("RAX"))>>
<1>0. Rest(s, 2) = SubSeq(s.stack, 3, Len(s.stack))
  BY DEF Rest
<1>1. ASSUME NEW i \in {"ADD", "SUB", "AND", "OR"}, c = sum(I2(i, Reg("RAX"), Reg("RBX"))),
             \A a, b : Calculated(o, a, b) = (CASE i = "ADD" -> Wrap(a + b) [] i = "SUB" -> Wrap(a - b)
                    [] i = "AND" -> BitAnd(a, b) [] i = "OR" -> BitOr(a, b)), o \notin {"/", "%", "divmod"}
      PROVE  DoesBinary(o, t[0], t[Len(c)])
  <2>1. /\ Runs(table, POP("RBX"), t[0], t[1]) /\ Runs(table, POP("RAX"), t[1], t[2])
        /\ Runs(table, I2(i, Reg("RAX"), Reg("RBX")), t[2], t[3]) /\ Runs(table, PUSH(Reg("RAX")), t[3], t[4])
    BY <1>1, RanLines, Zenon
  <2>2. Len(c) = 4
    BY <1>1
  <2> HIDE DEF c
  <2>3. /\ Len(s.stack) >= 2
        /\ Leaves(s, t[4], <<Calculated(o, s.stack[2], s.stack[1])>> \o SubSeq(s.stack, 3, Len(s.stack)))
    BY <1>1, <2>1, SumDoes
  <2> QED BY <1>0, <1>1, <2>2, <2>3 DEF DoesBinary
<1>2. CASE o \in {"+", "-", "or", "&"}
  BY <1>1, <1>2, ArithmeticCodeIs DEF Calculated
<1>3. CASE o = "*"
  <2>1. c = sum(I1("MUL", Reg("RBX")))
    BY <1>3, ArithmeticCodeIs
  <2>2. /\ Runs(table, POP("RBX"), t[0], t[1]) /\ Runs(table, POP("RAX"), t[1], t[2])
        /\ Runs(table, I1("MUL", Reg("RBX")), t[2], t[3]) /\ Runs(table, PUSH(Reg("RAX")), t[3], t[4])
    BY <2>1, RanLines, Zenon
  <2>3. Len(c) = 4
    BY <2>1
  <2> HIDE DEF c
  <2>4. /\ Len(s.stack) >= 2
        /\ Leaves(s, t[4], <<Wrap(s.stack[2] * s.stack[1])>> \o SubSeq(s.stack, 3, Len(s.stack)))
    BY <2>2, ProductDoes
  <2> QED BY <1>0, <1>3, <2>3, <2>4 DEF DoesBinary, Calculated, c
<1> DEFINE z == I2("XOR", Reg("RDX"), Reg("RDX"))
           d == I1("DIV", Reg("RBX"))
<1>4. CASE o = "/"
  <2>1. c = <<POP("RBX"), POP("RAX"), z, d, PUSH(Reg("RAX"))>>
    BY <1>4, ArithmeticCodeIs
  <2>2. /\ Runs(table, POP("RBX"), t[0], t[1]) /\ Runs(table, POP("RAX"), t[1], t[2])
        /\ Runs(table, z, t[2], t[3]) /\ Runs(table, d, t[3], t[4]) /\ Runs(table, PUSH(Reg("RAX")), t[4], t[5])
    BY <2>1, RanLines
  <2>3. Len(c) = 5
    BY <2>1
  <2> HIDE DEF c
  <2>4. Divided(s, t[4])
    BY <2>2, DivideDoes
  <2>5. Leaves(s, t[5], <<s.stack[2] \div s.stack[1]>> \o SubSeq(s.stack, 3, Len(s.stack)))
    BY <2>2, <2>4, QuotientDoes
  <2> QED BY <1>0, <1>4, <2>3, <2>4, <2>5 DEF DoesBinary, Calculated, Divided, c
<1>5. CASE o = "%"
  <2>1. c = <<POP("RBX"), POP("RAX"), z, d, I2("MOV", Reg("RAX"), Reg("RDX")), PUSH(Reg("RAX"))>>
    BY <1>5, ArithmeticCodeIs
  <2>2. /\ Runs(table, POP("RBX"), t[0], t[1]) /\ Runs(table, POP("RAX"), t[1], t[2])
        /\ Runs(table, z, t[2], t[3]) /\ Runs(table, d, t[3], t[4])
        /\ Runs(table, I2("MOV", Reg("RAX"), Reg("RDX")), t[4], t[5]) /\ Runs(table, PUSH(Reg("RAX")), t[5], t[6])
    BY <2>1, RanLines
  <2>3. Len(c) = 6
    BY <2>1
  <2> HIDE DEF c
  <2>4. Divided(s, t[4])
    BY <2>2, DivideDoes
  <2>5. Leaves(s, t[6], <<s.stack[2] % s.stack[1]>> \o SubSeq(s.stack, 3, Len(s.stack)))
    BY <2>2, <2>4, RemainderDoes
  <2> QED BY <1>0, <1>5, <2>3, <2>4, <2>5 DEF DoesBinary, Calculated, Divided, c
<1>6. CASE o = "divmod"
  <2>1. c = <<POP("RBX"), POP("RAX"), z, d, PUSH(Reg("RAX")), PUSH(Reg("RDX"))>>
    BY <1>6, ArithmeticCodeIs
  <2>2. /\ Runs(table, POP("RBX"), t[0], t[1]) /\ Runs(table, POP("RAX"), t[1], t[2])
        /\ Runs(table, z, t[2], t[3]) /\ Runs(table, d, t[3], t[4])
        /\ Runs(table, PUSH(Reg("RAX")), t[4], t[5]) /\ Runs(table, PUSH(Reg("RDX")), t[5], t[6])
    BY <2>1, RanLines
  <2>3. Len(c) = 6
    BY <2>1
  <2> HIDE DEF c
  <2>4. Divided(s, t[4])
    BY <2>2, DivideDoes
  <2>5. Leaves(s, t[6], <<s.stack[2] % s.stack[1]>> \o (<<s.stack[2] \div s.stack[1]>> \o SubSeq(s.stack, 3, Len(s.stack))))
    BY <2>2, <2>4, BothDo
  <2> QED BY <1>0, <1>6, <2>3, <2>4, <2>5 DEF DoesBinary, Divided, c
<1> QED BY <1>2, <1>3, <1>4, <1>5, <1>6 DEF Arithmetic

\* The code of each comparison does what the word says.
LEMMA ComparisonDoes ==
  ASSUME NEW table, NEW t, NEW o \in Comparisons, Good(t[0]), Ran(table, CompareCode(o), t)
  PROVE  DoesBinary(o, t[0], t[Len(CompareCode(o))])
PROOF
<1> DEFINE c == CompareCode(o)
           s == t[0]
<1>1. c = <<POP("RBX"), POP("RCX"), I2("XOR", Reg("RAX"), Reg("RAX")),
            I2("CMP", Reg("RCX"), Reg("RBX")), I1(SetInstruction(o), Reg("AL")), PUSH(Reg("RAX"))>>
  BY CompareCodeIs
<1>2. /\ Runs(table, POP("RBX"), t[0], t[1]) /\ Runs(table, POP("RCX"), t[1], t[2])
      /\ Runs(table, I2("XOR", Reg("RAX"), Reg("RAX")), t[2], t[3])
      /\ Runs(table, I2("CMP", Reg("RCX"), Reg("RBX")), t[3], t[4])
      /\ Runs(table, I1(SetInstruction(o), Reg("AL")), t[4], t[5])
      /\ Runs(table, PUSH(Reg("RAX")), t[5], t[6])
  BY <1>1, RanLines
<1>3. Len(c) = 6
  BY <1>1
<1> HIDE DEF c
<1>4. LET v == IF Truth(o, Signed(s.stack[2]), Signed(s.stack[1])) THEN 1 ELSE 0
      IN Len(s.stack) >= 2 /\ Leaves(s, t[6], <<v>> \o SubSeq(s.stack, 3, Len(s.stack)))
  BY <1>2, CompareDoes
<1>5. /\ o \notin {"/", "%", "divmod"}
      /\ \A a, b : Calculated(o, a, b) = IF Truth(o, Signed(a), Signed(b)) THEN 1 ELSE 0
  BY DEF Calculated, Comparisons
<1>6. Rest(s, 2) = SubSeq(s.stack, 3, Len(s.stack))
  BY DEF Rest
<1> QED BY <1>3, <1>4, <1>5, <1>6 DEF DoesBinary, c

DoesShuffle(w, s, t) ==
  LET k == s.stack IN
  /\ w.name = "pop" => Len(k) >= 1 /\ Leaves(s, t, Rest(s, 1))
  /\ w.name = "copy" =>
       LET n == Param(w.params, 1, 0)  count == Param(w.params, 2, 1)
       IN n < Len(k) /\ Leaves(s, t, [x \in 1 .. count |-> k[n + 1]] \o k)
  /\ w.name = "swap" =>
       LET n == Param(w.params, 1, 1)  m == Param(w.params, 2, 0)
       IN /\ n < Len(k) /\ m < Len(k)
          /\ Leaves(s, t, [k EXCEPT ![n + 1] = k[m + 1], ![m + 1] = k[n + 1]])
DoesTransfer(w, s, t) ==
  LET k == s.stack  size == w.params[1] IN
  /\ w.name = "get" => /\ Len(k) >= 1 /\ Mapped(s.mem, k[1], size)
                       /\ Leaves(s, t, <<Load(s.mem, k[1], size)>> \o Rest(s, 1))
  /\ w.name = "set" => /\ Len(k) >= 2 /\ Mapped(s.mem, k[2], size) /\ t.stack = Rest(s, 2)
                       /\ t.mem = Store(s.mem, k[2], k[1], size)
                       /\ t.regs["R12"] = s.regs["R12"]
DoesPush(w, s, t) ==
  /\ w.head = "int" => Leaves(s, t, <<Wrap(w.params[1])>> \o s.stack)
  /\ w.head = "$" => Leaves(s, t, <<Wrap(const_labels[w.name])>> \o s.stack)
  /\ w.head = "@" => Leaves(s, t, <<symbols[Parts(w.name)]>> \o s.stack)
  /\ w.head = "str" => Leaves(s, t, <<symbols[StringLabel(StringNumber(w.params))]>> \o s.stack)
Does(w, s, t) ==
  /\ DoesPush(w, s, t)
  /\ w.head = "id" => /\ w.name \in Arithmetic \cup Comparisons => DoesBinary(w.name, s, t)
                      /\ DoesShuffle(w, s, t) /\ DoesTransfer(w, s, t)

\* The label of an object is an address.
Addressed(w) == /\ w.head = "@" => symbols[Parts(w.name)] \in MachineWord
                /\ w.head = "str" => symbols[StringLabel(StringNumber(w.params))] \in MachineWord

\* The code of a literal pushes its value, that of the name of a segment or of
\* a string its address.
LEMMA PushDoes ==
  ASSUME NEW w, w.head \in {"int", "$", "@", "str"}, Addressed(w), NEW t, Good(t[0]),
         Ran(symbols, CodeOf(w), t)
  PROVE  DoesPush(w, t[0], t[Len(CodeOf(w))])
PROOF
<1> DEFINE c == CodeOf(w)
<1>1. ASSUME NEW v, c = <<PUSH(Imm(v))>> PROVE Leaves(t[0], t[Len(c)], <<Wrap(v)>> \o t[0].stack)
  <2>1. Runs(symbols, PUSH(Imm(v)), t[0], t[1]) /\ Len(c) = 1
    BY <1>1, RanLines
  <2> HIDE DEF c
  <2> QED BY <2>1, LiteralDoes
<1>2. ASSUME NEW l, c = AddressCode(l), symbols[l] \in MachineWord
      PROVE  Leaves(t[0], t[Len(c)], <<symbols[l]>> \o t[0].stack)
  <2>1. c = <<I2("LEA", Reg("RAX"), Lab(l)), PUSH(Reg("RAX"))>>
    BY <1>2, TransferCodeIs
  <2>2. /\ Runs(symbols, I2("LEA", Reg("RAX"), Lab(l)), t[0], t[1])
        /\ Runs(symbols, PUSH(Reg("RAX")), t[1], t[2]) /\ Len(c) = 2
    BY <2>1, RanLines
  <2> HIDE DEF c
  <2>3. Leaves(t[0], t[2], <<symbols[l]>> \o t[0].stack)
    BY <1>2, <2>2, AddressDoes
  <2> QED BY <2>2, <2>3
<1>3. CASE w.head = "int"
  <2>1. c = <<PUSH(Imm(w.params[1]))>>
    BY <1>3 DEF CodeOf, PlainCode
  <2>2. Leaves(t[0], t[Len(c)], <<Wrap(w.params[1])>> \o t[0].stack)
    BY <1>1, <2>1
  <2> QED BY <1>3, <2>2 DEF DoesPush
<1>4. CASE w.head = "$"
  <2>1. c = <<PUSH(Imm(const_labels[w.name]))>>
    BY <1>4 DEF CodeOf, PlainCode
  <2>2. Leaves(t[0], t[Len(c)], <<Wrap(const_labels[w.name])>> \o t[0].stack)
    BY <1>1, <2>1
  <2> QED BY <1>4, <2>2 DEF DoesPush
<1>5. CASE w.head = "@"
  <2>1. c = AddressCode(Parts(w.name))
    BY <1>5 DEF CodeOf, PlainCode
  <2>2. Leaves(t[0], t[Len(c)], <<symbols[Parts(w.name)]>> \o t[0].stack)
    BY <1>2, <1>5, <2>1 DEF Addressed
  <2> QED BY <1>5, <2>2 DEF DoesPush
<1>6. CASE w.head = "str"
  <2>1. c = AddressCode(StringLabel(StringNumber(w.params)))
    BY <1>6 DEF CodeOf
  <2>2. Leaves(t[0], t[Len(c)], <<symbols[StringLabel(StringNumber(w.params))]>> \o t[0].stack)
    BY <1>2, <1>6, <2>1 DEF Addressed
  <2> QED BY <1>6, <2>2 DEF DoesPush
<1> QED BY <1>3, <1>4, <1>5, <1>6

LEMMA ShuffleParameters ==
  ASSUME NEW w \in Word, OperatorFits(w), w.head = "id"
  PROVE  /\ w.name = "copy" => Param(w.params, 1, 0) \in Nat /\ Param(w.params, 2, 1) \in Nat
         /\ w.name = "swap" => Param(w.params, 1, 1) \in Nat /\ Param(w.params, 2, 0) \in Nat
         /\ w.name \in {"get", "set"} => w.params[1] \in Sizes
PROOF
<1>1. w.params \in Seq(Int)
  BY WordIsWord DEF Word
<1>2. CASE w.name \in {"copy", "swap"}
  <2>0. Len(w.params) <= 2 /\ \A i \in DOMAIN w.params : w.params[i] >= 0
    BY <1>2 DEF OperatorFits, IsId
  <2> DEFINE p == w.params
  <2> HIDE DEF p
  <2>1. Len(p) \in 0 .. 2 /\ \A i \in 1 .. Len(p) : p[i] \in Nat
    <3>1. p \in Seq(Int) /\ Len(p) <= 2 /\ \A i \in DOMAIN p : p[i] >= 0
      BY <1>1, <2>0 DEF p
    <3>2. Len(p) \in Nat /\ DOMAIN p = 1 .. Len(p) /\ \A i \in 1 .. Len(p) : p[i] \in Int
      BY <3>1
    <3> QED BY <3>1, <3>2
  <2> QED BY <1>2, <2>1 DEF Param, p
<1>3. CASE w.name \in {"get", "set"}
  BY <1>3 DEF OperatorFits, IsId, Sizes
<1> QED BY <1>2, <1>3

LEMMA SwapLines ==
  \A i, j : SwapCode(i, j) = <<I2("MOV", Reg("RAX"), Stk(i * 8)), I2("MOV", Reg("RBX"), Stk(j * 8)),
                               I2("MOV", Stk(i * 8), Reg("RBX")), I2("MOV", Stk(j * 8), Reg("RAX"))>>
PROOF
BY DEF SwapCode

LEMMA CopyLines ==
  ASSUME NEW i \in Nat, NEW n \in Nat
  PROVE  /\ Len(CopyCode(i, n)) = n + 1
         /\ CopyCode(i, n)[1] = I2("MOV", Reg("RAX"), Stk(i * 8))
         /\ \A k \in 1 .. n : CopyCode(i, n)[k + 1] = PUSH(Reg("RAX"))
PROOF
<1> DEFINE m == I2("MOV", Reg("RAX"), Stk(i * 8))
           p == PUSH(Reg("RAX"))
           s == <<m>>
           u == [k \in 1 .. n |-> p]
           S == {m, p}
<1>1. CopyCode(i, n) = s \o u
  BY DEF CopyCode, intsize
<1> HIDE DEF m, p
<1>2. s \in Seq(S) /\ u \in Seq(S) /\ Len(s) = 1 /\ Len(u) = n /\ s[1] = m /\ \A k \in 1 .. n : u[k] = p
  OBVIOUS
<1> HIDE DEF s, u, S
<1>3. Joins(S, s, u, s \o u)
  BY <1>2, JoinFacts
<1> DEFINE c == CopyCode(i, n)
<1>4. Joins(S, s, u, c)
  BY <1>1, <1>3
<1> HIDE DEF c
<1>5. Len(c) = 1 + n /\ c[1] = m /\ \A k \in 1 .. n : c[1 + k] = p
  <2>1. /\ Len(c) = 1 + n /\ \A k \in 1 .. 1 : c[k] = s[k]
        /\ \A k \in 1 .. n : c[1 + k] = u[k]
    BY <1>2, <1>4, Zenon DEF Joins
  <2>2. 1 \in 1 .. 1
    OBVIOUS
  <2> QED BY <1>2, <2>1, <2>2, Zenon
<1>6. Len(c) = n + 1 /\ c[1] = m /\ \A k \in 1 .. n : c[k + 1] = p
  BY <1>5
<1> QED BY <1>6 DEF c, m, p

\* The code of pop, copy and swap does what the word says.
LEMMA ShufflesDo ==
  ASSUME NEW w \in Word, OperatorFits(w), w.head = "id", w.name \in {"pop", "copy", "swap"},
         NEW t, Good(t[0]), Ran(symbols, CodeOf(w), t)
  PROVE  DoesShuffle(w, t[0], t[Len(CodeOf(w))])
PROOF
<1> DEFINE c == CodeOf(w)
           s == t[0]
<1>1. CASE w.name = "pop"
  <2>1. c = <<POP("RAX")>>
    BY <1>1 DEF CodeOf, PlainCode, OperatorCode, Arithmetic, Comparisons, Pop1
  <2>2. Runs(symbols, POP("RAX"), t[0], t[1]) /\ Len(c) = 1
    BY <2>1, RanLines
  <2> HIDE DEF c
  <2>3. TakenOne(s, t[1], "RAX")
    <3>1. "RAX" \in Working
      BY DEF Working
    <3> QED BY <2>2, <3>1, PopDoes
  <2> QED BY <1>1, <2>2, <2>3 DEF TakenOne, DoesShuffle, Rest, c
<1>2. CASE w.name = "copy"
  <2> DEFINE i == Param(w.params, 1, 0)
             n == Param(w.params, 2, 1)
  <2>1. c = CopyCode(i, n)
    BY <1>2 DEF CodeOf, PlainCode, OperatorCode, Arithmetic, Comparisons
  <2>2. i \in Nat /\ n \in Nat
    BY <1>2, ShuffleParameters
  <2> HIDE DEF i, n, c
  <2>3. /\ Len(c) = n + 1 /\ c[1] = I2("MOV", Reg("RAX"), Stk(i * 8))
        /\ \A k \in 1 .. n : c[k + 1] = PUSH(Reg("RAX"))
    BY <2>1, <2>2, CopyLines
  <2>4. Ran(symbols, c, t)
    BY DEF c
  <2>5. Runs(symbols, I2("MOV", Reg("RAX"), Stk(i * 8)), t[0], t[1])
    <3>1. 1 \in 1 .. Len(c) /\ 1 - 1 = 0
      BY <2>2, <2>3
    <3> QED BY <2>3, <2>4, <3>1 DEF Ran
  <2>6. ASSUME NEW k \in 1 .. n PROVE Runs(symbols, PUSH(Reg("RAX")), t[k], t[k + 1])
    <3>1. k + 1 \in 1 .. Len(c) /\ (k + 1) - 1 = k
      BY <2>2, <2>3
    <3>2. Runs(symbols, c[k + 1], t[(k + 1) - 1], t[k + 1])
      BY <2>4, <3>1 DEF Ran
    <3> QED BY <2>3, <3>1, <3>2
  <2>7. i < Len(s.stack) /\ Leaves(s, t[n + 1], [x \in 1 .. n |-> s.stack[i + 1]] \o s.stack)
    BY <2>2, <2>5, <2>6, CopyDoes
  <2> QED BY <1>2, <2>3, <2>7 DEF DoesShuffle, i, n, c
<1>3. CASE w.name = "swap"
  <2> DEFINE i == Param(w.params, 1, 1)
             j == Param(w.params, 2, 0)
  <2>1. c = SwapCode(i, j)
    BY <1>3 DEF CodeOf, PlainCode, OperatorCode, Arithmetic, Comparisons
  <2>2. i \in Nat /\ j \in Nat
    BY <1>3, ShuffleParameters
  <2> HIDE DEF i, j
  <2>3. /\ Runs(symbols, I2("MOV", Reg("RAX"), Stk(i * 8)), t[0], t[1])
        /\ Runs(symbols, I2("MOV", Reg("RBX"), Stk(j * 8)), t[1], t[2])
        /\ Runs(symbols, I2("MOV", Stk(i * 8), Reg("RBX")), t[2], t[3])
        /\ Runs(symbols, I2("MOV", Stk(j * 8), Reg("RAX")), t[3], t[4]) /\ Len(c) = 4
    BY <2>1, RanLines, SwapLines
  <2> HIDE DEF c
  <2>4. /\ i < Len(s.stack) /\ j < Len(s.stack)
        /\ Leaves(s, t[4], [s.stack EXCEPT ![i + 1] = s.stack[j + 1], ![j + 1] = s.stack[i + 1]])
    BY <2>2, <2>3, SwapDoes
  <2> QED BY <1>3, <2>3, <2>4 DEF DoesShuffle, i, j, c
<1> QED BY <1>1, <1>2, <1>3

\* The code of get and set does what the word says.
LEMMA TransfersDo ==
  ASSUME NEW w \in Word, OperatorFits(w), w.head = "id", w.name \in {"get", "set"},
         NEW t, Good(t[0]), Ran(symbols, CodeOf(w), t)
  PROVE  DoesTransfer(w, t[0], t[Len(CodeOf(w))])
PROOF
<1> DEFINE c == CodeOf(w)
           s == t[0]
           n == w.params[1]
           load == I2("MOV", Reg(SizedRAX(n)), Ptr("RBX"))
           store == I2("MOV", Ptr("RBX"), Reg(SizedRAX(n)))
<1>0. n \in Sizes /\ Sizes = {1, 2, 4, 8}
  BY ShuffleParameters DEF Sizes
<1>1. CASE w.name = "get"
  <2>1. c = ReadCode(n)
    BY <1>1 DEF CodeOf, PlainCode, OperatorCode, Arithmetic, Comparisons
  <2>2. \E u, v : /\ Runs(symbols, POP("RBX"), t[0], t[1])
                  /\ (v = t[1] /\ n = 8) \/ Runs(symbols, I2("XOR", Reg("RAX"), Reg("RAX")), t[1], v)
                  /\ Runs(symbols, load, v, u)
                  /\ Runs(symbols, PUSH(Reg("RAX")), u, t[Len(c)])
    <3>1. CASE n = 8
      <4>1. c = <<POP("RBX"), load, PUSH(Reg("RAX"))>>
        BY <2>1, <3>1, TransferCodeIs DEF SizedRAX
      <4>2. /\ Runs(symbols, POP("RBX"), t[0], t[1]) /\ Runs(symbols, load, t[1], t[2])
            /\ Runs(symbols, PUSH(Reg("RAX")), t[2], t[3]) /\ Len(c) = 3
        BY <4>1, RanLines
      <4> QED BY <3>1, <4>2
    <3>2. CASE n \in {1, 2, 4}
      <4>1. c = <<POP("RBX"), I2("XOR", Reg("RAX"), Reg("RAX")), load, PUSH(Reg("RAX"))>>
        BY <2>1, <3>2, TransferCodeIs
      <4>2. /\ Runs(symbols, POP("RBX"), t[0], t[1])
            /\ Runs(symbols, I2("XOR", Reg("RAX"), Reg("RAX")), t[1], t[2])
            /\ Runs(symbols, load, t[2], t[3])
            /\ Runs(symbols, PUSH(Reg("RAX")), t[3], t[4]) /\ Len(c) = 4
        BY <4>1, RanLines
      <4> QED BY <4>2
    <3> QED BY <1>0, <3>1, <3>2
  <2> HIDE DEF c, n, load
  <2>3. PICK u, v : /\ Runs(symbols, POP("RBX"), t[0], t[1])
                    /\ (v = t[1] /\ n = 8) \/ Runs(symbols, I2("XOR", Reg("RAX"), Reg("RAX")), t[1], v)
                    /\ Runs(symbols, load, v, u)
                    /\ Runs(symbols, PUSH(Reg("RAX")), u, t[Len(c)])
    BY <2>2
  <2>4. /\ Len(s.stack) >= 1 /\ Mapped(s.mem, s.stack[1], n)
        /\ Leaves(s, t[Len(c)], <<Load(s.mem, s.stack[1], n)>> \o SubSeq(s.stack, 2, Len(s.stack)))
    BY <1>0, <2>3, LoadDoes DEF load
  <2> QED BY <1>1, <2>4 DEF DoesTransfer, Rest, c, n
<1>2. CASE w.name = "set"
  <2>1. c = <<POP("RAX"), POP("RBX"), store>>
    BY <1>2 DEF CodeOf, PlainCode, OperatorCode, Arithmetic, Comparisons, WriteCode
  <2>2. /\ Runs(symbols, POP("RAX"), t[0], t[1]) /\ Runs(symbols, POP("RBX"), t[1], t[2])
        /\ Runs(symbols, store, t[2], t[3]) /\ Len(c) = 3
    BY <2>1, RanLines
  <2> HIDE DEF c, n
  <2>3. /\ Len(s.stack) >= 2
        /\ Mapped(s.mem, s.stack[2], n)
        /\ t[3].stack = SubSeq(s.stack, 3, Len(s.stack))
        /\ t[3].mem = Store(s.mem, s.stack[2], s.stack[1], n)
        /\ t[3].regs["R12"] = s.regs["R12"]
    <3>1. Runs(symbols, I2("MOV", Ptr("RBX"), Reg(SizedRAX(n))), t[2], t[3]) /\ Good(t[0])
      BY <2>2
    <3> HIDE DEF store
    <3>2. Stored(t[0], t[3], n)
      BY <1>0, <2>2, <3>1, StoreDoes
    <3> QED BY <3>2 DEF Stored
  <2> QED BY <1>2, <2>2, <2>3 DEF DoesTransfer, Rest, c, n
<1> QED BY <1>1, <1>2

\* Whatever the machine holds, the code of a word that calculates, when it has
\* run from its first line to its last, has done to the stack and the memory
\* what the word says and left R12 alone (main.py:125-193, 212-218, 267-291,
\* 321-347, 358-364).
LEMMA CodeDoes ==
  ASSUME NEW w \in Word, OperatorFits(w), Calculates(w), Addressed(w), NEW t, Good(t[0]),
         Ran(symbols, CodeOf(w), t)
  PROVE  Does(w, t[0], t[Len(CodeOf(w))])
PROOF
<1>1. CASE w.head \in {"int", "$", "@", "str"}
  BY <1>1, PushDoes DEF Does
<1>2. CASE w.head = "id"
  <2>0. DoesPush(w, t[0], t[Len(CodeOf(w))])
    BY <1>2 DEF DoesPush
  <2>1. CASE w.name \in Arithmetic
    <3>1. CodeOf(w) = ArithmeticCode(w.name)
      BY <1>2, <2>1 DEF CodeOf, PlainCode, OperatorCode, Arithmetic, Comparisons
    <3>2. DoesBinary(w.name, t[0], t[Len(CodeOf(w))])
      BY <2>1, <3>1, ArithmeticDoes
    <3> QED BY <1>2, <2>0, <2>1, <3>2 DEF Does, DoesShuffle, DoesTransfer, Arithmetic
  <2>2. CASE w.name \in Comparisons
    <3>1. CodeOf(w) = CompareCode(w.name)
      BY <1>2, <2>2 DEF CodeOf, PlainCode, OperatorCode, Arithmetic, Comparisons
    <3>2. DoesBinary(w.name, t[0], t[Len(CodeOf(w))])
      BY <2>2, <3>1, ComparisonDoes
    <3> QED BY <1>2, <2>0, <2>2, <3>2 DEF Does, DoesShuffle, DoesTransfer, Comparisons
  <2>3. CASE w.name \in {"pop", "copy", "swap"}
    <3>1. DoesShuffle(w, t[0], t[Len(CodeOf(w))])
      BY <1>2, <2>3, ShufflesDo
    <3> QED BY <1>2, <2>0, <2>3, <3>1 DEF Does, DoesTransfer, Arithmetic, Comparisons
  <2>4. CASE w.name \in {"get", "set"}
    <3>1. DoesTransfer(w, t[0], t[Len(CodeOf(w))])
      BY <1>2, <2>4, TransfersDo
    <3> QED BY <1>2, <2>0, <2>4, <3>1 DEF Does, DoesShuffle, Arithmetic, Comparisons
  <2>5. w.name \in Arithmetic \cup Comparisons \cup {"pop", "copy", "swap", "get", "set"}
    BY <1>2 DEF Calculates, Operators, WithParams, Structure
  <2> QED BY <2>1, <2>2, <2>3, <2>4, <2>5
<1> QED BY <1>1, <1>2 DEF Calculates

-----------------------------------------------------------------------------
(***************************************************************************)
(* What the machine has done is what the language says of the word.        *)
(***************************************************************************)
now == src[ProgramAt]

\* The next word is at hand, and of the program only the stack and the memory
\* may have changed.
Onward == /\ ProgramAt' = ProgramAt + 1
          /\ UNCHANGED <<src, ProgramStatus, ProgramFrames, ProgramBase, ProgramTrace>>

\* The names of the word mean what the language says.
Means(w) == /\ w.head = "$" => const_labels[w.name] = Language!Const(w.name)
            /\ w.head = "@" => ProgramBase[<<"mem", w.name>>] = symbols[Parts(w.name)]
            /\ w.head = "str" => ProgramBase[<<"str", w.params>>] = symbols[StringLabel(StringNumber(w.params))]

\* From s to t, the machine at the two words.
WordDone(s, t) ==
  /\ Onward /\ UNCHANGED symbols
  /\ s.stack = seen.stack /\ s.mem = seen.mem /\ t.stack = seen'.stack /\ t.mem = seen'.mem
  /\ seen.stack \in Seq(MachineWord)

\* What the language says a word leaves, put as two states of the machine.
LEMMA BecomesIs ==
  ASSUME NEW s, NEW t, NEW k, WordDone(s, t), Leaves(s, t, k)
  PROVE  Language!Becomes(k)
PROOF
<1>1. ProgramMemory' = ProgramMemory
  BY DEF WordDone, Leaves, ProgramMemory, IsCallStack, CallStack
<1> QED BY <1>1 DEF WordDone, Leaves, Onward, Language!Becomes, Language!Go, Language!Quiet

\* What the words of each kind do is what README.md says of them.
LEMMA PushExecutes ==
  ASSUME NEW s, NEW t, WordDone(s, t), DoesPush(now, s, t), Means(now),
         now.head \in {"int", "$", "@", "str"}
  PROVE  Language!Execute
PROOF
<1>0. s.stack = seen.stack /\ Language!this = now
  BY DEF WordDone, Language!this, now
<1>1. CASE now.head = "int"
  <2>1. Leaves(s, t, <<Wrap(now.params[1])>> \o s.stack)
    BY <1>1 DEF DoesPush
  <2>2. Language!Becomes(<<Language!Wrap(now.params[1])>> \o seen.stack)
    BY <1>0, <2>1, BecomesIs, SameNumbers
  <2>3. Language!Literal
    BY <1>0, <1>1, <2>2 DEF Language!Literal
  <2> QED BY <2>3 DEF Language!Execute
<1>2. CASE now.head = "$"
  <2>1. Leaves(s, t, <<Wrap(const_labels[now.name])>> \o s.stack)
    BY <1>2 DEF DoesPush
  <2>2. const_labels[now.name] = Language!Const(now.name)
    BY <1>2 DEF Means
  <2>3. Language!Becomes(<<Language!Wrap(Language!Const(now.name))>> \o seen.stack)
    BY <1>0, <2>1, <2>2, BecomesIs, SameNumbers
  <2>4. Language!Constant
    BY <1>0, <1>2, <2>3 DEF Language!Constant
  <2> QED BY <2>4 DEF Language!Execute
<1>3. CASE now.head = "@"
  <2>1. Leaves(s, t, <<symbols[Parts(now.name)]>> \o s.stack)
    BY <1>3 DEF DoesPush
  <2>2. symbols[Parts(now.name)] = ProgramBase[<<"mem", now.name>>]
    BY <1>3 DEF Means
  <2>3. Language!Becomes(<<ProgramBase[<<"mem", now.name>>]>> \o seen.stack)
    BY <1>0, <2>1, <2>2, BecomesIs
  <2>4. Language!Address
    BY <1>0, <1>3, <2>3 DEF Language!Address
  <2> QED BY <2>4 DEF Language!Execute
<1>4. CASE now.head = "str"
  <2>1. Leaves(s, t, <<symbols[StringLabel(StringNumber(now.params))]>> \o s.stack)
    BY <1>4 DEF DoesPush
  <2>2. symbols[StringLabel(StringNumber(now.params))] = ProgramBase[<<"str", now.params>>]
    BY <1>4 DEF Means
  <2>3. Language!Becomes(<<ProgramBase[<<"str", now.params>>]>> \o seen.stack)
    BY <1>0, <2>1, <2>2, BecomesIs
  <2>4. Language!String
    BY <1>0, <1>4, <2>3 DEF Language!String
  <2> QED BY <2>4 DEF Language!Execute
<1> QED BY <1>1, <1>2, <1>3, <1>4

\* Division of numbers that are not negative is that of the machine.
LEMMA SameDivision ==
  ASSUME NEW a \in MachineWord, NEW b \in MachineWord, Signed(a) >= 0, Signed(b) >= 0, b # 0
  PROVE  /\ Wrap(Language!Quotient(Signed(a), Signed(b))) = a \div b
         /\ Wrap(Language!Remainder(Signed(a), Signed(b))) = a % b
         /\ Signed(b) # 0
PROOF
<1>1. /\ Signed(a) = a /\ Signed(b) = b /\ a \div b \in MachineWord /\ a % b \in MachineWord
      /\ a - b * (a \div b) = a % b
  BY Division
<1>2. a \in Nat /\ b \in Nat \ {0}
  BY DEF MachineWord
<1>3. Language!Quotient(a, b) = a \div b
  <2>1. (a < 0) = FALSE /\ (b < 0) = FALSE
    BY <1>2
  <2>2. Language!Abs(a) = a /\ Language!Abs(b) = b
    BY <2>1 DEF Language!Abs
  <2> QED BY <2>1, <2>2, Zenon DEF Language!Quotient
<1>4. Language!Remainder(a, b) = a % b
  BY <1>1, <1>3 DEF Language!Remainder
<1> QED BY <1>1, <1>2, <1>3, <1>4, WordIsWrapped

LEMMA BinaryExecutes ==
  ASSUME NEW s, NEW t, WordDone(s, t), now.head = "id", now.name \in Arithmetic \cup Comparisons,
         DoesBinary(now.name, s, t),
         Divides(now) => Signed(Language!V(0)) >= 0 /\ Signed(Language!V(1)) >= 0
  PROVE  Language!Execute
PROOF
<1> DEFINE k == seen.stack
           a == k[2]
           b == k[1]
           o == now.name
<1>0. s.stack = k /\ k \in Seq(MachineWord) /\ Len(k) >= 2 /\ Language!this = now
  BY DEF WordDone, DoesBinary, Language!this, now
<1>1. a \in MachineWord /\ b \in MachineWord
  <2>1. 1 \in 1 .. Len(k) /\ 2 \in 1 .. Len(k)
    BY <1>0
  <2> QED BY <1>0, <2>1
<1>2. Language!V(1) = a /\ Language!V(0) = b
  <2>1. 1 + 1 = 2 /\ 0 + 1 = 1
    OBVIOUS
  <2> QED BY <2>1 DEF Language!V
<1>3. Language!Has(2) /\ Rest(s, 2) = Language!Drop(2)
  BY <1>0 DEF Language!Has, Language!Drop, Rest
<1>4. \A n : Language!Op(n) <=> o = n
  BY <1>0 DEF Language!Op, Language!Named, now
<1> DEFINE Done(v) == Language!Becomes(<<v>> \o Language!Drop(2))
<1>5. o # "divmod" => Done(Calculated(o, a, b))
  <2> SUFFICES ASSUME o # "divmod" PROVE Done(Calculated(o, a, b))
    OBVIOUS
  <2>1. Leaves(s, t, <<Calculated(o, a, b)>> \o Language!Drop(2))
    BY <1>0, <1>3 DEF DoesBinary
  <2> QED BY <2>1, BecomesIs
<1>6. /\ Wrap(Signed(a) + Signed(b)) = Wrap(a + b)
      /\ Wrap(Signed(a) - Signed(b)) = Wrap(a - b)
      /\ Wrap(Signed(a) * Signed(b)) = Wrap(a * b)
  BY <1>1, SignedArithmetic
<1>7. o \in {"/", "%", "divmod"} =>
        /\ Wrap(Language!Quotient(Signed(a), Signed(b))) = a \div b
        /\ Wrap(Language!Remainder(Signed(a), Signed(b))) = a % b
        /\ Signed(b) # 0
  <2> SUFFICES ASSUME o \in {"/", "%", "divmod"}
               PROVE  /\ Wrap(Language!Quotient(Signed(a), Signed(b))) = a \div b
                      /\ Wrap(Language!Remainder(Signed(a), Signed(b))) = a % b
                      /\ Signed(b) # 0
    OBVIOUS
  <2>1. b # 0 /\ Signed(a) >= 0 /\ Signed(b) >= 0
    BY <1>0, <1>2 DEF DoesBinary, Divides
  <2> QED BY <1>1, <2>1, SameDivision
<1>8. o = "divmod" => Language!Becomes(<<Wrap(Language!Remainder(Signed(a), Signed(b))),
                                         Wrap(Language!Quotient(Signed(a), Signed(b)))>> \o Language!Drop(2))
  <2> SUFFICES ASSUME o = "divmod"
               PROVE  Language!Becomes(<<a % b, a \div b>> \o Language!Drop(2))
    BY <1>7
  <2>1. Leaves(s, t, <<a % b>> \o (<<a \div b>> \o Language!Drop(2)))
    BY <1>0, <1>3 DEF DoesBinary
  <2> DEFINE q == a \div b
             r == a % b
             d == Language!Drop(2)
  <2>2. q \in MachineWord /\ r \in MachineWord /\ d \in Seq(MachineWord)
    <3>1. b # 0
      BY <1>0 DEF DoesBinary
    <3> QED BY <1>0, <1>1, <3>1, WordsDivide DEF Language!Drop
  <2> HIDE DEF q, r, d
  <2>3. <<r>> \o (<<q>> \o d) = <<r, q>> \o d
    <3>1. <<r>> \in Seq(MachineWord) /\ <<q>> \in Seq(MachineWord)
      BY <2>2
    <3>2. \A x, y, z \in Seq(MachineWord) : (x \o y) \o z = x \o (y \o z)
      BY ConcatAssociative, Z3T(60)
    <3>3. <<r>> \o <<q>> = <<r, q>>
      BY Join11
    <3> DEFINE x == <<r>>
               y == <<q>>
    <3>4. x \in Seq(MachineWord) /\ y \in Seq(MachineWord) /\ x \o y = <<r, q>>
      BY <3>1, <3>3
    <3> HIDE DEF x, y
    <3>5. (x \o y) \o d = x \o (y \o d)
      BY <2>2, <3>2, <3>4
    <3> QED BY <3>4, <3>5 DEF x, y
  <2>4. Language!Becomes(<<r, q>> \o d)
    BY <2>1, <2>3, BecomesIs DEF q, r, d
  <2> QED BY <2>4 DEF q, r, d
<1>9. Language!Binary
  <2> USE <1>0, <1>2, <1>3, <1>4
  <2>1. CASE o \in {"+", "-", "*"}
    <3>1. Done(Language!Wrap(CASE o = "+" -> Language!Signed(a) + Language!Signed(b)
                               [] o = "-" -> Language!Signed(a) - Language!Signed(b)
                               [] o = "*" -> Language!Signed(a) * Language!Signed(b)))
      BY <1>5, <1>6, <2>1, SameNumbers DEF Calculated
    <3> QED BY <2>1, <3>1 DEF Language!Binary
  <2>2. CASE o \in {"/", "%"}
    <3>1. Done(Language!Wrap(IF o = "/" THEN Language!Quotient(Language!Signed(a), Language!Signed(b))
                             ELSE Language!Remainder(Language!Signed(a), Language!Signed(b))))
      BY <1>5, <1>7, <2>2, SameNumbers DEF Calculated
    <3>2. Language!Signed(b) # 0
      BY <1>7, <2>2, SameNumbers
    <3> QED BY <2>2, <3>1, <3>2 DEF Language!Binary
  <2>3. CASE o = "divmod"
    <3>1. Language!Signed(b) # 0
      BY <1>7, <2>3, SameNumbers
    <3>2. Language!Becomes(<<Language!Wrap(Language!Remainder(Language!Signed(a), Language!Signed(b))),
                             Language!Wrap(Language!Quotient(Language!Signed(a), Language!Signed(b)))>> \o Language!Drop(2))
      BY <1>8, <2>3, SameNumbers
    <3> QED BY <2>3, <3>1, <3>2 DEF Language!Binary
  <2>4. CASE o \in {"or", "&"}
    <3>1. Done(IF o = "or" THEN BitOr(a, b) ELSE BitAnd(a, b))
      BY <1>5, <2>4 DEF Calculated
    <3>2. BitOr(a, b) \in MachineWord /\ BitAnd(a, b) \in MachineWord
      BY <1>1, BitwiseType, WordIsWrapped
    <3>3. Done(Language!Wrap(IF o = "or" THEN Language!BitOr(a, b) ELSE Language!BitAnd(a, b)))
      BY <3>1, <3>2, SameNumbers, WordIsWrapped
    <3> QED BY <2>4, <3>3 DEF Language!Binary
  <2>5. CASE o \in Comparisons
    <3>1. Calculated(o, a, b) = IF Truth(o, Signed(a), Signed(b)) THEN 1 ELSE 0
      BY <2>5 DEF Calculated, Comparisons
    <3>2. Wrap(1) = 1 /\ Wrap(0) = 0
      <4>1. 1 \in MachineWord /\ 0 \in MachineWord
        BY WordSizeFacts DEF MachineWord
      <4> QED BY <4>1, WordIsWrapped
    <3>3. Done(Language!Wrap(IF Truth(o, Language!Signed(a), Language!Signed(b)) THEN 1 ELSE 0))
      BY <1>5, <2>5, <3>1, <3>2, SameNumbers DEF Comparisons
    <3> QED BY <2>5, <3>3 DEF Language!Binary, Truth, Comparisons
  <2> QED BY <2>1, <2>2, <2>3, <2>4, <2>5 DEF Arithmetic
<1> QED BY <1>9 DEF Language!Execute

LEMMA ShuffleExecutes ==
  ASSUME NEW s, NEW t, WordDone(s, t), now \in Word, OperatorFits(now), now.head = "id",
         now.name \in {"pop", "copy", "swap"},
         DoesShuffle(now, s, t)
  PROVE  Language!Execute
PROOF
<1> DEFINE k == seen.stack
<1>0. s.stack = k /\ k \in Seq(MachineWord) /\ Language!this = now
  BY DEF WordDone, Language!this, now
<1>1. \A n : Language!Op(n) <=> now.name = n
  BY DEF Language!Op, Language!Named, now
<1>2. /\ \A n, d : Language!Given(n, d) = Param(now.params, n, d)
      /\ \A n : Language!V(n) = k[n + 1]
      /\ \A n : Language!Has(n) <=> Len(k) >= n
  BY <1>0 DEF Language!Given, Param, Language!V, Language!Has
<1>3. CASE now.name = "pop"
  <2>1. Len(k) >= 1 /\ Leaves(s, t, Language!Drop(1))
    BY <1>0, <1>3 DEF DoesShuffle, Rest, Language!Drop
  <2>2. Language!Becomes(Language!Drop(1))
    BY <2>1, BecomesIs
  <2>3. Language!Pop
    BY <1>1, <1>2, <1>3, <2>1, <2>2 DEF Language!Pop
  <2> QED BY <2>3 DEF Language!Execute
<1>4. CASE now.name = "copy"
  <2> DEFINE n == Param(now.params, 1, 0)
             count == Param(now.params, 2, 1)
  <2>1. n < Len(k) /\ Leaves(s, t, [x \in 1 .. count |-> k[n + 1]] \o k)
    BY <1>0, <1>4 DEF DoesShuffle
  <2>2. Language!Becomes([x \in 1 .. count |-> Language!V(n)] \o k)
    BY <1>2, <2>1, BecomesIs
  <2>3. n \in Nat
    BY <1>4, ShuffleParameters
  <2>4. Len(k) >= n + 1
    BY <1>0, <2>1, <2>3
  <2>5. Language!Copy
    BY <1>1, <1>2, <1>4, <2>2, <2>4 DEF Language!Copy
  <2> QED BY <2>5 DEF Language!Execute
<1>5. CASE now.name = "swap"
  <2> DEFINE n == Param(now.params, 1, 1)
             m == Param(now.params, 2, 0)
  <2>1. /\ n < Len(k) /\ m < Len(k)
        /\ Leaves(s, t, [k EXCEPT ![n + 1] = k[m + 1], ![m + 1] = k[n + 1]])
    BY <1>0, <1>5 DEF DoesShuffle
  <2>2. Language!Becomes([k EXCEPT ![n + 1] = Language!V(m), ![m + 1] = Language!V(n)])
    BY <1>2, <2>1, BecomesIs
  <2>3. n \in Nat /\ m \in Nat
    BY <1>5, ShuffleParameters
  <2>4. Len(k) >= n + 1 /\ Len(k) >= m + 1
    BY <1>0, <2>1, <2>3
  <2>5. Language!Swap
    BY <1>1, <1>2, <1>5, <2>2, <2>4 DEF Language!Swap
  <2> QED BY <2>5 DEF Language!Execute
<1> QED BY <1>3, <1>4, <1>5

\* A word that is not undefined has what it takes.
LEMMA TransferDefined ==
  ASSUME ~Language!Undefined, now.head = "id"
  PROVE  /\ now.name = "get" => Len(seen.stack) >= 1 /\ Mapped(ProgramMemory, seen.stack[1], now.params[1])
         /\ now.name = "set" => Len(seen.stack) >= 2 /\ Mapped(ProgramMemory, seen.stack[2], now.params[1])
PROOF
<1>1. \A n : Language!Op(n) <=> now.name = n
  BY DEF Language!Op, Language!Named, now
<1>2. /\ Language!this = now /\ Language!V(0) = seen.stack[1] /\ Language!V(1) = seen.stack[2]
      /\ \A n : Language!Has(n) <=> Len(seen.stack) >= n
  <2>1. 0 + 1 = 1 /\ 1 + 1 = 2
    OBVIOUS
  <2> QED BY <2>1 DEF Language!this, now, Language!V, Language!Has
<1>3. ASSUME now.name = "get"
      PROVE  Len(seen.stack) >= 1 /\ Mapped(ProgramMemory, seen.stack[1], now.params[1])
  BY <1>1, <1>2, <1>3, SameNumbers DEF Language!Undefined
<1>4. ASSUME now.name = "set"
      PROVE  Len(seen.stack) >= 2 /\ Mapped(ProgramMemory, seen.stack[2], now.params[1])
  BY <1>1, <1>2, <1>4, SameNumbers DEF Language!Undefined
<1> QED BY <1>3, <1>4

\* What lies outside call_stack is the same in the memory of the program.
LEMMA LoadSame ==
  ASSUME NEW a, NEW n, Mapped(ProgramMemory, a, n)
  PROVE  Load(ProgramMemory, a, n) = Load(seen.mem, a, n)
PROOF
<1>1. \A i \in 0 .. n - 1 : ProgramMemory[a + i] = seen.mem[a + i]
  BY DEF Mapped, ProgramMemory
<1>2. [i \in 0 .. n - 1 |-> ProgramMemory[a + i]] = [i \in 0 .. n - 1 |-> seen.mem[a + i]]
  BY <1>1
<1> QED BY <1>2 DEF Load

LEMMA TransferExecutes ==
  ASSUME NEW s, NEW t, WordDone(s, t), now.head = "id", now.name \in {"get", "set"},
         DoesTransfer(now, s, t), ~Language!Undefined
  PROVE  Language!Execute
PROOF
<1> DEFINE k == seen.stack
           n == now.params[1]
<1>0. s.stack = k /\ s.mem = seen.mem /\ Language!this = now
  BY DEF WordDone, Language!this, now
<1>1. \A x : Language!Op(x) <=> now.name = x
  BY DEF Language!Op, Language!Named, now
<1>2. /\ Language!V(0) = k[1] /\ Language!V(1) = k[2] /\ \A x : Language!Has(x) <=> Len(k) >= x
      /\ Language!Drop(1) = Rest(s, 1) /\ Language!Drop(2) = Rest(s, 2)
  <2>1. 0 + 1 = 1 /\ 1 + 1 = 2
    OBVIOUS
  <2> QED BY <1>0, <2>1 DEF Language!V, Language!Has, Language!Drop, Rest
<1>3. CASE now.name = "get"
  <2>1. Len(k) >= 1 /\ Mapped(ProgramMemory, k[1], n)
    BY <1>3, TransferDefined
  <2>2. Load(ProgramMemory, k[1], n) = Load(s.mem, k[1], n)
    BY <1>0, <2>1, LoadSame
  <2>3. Leaves(s, t, <<Load(ProgramMemory, k[1], n)>> \o Rest(s, 1))
    BY <1>0, <1>3, <2>2 DEF DoesTransfer
  <2>4. Language!Becomes(<<Language!Load(ProgramMemory, Language!V(0), n)>> \o Language!Drop(1))
    BY <1>2, <2>3, BecomesIs, SameNumbers
  <2>5. Language!Mapped(ProgramMemory, Language!V(0), n)
    BY <1>2, <2>1, SameNumbers
  <2>6. Language!Get
    BY <1>0, <1>1, <1>2, <1>3, <2>1, <2>4, <2>5 DEF Language!Get
  <2> QED BY <2>6 DEF Language!Execute
<1>4. CASE now.name = "set"
  <2>1. Len(k) >= 2 /\ Mapped(ProgramMemory, k[2], n)
    BY <1>4, TransferDefined
  <2>2. seen'.mem = Store(seen.mem, k[2], k[1], n) /\ seen'.stack = Rest(s, 2)
    BY <1>0, <1>4 DEF DoesTransfer, WordDone
  <2>3. ProgramMemory' = Store(ProgramMemory, k[2], k[1], n)
    <3> DEFINE d == Digits(k[1], n)
    <3>1. /\ DOMAIN seen'.mem = DOMAIN seen.mem
          /\ \A b \in DOMAIN seen.mem : seen'.mem[b] = IF b \in k[2] .. k[2] + n - 1 THEN d[b - k[2]] ELSE seen.mem[b]
      BY <2>2 DEF Store
    <3>2. \A b : IsCallStack(b)' <=> IsCallStack(b)
      BY DEF WordDone, IsCallStack, CallStack
    <3> HIDE DEF d
    <3>3. ProgramMemory' = [b \in DOMAIN ProgramMemory |-> IF b \in k[2] .. k[2] + n - 1 THEN d[b - k[2]] ELSE ProgramMemory[b]]
      BY <3>1, <3>2 DEF ProgramMemory
    <3> QED BY <3>3 DEF Store, d
  <2>4. ProgramMemory' = Language!Store(ProgramMemory, Language!V(1), Language!V(0), n)
    BY <1>2, <2>3, SameNumbers
  <2>5. Language!Mapped(ProgramMemory, Language!V(1), n)
    BY <1>2, <2>1, SameNumbers
  <2>6. Language!Set
    BY <1>0, <1>1, <1>2, <1>4, <2>1, <2>2, <2>4, <2>5 DEF Language!Set, Language!Go, WordDone, Onward
  <2> QED BY <2>6 DEF Language!Execute
<1> QED BY <1>3, <1>4

\* A word that calculates and has done what its code says has taken the step
\* that README.md says of it (README.md:18-42).
LEMMA WordExecutes ==
  ASSUME NEW s, NEW t, WordDone(s, t), now \in Word, OperatorFits(now), Calculates(now), Means(now),
         Does(now, s, t), ~Language!Undefined,
         Divides(now) => Signed(Language!V(0)) >= 0 /\ Signed(Language!V(1)) >= 0
  PROVE  Language!Execute
PROOF
<1>1. CASE now.head \in {"int", "$", "@", "str"}
  BY <1>1, PushExecutes DEF Does
<1>2. CASE now.head = "id"
  <2>1. CASE now.name \in Arithmetic \cup Comparisons
    BY <1>2, <2>1, BinaryExecutes DEF Does
  <2>2. CASE now.name \in {"pop", "copy", "swap"}
    BY <1>2, <2>2, ShuffleExecutes DEF Does
  <2>3. CASE now.name \in {"get", "set"}
    BY <1>2, <2>3, TransferExecutes DEF Does
  <2> QED BY <1>2, <2>1, <2>2, <2>3 DEF Calculates, Operators, WithParams, Structure
<1> QED BY <1>1, <1>2 DEF Calculates

-----------------------------------------------------------------------------
(***************************************************************************)
(* The code of a word in the text, and the machine on its way through it.  *)
(***************************************************************************)
\* A line of the code of a word that calculates: the machine goes on with the
\* next one.
Goes(l) ==
  \/ l.ins \in {"PUSH", "POP", "MOV", "LEA", "MUL", "DIV", "CMP",
                "SETE", "SETNE", "SETL", "SETG", "SETLE", "SETGE"}
  \/ l.ins \in {"ADD", "SUB", "AND", "OR", "XOR"} /\ l.d = Reg(l.d.v) /\ l.d.v \in Working

\* The names of the word are known.
Known(w) == /\ w.head = "$" => const_labels[w.name] = Language!Const(w.name)
            /\ w.head = "@" => w.name \in memory_segments
            /\ w.head = "str" => w.params \in ToSet(strings)

\* The word of the .loc at i calculates.
Calm(i) == i \in DOMAIN text /\ text[i].ins = "LOC" /\ Calculates(src[text[i].word])

\* The code of the word follows its .loc, and then the next word.
Follows(i, p, w, c) ==
  /\ i \in DOMAIN text /\ text[i] = Loc(p) /\ Len(c) \in Nat /\ i \in Nat /\ p \in Nat
  /\ w \in Word /\ OperatorFits(w) /\ Known(w) /\ Addressed(w)
  /\ \A j \in 1 .. Len(c) : i + j \in DOMAIN text /\ text[i + j] = c[j] /\ Goes(c[j])
  /\ AtWord(i + Len(c) + 1) /\ WordOf(i + Len(c) + 1) = p + 1
LaidOut(i) == Follows(i, text[i].word, src[text[i].word], CodeOf(src[text[i].word]))

\* Since seen, the machine has run one line after the other.
Way(k, t) ==
  /\ ip = seen.ip + k
  /\ \A j \in 1 .. k : ~AtWord(seen.ip + j)
  /\ t[0].stack = seen.stack /\ t[0].mem = seen.mem /\ t[0].regs["R12"] = seen.r12 /\ Good(t[0])
  /\ t[k] = Here
  /\ \A j \in 1 .. k : Runs(symbols, text[seen.ip + (j - 1)], t[j - 1], t[j])
  /\ trace = seen.trace
OnTheWay == \E k \in Nat : \E t : Way(k, t)

\* The lines of a word that calculates go on to the next line.
LEMMA LineGoes ==
  ASSUME Steps, line.ins = "LOC" \/ Goes(line)
  PROVE  GoesOn
PROOF
<1>1. CASE line.ins \in {"LOC", "PUSH", "POP", "MOV", "LEA"}
  BY <1>1, LocSteps, PushSteps, PopSteps, MovSteps, LeaSteps
<1>2. CASE line.ins \in {"ADD", "SUB", "AND", "OR", "XOR"}
  <2>1. line.d.v # "RSP"
    BY <1>2 DEF Goes, Working
  <2> QED BY <1>2, <2>1, AluSteps, LineSteps DEF Alu, GoesOn, Advance, Goto
<1>3. CASE line.ins \in {"MUL", "DIV", "CMP", "SETE", "SETNE", "SETL", "SETG", "SETLE", "SETGE"}
  <2>1. Mul \/ Div \/ Cmp \/ SetByte
    BY <1>3, OtherSteps
  <2> QED BY <2>1, LineSteps DEF Steps, Mul, Div, Cmp, SetByte, GoesOn, Advance, Goto, Stop
<1> QED BY <1>1, <1>2, <1>3 DEF Goes

\* No line of the code of a word starts a word.
LEMMA GoesIsNoWord ==
  ASSUME NEW i, i \in DOMAIN text => Goes(text[i])
  PROVE  ~AtWord(i)
PROOF
BY DEF AtWord, IsEpilogue, Goes, Working, Reg

\* How far the machine may be.
LEMMA WayEnds ==
  ASSUME NEW k \in Nat, NEW t, Way(k, t), LaidOut(seen.ip)
  PROVE  LET c == CodeOf(src[text[seen.ip].word]) IN
         /\ k <= Len(c)
         /\ ip \in DOMAIN text => line.ins = "LOC" \/ Goes(line)
         /\ ip \in DOMAIN text /\ ip + 1 = seen.ip + (k + 1)
         /\ AtWord(ip + 1) <=> k = Len(c)
PROOF
<1> DEFINE p == text[seen.ip].word
           w == src[p]
           c == CodeOf(w)
           n == Len(c)
           i == seen.ip
<1>1. Follows(i, p, w, c)
  BY DEF LaidOut
<1> HIDE DEF p, w, c
<1>2. /\ n \in Nat /\ i \in Nat /\ AtWord(i + n + 1) /\ ip = i + k
      /\ \A j \in 1 .. k : ~AtWord(i + j)
      /\ \A j \in 1 .. n : i + j \in DOMAIN text /\ Goes(text[i + j])
      /\ text[i] = Loc(p) /\ i \in DOMAIN text
  BY <1>1 DEF Follows, Way
<1> HIDE DEF n, i
<1>3. k <= n
  <2> SUFFICES ASSUME k > n PROVE FALSE
    BY <1>2
  <2>1. n + 1 \in 1 .. k /\ i + (n + 1) = i + n + 1
    BY <1>2
  <2> QED BY <1>2, <2>1
<1>4. ip + 1 = i + (k + 1)
  BY <1>2
<1>5. AtWord(ip + 1) <=> k = n
  <2>1. CASE k = n
    <3>1. ip + 1 = i + n + 1
      BY <1>2, <2>1
    <3> QED BY <1>2, <2>1, <3>1
  <2>2. CASE k # n
    <3>1. k + 1 \in 1 .. n
      BY <1>2, <1>3, <2>2
    <3>2. ~AtWord(i + (k + 1))
      BY <1>2, <3>1, GoesIsNoWord
    <3> QED BY <1>4, <2>2, <3>2
  <2> QED BY <2>1, <2>2
<1>6. ip \in DOMAIN text /\ (line.ins = "LOC" \/ Goes(line))
  <2>1. CASE k = 0
    <3>1. ip = i /\ line = Loc(p)
      BY <1>2, <2>1 DEF line
    <3> QED BY <1>2, <3>1 DEF Loc
  <2>2. CASE k # 0
    <3>1. k \in 1 .. n
      BY <1>3, <2>2, <1>2
    <3> QED BY <1>2, <3>1 DEF line
  <2> QED BY <2>1, <2>2
<1> QED BY <1>3, <1>4, <1>5, <1>6 DEF c, w, p, n, i

-----------------------------------------------------------------------------
(***************************************************************************)
(* The machine stays on the way.                                           *)
(***************************************************************************)
LEMMA WayStarts ==
  ASSUME Good(Here)', AtWord(ip'), seen' = Snapshot', ip' \in Nat
  PROVE  OnTheWay'
PROOF
<1>0. PICK t : t = [j \in {0} |-> Here']
  OBVIOUS
<1>1. seen'.ip = ip' /\ seen'.stack = stack' /\ seen'.mem = mem' /\ seen'.r12 = regs'["R12"] /\ seen'.trace = trace'
  BY DEF Snapshot
<1>2. t[0] = Here' /\ Here'.stack = stack' /\ Here'.mem = mem' /\ Here'.regs = regs'
  BY <1>0 DEF Here, State
<1>3. ip' = ip' + 0
  <2>1. \A x \in Nat : x = x + 0
    OBVIOUS
  <2>2. ip' \in Nat
    OBVIOUS
  <2> QED BY <2>1, <2>2
<1>4. Way(0, t)'
  <2>1. 1 .. 0 = {}
    OBVIOUS
  <2>2. ip' = seen'.ip + 0
    BY <1>1, <1>3
  <2>3. Good(t[0])'
    BY <1>2 DEF Good
  <2>4. t[0].stack = seen'.stack /\ t[0].mem = seen'.mem /\ t[0].regs["R12"] = seen'.r12 /\ t[0] = Here' /\ trace' = seen'.trace
    BY <1>1, <1>2
  <2> QED BY <2>1, <2>2, <2>3, <2>4 DEF Way
<1>5. 0 \in Nat
  OBVIOUS
<1> QED BY <1>5, <1>4 DEF OnTheWay

\* The machine is one line further on its way through the code of the word it
\* is at.
LEMMA WayGoesOn ==
  ASSUME NEW k \in Nat, NEW t, Way(k, t), LaidOut(seen.ip), Steps
  PROVE  LET u == [j \in 0 .. k + 1 |-> IF j <= k THEN t[j] ELSE Here']
         IN /\ GoesOn /\ u[0] = t[0] /\ u[k + 1] = Here'
            /\ \A j \in 1 .. k + 1 : Runs(symbols, text[seen.ip + (j - 1)], u[j - 1], u[j])
PROOF
<1> DEFINE u == [j \in 0 .. k + 1 |-> IF j <= k THEN t[j] ELSE Here']
<1>1. GoesOn
  BY WayEnds, LineGoes
<1>2. u[0] = t[0] /\ u[k + 1] = Here' /\ \A j \in 0 .. k : u[j] = t[j]
  OBVIOUS
<1>3. t[k] = Here /\ ip = seen.ip + k
  BY DEF Way
<1>4. Runs(symbols, line, Here, Here')
  BY StepRuns
<1> HIDE DEF u
<1>5. \A j \in 1 .. k + 1 : Runs(symbols, text[seen.ip + (j - 1)], u[j - 1], u[j])
  <2> SUFFICES ASSUME NEW j \in 1 .. k + 1 PROVE Runs(symbols, text[seen.ip + (j - 1)], u[j - 1], u[j])
    OBVIOUS
  <2>1. CASE j = k + 1
    <3>1. j - 1 = k /\ k \in 0 .. k
      BY <2>1
    <3>2. text[seen.ip + (j - 1)] = line /\ u[j - 1] = Here /\ u[j] = Here'
      BY <1>2, <1>3, <2>1, <3>1 DEF line
    <3> QED BY <1>4, <3>2
  <2>2. CASE j # k + 1
    <3>1. j \in 1 .. k /\ j - 1 \in 0 .. k /\ j \in 0 .. k
      BY <2>2
    <3>2. Runs(symbols, text[seen.ip + (j - 1)], t[j - 1], t[j])
      BY <3>1 DEF Way
    <3> QED BY <1>2, <3>1, <3>2
  <2> QED BY <2>1, <2>2
<1> QED BY <1>1, <1>2, <1>5 DEF u

LEMMA WayStays ==
  ASSUME OnTheWay, LaidOut(seen.ip), Steps, ~AtWord(ip'), seen' = seen
  PROVE  OnTheWay'
PROOF
<1>0k. PICK k \in Nat : \E t : Way(k, t)
  BY DEF OnTheWay
<1>1. PICK t : Way(k, t)
  BY <1>0k
<1> DEFINE u == [j \in 0 .. k + 1 |-> IF j <= k THEN t[j] ELSE Here']
<1>2. /\ GoesOn /\ u[0] = t[0] /\ u[k + 1] = Here'
      /\ \A j \in 1 .. k + 1 : Runs(symbols, text[seen.ip + (j - 1)], u[j - 1], u[j])
  BY <1>1, WayGoesOn
<1>0. PICK v : v = u
  OBVIOUS
<1> HIDE DEF u
<1>3. ip' = seen.ip + (k + 1) /\ UNCHANGED <<text, symbols, trace>>
  BY <1>1, <1>2, WayEnds DEF GoesOn
<1>4. \A j : AtWord(j)' <=> AtWord(j)
  BY <1>3 DEF AtWord, IsEpilogue
<1>5. \A j \in 1 .. k + 1 : ~AtWord(seen.ip + j)
  <2> SUFFICES ASSUME NEW j \in 1 .. k + 1 PROVE ~AtWord(seen.ip + j)
    OBVIOUS
  <2>1. j = k + 1 \/ j \in 1 .. k
    OBVIOUS
  <2> QED BY <1>1, <1>3, <2>1 DEF Way
<1>6. Way(k + 1, v)'
  <2>1. /\ v[0].stack = seen'.stack /\ v[0].mem = seen'.mem /\ v[0].regs["R12"] = seen'.r12 /\ Good(v[0])
        /\ trace' = seen'.trace /\ v[k + 1] = Here'
    BY <1>0, <1>1, <1>2, <1>3 DEF Way
  <2>2. /\ ip' = seen'.ip + (k + 1) /\ \A j \in 1 .. k + 1 : ~AtWord(seen.ip + j)'
    BY <1>3, <1>4, <1>5
  <2>3. \A j \in 1 .. k + 1 : Runs(symbols', text'[seen'.ip + (j - 1)], v[j - 1], v[j])
    BY <1>0, <1>2, <1>3
  <2>4. Good(v[0])'
    BY <2>1 DEF Good
  <2> QED BY <2>1, <2>2, <2>3, <2>4 DEF Way
<1>7. k + 1 \in Nat
  OBVIOUS
<1> QED BY <1>6, <1>7 DEF OnTheWay

\* At the next word, the code of this one has been run.
LEMMA WayDone ==
  ASSUME OnTheWay, LaidOut(seen.ip), Steps, AtWord(ip')
  PROVE  LET c == CodeOf(src[text[seen.ip].word]) IN
         /\ GoesOn /\ ip' = seen.ip + Len(c) + 1 /\ trace = seen.trace
         /\ \E s : /\ Ran(symbols, c, s) /\ s[Len(c)] = Here' /\ Good(s[0])
                   /\ s[0].stack = seen.stack /\ s[0].mem = seen.mem /\ s[0].regs["R12"] = seen.r12
PROOF
<1> DEFINE p == text[seen.ip].word
           c == CodeOf(src[p])
           n == Len(c)
<1>0k. PICK k \in Nat : \E t : Way(k, t)
  BY DEF OnTheWay
<1>1. PICK t : Way(k, t)
  BY <1>0k
<1> DEFINE u == [j \in 0 .. k + 1 |-> IF j <= k THEN t[j] ELSE Here']
           s == [j \in 0 .. k |-> u[j + 1]]
<1>2. /\ GoesOn /\ u[0] = t[0] /\ u[k + 1] = Here'
      /\ \A j \in 1 .. k + 1 : Runs(symbols, text[seen.ip + (j - 1)], u[j - 1], u[j])
  BY <1>1, WayGoesOn
<1>3. Follows(seen.ip, p, src[p], c)
  BY DEF LaidOut
<1>4. k = n /\ ip' = seen.ip + (k + 1)
  <2>1. k <= n /\ ip + 1 = seen.ip + (k + 1) /\ (AtWord(ip + 1) <=> k = n)
    BY <1>1, WayEnds
  <2> QED BY <1>2, <2>1 DEF GoesOn
<1> HIDE DEF u, p, c
<1>5. s[0] = u[1] /\ s[k] = Here' /\ \A j \in 0 .. k : s[j] = u[j + 1]
  BY <1>2
<1> HIDE DEF s
<1>6. s[0] = t[0]
  <2>1. Runs(symbols, text[seen.ip + (1 - 1)], u[1 - 1], u[1])
    <3>1. 1 \in 1 .. k + 1
      OBVIOUS
    <3> QED BY <1>2, <3>1
  <2>2. 1 - 1 = 0 /\ seen.ip + 0 = seen.ip /\ text[seen.ip] = Loc(p)
    BY <1>3 DEF Follows
  <2>3. Runs(symbols, Loc(p), u[0], u[1])
    BY <2>1, <2>2
  <2> QED BY <1>2, <1>5, <2>3 DEF Runs
<1>7. Ran(symbols, c, s)
  <2> SUFFICES ASSUME NEW j \in 1 .. n PROVE Runs(symbols, c[j], s[j - 1], s[j])
    BY DEF Ran
  <2>1. j + 1 \in 1 .. k + 1 /\ (j + 1) - 1 = j /\ j - 1 \in 0 .. k /\ j \in 0 .. k /\ (j - 1) + 1 = j
    BY <1>4
  <2>2. Runs(symbols, text[seen.ip + j], u[j], u[j + 1])
    BY <1>2, <2>1
  <2>3. text[seen.ip + j] = c[j]
    BY <1>3 DEF Follows
  <2> QED BY <1>5, <2>1, <2>2, <2>3
<1>8. ip' = seen.ip + n + 1
  BY <1>3, <1>4 DEF Follows
<1>9. trace = seen.trace /\ Good(s[0]) /\ s[0].stack = seen.stack /\ s[0].mem = seen.mem /\ s[0].regs["R12"] = seen.r12
  BY <1>1, <1>6 DEF Way
<1> QED BY <1>2, <1>4, <1>5, <1>7, <1>8, <1>9 DEF c, p

-----------------------------------------------------------------------------
(***************************************************************************)
(* A word that calculates leaves the places where the functions go on.     *)
(***************************************************************************)
CallStackMapped == /\ CallStack \in Int
                   /\ \A a \in CallStack .. CallStack + CallStackBytes - 1 : a \in DOMAIN seen.mem

\* What lies in call_stack is not changed.
CallStackKept ==
  \A b \in CallStack .. CallStack + CallStackBytes - 1 : seen'.mem[b] = seen.mem[b]

\* What a program stores in memory of its own leaves call_stack alone.
LEMMA StoreSpares ==
  ASSUME NEW a, NEW v, NEW n, Mapped(ProgramMemory, a, n), CallStackMapped,
         a \in Int, n \in Nat, seen'.mem = Store(seen.mem, a, v, n)
  PROVE  CallStackKept
PROOF
<1> SUFFICES ASSUME NEW b \in CallStack .. CallStack + CallStackBytes - 1
             PROVE  seen'.mem[b] = seen.mem[b]
  BY DEF CallStackKept
<1>1. b \in DOMAIN seen.mem /\ b \in Int
  BY CallStackAssumption DEF CallStackMapped
<1>2. b \notin a .. a + n - 1
  <2> SUFFICES ASSUME b \in a .. a + n - 1 PROVE FALSE
    OBVIOUS
  <2>1. b - a \in 0 .. n - 1 /\ a + (b - a) = b
    BY <1>1
  <2>2. b \in DOMAIN ProgramMemory
    BY <2>1 DEF Mapped
  <2> QED BY <2>2 DEF ProgramMemory, IsCallStack
<1> QED BY <1>1, <1>2 DEF Store

\* While call_stack and R12 stay, the places the program will return to stay.
LEMMA FramesKept ==
  ASSUME Linked, Linked', CallStackMapped, CallStackKept, UNCHANGED <<text, symbols, src>>,
         seen'.r12 = seen.r12, seen.r12 \in Int, seen.r12 <= CallStack + CallStackBytes
  PROVE  ProgramFrames' = ProgramFrames
PROOF
<1>0. CallStack \in Int /\ CallStackBytes \in Nat
  BY CallStackAssumption DEF CallStackMapped
<1>1. CallStack' = CallStack /\ Depth' = Depth
  BY DEF CallStack, Depth
<1>2. Depth \in Int /\ 8 * Depth <= seen.r12 - CallStack
  <2> DEFINE x == seen.r12 - CallStack
  <2>1. x \in Int
    BY <1>0
  <2> HIDE DEF x
  <2>2. x \div 8 \in Int /\ 8 * (x \div 8) <= x
    BY <2>1
  <2> QED BY <2>2 DEF Depth, x
<1>3. ASSUME NEW i \in 1 .. Depth - 1 PROVE ReturnWord(Depth - i + 1)' = ReturnWord(Depth - i + 1)
  <2>0. PICK n : n = Depth - i + 1
    OBVIOUS
  <2>1. n \in 2 .. Depth
    BY <1>2, <2>0
  <2> DEFINE a == CallStack + 8 * (n - 1)
  <2>2. \A j \in 0 .. 8 - 1 : a + j \in CallStack .. CallStack + CallStackBytes - 1
    BY <1>0, <1>2, <2>1
  <2>3. \A j \in 0 .. 8 - 1 : seen'.mem[a + j] = seen.mem[a + j]
    BY <2>2 DEF CallStackKept
  <2>4. Load(seen'.mem, a, 8) = Load(seen.mem, a, 8)
    <3>1. [j \in 0 .. 8 - 1 |-> seen'.mem[a + j]] = [j \in 0 .. 8 - 1 |-> seen.mem[a + j]]
      BY <2>3
    <3> QED BY <3>1 DEF Load
  <2>5. ReturnPlace(n)' = ReturnPlace(n)
    BY <1>1, <2>4 DEF ReturnPlace
  <2>6. PICK q : q = ReturnPlace(n)
    OBVIOUS
  <2>7. (AtWord(q)' <=> AtWord(q)) /\ WordOf(q)' = WordOf(q)
    BY DEF AtWord, WordOf, IsEpilogue, FunctionAt, EndOf
  <2>8. ReturnWord(n) = IF AtWord(q) THEN WordOf(q) ELSE 0
    BY <2>6 DEF ReturnWord
  <2>9. ReturnWord(n)' = IF AtWord(q)' THEN WordOf(q)' ELSE 0
    BY <2>5, <2>6 DEF ReturnWord
  <2>10. Depth' - i + 1 = n
    BY <1>1, <2>0
  <2> QED BY <2>0, <2>7, <2>8, <2>9, <2>10
<1> QED BY <1>1, <1>3 DEF ProgramFrames

-----------------------------------------------------------------------------
(***************************************************************************)
(* From one word to the next.                                              *)
(***************************************************************************)
\* What a word does to the memory and to R12.
LEMMA MemoryKept ==
  ASSUME NEW w \in Word, Calculates(w), NEW s, NEW t, Does(w, s, t)
  PROVE  t.regs["R12"] = s.regs["R12"] /\ (t.mem # s.mem => w.head = "id" /\ w.name = "set")
PROOF
<1>1. CASE w.head \in {"int", "$", "@", "str"}
  BY <1>1 DEF Does, DoesPush, Leaves
<1>2. CASE w.head = "id"
  <2>1. CASE w.name \in Arithmetic \cup Comparisons
    <3>1. DoesBinary(w.name, s, t)
      BY <1>2, <2>1 DEF Does
    <3> QED BY <3>1 DEF DoesBinary, Leaves
  <2>2. CASE w.name \in {"pop", "copy", "swap"}
    <3>1. DoesShuffle(w, s, t)
      BY <1>2 DEF Does
    <3> QED BY <2>2, <3>1 DEF DoesShuffle, Leaves
  <2>3. CASE w.name \in {"get", "set"}
    <3>1. DoesTransfer(w, s, t)
      BY <1>2 DEF Does
    <3> QED BY <1>2, <2>3, <3>1 DEF DoesTransfer, Leaves
  <2> QED BY <1>2, <2>1, <2>2, <2>3 DEF Calculates, Operators, WithParams, Structure
<1> QED BY <1>1, <1>2 DEF Calculates

\* The names that are known mean what the language says.
LEMMA KnownMeans ==
  ASSUME NEW w, Known(w), Linked
  PROVE  Means(w)
PROOF
<1>1. ASSUME w.head = "@" PROVE ProgramBase[<<"mem", w.name>>] = symbols[Parts(w.name)]
  <2> DEFINE o == <<"mem", w.name>>
  <2>1. o \in ObjectsOfProgram
    BY <1>1 DEF Known, ObjectsOfProgram
  <2>2. SymbolOf(o) = Parts(w.name)
    BY DEF SymbolOf
  <2> QED BY <2>1, <2>2 DEF ProgramBase
<1>2. ASSUME w.head = "str"
      PROVE  ProgramBase[<<"str", w.params>>] = symbols[StringLabel(StringNumber(w.params))]
  <2> DEFINE o == <<"str", w.params>>
  <2>1. o \in ObjectsOfProgram
    <3>1. PICK i \in DOMAIN strings : strings[i] = w.params
      BY <1>2 DEF Known, ToSet
    <3> QED BY <3>1 DEF ObjectsOfProgram
  <2>2. SymbolOf(o) = StringLabel(StringNumber(w.params))
    <3>1. o[1] # "mem" /\ o[2] = w.params
      OBVIOUS
    <3> QED BY <3>1 DEF SymbolOf
  <2> QED BY <2>1, <2>2 DEF ProgramBase
<1> QED BY <1>1, <1>2 DEF Means, Known

\* What is known of the machine while it is at a word that calculates.
AtWork == /\ OnTheWay /\ LaidOut(seen.ip) /\ Linked /\ Linked'
          /\ CallStackMapped /\ seen.r12 \in Int /\ seen.r12 <= CallStack + CallStackBytes

\* When the machine has come through the code of a word that calculates, the
\* program has taken the step of the word.
LEMMA WordsDo ==
  ASSUME Run, Steps, AtWork, AtWord(ip'), Calculates(now), ~Language!Undefined,
         text[seen.ip].ins = "LOC",
         Divides(now) => Signed(Language!V(0)) >= 0 /\ Signed(Language!V(1)) >= 0
  PROVE  Language!Execute
PROOF
<1> DEFINE p == text[seen.ip].word
           c == CodeOf(now)
<1>0. ProgramAt = p /\ now = src[p]
  BY DEF ProgramAt, WordOf, AtWork, now
<1>1. Follows(seen.ip, p, now, c)
  BY <1>0 DEF AtWork, LaidOut
<1>2. /\ GoesOn /\ ip' = seen.ip + Len(c) + 1 /\ trace = seen.trace
      /\ \E s : /\ Ran(symbols, c, s) /\ s[Len(c)] = Here' /\ Good(s[0])
                /\ s[0].stack = seen.stack /\ s[0].mem = seen.mem /\ s[0].regs["R12"] = seen.r12
  BY <1>0, WayDone DEF AtWork
<1>3. PICK s : /\ Ran(symbols, c, s) /\ s[Len(c)] = Here' /\ Good(s[0])
               /\ s[0].stack = seen.stack /\ s[0].mem = seen.mem /\ s[0].regs["R12"] = seen.r12
  BY <1>2
<1> DEFINE t == s[Len(c)]
<1>4. now \in Word /\ OperatorFits(now) /\ Known(now) /\ Addressed(now)
  BY <1>1 DEF Follows
<1>5. Does(now, s[0], t)
  BY <1>3, <1>4, CodeDoes
<1>6. /\ seen'.ip = ip' /\ seen'.stack = stack' /\ seen'.mem = mem' /\ seen'.r12 = regs'["R12"] /\ seen'.trace = trace'
      /\ UNCHANGED compilerVars /\ UNCHANGED <<text, symbols, trace, power>> /\ power = "running"
  BY <1>2, LineSteps DEF Run, Snapshot, GoesOn
<1>7. t = Here' /\ t.stack = seen'.stack /\ t.mem = seen'.mem /\ t.regs["R12"] = seen'.r12
  BY <1>3, <1>6 DEF Here, State
<1> HIDE DEF t, p
<1>8. t.regs["R12"] = s[0].regs["R12"] /\ (t.mem # s[0].mem => now.head = "id" /\ now.name = "set")
  <2>1. Calculates(now) /\ now \in Word
    BY <1>4
  <2> HIDE DEF c
  <2> QED BY <1>5, <2>1, MemoryKept
<1>9. CallStackKept
  <2>1. CASE t.mem = s[0].mem
    BY <1>3, <1>7, <2>1 DEF CallStackKept
  <2>2. CASE now.head = "id" /\ now.name = "set"
    <3>1. DoesTransfer(now, s[0], t)
      BY <1>5, <2>2 DEF Does
    <3>2. seen'.mem = Store(seen.mem, seen.stack[2], seen.stack[1], now.params[1]) /\ Len(seen.stack) >= 2
      BY <1>3, <1>7, <2>2, <3>1 DEF DoesTransfer
    <3>3. Mapped(ProgramMemory, seen.stack[2], now.params[1])
      BY <2>2, TransferDefined
    <3>4. seen.stack[2] \in Int /\ now.params[1] \in Nat
      <4>1. now.params[1] \in Sizes
        BY <1>4, <2>2, ShuffleParameters
      <4>2. seen.stack \in Seq(MachineWord) /\ 2 \in 1 .. Len(seen.stack)
        BY <1>3, <3>2 DEF Good
      <4>3. seen.stack[2] \in MachineWord
        BY <4>2
      <4> QED BY <4>1, <4>3, WordIsWrapped DEF Sizes
    <3> QED BY <3>2, <3>3, <3>4, StoreSpares DEF AtWork
  <2> QED BY <1>8, <2>1, <2>2
<1>10. ProgramFrames' = ProgramFrames
  BY <1>3, <1>6, <1>7, <1>8, <1>9, FramesKept DEF AtWork, compilerVars
<1>11. ProgramAt' = ProgramAt + 1
  <2>1. PICK i : i = ip'
    OBVIOUS
  <2>2. WordOf(i) = p + 1 /\ i = seen'.ip
    BY <1>1, <1>2, <1>6, <2>1 DEF Follows
  <2>3. WordOf(i)' = WordOf(i)
    BY <1>6 DEF WordOf, IsEpilogue, FunctionAt, EndOf, compilerVars
  <2>4. WordOf(seen.ip)' = p + 1
    BY <2>2, <2>3
  <2> QED BY <1>0, <2>4 DEF ProgramAt, AtWork
<1>12. ProgramStatus' = ProgramStatus /\ ProgramTrace' = ProgramTrace
  BY <1>2, <1>6 DEF ProgramStatus, ProgramTrace, AtWork
<1>13. ProgramBase' = ProgramBase
  <2>1. ObjectsOfProgram' = ObjectsOfProgram
    BY <1>6 DEF ObjectsOfProgram, compilerVars, declVars
  <2>2. \A o : SymbolOf(o)' = SymbolOf(o)
    BY <1>6 DEF SymbolOf, StringLabel, StringNumber, compilerVars
  <2> QED BY <1>6, <2>1, <2>2 DEF ProgramBase, AtWork
<1>14. WordDone(s[0], t)
  <2>1. src' = src
    BY <1>6 DEF compilerVars
  <2> QED BY <1>3, <1>6, <1>7, <1>10, <1>11, <1>12, <1>13, <2>1 DEF WordDone, Onward, Good
<1>15. Means(now)
  BY <1>4, KnownMeans DEF AtWork
<1> QED BY <1>4, <1>5, <1>14, <1>15, WordExecutes

-----------------------------------------------------------------------------
(***************************************************************************)
(* The lines that the compiler writes.                                     *)
(***************************************************************************)
Registers == {Reg(r) : r \in Regs}
Parted == {Reg(r) : r \in Transferred}
Immediates == {Imm(v) : v \in Int}
Slots == {Stk(n) : n \in Nat}
Pointers == {Ptr(r) : r \in Regs}

TypedMove(l) ==
  \/ l.d \in Registers \cup Parted
     /\ l.s \in Registers \cup Parted \cup Immediates \cup Slots \cup Pointers \cup {Reg("RSP")}
  \/ l.d \in Slots \cup Pointers /\ l.s \in Registers \cup Parted
TypedSum(l) ==
  /\ l.d \in Registers \/ (l.ins = "ADD" /\ l.d = Reg("RSP"))
  /\ l.s \in Registers \cup Immediates
TypedLine(l) ==
  \/ l.ins = "PUSH" /\ l.d \in Registers \cup Immediates
  \/ l.ins = "POP" /\ l.d \in Registers
  \/ l.ins = "MOV" /\ TypedMove(l)
  \/ l.ins = "LEA" /\ l.d \in Registers /\ l.s = Lab(l.s.v)
  \/ l.ins \in {"ADD", "SUB", "AND", "OR", "XOR"} /\ TypedSum(l)
  \/ l.ins \in {"MUL", "DIV"} /\ l.d \in Registers
  \/ l.ins \in {"SETE", "SETNE", "SETL", "SETG", "SETLE", "SETGE"} /\ l.d = Reg("AL")
  \/ l.ins \in {"JMP", "JE", "CALL"} /\ l.d = Lab(l.d.v)
  \/ l.ins \in {"CMP", "LABEL", "LOC", "RET", "LEAVE", "SYSCALL"}

\* Code whose lines go on one after the other, but for those of some instructions.
GoesBut(l, others) == TypedLine(l) /\ (Goes(l) \/ l.ins \in others)
GoesOver(code, others) == IsSeq(code) /\ \A l \in ToSet(code) : GoesBut(l, others)

\* Lines that go on, but for some, put together.
LEMMA GoesCode ==
  ASSUME NEW x
  PROVE
  /\ GoesOver(<<>>, x)
  /\ \A a : GoesBut(a, x) => GoesOver(<<a>>, x)
  /\ \A a, b : GoesBut(a, x) /\ GoesBut(b, x) => GoesOver(<<a, b>>, x)
  /\ \A a, b, c : GoesBut(a, x) /\ GoesBut(b, x) /\ GoesBut(c, x)
                  => GoesOver(<<a, b, c>>, x)
  /\ \A a, b, c, d : GoesBut(a, x) /\ GoesBut(b, x) /\ GoesBut(c, x)
                     /\ GoesBut(d, x) => GoesOver(<<a, b, c, d>>, x)
  /\ \A a, b, c, d, e : GoesBut(a, x) /\ GoesBut(b, x) /\ GoesBut(c, x)
                        /\ GoesBut(d, x) /\ GoesBut(e, x)
                        => GoesOver(<<a, b, c, d, e>>, x)
  /\ \A c, d : GoesOver(c, x) /\ GoesOver(d, x) => GoesOver(c \o d, x)
PROOF
<1>1. ASSUME NEW c, NEW d, GoesOver(c, x), GoesOver(d, x) PROVE GoesOver(c \o d, x)
  <2>1. IsSeq(c \o d) /\ ToSet(c \o d) = ToSet(c) \cup ToSet(d)
    BY <1>1, ConcatElems DEF GoesOver
  <2> QED BY <1>1, <2>1 DEF GoesOver
<1> QED BY <1>1, ShortSequences DEF GoesOver

LEMMA GoesTable ==
  ASSUME NEW x, NEW n \in Int, NEW T, \A i \in 1 .. n : GoesBut(T[i], x),
         T = [i \in 1 .. n |-> T[i]]
  PROVE  GoesOver(T, x)
PROOF
<1>1. IsSeq(T)
  <2> DEFINE S == {T[i] : i \in 1 .. n}
  <2>1. CASE n \in Nat
    <3>1. T \in [1 .. n -> S]
      OBVIOUS
    <3>2. T \in Seq(S)
      BY <2>1, <3>1, SeqDef
    <3> QED BY <3>2 DEF IsSeq
  <2>2. CASE n < 0
    <3>1. 1 .. n = {} /\ 1 .. 0 = {}
      BY <2>2
    <3>2. T \in [1 .. 0 -> S]
      BY <3>1
    <3>3. T \in Seq(S)
      BY <3>2, SeqDef
    <3> QED BY <3>3 DEF IsSeq
  <2> QED BY <2>1, <2>2
<1>2. DOMAIN T = 1 .. n
  OBVIOUS
<1> QED BY <1>1, <1>2 DEF GoesOver, ToSet

\* The lines of the code of words, one by one.
LEMMA WordLines ==
  ASSUME NEW x
  PROVE
  /\ \A r \in Regs : GoesBut(PUSH(Reg(r)), x) /\ GoesBut(POP(r), x)
  /\ \A v \in Int : GoesBut(PUSH(Imm(v)), x)
  /\ \A q \in Working, r \in Regs, i \in {"ADD", "SUB", "AND", "OR", "XOR"} :
       GoesBut(I2(i, Reg(q), Reg(r)), x)
  /\ \A r \in Regs : GoesBut(I1("MUL", Reg(r)), x) /\ GoesBut(I1("DIV", Reg(r)), x)
  /\ \A q, r \in Regs : GoesBut(I2("MOV", Reg(q), Reg(r)), x)
  /\ \A q, r \in Regs : GoesBut(I2("CMP", Reg(q), Reg(r)), x)
  /\ \A i \in {"SETE", "SETNE", "SETL", "SETG", "SETLE", "SETGE"} : GoesBut(I1(i, Reg("AL")), x)
  /\ \A r \in Regs, n \in Nat : GoesBut(I2("MOV", Reg(r), Stk(n)), x) /\ GoesBut(I2("MOV", Stk(n), Reg(r)), x)
  /\ \A q \in Transferred, r \in Regs : GoesBut(I2("MOV", Reg(q), Ptr(r)), x) /\ GoesBut(I2("MOV", Ptr(r), Reg(q)), x)
  /\ \A a : \A r \in Regs : GoesBut(I2("LEA", Reg(r), Lab(a)), x)
PROOF
<1>1. \A r \in Regs : Reg(r) \in Registers
  BY DEF Registers
<1>2. \A r \in Transferred : Reg(r) \in Parted
  BY DEF Parted
<1>3. \A v \in Int : Imm(v) \in Immediates
  BY DEF Immediates
<1>4. \A n \in Nat : Stk(n) \in Slots
  BY DEF Slots
<1>5. \A r \in Regs : Ptr(r) \in Pointers
  BY DEF Pointers
<1>6. \A r \in Working : r \in Regs
  BY DEF Working, Regs
<1>7. \A r \in Regs : GoesBut(PUSH(Reg(r)), x) /\ GoesBut(POP(r), x)
  BY <1>1 DEF GoesBut, TypedLine, Goes, PUSH, POP, I1
<1>8. \A v \in Int : GoesBut(PUSH(Imm(v)), x)
  BY <1>3 DEF GoesBut, TypedLine, Goes, PUSH, I1
<1>9. \A q \in Working, r \in Regs, i \in {"ADD", "SUB", "AND", "OR", "XOR"} : GoesBut(I2(i, Reg(q), Reg(r)), x)
  <2> SUFFICES ASSUME NEW q \in Working, NEW r \in Regs, NEW i \in {"ADD", "SUB", "AND", "OR", "XOR"}
               PROVE  GoesBut(I2(i, Reg(q), Reg(r)), x)
    OBVIOUS
  <2>1. Reg(q) \in Registers /\ Reg(r) \in Registers /\ Reg(q) = Reg(Reg(q).v) /\ Reg(q).v \in Working
    BY <1>1, <1>6 DEF Reg
  <2> QED BY <2>1 DEF GoesBut, TypedLine, TypedSum, Goes, I2
<1>10. \A r \in Regs : GoesBut(I1("MUL", Reg(r)), x) /\ GoesBut(I1("DIV", Reg(r)), x)
  BY <1>1 DEF GoesBut, TypedLine, Goes, I1
<1>11. \A q, r \in Regs : GoesBut(I2("MOV", Reg(q), Reg(r)), x)
  BY <1>1 DEF GoesBut, TypedLine, TypedMove, Goes, I2
<1>12. \A q, r \in Regs : GoesBut(I2("CMP", Reg(q), Reg(r)), x)
  BY <1>1 DEF GoesBut, TypedLine, Goes, I2
<1>13. \A i \in {"SETE", "SETNE", "SETL", "SETG", "SETLE", "SETGE"} : GoesBut(I1(i, Reg("AL")), x)
  BY DEF GoesBut, TypedLine, Goes, I1
<1>14. \A r \in Regs, n \in Nat : GoesBut(I2("MOV", Reg(r), Stk(n)), x) /\ GoesBut(I2("MOV", Stk(n), Reg(r)), x)
  BY <1>1, <1>4 DEF GoesBut, TypedLine, TypedMove, Goes, I2
<1>15. \A q \in Transferred, r \in Regs : GoesBut(I2("MOV", Reg(q), Ptr(r)), x) /\ GoesBut(I2("MOV", Ptr(r), Reg(q)), x)
  BY <1>2, <1>5 DEF GoesBut, TypedLine, TypedMove, Goes, I2
<1>16. \A a : \A r \in Regs : GoesBut(I2("LEA", Reg(r), Lab(a)), x)
  BY <1>1 DEF GoesBut, TypedLine, Goes, I2, Lab
<1> QED BY <1>7, <1>8, <1>9, <1>10, <1>11, <1>12, <1>13, <1>14, <1>15, <1>16

\* The code of each word goes on line by line and has no .loc line but its
\* first.
LEMMA ArithmeticGoes ==
  ASSUME NEW o \in Arithmetic
  PROVE  GoesOver(ArithmeticCode(o), {})
PROOF
<1>0. {"RAX", "RBX", "RCX", "RDX"} \subseteq Regs /\ {"RAX", "RBX", "RCX", "RDX"} \subseteq Working
  BY DEF Regs, Working
<1>1. GoesOver(Pop2, {}) /\ GoesOver(PushRAX, {}) /\ GoesOver(DivCode, {})
  <2>1. GoesOver(Pop2, {}) /\ GoesOver(PushRAX, {})
    BY <1>0, GoesCode, WordLines DEF Pop2, PushRAX
  <2>2. GoesBut(I2("XOR", Reg("RDX"), Reg("RDX")), {}) /\ GoesBut(I1("DIV", Reg("RBX")), {})
    BY <1>0, WordLines
  <2> QED BY <2>1, <2>2, GoesCode DEF DivCode
<1>2. \A i \in {"ADD", "SUB", "OR", "AND"} : GoesOver(<<I2(i, Reg("RAX"), Reg("RBX"))>>, {})
  <2> SUFFICES ASSUME NEW i \in {"ADD", "SUB", "OR", "AND"} PROVE GoesOver(<<I2(i, Reg("RAX"), Reg("RBX"))>>, {})
    OBVIOUS
  <2>1. i \in {"ADD", "SUB", "AND", "OR", "XOR"} /\ "RAX" \in Working /\ "RBX" \in Regs
    BY <1>0
  <2>2. GoesBut(I2(i, Reg("RAX"), Reg("RBX")), {})
    BY <2>1, WordLines
  <2> QED BY <2>2, GoesCode
<1>3. /\ GoesOver(<<I1("MUL", Reg("RBX"))>>, {})
      /\ GoesOver(<<I2("MOV", Reg("RAX"), Reg("RDX"))>>, {})
      /\ GoesOver(<<PUSH(Reg("RDX"))>>, {})
  BY <1>0, GoesCode, WordLines
<1>4. \A c, d : GoesOver(c, {}) /\ GoesOver(d, {}) => GoesOver(c \o d, {})
  BY GoesCode
<1>5. CASE o = "+"
  BY <1>1, <1>2, <1>4, <1>5 DEF ArithmeticCode
<1>6. CASE o = "-"
  BY <1>1, <1>2, <1>4, <1>6 DEF ArithmeticCode
<1>7. CASE o = "*"
  BY <1>1, <1>3, <1>4, <1>7 DEF ArithmeticCode
<1>8. CASE o = "/"
  BY <1>1, <1>3, <1>4, <1>8 DEF ArithmeticCode
<1>9. CASE o = "%"
  BY <1>1, <1>3, <1>4, <1>9 DEF ArithmeticCode
<1>10. CASE o = "divmod"
  BY <1>1, <1>3, <1>4, <1>10 DEF ArithmeticCode
<1>11. CASE o = "or"
  BY <1>1, <1>2, <1>4, <1>11 DEF ArithmeticCode
<1>12. CASE o = "&"
  BY <1>1, <1>2, <1>4, <1>12 DEF ArithmeticCode
<1> QED BY <1>5, <1>6, <1>7, <1>8, <1>9, <1>10, <1>11, <1>12 DEF Arithmetic

LEMMA CompareGoes ==
  ASSUME NEW o \in Comparisons
  PROVE  GoesOver(CompareCode(o), {})
PROOF
<1>0. {"RAX", "RBX", "RCX", "RDX"} \subseteq Regs /\ {"RAX", "RBX", "RCX", "RDX"} \subseteq Working
  BY DEF Regs, Working
<1>1. /\ GoesBut(POP("RBX"), {}) /\ GoesBut(POP("RCX"), {}) /\ GoesBut(I2("CMP", Reg("RCX"), Reg("RBX")), {})
      /\ GoesBut(PUSH(Reg("RAX")), {})
  BY <1>0, WordLines
<1>2. GoesBut(I2("XOR", Reg("RAX"), Reg("RAX")), {})
  BY <1>0, WordLines
<1>3. GoesBut(I1(SetInstruction(o), Reg("AL")), {})
  <2>1. SetInstruction(o) \in {"SETE", "SETNE", "SETL", "SETG", "SETLE", "SETGE"}
    BY DEF SetInstruction, Comparisons
  <2> QED BY <2>1, WordLines
<1>4. GoesOver(<<POP("RBX"), POP("RCX"), I2("XOR", Reg("RAX"), Reg("RAX")),
                 I2("CMP", Reg("RCX"), Reg("RBX")), I1(SetInstruction(o), Reg("AL"))>>, {})
  BY <1>1, <1>2, <1>3, GoesCode
<1>5. GoesOver(PushRAX, {})
  BY <1>1, GoesCode DEF PushRAX
<1> QED BY <1>4, <1>5, GoesCode, Zenon DEF CompareCode

LEMMA TransferGoes ==
  /\ \A i, ct \in Nat : GoesOver(CopyCode(i, ct), {})
  /\ \A i, j \in Nat : GoesOver(SwapCode(i, j), {})
  /\ \A n \in 0 .. 6 : GoesOver(SyscallCode(n), {"SYSCALL"})
  /\ \A size \in Sizes : GoesOver(ReadCode(size), {}) /\ GoesOver(WriteCode(size), {})
  /\ \A l : GoesOver(AddressCode(l), {})
PROOF
<1>r. {"RAX", "RBX", "RDI", "RSI", "RDX", "R10", "R8", "R9"} \subseteq Regs /\ "RAX" \in Working
  BY DEF Regs, Working
<1>0. \A x : GoesBut(PUSH(Reg("RAX")), x) /\ GoesOver(PushRAX, x)
  <2> TAKE x
  <2>1. GoesBut(PUSH(Reg("RAX")), x)
    BY <1>r, WordLines
  <2> QED BY <2>1, GoesCode DEF PushRAX
<1>1. ASSUME NEW i \in Nat, NEW ct \in Nat PROVE GoesOver(CopyCode(i, ct), {})
  <2>1. GoesOver(<<I2("MOV", Reg("RAX"), Stk(i * intsize))>>, {})
    <3>1. i * intsize \in Nat
      BY DEF intsize
    <3>2. GoesBut(I2("MOV", Reg("RAX"), Stk(i * intsize)), {})
      BY <1>r, <3>1, WordLines
    <3> QED BY <3>2, GoesCode
  <2>2. GoesOver([k \in 1 .. ct |-> PUSH(Reg("RAX"))], {})
    <3> DEFINE T == [k \in 1 .. ct |-> PUSH(Reg("RAX"))]
    <3>1. T = [k \in 1 .. ct |-> T[k]] /\ \A k \in 1 .. ct : GoesBut(T[k], {})
      BY <1>0
    <3> HIDE DEF T
    <3>2. GoesOver(T, {})
      BY <3>1, GoesTable
    <3> QED BY <3>2 DEF T
  <2> QED BY <2>1, <2>2, GoesCode, Zenon DEF CopyCode
<1>2. ASSUME NEW i \in Nat, NEW j \in Nat PROVE GoesOver(SwapCode(i, j), {})
  <2>1. i * 8 \in Nat /\ j * 8 \in Nat
    OBVIOUS
  <2>2. \A n \in Nat, r \in {"RAX", "RBX"} : GoesBut(I2("MOV", Reg(r), Stk(n)), {}) /\ GoesBut(I2("MOV", Stk(n), Reg(r)), {})
    BY <1>r, WordLines
  <2> QED BY <2>1, <2>2, GoesCode DEF SwapCode
<1>3. ASSUME NEW n \in 0 .. 6 PROVE GoesOver(SyscallCode(n), {"SYSCALL"})
  <2>1. GoesOver([i \in 1 .. n + 1 |-> POP(ArgOrder[i])], {"SYSCALL"})
    <3> DEFINE T == [i \in 1 .. n + 1 |-> POP(ArgOrder[i])]
    <3>1. T = [i \in 1 .. n + 1 |-> T[i]]
      OBVIOUS
    <3>2. \A r \in Regs : GoesBut(POP(r), {"SYSCALL"})
      BY WordLines
    <3>3. \A i \in 1 .. n + 1 : GoesBut(T[i], {"SYSCALL"})
      <4>1. \A i \in 1 .. n + 1 : T[i] = POP(ArgOrder[i])
        BY Zenon
      <4>2. \A i \in 1 .. 7 : ArgOrder[i] \in Regs
        BY DEF ArgOrder, Regs
      <4>3. \A i \in 1 .. n + 1 : i \in 1 .. 7
        OBVIOUS
      <4> QED BY <3>2, <4>1, <4>2, <4>3, Zenon
    <3> HIDE DEF T
    <3>4. n + 1 \in Int
      OBVIOUS
    <3>5. GoesOver(T, {"SYSCALL"})
      BY <3>1, <3>3, <3>4, GoesTable
    <3> QED BY <3>5 DEF T
  <2>2. GoesOver(<<I0("SYSCALL")>>, {"SYSCALL"})
    <3>1. GoesBut(I0("SYSCALL"), {"SYSCALL"})
      BY DEF GoesBut, TypedLine, I0
    <3> QED BY <3>1, GoesCode
  <2> QED BY <1>0, <2>1, <2>2, GoesCode, Zenon DEF SyscallCode
<1>4. ASSUME NEW size \in Sizes PROVE GoesOver(ReadCode(size), {}) /\ GoesOver(WriteCode(size), {})
  <2>0. SizedRAX(size) \in Transferred
    BY DEF SizedRAX, Sizes, Transferred
  <2>1. /\ GoesOver(<<POP("RBX")>>, {})
        /\ GoesOver(<<I2("MOV", Reg(SizedRAX(size)), Ptr("RBX"))>>, {})
        /\ GoesOver(IF size = 8 THEN <<>> ELSE <<I2("XOR", Reg("RAX"), Reg("RAX"))>>, {})
    <3>1. GoesBut(POP("RBX"), {}) /\ GoesBut(I2("MOV", Reg(SizedRAX(size)), Ptr("RBX")), {})
      BY <1>r, <2>0, WordLines
    <3>2. GoesBut(I2("XOR", Reg("RAX"), Reg("RAX")), {})
      BY <1>r, WordLines
    <3> QED BY <3>1, <3>2, GoesCode
  <2>2. GoesOver(ReadCode(size), {})
    BY <1>0, <2>1, GoesCode, Zenon DEF ReadCode
  <2>3. GoesOver(WriteCode(size), {})
    <3>1. GoesBut(POP("RAX"), {}) /\ GoesBut(POP("RBX"), {}) /\ GoesBut(I2("MOV", Ptr("RBX"), Reg(SizedRAX(size))), {})
      BY <1>r, <2>0, WordLines
    <3> QED BY <3>1, GoesCode DEF WriteCode
  <2> QED BY <2>2, <2>3
<1>5. ASSUME NEW l PROVE GoesOver(AddressCode(l), {})
  <2>1. GoesBut(I2("LEA", Reg("RAX"), Lab(l)), {})
    BY <1>r, WordLines
  <2>2. GoesOver(<<I2("LEA", Reg("RAX"), Lab(l))>>, {})
    BY <2>1, GoesCode
  <2> QED BY <1>0, <2>2, GoesCode, Zenon DEF AddressCode
<1> QED BY <1>1, <1>2, <1>3, <1>4, <1>5

\* Every word but syscall has code that goes on line by line; syscall's too, but for
\* the system call itself.
LEMMA CodeGoes ==
  ASSUME NEW w \in Word, OperatorFits(w), w.head \in {"int", "@", "$", "str", "id"},
         w.head = "id" => w.name \in Operators \ Structure,
         w.head = "$" => const_labels[w.name] \in Int
  PROVE  GoesOver(CodeOf(w), IF w.head = "id" /\ w.name = "syscall" THEN {"SYSCALL"} ELSE {})
PROOF
<1>1. w.params \in Seq(Int)
  BY WordIsWord DEF Word
<1>2. CASE w.head = "int"
  <2>1. Len(w.params) = 1
    BY <1>2 DEF OperatorFits, IsId
  <2>2. w.params[1] \in Int
    BY <1>1, <2>1
  <2>3. GoesBut(PUSH(Imm(w.params[1])), {})
    BY <2>2, WordLines
  <2>4. GoesOver(<<PUSH(Imm(w.params[1]))>>, {})
    BY <2>3, GoesCode
  <2> QED BY <1>2, <2>4 DEF CodeOf, PlainCode
<1>3. CASE w.head = "@"
  BY <1>3, TransferGoes DEF CodeOf, PlainCode
<1>4. CASE w.head = "$"
  <2>1. GoesBut(PUSH(Imm(const_labels[w.name])), {})
    BY <1>4, WordLines
  <2>2. GoesOver(<<PUSH(Imm(const_labels[w.name]))>>, {})
    BY <2>1, GoesCode
  <2> QED BY <1>4, <2>2 DEF CodeOf, PlainCode
<1>5. CASE w.head = "str"
  BY <1>5, TransferGoes DEF CodeOf
<1>6. CASE w.head = "id"
  <2> DEFINE o == w.name
             p == w.params
             c == OperatorCode(o, p)
  <2>0. CodeOf(w) = c
    BY <1>6 DEF CodeOf, PlainCode
  <2>1. CASE o \in Arithmetic
    <3>1. c = ArithmeticCode(o) /\ o # "syscall"
      BY <2>1 DEF OperatorCode, Arithmetic, Comparisons
    <3> QED BY <2>0, <2>1, <3>1, ArithmeticGoes
  <2>2. CASE o \in Comparisons
    <3>1. c = CompareCode(o) /\ o # "syscall"
      BY <2>2 DEF OperatorCode, Arithmetic, Comparisons
    <3> QED BY <2>0, <2>2, <3>1, CompareGoes
  <2>3. CASE o = "pop"
    <3>1. c = Pop1
      BY <2>3 DEF OperatorCode, Arithmetic, Comparisons
    <3>2. GoesBut(POP("RAX"), {})
      BY WordLines DEF Regs
    <3>3. GoesOver(Pop1, {})
      BY <3>2, GoesCode DEF Pop1
    <3> QED BY <2>0, <2>3, <3>1, <3>3
  <2>4. CASE o = "copy"
    <3>1. c = CopyCode(Param(p, 1, 0), Param(p, 2, 1))
      BY <2>4 DEF OperatorCode, Arithmetic, Comparisons
    <3>2. Param(p, 1, 0) \in Nat /\ Param(p, 2, 1) \in Nat
      BY <1>6, <2>4, ShuffleParameters
    <3>3. GoesOver(c, {})
      BY <3>1, <3>2, TransferGoes
    <3> QED BY <2>0, <2>4, <3>3
  <2>5. CASE o = "swap"
    <3>1. c = SwapCode(Param(p, 1, 1), Param(p, 2, 0))
      BY <2>5 DEF OperatorCode, Arithmetic, Comparisons
    <3>2. Param(p, 1, 1) \in Nat /\ Param(p, 2, 0) \in Nat
      BY <1>6, <2>5, ShuffleParameters
    <3>3. GoesOver(c, {})
      BY <3>1, <3>2, TransferGoes
    <3> QED BY <2>0, <2>5, <3>3
  <2>6. CASE o = "syscall"
    <3>1. c = SyscallCode(p[1])
      BY <2>6 DEF OperatorCode, Arithmetic, Comparisons
    <3>2. p[1] \in 0 .. 6
      BY <1>6, <2>6 DEF OperatorFits, IsId
    <3>3. GoesOver(c, {"SYSCALL"})
      BY <3>1, <3>2, TransferGoes
    <3> QED BY <1>6, <2>0, <2>6, <3>3
  <2>7. CASE o \in {"get", "set"}
    <3>1. c = IF o = "get" THEN ReadCode(p[1]) ELSE WriteCode(p[1])
      BY <2>7 DEF OperatorCode, Arithmetic, Comparisons
    <3>2. p[1] \in Sizes
      BY <1>6, <2>7, ShuffleParameters
    <3>3. GoesOver(c, {})
      BY <3>1, <3>2, TransferGoes
    <3> QED BY <2>0, <2>7, <3>3
  <2> QED BY <1>6, <2>1, <2>2, <2>3, <2>4, <2>5, <2>6, <2>7 DEF Operators, WithParams
<1> QED BY <1>2, <1>3, <1>4, <1>5, <1>6

-----------------------------------------------------------------------------
(***************************************************************************)
(* What a word adds to the code of its function.                           *)
(***************************************************************************)
Coded(c) == IsSeq(c) /\ \A l \in ToSet(c) : TypedLine(l) /\ l.ins # "LOC"

\* Strings keep their numbers.
StringsStay == /\ Distinct(strings')
               /\ \A s \in ToSet(strings) : s \in ToSet(strings') /\ StringNumber(s)' = StringNumber(s)

\* What the word adds, when it is not the end of the function.
Adds(w, c) ==
  /\ functions' = [functions EXCEPT ![compile_unit] = @ \o <<Loc(pos + 1)>> \o c]
  /\ Coded(c)
  /\ Calculates(w) => c = CodeOf(w)' /\ (w.head = "str" => w.params \in ToSet(strings'))
WordAdds ==
  IF word.head = "#"
  THEN functions' = [functions EXCEPT ![compile_unit] = @ \o Epilogue] /\ in_function' = "" /\ compile_unit' = NoUnit
  ELSE UNCHANGED <<in_function, compile_unit>> /\ \E w, c : w = word /\ Adds(w, c)

\* Lines that are code of a word, put together.
LEMMA CodedLines ==
  /\ Coded(<<>>)
  /\ \A a : TypedLine(a) /\ a.ins # "LOC" => Coded(<<a>>)
  /\ \A a, b : TypedLine(a) /\ a.ins # "LOC" /\ TypedLine(b) /\ b.ins # "LOC" => Coded(<<a, b>>)
  /\ \A c, d : Coded(c) /\ Coded(d) => Coded(c \o d)
PROOF
<1>1. ASSUME NEW c, NEW d, Coded(c), Coded(d) PROVE Coded(c \o d)
  <2>1. IsSeq(c \o d) /\ ToSet(c \o d) = ToSet(c) \cup ToSet(d)
    BY <1>1, ConcatElems DEF Coded
  <2> QED BY <1>1, <2>1 DEF Coded
<1> QED BY <1>1, ShortSequences DEF Coded

\* Code that goes on is made of lines that the machine knows.
LEMMA GoesIsCoded ==
  ASSUME NEW c, NEW x, x \subseteq {"SYSCALL"}, GoesOver(c, x)
  PROVE  Coded(c)
PROOF
<1>1. ASSUME NEW l \in ToSet(c) PROVE TypedLine(l) /\ l.ins # "LOC"
  <2>1. TypedLine(l) /\ (Goes(l) \/ l.ins \in x)
    BY DEF GoesOver, GoesBut
  <2>2. Goes(l) => l.ins # "LOC"
    BY DEF Goes
  <2> QED BY <2>1, <2>2
<1> QED BY <1>1 DEF Coded, GoesOver

\* The lines of the words of blocks.
LEMMA BlockLines ==
  /\ \A m : Coded(<<Label(m)>>)
  /\ \A m : Coded(Pop1 \o <<I2("CMP", Reg("RAX"), Imm(0)), I1("JE", Lab(m))>>)
  /\ \A m, n : Coded(<<I1("JMP", Lab(m)), Label(n)>>)
  /\ \A m : Coded(<<I1("CALL", Lab(m))>>)
PROOF
<1>1. \A m : TypedLine(Label(m)) /\ Label(m).ins # "LOC"
  BY DEF TypedLine, Label
<1>2. \A i \in {"JMP", "JE", "CALL"} : \A m : TypedLine(I1(i, Lab(m))) /\ I1(i, Lab(m)).ins # "LOC"
  BY DEF TypedLine, I1, Lab
<1>3. TypedLine(I2("CMP", Reg("RAX"), Imm(0))) /\ I2("CMP", Reg("RAX"), Imm(0)).ins # "LOC"
  BY DEF TypedLine, I2
<1>4. Coded(Pop1)
  <2>1. GoesBut(POP("RAX"), {})
    BY WordLines DEF Regs
  <2>2. GoesOver(Pop1, {})
    BY <2>1, GoesCode DEF Pop1
  <2> QED BY <2>2, GoesIsCoded
<1>5. \A m : Coded(<<I2("CMP", Reg("RAX"), Imm(0)), I1("JE", Lab(m))>>)
  BY <1>2, <1>3, CodedLines
<1>6. \A m : Coded(Pop1 \o <<I2("CMP", Reg("RAX"), Imm(0)), I1("JE", Lab(m))>>)
  BY <1>4, <1>5, CodedLines
<1>7. \A m, n : Coded(<<I1("JMP", Lab(m)), Label(n)>>)
  BY <1>1, <1>2, CodedLines
<1>8. (\A m : Coded(<<Label(m)>>)) /\ \A m : Coded(<<I1("CALL", Lab(m))>>)
  BY <1>1, <1>2, CodedLines
<1> QED BY <1>6, <1>7, <1>8

\* A string that has a number keeps it; a new one gets the next.
LEMMA StringsKept ==
  ASSUME Distinct(strings), [CompilerNext]_compilerVars
  PROVE  StringsStay
PROOF
<1>1. CASE strings' = strings
  BY <1>1 DEF StringsStay, StringNumber, Distinct
<1>2. CASE strings' # strings
  <2>1. PushString
    BY <1>2 DEF CompilerNext, ReadWord, InsideFunction, OutsideFunction, Fail, While, Do, EndWhile, If, Else,
       EndIf, EndFunction, Call, Plain, UndeclaredConst, DeclareFunction, AllocateMemory, DeclareConst,
       NothingElseOutside, Finish, WriteOutput, compilerVars
  <2> DEFINE s == strings
             t == Append(strings, word.params)
             n == Len(strings)
  <2>2. word.params \notin ToSet(s) /\ strings' = t
    BY <1>2, <2>1 DEF PushString
  <2>3. n \in Nat /\ DOMAIN s = 1 .. n
    BY SeqDomain DEF Distinct
  <2>4. Distinct(t) /\ ToSet(t) = ToSet(s) \cup {word.params}
    BY <2>2, DistinctAppend
  <2>5. Len(t) = n + 1 /\ DOMAIN t = 1 .. n + 1 /\ \A i \in 1 .. n : t[i] = s[i]
    BY <2>3, SeqDomain, AppendProperties DEF Distinct
  <2> HIDE DEF s, t, n
  <2>6. ASSUME NEW a \in ToSet(s)
        PROVE  (CHOOSE i \in DOMAIN t : t[i] = a) = (CHOOSE i \in DOMAIN s : s[i] = a)
    <3>1. PICK k \in DOMAIN s : s[k] = a
      BY DEF ToSet
    <3>2. k \in DOMAIN t /\ t[k] = a
      BY <2>3, <2>5, <3>1
    <3>3. (CHOOSE i \in DOMAIN t : t[i] = a) = k
      BY <2>4, <3>2 DEF Distinct
    <3>4. Distinct(s)
      BY DEF s
    <3>5. (CHOOSE i \in DOMAIN s : s[i] = a) = k
      BY <3>1, <3>4 DEF Distinct
    <3> QED BY <3>3, <3>5
  <2>7. ASSUME NEW a \in ToSet(s) PROVE StringNumber(a)' = StringNumber(a)
    <3>1. StringNumber(a) = CHOOSE i \in DOMAIN s : s[i] = a
      BY DEF StringNumber, s
    <3>2. StringNumber(a)' = CHOOSE i \in DOMAIN t : t[i] = a
      <4>1. a \in ToSet(strings')
        BY <2>2, <2>4
      <4> QED BY <2>2, <4>1 DEF StringNumber
    <3> QED BY <2>6, <3>1, <3>2
  <2>8. Distinct(strings') /\ \A a \in ToSet(strings) : a \in ToSet(strings')
    BY <2>2, <2>4 DEF s
  <2> QED BY <2>7, <2>8 DEF StringsStay, s
<1> QED BY <1>1, <1>2

\* The words of blocks.
LEMMA BlocksAdd ==
  ASSUME status' \notin {"error", "crash"}, word.head # "#" /\ ~Calculates(word),
         While \/ Do \/ EndWhile \/ If \/ Else \/ EndIf
  PROVE  WordAdds
PROOF
<1>1. UNCHANGED <<in_function, compile_unit>>
  BY DEF While, Do, EndWhile, If, Else, EndIf, Fail
<1>2. \E c : Coded(c) /\ Emit(c)
  <2>1. CASE While
    BY <2>1, BlockLines DEF While
  <2>2. CASE Do
    BY <2>2, BlockLines DEF Do, Fail
  <2>3. CASE EndWhile
    BY <2>3, BlockLines DEF EndWhile, Fail
  <2>4. CASE If
    BY <2>4, BlockLines DEF If
  <2>5. CASE Else
    BY <2>5, BlockLines DEF Else, Fail
  <2>6. CASE EndIf
    BY <2>6, BlockLines DEF EndIf, Fail
  <2> QED BY <2>1, <2>2, <2>3, <2>4, <2>5, <2>6
<1>3. PICK c : Coded(c) /\ Emit(c)
  BY <1>2
<1>w. PICK w : w = word
  OBVIOUS
<1>4. Adds(w, c)
  BY <1>3, <1>w DEF Adds, Emit
<1> QED BY <1>1, <1>4, <1>w DEF WordAdds

\* The other words.
LEMMA OthersAdd ==
  ASSUME word \in Word, OperatorFits(word), NamesResolved(word),
         Distinct(strings), \A c \in DOMAIN const_labels : const_labels[c] \in Int,
         status' \notin {"error", "crash"},
         EndFunction \/ Call \/ PushString \/ Plain \/ UndeclaredConst
  PROVE  WordAdds
PROOF
<1>w. PICK w : w = word
  OBVIOUS
<1>1. CASE EndFunction
  BY <1>1 DEF EndFunction, Is, WordAdds
<1>2. CASE Call
  <2>1. word.head = "id" /\ word.name \notin Operators
    BY <1>2 DEF Call, NamesResolved
  <2>2. functions' = [functions EXCEPT ![compile_unit] = @ \o <<Loc(pos + 1)>> \o <<I1("CALL", Lab(<<"func", word.name>>))>>]
        /\ UNCHANGED <<in_function, compile_unit>>
    BY <1>2, <2>1 DEF Call
  <2>3. Coded(<<I1("CALL", Lab(<<"func", word.name>>))>>) /\ ~Calculates(word)
    BY <2>1, BlockLines DEF Calculates
  <2>4. Adds(w, <<I1("CALL", Lab(<<"func", word.name>>))>>)
    BY <1>w, <2>2, <2>3 DEF Adds
  <2> QED BY <1>w, <2>1, <2>2, <2>4 DEF WordAdds
<1>3. CASE PushString
  <2>1. word.head = "str" /\ UNCHANGED <<in_function, compile_unit>>
    BY <1>3 DEF PushString
  <2>s. PICK s : s = word.params
    OBVIOUS
  <2>c. PICK c : c = AddressCode(StringLabel(StringNumber(s)))
    OBVIOUS
  <2>2. Emit(c)
    BY <1>3, <2>s, <2>c DEF PushString
  <2>3. StringNumber(s)' = StringNumber(s) /\ s \in ToSet(strings')
    <3>1. CASE s \in ToSet(strings)
      BY <1>3, <2>s, <3>1 DEF PushString, StringNumber
    <3>2. CASE s \notin ToSet(strings)
      <4>n. PICK n : n = Len(strings)
        OBVIOUS
      <4>t. PICK t : t = Append(strings, s)
        OBVIOUS
      <4>1. strings' = t /\ StringNumber(s) = n + 1
        BY <1>3, <2>s, <3>2, <4>n, <4>t DEF PushString, StringNumber
      <4>2. Distinct(t) /\ ToSet(t) = ToSet(strings) \cup {s}
        BY <3>2, <4>t, DistinctAppend
      <4>3. n \in Nat /\ strings \in Seq(ToSet(strings))
        BY <4>n, SeqDomain DEF Distinct
      <4>4. DOMAIN t = 1 .. n + 1 /\ t[n + 1] = s
        <5>1. strings \in Seq(ToSet(strings) \cup {s})
          BY <4>3, SeqMonotonic
        <5>2. s \in ToSet(strings) \cup {s}
          OBVIOUS
        <5>3. /\ Append(strings, s) \in Seq(ToSet(strings) \cup {s}) /\ Len(Append(strings, s)) = Len(strings) + 1
              /\ Append(strings, s)[Len(strings) + 1] = s
          BY <5>1, <5>2, AppendProperties
        <5>4. DOMAIN t = 1 .. Len(t)
          BY <4>t, <5>3, LenProperties
        <5> QED BY <4>n, <4>t, <5>3, <5>4
      <4>5. (CHOOSE i \in DOMAIN t : t[i] = s) = n + 1
        <5>1. n + 1 \in 1 .. n + 1
          BY <4>3
        <5> QED BY <4>2, <4>4, <5>1 DEF Distinct
      <4>6. s \in ToSet(t)
        BY <4>2
      <4>7. StringNumber(s)' = CHOOSE i \in DOMAIN t : t[i] = s
        BY <4>1, <4>6 DEF StringNumber
      <4> QED BY <4>1, <4>5, <4>6, <4>7
    <3> QED BY <3>1, <3>2
  <2>4. CodeOf(w)' = c
    <3>1. w.head = "str" /\ w.params = s
      BY <1>w, <2>1, <2>s
    <3> QED BY <2>3, <2>c, <3>1 DEF CodeOf, StringLabel
  <2>5. Coded(c)
    <3>1. GoesOver(c, {})
      BY <2>c, TransferGoes
    <3> QED BY <3>1, GoesIsCoded
  <2>6. Adds(w, c)
    BY <1>w, <2>s, <2>2, <2>3, <2>4, <2>5 DEF Adds, Emit
  <2> QED BY <1>w, <2>1, <2>6 DEF WordAdds
<1>4. CASE Plain
  <2>c. PICK c : c = PlainCode(w)
    OBVIOUS
  <2>1. /\ Emit(c) /\ UNCHANGED <<in_function, compile_unit, const_labels, strings>>
        /\ \/ word.head \in {"int", "@"}
           \/ word.head = "id" /\ word.name \in Operators \ Structure
           \/ word.head = "$" /\ word.name \in DOMAIN const_labels
    BY <1>4, <1>w, <2>c DEF Plain, declVars
  <2>2. CodeOf(w) = c /\ CodeOf(w)' = c
    <3>1. CodeOf(w) = c
      BY <1>w, <2>1, <2>c DEF CodeOf
    <3>2. CodeOf(w)' = CodeOf(w)
      <4>1. StringNumber(w.params)' = StringNumber(w.params)
        BY <2>1 DEF StringNumber
      <4>2. PlainCode(w)' = PlainCode(w)
        BY <2>1 DEF PlainCode
      <4> QED BY <4>1, <4>2 DEF CodeOf, StringLabel
    <3> QED BY <3>1, <3>2
  <2>3. GoesOver(c, IF word.head = "id" /\ word.name = "syscall" THEN {"SYSCALL"} ELSE {})
    <3>1. GoesOver(CodeOf(word), IF word.head = "id" /\ word.name = "syscall" THEN {"SYSCALL"} ELSE {})
      BY <2>1, CodeGoes
    <3> QED BY <1>w, <2>2, <3>1
  <2>4. Coded(c)
    BY <2>3, GoesIsCoded
  <2>5. Adds(w, c)
    BY <1>w, <2>1, <2>2, <2>4 DEF Adds, Emit
  <2> QED BY <1>w, <2>1, <2>5 DEF WordAdds
<1>5. CASE UndeclaredConst
  BY <1>5 DEF UndeclaredConst, Fail
<1> QED BY <1>1, <1>2, <1>3, <1>4, <1>5

-----------------------------------------------------------------------------
(***************************************************************************)
(* The code of functions, word by word.                                    *)
(***************************************************************************)
\* The word at p is in the body of f.
Opened(f, p) == \E s \in 1 .. p : src[s] = Hash(f) /\ \A r \in s + 1 .. p : ~Language!Ends(r)

\* What is known of the names of a word of a function.
Named(w) == /\ w.head = "$" => w.name \in DOMAIN const_labels
            /\ w.head = "@" => w.name \in Names(src, "@")
            /\ w.head = "str" => w.params \in ToSet(strings)

\* The lines after i are k; and then comes the word after p.
Carries(c, i, k) == Len(k) \in Nat /\ i + Len(k) <= Len(c) /\ \A j \in 1 .. Len(k) : c[i + j] = k[j]
Precedes(c, i, p) == \/ c[i + 1] = Loc(p + 1)
                     \/ c[i + 1] = Epilogue[1] /\ Language!Ends(p + 1)
NextLaid(f, c, i, p) == IF i = Len(c) THEN p = pos /\ f = compile_unit
                        ELSE i + 1 <= Len(c) /\ p + 1 <= pos /\ Precedes(c, i, p)
WordLaid(f, c, i, p, w) ==
  /\ c[i] = Loc(p) /\ p \in 1 .. pos /\ Opened(f, p)
  /\ Calculates(w) => /\ w \in Word /\ OperatorFits(w) /\ Named(w)
                      /\ Carries(c, i, CodeOf(w)) /\ NextLaid(f, c, i + Len(CodeOf(w)), p)
CodeLaid(f, c) == /\ IsSeq(c) /\ \A l \in ToSet(c) : TypedLine(l)
                  /\ \A i \in 1 .. Len(c) : c[i].ins = "LOC" =>
                       \E p, w : w = src[p] /\ WordLaid(f, c, i, p, w)
Laid == \A f \in DOMAIN functions : \E c : c = functions[f] /\ CodeLaid(f, c)

\* The word at i declares the constant c.
Declares(i, c) == src[i].head = "$" /\ src[i].name = c /\ ~Language!InBody(i)
ConstantsKnown ==
  /\ \A c \in DOMAIN const_labels : const_labels[c] \in Int /\ \E i \in 1 .. pos : Declares(i, c)
  /\ \A i \in 1 .. pos : \A c : Declares(i, c) => c \in DOMAIN const_labels /\ const_labels[c] = src[i].params[1]

Within == IF Outside THEN ~Language!InBody(pos + 1) ELSE Opened(in_function, pos)
LayoutInv == WellFormed(src, Operators) => Distinct(strings) /\ Laid /\ ConstantsKnown /\ Within

ConstantsStay == \A c \in DOMAIN const_labels : c \in DOMAIN const_labels' /\ const_labels'[c] = const_labels[c]

\* What the code of a word was when the word was read, it is for good.
LEMMA CodeStays ==
  ASSUME NEW w, Named(w), StringsStay, ConstantsStay, src' = src
  PROVE  CodeOf(w)' = CodeOf(w) /\ Named(w)'
PROOF
<1>1. w.head = "str" => StringNumber(w.params)' = StringNumber(w.params)
  BY DEF Named, StringsStay
<1>2. w.head # "str" => PlainCode(w)' = PlainCode(w)
  BY DEF Named, ConstantsStay, PlainCode
<1>3. CodeOf(w)' = CodeOf(w)
  BY <1>1, <1>2 DEF CodeOf, StringLabel
<1>4. Named(w)'
  BY DEF Named, StringsStay, ConstantsStay
<1> QED BY <1>3, <1>4

\* More lines after the code, and more words read.
LEMMA LaidGrows ==
  ASSUME NEW f, NEW c, NEW d, IsSeq(c), IsSeq(d), \A j \in 1 .. Len(c) : d[j] = c[j], Len(c) <= Len(d),
         NEW i \in 1 .. Len(c), NEW p, NEW w, WordLaid(f, c, i, p, w), StringsStay, ConstantsStay, src' = src,
         pos \in Nat, pos' = pos + 1,
         f = compile_unit => Len(d) > Len(c) /\ Precedes(d, Len(c), pos)
  PROVE  WordLaid(f, d, i, p, w)'
PROOF
<1>0. Len(c) \in Nat /\ Len(d) \in Nat
  BY SeqDomain
<1>1. d[i] = Loc(p) /\ p \in 1 .. pos' /\ Opened(f, p)'
  <2>1. p \in 1 .. pos /\ Opened(f, p) /\ c[i] = Loc(p)
    BY DEF WordLaid
  <2>2. Opened(f, p)'
    BY <2>1 DEF Opened, Language!Ends
  <2> QED BY <2>1, <2>2
<1>2. ASSUME Calculates(w)
      PROVE  OperatorFits(w) /\ Named(w)' /\ \E k : CodeOf(w)' = k /\ Carries(d, i, k) /\ NextLaid(f, d, i + Len(k), p)'
  <2>k. PICK k : k = CodeOf(w)
    OBVIOUS
  <2>1. OperatorFits(w) /\ Named(w) /\ Carries(c, i, k) /\ NextLaid(f, c, i + Len(k), p)
    BY <1>2, <2>k DEF WordLaid
  <2>2. Named(w)' /\ CodeOf(w)' = k
    BY <2>1, <2>k, CodeStays
  <2>n. PICK n : n = Len(k)
    OBVIOUS
  <2>3. n \in Nat /\ i + n <= Len(c) /\ \A j \in 1 .. n : c[i + j] = k[j]
    BY <2>1, <2>n DEF Carries
  <2>4. Carries(d, i, k)
    <3>1. \A j \in 1 .. n : i + j \in 1 .. Len(c)
      BY <1>0, <2>3
    <3>2. i + n <= Len(d)
      BY <1>0, <2>3
    <3> QED BY <2>3, <2>n, <3>1, <3>2 DEF Carries
  <2>5. NextLaid(f, d, i + n, p)'
    <3>m. PICK m : m = i + n
      OBVIOUS
    <3>0. m \in 1 .. Len(c)
      BY <1>0, <2>3, <3>m
    <3>1. CASE m = Len(c)
      <4>1. p = pos /\ f = compile_unit
        BY <2>1, <2>n, <3>m, <3>1 DEF NextLaid
      <4>2. m # Len(d) /\ m + 1 <= Len(d) /\ Precedes(d, m, p)
        BY <1>0, <3>0, <3>1, <4>1
      <4>3. Precedes(d, m, p)'
        BY <4>2 DEF Precedes, Language!Ends
      <4>4. p + 1 <= pos'
        BY <4>1
      <4> QED BY <3>m, <4>2, <4>3, <4>4 DEF NextLaid
    <3>2. CASE m # Len(c)
      <4>1. p + 1 <= pos /\ Precedes(c, m, p)
        BY <2>1, <2>n, <3>m, <3>2 DEF NextLaid
      <4>5. p + 1 <= pos'
        <5>1. p \in 1 .. pos
          BY DEF WordLaid
        <5> QED BY <4>1, <5>1
      <4>2. m + 1 \in 1 .. Len(c) /\ m # Len(d) /\ m + 1 <= Len(d)
        BY <1>0, <3>0, <3>2
      <4>3. d[m + 1] = c[m + 1]
        BY <4>2
      <4>4. Precedes(d, m, p)'
        BY <4>1, <4>3 DEF Precedes, Language!Ends
      <4> QED BY <3>m, <4>2, <4>4, <4>5 DEF NextLaid
    <3> QED BY <3>1, <3>2
  <2> QED BY <2>1, <2>2, <2>4, <2>5, <2>n
<1>3. w \in Word \/ ~Calculates(w)
  BY DEF WordLaid
<1> QED BY <1>1, <1>2, <1>3 DEF WordLaid

\* The lines e added to the code c of f, for the word v after the first n.
Addition(f, c, d, e, n, v) ==
  /\ IsSeq(e) /\ \A l \in ToSet(e) : TypedLine(l)
  /\ f = compile_unit => Len(e) >= 1 /\ (e[1] = Loc(n + 1) \/ (e[1] = Epilogue[1] /\ Language!Ends(n + 1)))
  /\ \A j \in 1 .. Len(e) : e[j].ins = "LOC" => \A i : i = Len(c) + j => WordLaid(f, d, i, n + 1, v)'

\* More lines after the code of a function.
LEMMA CodeGrown ==
  ASSUME NEW f, NEW c, NEW e, CodeLaid(f, c), NEW d, d = c \o e, StringsStay, ConstantsStay, src' = src,
         NEW n, n = pos, n \in Nat, pos' = n + 1, NEW v, v = src[n + 1], Addition(f, c, d, e, n, v)
  PROVE  CodeLaid(f, d)'
PROOF
<1>0. IsSeq(e) /\ \A l \in ToSet(e) : TypedLine(l)
  BY DEF Addition
<1>1. IsSeq(c) /\ \A l \in ToSet(c) : TypedLine(l)
  BY DEF CodeLaid
<1>m. PICK m : m = Len(c)
  OBVIOUS
<1>k. PICK k : k = Len(e)
  OBVIOUS
<1>2. /\ IsSeq(d) /\ m \in Nat /\ k \in Nat /\ Len(d) = m + k
      /\ \A i \in 1 .. m : d[i] = c[i]
      /\ \A i \in 1 .. k : d[m + i] = e[i]
  BY <1>0, <1>1, <1>m, <1>k, ConcatAt DEF Joined
<1>3. ToSet(d) = ToSet(c) \cup ToSet(e)
  BY <1>0, <1>1, ConcatElems
<1>4. ASSUME NEW i \in 1 .. Len(d), d[i].ins = "LOC"
      PROVE  \E p, w : w = src[p] /\ WordLaid(f, d, i, p, w)'
  <2>1. CASE i \in 1 .. m
    <3>1. PICK p, w : w = src[p] /\ WordLaid(f, c, i, p, w)
      <4>1. c[i].ins = "LOC"
        BY <1>2, <1>4, <2>1
      <4> QED BY <1>m, <2>1, <4>1 DEF CodeLaid
    <3>2. f = compile_unit => Len(d) > Len(c) /\ Precedes(d, Len(c), pos)
      <4>1. Len(e) >= 1 => 1 \in 1 .. k /\ Len(d) > m
        BY <1>2, <1>k
      <4>2. Len(e) >= 1 => d[m + 1] = e[1]
        BY <1>2, <4>1
      <4> QED BY <1>m, <4>1, <4>2 DEF Precedes, Addition
    <3>3. Len(c) <= Len(d)
      BY <1>2, <1>m
    <3>4. i \in 1 .. Len(c) /\ \A j \in 1 .. Len(c) : d[j] = c[j]
      BY <1>2, <1>m, <2>1
    <3>5. WordLaid(f, d, i, p, w)'
      BY <1>1, <1>2, <3>1, <3>2, <3>3, <3>4, LaidGrows
    <3> QED BY <3>1, <3>5
  <2>2. CASE i \notin 1 .. m
    <3>1. i - m \in 1 .. k /\ i = m + (i - m)
      BY <1>2, <2>2
    <3>2. e[i - m].ins = "LOC"
      BY <1>2, <1>4, <3>1
    <3>3. WordLaid(f, d, i, n + 1, v)'
      BY <1>k, <1>m, <3>1, <3>2 DEF Addition
    <3> QED BY <3>3
  <2> QED BY <2>1, <2>2
<1>5. \A l \in ToSet(d) : TypedLine(l)
  BY <1>0, <1>1, <1>3
<1>6. \A i \in 1 .. Len(d) : d[i].ins = "LOC" => \E p, w : w = src'[p] /\ WordLaid(f, d, i, p, w)'
  BY <1>4
<1> QED BY <1>2, <1>5, <1>6 DEF CodeLaid, TypedLine, TypedMove, TypedSum

\* Nothing is laid out yet.
LEMMA LayoutInit == Init => LayoutInv
PROOF
<1> SUFFICES ASSUME Init PROVE LayoutInv
  OBVIOUS
<1>1. strings = <<>> /\ DOMAIN functions = {} /\ DOMAIN const_labels = {} /\ pos = 0 /\ Outside
  BY DEF Init, Outside
<1>2. IsSeq(<<>>) /\ DOMAIN <<>> = {}
  BY ShortSequences
<1>3. Distinct(strings) /\ Laid /\ ConstantsKnown
  <2>1. 1 .. 0 = {}
    OBVIOUS
  <2> QED BY <1>1, <1>2, <2>1 DEF Distinct, Laid, ConstantsKnown
<1>4. ~Language!InBody(pos + 1)
  <2>p. PICK p : p = pos + 1
    OBVIOUS
  <2>1. 1 .. p - 1 = {}
    BY <1>1, <2>p
  <2>2. ~Language!InBody(p)
    BY <2>1 DEF Language!InBody
  <2> QED BY <2>p, <2>2
<1> QED BY <1>1, <1>3, <1>4 DEF LayoutInv, Within

\* The word that comes next, in a well formed program.
LEMMA InsideFacts ==
  ASSUME IInv, WellInv, WellFormed(src, Operators), ReadWord, ~Outside
  PROVE  /\ src' = src /\ src \in Programs /\ pos \in Nat /\ pos' = pos + 1 /\ pos + 1 \in 1 .. Len(src)
         /\ status = "compiling" /\ InsideFunction /\ ParamsOK(word)
         /\ word \in Word /\ OperatorFits(word) /\ NamesResolved(word)
         /\ word.head = "@" => word.name \in Names(src, "@")
         /\ compile_unit = in_function /\ in_function \in DOMAIN functions
         /\ InUnit
PROOF
<1> DEFINE b == OpenBlocks(src)[pos]
<1>1. /\ status = "compiling" /\ pos < Len(src) /\ pos' = pos + 1 /\ InsideFunction
      /\ src' = src /\ src \in Programs /\ pos \in 0 .. Len(src)
  BY DEF ReadWord, IInv, Progress, Outside
<1>2. /\ NestingKnown(b, in_function, compile_unit, while_labels, if_labels)
      /\ NamesKnown(pos, DOMAIN functions, memory_segments, DOMAIN const_labels, functions_called)
  BY <1>1 DEF WellInv
<1>3. b # <<>>
  BY <1>2 DEF NestingKnown, Outside
<1>4. /\ word \in Word /\ Len(src) \in Nat /\ pos \in Nat /\ pos + 1 \in 1 .. Len(src)
      /\ OperatorFits(word)
  BY <1>1, <1>3, NextWordFits
<1>5. NamesResolved(word)
  BY <1>1, <1>2, <1>3, UsedNames DEF NamesKnown
<1>6. ParamsOK(word)
  BY <1>4, FittingIsOK
<1>7. compile_unit = in_function /\ in_function \in DOMAIN functions /\ InUnit
  BY <1>2 DEF NestingKnown, Outside, IInv, Units, InUnit
<1>8. ASSUME word.head = "@" PROVE word.name \in Names(src, "@")
  <2>n. PICK n : n = pos + 1
    OBVIOUS
  <2>1. n \in 1 .. Len(src) /\ n - 1 = pos /\ src[n] = word
    BY <1>4, <2>n DEF word
  <2>2. n \in Uses(src, "@")
    BY <1>3, <1>8, <2>1 DEF Uses
  <2>3. NamesResolve(src, Operators)
    BY DEF WellFormed
  <2> QED BY <2>1, <2>2, <2>3 DEF NamesResolve
<1> QED BY <1>1, <1>4, <1>5, <1>6, <1>7, <1>8

\* In a function constants and declarations stay.
LEMMA InsideStays ==
  ASSUME InsideFunction, ParamsOK(word)
  PROVE  const_labels' = const_labels /\ memory_segments' = memory_segments
PROOF
<1>1. CASE While \/ Do \/ EndWhile \/ If \/ Else \/ EndIf
  BY <1>1 DEF While, Do, EndWhile, If, Else, EndIf, Fail, declVars
<1>2. CASE EndFunction \/ Call \/ PushString \/ Plain \/ UndeclaredConst
  BY <1>2 DEF EndFunction, Call, PushString, Plain, UndeclaredConst, Fail, declVars
<1> QED BY <1>1, <1>2 DEF InsideFunction

\* What a word adds to the code of its function.
LEMMA InsideAdds ==
  ASSUME IInv, WellInv, WellInv', WellFormed(src, Operators), Distinct(strings), ConstantsKnown, ReadWord, ~Outside
  PROVE  WordAdds
PROOF
<1>1. /\ src' = src /\ InsideFunction /\ ParamsOK(word)
      /\ word \in Word /\ OperatorFits(word) /\ NamesResolved(word)
  BY InsideFacts
<1>2. status' \notin {"error", "crash"}
  BY <1>1 DEF WellInv
<1>3. \A c \in DOMAIN const_labels : const_labels[c] \in Int
  BY DEF ConstantsKnown
<1>4. CASE While \/ Do \/ EndWhile \/ If \/ Else \/ EndIf
  <2>1. word.head = "id" /\ word.name \in Structure
    BY <1>4 DEF While, Do, EndWhile, If, Else, EndIf, Is, Structure
  <2>2. word.head # "#" /\ ~Calculates(word)
    BY <2>1 DEF Calculates
  <2> QED BY <1>2, <1>4, <2>2, BlocksAdd
<1>5. CASE EndFunction \/ Call \/ PushString \/ Plain \/ UndeclaredConst
  BY <1>1, <1>2, <1>3, <1>5, OthersAdd
<1> QED BY <1>1, <1>4, <1>5 DEF InsideFunction

\* What every function starts and ends with (main.py:298-310).
LEMMA EpilogueLines ==
  /\ IsSeq(Epilogue) /\ Len(Epilogue) = 4
  /\ IsSeq(Prologue)
  /\ \A l \in ToSet(Epilogue) \cup ToSet(Prologue) : TypedLine(l) /\ l.ins # "LOC"
PROOF
<1> DEFINE a == I2("SUB", Reg("R12"), Imm(8))
           b == I2("MOV", Reg("RCX"), Ptr("R12"))
           c == PUSH(Reg("RCX"))
           d == I0("RET")
           e == POP("RCX")
           f == I2("MOV", Ptr("R12"), Reg("RCX"))
           g == I2("ADD", Reg("R12"), Imm(8))
<1>1. Epilogue = <<a, b, c, d>> /\ Prologue = <<e, f, g>>
  BY DEF Epilogue, Prologue
<1>2. {Reg("RCX"), Reg("R12")} \subseteq Registers /\ Imm(8) \in Immediates /\ Ptr("R12") \in Pointers
  BY DEF Registers, Immediates, Pointers, Regs
<1>3. \A l \in {a, b, c, d, e, f, g} : TypedLine(l) /\ l.ins # "LOC"
  BY <1>2 DEF TypedLine, TypedMove, TypedSum, PUSH, POP, I0, I1, I2
<1>4. Len(<<a, b, c, d>>) = 4
  OBVIOUS
<1> HIDE DEF a, b, c, d, e, f, g
<1> QED BY <1>1, <1>3, <1>4, ShortSequences

LEMMA JoinedTwice ==
  ASSUME NEW a, NEW b, NEW c, IsSeq(a), IsSeq(b), IsSeq(c), NEW d, d = b \o c, NEW e, e = a \o b
  PROVE  e \o c = a \o d
PROOF
<1> DEFINE S == ToSet(a) \cup ToSet(b) \cup ToSet(c)
<1>1. a \in Seq(ToSet(a)) /\ b \in Seq(ToSet(b)) /\ c \in Seq(ToSet(c))
  BY SeqDomain
<1>2. a \in Seq(S) /\ b \in Seq(S) /\ c \in Seq(S)
  BY <1>1, SeqMonotonic
<1>3. (a \o b) \o c = a \o (b \o c)
  BY <1>2, ConcatAssociative, Z3T(60)
<1> QED BY <1>3, Zenon

\* The code of the word that was read last.
LEMMA WordIsLaid ==
  ASSUME NEW f, f = compile_unit, compile_unit' = compile_unit, NEW c, IsSeq(c), NEW k, Coded(k),
         NEW n, n = pos, n \in Nat, pos' = n + 1, NEW e, e = <<Loc(n + 1)>> \o k, NEW d, d = c \o e,
         src' = src, const_labels' = const_labels, NEW v, v = src[n + 1], v \in Word, OperatorFits(v), NamesResolved(v),
         v.head = "@" => v.name \in Names(src, "@"),
         Calculates(v) => k = CodeOf(v)' /\ (v.head = "str" => v.params \in ToSet(strings')),
         Opened(f, n), ~Language!Ends(n + 1)
  PROVE  Addition(f, c, d, e, n, v)
PROOF
<1>l. PICK l : l = Loc(n + 1)
  OBVIOUS
<1>e. e = <<l>> \o k
  BY <1>l
<1>m. PICK m : m = Len(c)
  OBVIOUS
<1>q. PICK q : q = Len(k)
  OBVIOUS
<1>1. IsSeq(<<l>>) /\ ToSet(<<l>>) = {l} /\ Len(<<l>>) = 1 /\ <<l>>[1] = l
  BY ShortSequences
<1>2. IsSeq(k) /\ \A x \in ToSet(k) : TypedLine(x) /\ x.ins # "LOC"
  BY DEF Coded
<1>3. /\ IsSeq(e) /\ q \in Nat /\ Len(e) = 1 + q /\ e[1] = l
      /\ \A j \in 1 .. q : e[1 + j] = k[j]
      /\ \A j \in 1 .. q : k[j] \in ToSet(k)
  <2>s. PICK s : s = <<l>>
    OBVIOUS
  <2>1. IsSeq(s) /\ Len(s) = 1 /\ s[1] = l
    BY <1>1, <2>s
  <2>2. Joined(s, k, e)
    BY <1>2, <1>e, <2>1, <2>s, ConcatAt
  <2>3. 1 \in 1 .. Len(s)
    BY <2>1
  <2> QED BY <1>q, <2>1, <2>2, <2>3 DEF Joined
<1>4. ToSet(e) = {l} \cup ToSet(k)
  BY <1>1, <1>2, <1>e, ConcatElems
<1>5. TypedLine(l)
  BY <1>l DEF TypedLine, Loc
<1>6. d = c \o e
  OBVIOUS
<1>7. /\ IsSeq(d) /\ m \in Nat /\ Len(d) = m + (1 + q)
      /\ \A i \in 1 .. 1 + q : d[m + i] = e[i]
  <2>1. Joined(c, e, d)
    BY <1>3, <1>6, ConcatAt
  <2> QED BY <1>3, <1>m, <2>1 DEF Joined
<1>8. d[m + 1] = l /\ \A j \in 1 .. q : d[m + (1 + j)] = k[j]
  <2>1. 1 \in 1 .. 1 + q /\ \A j \in 1 .. q : 1 + j \in 1 .. 1 + q
    BY <1>3
  <2> QED BY <1>3, <1>7, <2>1
<1>9. ASSUME NEW j \in 1 .. Len(e), e[j].ins = "LOC" PROVE j = 1
  <2> SUFFICES ASSUME j # 1 PROVE FALSE
    OBVIOUS
  <2>1. j - 1 \in 1 .. q /\ j = 1 + (j - 1)
    BY <1>3
  <2>2. e[j] \in ToSet(k)
    BY <1>3, <2>1
  <2> QED BY <1>2, <1>9, <2>2
<1>10. WordLaid(f, d, m + 1, n + 1, v)'
  <2>1. d[m + 1] = Loc(n + 1) /\ n + 1 \in 1 .. pos'
    <3>1. d[m + 1] = Loc(n + 1)
      BY <1>8, <1>l, Zenon
    <3>2. pos' = n + 1 /\ n + 1 \in 1 .. n + 1
      OBVIOUS
    <3> QED BY <3>1, <3>2, Zenon
  <2>2. Opened(f, n + 1)'
    <3>1. PICK s \in 1 .. n : src[s] = Hash(f) /\ \A r \in s + 1 .. n : ~Language!Ends(r)
      BY DEF Opened
    <3>2. s \in 1 .. n + 1 /\ \A r \in s + 1 .. n + 1 : r \in s + 1 .. n \/ r = n + 1
      OBVIOUS
    <3>3. \A r \in s + 1 .. n + 1 : ~Language!Ends(r)
      BY <3>1, <3>2
    <3> QED BY <3>1, <3>2, <3>3 DEF Opened, Language!Ends
  <2>3. ASSUME Calculates(v)
        PROVE  OperatorFits(v) /\ Named(v)' /\ \E x : CodeOf(v)' = x /\ Carries(d, m + 1, x)
                                                 /\ NextLaid(f, d, m + 1 + Len(x), n + 1)'
    <3>1. CodeOf(v)' = k
      BY <2>3
    <3>2. Named(v)'
      BY <2>3 DEF NamesResolved, Named, Names, Declarations
    <3>3. Carries(d, m + 1, k)
      <4>1. \A j \in 1 .. q : m + 1 + j = m + (1 + j)
        BY <1>3, <1>7
      <4>2. m + 1 + q <= Len(d)
        BY <1>3, <1>7
      <4> QED BY <1>3, <1>8, <1>q, <4>1, <4>2 DEF Carries
    <3>4. NextLaid(f, d, m + 1 + Len(k), n + 1)'
      <4>x. PICK x : x = m + 1 + Len(k)
        OBVIOUS
      <4>1. x = Len(d)
        BY <1>3, <1>7, <1>q, <4>x
      <4>2. NextLaid(f, d, x, n + 1)'
        BY <4>1 DEF NextLaid
      <4> QED BY <4>2, <4>x
    <3> QED BY <3>1, <3>2, <3>3, <3>4
  <2>4. v \in Word
    OBVIOUS
  <2> QED BY <2>1, <2>2, <2>3, <2>4 DEF WordLaid
<1>11. \A j \in 1 .. Len(e) : e[j].ins = "LOC" => \A i : i = Len(c) + j => WordLaid(f, d, i, n + 1, v)'
  <2> SUFFICES ASSUME NEW j \in 1 .. Len(e), e[j].ins = "LOC", NEW i, i = Len(c) + j
               PROVE  WordLaid(f, d, i, n + 1, v)'
    OBVIOUS
  <2>1. i = m + 1
    BY <1>9, <1>m
  <2> QED BY <1>10, <2>1
<1>12. \A x \in ToSet(e) : TypedLine(x)
  BY <1>2, <1>4, <1>5
<1>13. IsSeq(e) /\ Len(e) >= 1 /\ e[1] = Loc(n + 1)
  BY <1>3, <1>l
<1> QED BY <1>11, <1>12, <1>13 DEF Addition

\* The code of the other functions.
LEMMA CodeKept ==
  ASSUME NEW f, f # compile_unit, NEW c, CodeLaid(f, c), StringsStay, ConstantsStay, src' = src,
         NEW n, n = pos, n \in Nat, pos' = n + 1
  PROVE  CodeLaid(f, c)'
PROOF
<1>1. IsSeq(c) /\ IsSeq(<<>>) /\ ToSet(<<>>) = {} /\ Len(<<>>) = 0
  BY ShortSequences DEF CodeLaid
<1>2. c \o <<>> = c
  <2>1. c \in Seq(ToSet(c))
    BY <1>1, SeqDomain
  <2> QED BY <2>1, ConcatEmptySeq
<1>e. PICK e : e = <<>>
  OBVIOUS
<1>v. PICK v : v = src[n + 1]
  OBVIOUS
<1>3. \A l \in ToSet(e) : TypedLine(l)
  BY <1>1, <1>e
<1>4. IsSeq(e) /\ Len(e) = 0 /\ 1 .. 0 = {}
  BY <1>1, <1>e
<1>5. \A j \in 1 .. Len(e) : e[j].ins = "LOC" => \A i : i = Len(c) + j => WordLaid(f, c, i, n + 1, v)'
  BY <1>4
<1>6. c = c \o e
  BY <1>2, <1>e
<1>7. Addition(f, c, c, e, n, v)
  BY <1>3, <1>4, <1>5 DEF Addition
<1> QED BY <1>6, <1>7, <1>v, CodeGrown

\* The place after a word is in a body, or not.
LEMMA BodyNext ==
  ASSUME NEW n \in Nat
  PROVE  Language!InBody(n + 2) <=> Language!Starts(n + 1) \/ (Language!InBody(n + 1) /\ ~Language!Ends(n + 1))
PROOF
<1>1. n + 2 - 1 = n + 1 /\ n + 1 - 1 = n /\ n + 1 + 1 .. n + 1 = {}
  OBVIOUS
<1>2. Language!InBody(n + 2) <=> \E s \in 1 .. n + 1 : Language!Starts(s) /\ \A k \in s + 1 .. n + 1 : ~Language!Ends(k)
  BY <1>1 DEF Language!InBody
<1>3. Language!InBody(n + 1) <=> \E s \in 1 .. n : Language!Starts(s) /\ \A k \in s + 1 .. n : ~Language!Ends(k)
  BY <1>1 DEF Language!InBody
<1>4. ASSUME NEW s \in 1 .. n
      PROVE  (\A k \in s + 1 .. n + 1 : ~Language!Ends(k)) <=> (\A k \in s + 1 .. n : ~Language!Ends(k)) /\ ~Language!Ends(n + 1)
  <2>1. \A k : k \in s + 1 .. n + 1 <=> k \in s + 1 .. n \/ k = n + 1
    OBVIOUS
  <2> QED BY <2>1
<1>5. \A s : s \in 1 .. n + 1 <=> s \in 1 .. n \/ s = n + 1
  OBVIOUS
<1>6. ASSUME NEW s \in 1 .. n + 1, Language!Starts(s), \A k \in s + 1 .. n + 1 : ~Language!Ends(k)
      PROVE  Language!Starts(n + 1) \/ (Language!InBody(n + 1) /\ ~Language!Ends(n + 1))
  <2>1. CASE s = n + 1
    BY <1>6, <2>1
  <2>2. CASE s # n + 1
    <3>1. s \in 1 .. n
      BY <1>5, <2>2
    <3> QED BY <1>3, <1>4, <1>6, <3>1
  <2> QED BY <2>1, <2>2
<1>7. ASSUME Language!Starts(n + 1) PROVE Language!InBody(n + 2)
  <2>1. n + 1 \in 1 .. n + 1
    OBVIOUS
  <2> QED BY <1>1, <1>2, <1>7, <2>1
<1>8. ASSUME Language!InBody(n + 1), ~Language!Ends(n + 1) PROVE Language!InBody(n + 2)
  BY <1>2, <1>3, <1>4, <1>5, <1>8
<1> QED BY <1>2, <1>6, <1>7, <1>8

\* Which words are in a body is a matter of the source alone.
LEMMA BodyPrime == src' = src => \A i : Language!InBody(i)' <=> Language!InBody(i)
PROOF
BY DEF Language!InBody, Language!Starts, Language!Ends

LEMMA HashIs == \A f : Hash(f).head = "#" /\ Hash(f).name = f
PROOF
BY DEF Hash, W

\* The word that is read while a function is open is in its body.
LEMMA OpenedInBody ==
  ASSUME NEW n \in Nat, Opened(in_function, n), ~Outside
  PROVE  Language!InBody(n + 1)
PROOF
<1>1. PICK s \in 1 .. n : src[s] = Hash(in_function) /\ \A r \in s + 1 .. n : ~Language!Ends(r)
  BY DEF Opened
<1>2. Language!Starts(s)
  <2>1. src[s].head = "#" /\ src[s].name = in_function
    BY <1>1, HashIs
  <2> QED BY <2>1, Zenon DEF Outside, Language!Starts
<1>3. n + 1 - 1 = n
  OBVIOUS
<1> QED BY <1>1, <1>2, <1>3 DEF Language!InBody

\* The next word declares no constant.
LEMMA ConstantsKeep ==
  ASSUME ConstantsKnown, const_labels' = const_labels, src' = src, NEW n, n = pos, n \in Nat, pos' = n + 1,
         Language!InBody(n + 1) \/ src[n + 1].head # "$"
  PROVE  ConstantsKnown'
PROOF
<1>1. \A i, c : Declares(i, c)' <=> Declares(i, c)
  BY BodyPrime DEF Declares
<1>2. \A c : ~Declares(n + 1, c)
  BY DEF Declares
<1>3. \A i : i \in 1 .. n + 1 <=> i \in 1 .. n \/ i = n + 1
  OBVIOUS
<1>4. \A c \in DOMAIN const_labels' : const_labels'[c] \in Int /\ \E i \in 1 .. n + 1 : Declares(i, c)'
  BY <1>1, <1>3 DEF ConstantsKnown
<1>5. \A i \in 1 .. n + 1 : \A c : Declares(i, c)' => c \in DOMAIN const_labels' /\ const_labels'[c] = src'[i].params[1]
  BY <1>1, <1>2, <1>3 DEF ConstantsKnown
<1> QED BY <1>4, <1>5 DEF ConstantsKnown

\* The code of the functions stays, but for that of the one being compiled.
LEMMA LaidUnit ==
  ASSUME Laid, StringsStay, ConstantsStay, src' = src, NEW n, n = pos, n \in Nat, pos' = n + 1,
         NEW u, u \in DOMAIN functions, compile_unit = u,
         NEW e, functions' = [functions EXCEPT ![u] = @ \o e],
         \A c : CodeLaid(u, c) => \A d : d = c \o e => CodeLaid(u, d)'
  PROVE  Laid'
PROOF
<1>1. ASSUME NEW f \in DOMAIN functions' PROVE \E d : d = functions'[f] /\ CodeLaid(f, d)'
  <2>1. f \in DOMAIN functions
    BY <1>1
  <2>2. PICK c : c = functions[f] /\ CodeLaid(f, c)
    BY <2>1 DEF Laid
  <2>3. CASE f = u
    <3>d. PICK d : d = c \o e
      OBVIOUS
    <3>1. functions'[f] = d
      BY <2>2, <2>3, <3>d
    <3>2. CodeLaid(f, d)'
      BY <2>2, <2>3, <3>d
    <3> QED BY <3>1, <3>2
  <2>4. CASE f # u
    <3>1. functions'[f] = c
      BY <2>1, <2>2, <2>4
    <3>2. CodeLaid(f, c)'
      BY <2>2, <2>4, CodeKept
    <3> QED BY <3>1, <3>2
  <2> QED BY <2>3, <2>4
<1> QED BY <1>1 DEF Laid

LEMMA WordIsHash == ASSUME word \in Word, word.head = "#", NamesResolved(word)
                    PROVE  Language!Ends(pos + 1) /\ ~Language!Starts(pos + 1)
PROOF
<1>1. word.name = ""
  BY DEF NamesResolved
<1>n. PICK n : n = pos + 1
  OBVIOUS
<1>2. src[n] = word
  BY <1>n DEF word
<1>3. Language!Ends(n) /\ ~Language!Starts(n)
  BY <1>1, <1>2, Zenon DEF Language!Ends, Language!Starts
<1> QED BY <1>3, <1>n

LEMMA WordIsNotHash == ASSUME word.head # "#" PROVE ~Language!Ends(pos + 1) /\ ~Language!Starts(pos + 1)
PROOF
<1>n. PICK n : n = pos + 1
  OBVIOUS
<1>2. src[n] = word
  BY <1>n DEF word
<1>3. ~Language!Ends(n) /\ ~Language!Starts(n)
  BY <1>2, Zenon DEF Language!Ends, Language!Starts
<1> QED BY <1>3, <1>n

\* In a function.
LEMMA InsideLays ==
  ASSUME IInv, WellInv, WellInv', WellFormed(src, Operators), LayoutInv, ReadWord, ~Outside
  PROVE  LayoutInv'
PROOF
<1>1. /\ src' = src /\ pos \in Nat /\ pos' = pos + 1 /\ InsideFunction /\ ParamsOK(word)
      /\ word \in Word /\ OperatorFits(word) /\ NamesResolved(word)
      /\ word.head = "@" => word.name \in Names(src, "@")
      /\ compile_unit = in_function /\ in_function \in DOMAIN functions
  BY InsideFacts
<1>2. Distinct(strings) /\ Laid /\ ConstantsKnown /\ Opened(in_function, pos)
  BY DEF LayoutInv, Within
<1>3. WordAdds
  BY <1>2, InsideAdds
<1>4. StringsStay
  BY <1>2, StringsKept DEF CompilerNext
<1>5. const_labels' = const_labels
  BY <1>1, InsideStays
<1>6. ConstantsStay
  BY <1>5 DEF ConstantsStay
<1>n. PICK n : n = pos
  OBVIOUS
<1>v. PICK v : v = word
  OBVIOUS
<1>u. PICK u : u = in_function
  OBVIOUS
<1>7. n \in Nat /\ pos' = n + 1 /\ v = src[n + 1] /\ u = compile_unit /\ u \in DOMAIN functions
  BY <1>1, <1>n, <1>u, <1>v DEF word
<1>8. Language!InBody(n + 1)
  BY <1>2, <1>7, <1>n, OpenedInBody
<1>9. ConstantsKnown'
  BY <1>1, <1>2, <1>5, <1>7, <1>8, <1>n, ConstantsKeep
<1>10. Distinct(strings')
  BY <1>4 DEF StringsStay
<1>11. CASE word.head = "#"
  <2>1. functions' = [functions EXCEPT ![u] = @ \o Epilogue] /\ Outside'
    BY <1>3, <1>7, <1>11 DEF WordAdds, Outside
  <2>2. Language!Ends(n + 1) /\ ~Language!Starts(n + 1)
    BY <1>1, <1>11, <1>n, WordIsHash
  <2>3. ASSUME NEW c, CodeLaid(u, c), NEW d, d = c \o Epilogue PROVE CodeLaid(u, d)'
    <3>e. PICK e : e = Epilogue
      OBVIOUS
    <3>1. IsSeq(e) /\ Len(e) = 4 /\ (\A l \in ToSet(e) : TypedLine(l) /\ l.ins # "LOC") /\ e[1] = Epilogue[1]
      BY <3>e, EpilogueLines
    <3>2. \A j \in 1 .. Len(e) : e[j] \in ToSet(e)
      <4>1. DOMAIN e = 1 .. Len(e)
        BY <3>1, SeqDomain
      <4> QED BY <4>1 DEF ToSet
    <3>3. \A j \in 1 .. Len(e) : e[j].ins = "LOC" => \A i : i = Len(c) + j => WordLaid(u, d, i, n + 1, v)'
      BY <3>1, <3>2
    <3>4. Len(e) >= 1 /\ \A l \in ToSet(e) : TypedLine(l)
      BY <3>1
    <3>5. d = c \o e
      BY <2>3, <3>e
    <3>6. Addition(u, c, d, e, n, v)
      BY <2>2, <3>1, <3>3, <3>4 DEF Addition
    <3> QED BY <1>1, <1>4, <1>6, <1>7, <1>n, <2>3, <3>5, <3>6, CodeGrown
  <2>4. Laid'
    BY <1>1, <1>2, <1>4, <1>6, <1>7, <1>n, <2>1, <2>3, LaidUnit
  <2>5. ~Language!InBody(n + 2)
    BY <1>7, <2>2, BodyNext
  <2>6. ~Language!InBody(pos + 1)'
    <3>x. PICK x : x = n + 2
      OBVIOUS
    <3>1. pos' + 1 = x
      BY <1>7, <3>x
    <3>2. ~Language!InBody(x)'
      BY <1>1, <2>5, <3>x, BodyPrime
    <3> QED BY <3>1, <3>2 DEF Language!InBody, Language!Starts, Language!Ends
  <2>7. Within'
    BY <2>1, <2>6 DEF Within
  <2> QED BY <1>9, <1>10, <2>4, <2>7 DEF LayoutInv
<1>12. CASE word.head # "#"
  <2>1. UNCHANGED <<in_function, compile_unit>> /\ \E w, k : w = word /\ Adds(w, k)
    BY <1>3, <1>12 DEF WordAdds
  <2>2. PICK k : Adds(v, k)
    BY <1>v, <2>1
  <2>3. ~Language!Ends(n + 1)
    BY <1>12, <1>n, WordIsNotHash
  <2>4. /\ functions' = [functions EXCEPT ![compile_unit] = @ \o <<Loc(pos + 1)>> \o k]
        /\ Coded(k)
        /\ Calculates(v) => k = CodeOf(v)' /\ (v.head = "str" => v.params \in ToSet(strings'))
    BY <2>2 DEF Adds
  <2>e. PICK e : e = <<Loc(n + 1)>> \o k
    OBVIOUS
  <2>5. functions' = [functions EXCEPT ![u] = @ \o e]
    <3>c. PICK c : c = functions[u] /\ IsSeq(c)
      BY <1>2, <1>7 DEF Laid, CodeLaid
    <3>l. PICK l : l = <<Loc(n + 1)>>
      OBVIOUS
    <3>1. IsSeq(c) /\ IsSeq(l) /\ IsSeq(k)
      BY <2>4, <3>c, <3>l, ShortSequences DEF Coded
    <3>2. e = l \o k
      BY <2>e, <3>l
    <3>j. PICK j : j = c \o l
      OBVIOUS
    <3>3. j \o k = c \o e
      BY <3>1, <3>2, <3>j, JoinedTwice
    <3>4. functions' = [functions EXCEPT ![u] = @ \o l \o k]
      BY <1>7, <1>n, <2>4, <3>l
    <3> QED BY <3>3, <3>4, <3>c, <3>j
  <2>6. ASSUME NEW c, CodeLaid(u, c), NEW d, d = c \o e PROVE CodeLaid(u, d)'
    <3>1. IsSeq(c)
      BY <2>6 DEF CodeLaid
    <3>3. Opened(u, n)
      BY <1>2, <1>n, <1>u
    <3>4. /\ OperatorFits(v) /\ NamesResolved(v) /\ v \in Word
          /\ v.head = "@" => v.name \in Names(src, "@")
      BY <1>1, <1>v
    <3>5. d = c \o e
      BY <2>6
    <3>6. Addition(u, c, d, e, n, v)
      BY <1>1, <1>5, <1>7, <1>n, <2>1, <2>3, <2>4, <2>e, <3>1, <3>3, <3>4, <3>5, WordIsLaid
    <3> QED BY <1>1, <1>4, <1>6, <1>7, <1>n, <2>6, <3>5, <3>6, CodeGrown
  <2>7. Laid'
    BY <1>1, <1>2, <1>4, <1>6, <1>7, <1>n, <2>5, <2>6, LaidUnit
  <2>8. Opened(u, n + 1)'
    <3>1. PICK s \in 1 .. n : src[s] = Hash(u) /\ \A r \in s + 1 .. n : ~Language!Ends(r)
      BY <1>2, <1>n, <1>u DEF Opened
    <3>2. s \in 1 .. n + 1 /\ \A r \in s + 1 .. n + 1 : r \in s + 1 .. n \/ r = n + 1
      BY <1>7
    <3>3. \A r \in s + 1 .. n + 1 : ~Language!Ends(r)
      BY <2>3, <3>1, <3>2
    <3> QED BY <1>1, <3>1, <3>2, <3>3 DEF Opened, Language!Ends
  <2>9. Within'
    <3>1. ~Outside' /\ in_function' = u
      BY <1>u, <2>1 DEF Outside
    <3>2. pos' = n + 1
      BY <1>7
    <3>3. Opened(in_function, pos)'
      BY <2>8, <3>1, <3>2 DEF Opened
    <3> QED BY <3>1, <3>3 DEF Within
  <2> QED BY <1>9, <1>10, <2>7, <2>9 DEF LayoutInv
<1> QED BY <1>11, <1>12

\* The declaration that comes next, in a well formed program.
LEMMA OutsideFacts ==
  ASSUME IInv, WellInv, WellInv', FrameInv, WellFormed(src, Operators), ReadWord, Outside
  PROVE  /\ src' = src /\ src \in Programs /\ pos \in Nat /\ pos' = pos + 1
         /\ OutsideFunction /\ status' \notin {"error", "assertion", "crash"}
         /\ word \in Word
         /\ word.head = "#" => Hash(word.name) = word /\ ~(word.name = "")
         /\ word.head = "$" => word.params[1] \in Int
         /\ compile_unit = NoUnit /\ NoUnit \notin DOMAIN functions
PROOF
<1> DEFINE b == OpenBlocks(src)[pos]
<1>1. /\ status = "compiling" /\ pos < Len(src) /\ pos' = pos + 1 /\ OutsideFunction
      /\ src' = src /\ src \in Programs /\ pos \in 0 .. Len(src)
  BY DEF ReadWord, IInv, Progress, Outside
<1>2. NestingKnown(b, in_function, compile_unit, while_labels, if_labels)
  BY <1>1 DEF WellInv
<1>3. b = <<>> /\ compile_unit = NoUnit
  BY <1>2 DEF NestingKnown, Outside
<1>4. /\ word \in Word /\ pos \in Nat
      /\ OpenBlocks(src)[pos + 1] # Bad /\ OpenBlocks(src)[pos + 1] = BlocksAfter(b, word)
      /\ DeclarationFits(word)
  BY <1>1, <1>3, NextWordFits
<1>5. BlocksAfter(b, word) = BlocksOutside(word)
  BY <1>3 DEF BlocksAfter, Bad
<1>6. status' \notin {"error", "assertion", "crash"}
  BY <1>1 DEF WellInv
<1>7. ASSUME word.head = "#" PROVE Hash(word.name) = word /\ ~(word.name = "")
  <2>1. word.params = <<>>
    BY <1>4, <1>7 DEF DeclarationFits
  <2>2. word.name # ""
    BY <1>4, <1>5, <1>7 DEF BlocksOutside
  <2>3. Hash(word.name) = word
    BY <1>4, <1>7, <2>1 DEF Word, Hash, W
  <2> QED BY <2>2, <2>3
<1>8. ASSUME word.head = "$" PROVE word.params[1] \in Int
  <2>1. Len(word.params) = 1
    BY <1>4, <1>8 DEF DeclarationFits
  <2>2. word.params \in Seq(Int)
    BY <1>4 DEF Word
  <2> QED BY <2>1, <2>2, ElementOfSeq
<1> QED BY <1>1, <1>3, <1>4, <1>6, <1>7, <1>8 DEF FrameInv

\* A declaration leaves the code of the functions alone.
LEMMA LaidKept ==
  ASSUME Laid, StringsStay, ConstantsStay, src' = src, pos \in Nat, pos' = pos + 1, compile_unit \notin DOMAIN functions
  PROVE  \A f \in DOMAIN functions : \E d : d = functions[f] /\ CodeLaid(f, d)'
PROOF
<1>n. PICK n : n = pos
  OBVIOUS
<1> SUFFICES ASSUME NEW f \in DOMAIN functions PROVE \E d : d = functions[f] /\ CodeLaid(f, d)'
  OBVIOUS
<1>1. PICK c : c = functions[f] /\ CodeLaid(f, c)
  BY DEF Laid
<1>2. n \in Nat /\ pos' = n + 1 /\ f # compile_unit
  BY <1>n
<1>3. CodeLaid(f, c)'
  BY <1>1, <1>2, <1>n, CodeKept
<1> QED BY <1>1, <1>3

\* The lines that open a function (main.py:298-300).
LEMMA PrologueLaid == \A f : CodeLaid(f, Prologue)'
PROOF
<1>1. IsSeq(Prologue) /\ \A l \in ToSet(Prologue) : TypedLine(l) /\ l.ins # "LOC"
  BY EpilogueLines
<1>2. \A i \in 1 .. Len(Prologue) : Prologue[i] \in ToSet(Prologue)
  <2>1. DOMAIN Prologue = 1 .. Len(Prologue)
    BY <1>1, SeqDomain
  <2> QED BY <2>1 DEF ToSet
<1>p. PICK c : c = Prologue
  OBVIOUS
<1>3. \A f : CodeLaid(f, c)'
  BY <1>1, <1>2, <1>p DEF CodeLaid, TypedLine, TypedMove, TypedSum
<1>4. Prologue' = Prologue
  BY DEF Prologue, POP, I1, I2, Reg, Ptr, Imm
<1> QED BY <1>3, <1>4, <1>p DEF CodeLaid

\* No body is open after a declaration of something else.
LEMMA StaysOutside ==
  ASSUME src' = src, pos \in Nat, pos' = pos + 1, ~Language!InBody(pos + 1), word.head # "#", Outside'
  PROVE  Within'
PROOF
<1>n. PICK n : n = pos
  OBVIOUS
<1>x. PICK x : x = n + 2
  OBVIOUS
<1>1. n \in Nat /\ ~Language!InBody(n + 1) /\ ~Language!Starts(n + 1)
  BY <1>n, WordIsNotHash
<1>2. ~Language!InBody(x)
  BY <1>1, <1>x, BodyNext
<1>3. pos' + 1 = x
  BY <1>1, <1>n, <1>x
<1>4. ~Language!InBody(x)'
  BY <1>2, BodyPrime
<1>5. ~Language!InBody(pos + 1)'
  BY <1>3, <1>4 DEF Language!InBody, Language!Starts, Language!Ends
<1> QED BY <1>5 DEF Within

\* Between functions.
LEMMA OutsideLays ==
  ASSUME IInv, WellInv, WellInv', FrameInv, WellFormed(src, Operators), LayoutInv, ReadWord, Outside
  PROVE  LayoutInv'
PROOF
<1>1. /\ src' = src /\ pos \in Nat /\ pos' = pos + 1
      /\ OutsideFunction /\ status' \notin {"error", "assertion", "crash"}
      /\ word \in Word
      /\ word.head = "#" => Hash(word.name) = word /\ ~(word.name = "")
      /\ word.head = "$" => word.params[1] \in Int
      /\ compile_unit = NoUnit /\ NoUnit \notin DOMAIN functions
  BY OutsideFacts
<1>2. Distinct(strings) /\ Laid /\ ConstantsKnown /\ ~Language!InBody(pos + 1)
  BY DEF LayoutInv, Within
<1>3. StringsStay
  BY <1>2, StringsKept DEF CompilerNext
<1>4. Distinct(strings')
  BY <1>3 DEF StringsStay
<1>n. PICK n : n = pos
  OBVIOUS
<1>v. PICK v : v = word
  OBVIOUS
<1>5. n \in Nat /\ pos' = n + 1 /\ v = src[n + 1]
  BY <1>1, <1>n, <1>v DEF word
<1>6. CASE DeclareFunction
  <2>1. /\ word.head = "#" /\ in_function' = word.name /\ const_labels' = const_labels
        /\ functions' = [f \in DOMAIN functions \cup {word.name} |->
                             IF f = word.name THEN Prologue ELSE functions[f]]
    BY <1>1, <1>6 DEF DeclareFunction, Fail, declVars
  <2>2. ConstantsStay
    BY <2>1 DEF ConstantsStay
  <2>3. Laid'
    <3>1. \A f \in DOMAIN functions : \E d : d = functions[f] /\ CodeLaid(f, d)'
      BY <1>1, <1>2, <1>3, <2>2, LaidKept
    <3>2. \A f \in DOMAIN functions' : \E d : d = functions'[f] /\ CodeLaid(f, d)'
      <4> SUFFICES ASSUME NEW f \in DOMAIN functions' PROVE \E d : d = functions'[f] /\ CodeLaid(f, d)'
        OBVIOUS
      <4>1. CASE f = word.name
        <5>1. functions'[f] = Prologue
          BY <2>1, <4>1
        <5>2. CodeLaid(f, Prologue)'
          BY PrologueLaid
        <5>p. PICK d : d = Prologue
          OBVIOUS
        <5>3. Prologue' = Prologue
          BY DEF Prologue, POP, I1, I2, Reg, Ptr, Imm
        <5>4. CodeLaid(f, d)'
          BY <5>2, <5>3, <5>p DEF CodeLaid
        <5> QED BY <5>1, <5>4, <5>p
      <4>2. CASE f # word.name
        <5>1. f \in DOMAIN functions /\ functions'[f] = functions[f]
          BY <2>1, <4>2
        <5> QED BY <3>1, <5>1
      <4> QED BY <4>1, <4>2
    <3> QED BY <3>2 DEF Laid
  <2>4. ConstantsKnown'
    <3>1. src[n + 1].head # "$"
      BY <1>5, <1>v, <2>1
    <3> QED BY <1>1, <1>2, <1>5, <1>n, <2>1, <3>1, ConstantsKeep
  <2>5. Within'
    <3>u. PICK u : u = word.name
      OBVIOUS
    <3>1. src[n + 1] = Hash(u)
      BY <1>1, <1>5, <1>v, <2>1, <3>u
    <3>2. n + 1 \in 1 .. n + 1 /\ n + 1 + 1 .. n + 1 = {}
      BY <1>5
    <3>3. Opened(u, n + 1)'
      BY <1>1, <3>1, <3>2 DEF Opened
    <3>4. in_function' = u /\ ~Outside'
      BY <1>1, <2>1, <3>u DEF Outside
    <3>5. Opened(in_function, pos)'
      BY <1>5, <3>3, <3>4 DEF Opened
    <3> QED BY <3>4, <3>5 DEF Within
  <2> QED BY <1>4, <2>3, <2>4, <2>5 DEF LayoutInv
<1>7. CASE AllocateMemory
  <2>1. /\ word.head = "@" /\ in_function' = in_function /\ const_labels' = const_labels
        /\ functions' = functions
    BY <1>1, <1>7 DEF AllocateMemory, Fail, declVars
  <2>2. ConstantsStay
    BY <2>1 DEF ConstantsStay
  <2>3. Laid'
    <3>1. \A f \in DOMAIN functions : \E d : d = functions[f] /\ CodeLaid(f, d)'
      BY <1>1, <1>2, <1>3, <2>2, LaidKept
    <3> QED BY <2>1, <3>1 DEF Laid
  <2>4. ConstantsKnown'
    <3>1. src[n + 1].head # "$"
      BY <1>5, <1>v, <2>1
    <3> QED BY <1>1, <1>2, <1>5, <1>n, <2>1, <3>1, ConstantsKeep
  <2>5. Within'
    <3>1. Outside' /\ word.head # "#"
      BY <2>1 DEF Outside
    <3> QED BY <1>1, <1>2, <3>1, StaysOutside
  <2> QED BY <1>4, <2>3, <2>4, <2>5 DEF LayoutInv
<1>8. CASE DeclareConst
  <2>0. /\ word.head = "$" /\ in_function' = in_function /\ functions' = functions
        /\ word.name \notin DOMAIN const_labels
        /\ const_labels' = [c \in DOMAIN const_labels \cup {word.name} |->
                                IF c = word.name THEN word.params[1] ELSE const_labels[c]]
    BY <1>1, <1>8 DEF DeclareConst, Fail
  <2>1. /\ v.head = "$" /\ v.params[1] \in Int
        /\ DOMAIN const_labels' = DOMAIN const_labels \cup {v.name} /\ v.name \notin DOMAIN const_labels
        /\ const_labels'[v.name] = v.params[1]
        /\ \A c \in DOMAIN const_labels : const_labels'[c] = const_labels[c]
    BY <1>1, <1>v, <2>0
  <2>2. ConstantsStay
    BY <2>1 DEF ConstantsStay
  <2>3. Laid'
    <3>1. \A f \in DOMAIN functions : \E d : d = functions[f] /\ CodeLaid(f, d)'
      BY <1>1, <1>2, <1>3, <2>2, LaidKept
    <3> QED BY <2>0, <3>1 DEF Laid
  <2>4. ConstantsKnown'
    <3>1. \A i, c : Declares(i, c)' <=> Declares(i, c)
      BY <1>1, BodyPrime DEF Declares
    <3>2. \A c : Declares(n + 1, c) <=> c = v.name
      BY <1>2, <1>5, <1>n, <2>1 DEF Declares
    <3>3. \A i : i \in 1 .. n + 1 <=> i \in 1 .. n \/ i = n + 1
      BY <1>5
    <3>4. n + 1 \in 1 .. n + 1
      BY <1>5
    <3>5. /\ \A c \in DOMAIN const_labels : const_labels[c] \in Int /\ \E i \in 1 .. n : Declares(i, c)
          /\ \A i \in 1 .. n : \A c : Declares(i, c) => c \in DOMAIN const_labels /\ const_labels[c] = src[i].params[1]
      BY <1>2, <1>n DEF ConstantsKnown
    <3>6. ASSUME NEW c \in DOMAIN const_labels' PROVE const_labels'[c] \in Int /\ \E i \in 1 .. n + 1 : Declares(i, c)'
      <4>1. CASE c = v.name
        BY <2>1, <3>1, <3>2, <3>4, <4>1
      <4>2. CASE c # v.name
        <5>1. c \in DOMAIN const_labels /\ const_labels'[c] = const_labels[c]
          BY <2>1, <3>6, <4>2
        <5> QED BY <3>1, <3>3, <3>5, <5>1
      <4> QED BY <4>1, <4>2
    <3>7. ASSUME NEW i \in 1 .. n + 1, NEW c, Declares(i, c)'
          PROVE  c \in DOMAIN const_labels' /\ const_labels'[c] = src'[i].params[1]
      <4>1. CASE i = n + 1
        BY <1>1, <1>5, <2>1, <3>1, <3>2, <3>7, <4>1
      <4>2. CASE i # n + 1
        <5>1. i \in 1 .. n /\ Declares(i, c)
          BY <3>1, <3>3, <3>7, <4>2
        <5>2. c \in DOMAIN const_labels /\ const_labels[c] = src[i].params[1]
          BY <3>5, <5>1
        <5> QED BY <1>1, <2>1, <5>2
      <4> QED BY <4>1, <4>2
    <3> QED BY <1>5, <3>6, <3>7 DEF ConstantsKnown
  <2>5. Within'
    <3>1. Outside' /\ word.head # "#"
      BY <2>0 DEF Outside
    <3> QED BY <1>1, <1>2, <3>1, StaysOutside
  <2> QED BY <1>4, <2>3, <2>4, <2>5 DEF LayoutInv
<1>9. CASE NothingElseOutside
  BY <1>1, <1>9 DEF NothingElseOutside, Fail
<1> QED BY <1>1, <1>6, <1>7, <1>8, <1>9 DEF OutsideFunction

\* The end of the program, and the file.
LEMMA LayoutKeeps ==
  ASSUME LayoutInv, UNCHANGED <<src, pos, in_function, compile_unit, functions, const_labels, strings>>
  PROVE  LayoutInv'
PROOF
<1>1. UNCHANGED src /\ UNCHANGED pos /\ UNCHANGED in_function /\ UNCHANGED compile_unit /\ UNCHANGED functions
      /\ UNCHANGED const_labels /\ UNCHANGED strings
  OBVIOUS
<1>2. WellFormed(src, Operators)' = WellFormed(src, Operators)
  BY <1>1
<1> SUFFICES ASSUME WellFormed(src, Operators) PROVE LayoutInv'
  BY <1>2 DEF LayoutInv
<1>3. Distinct(strings) /\ Laid /\ ConstantsKnown /\ Within
  BY DEF LayoutInv
<1>4. \A w : Named(w)' <=> Named(w)
  BY <1>1 DEF Named
<1>5. \A w : CodeOf(w)' = CodeOf(w)
  BY <1>1 DEF CodeOf, PlainCode, StringLabel, StringNumber
<1>6. \A f, c, i, p : NextLaid(f, c, i, p)' <=> NextLaid(f, c, i, p)
  BY <1>1 DEF NextLaid, Precedes, Language!Ends
<1>7. \A f, p : Opened(f, p)' <=> Opened(f, p)
  BY <1>1 DEF Opened, Language!Ends
<1>8. ASSUME NEW f, NEW c, NEW i, NEW p, NEW w, WordLaid(f, c, i, p, w) PROVE WordLaid(f, c, i, p, w)'
  BY <1>1, <1>4, <1>5, <1>6, <1>7, <1>8 DEF WordLaid, NextLaid, Precedes, Language!Ends
<1>9. ASSUME NEW f, NEW c, CodeLaid(f, c) PROVE CodeLaid(f, c)'
  BY <1>1, <1>8, <1>9 DEF CodeLaid, TypedLine, TypedMove, TypedSum
<1>10. Laid'
  BY <1>1, <1>3, <1>9 DEF Laid
<1>11. ConstantsKnown'
  <2>1. \A i, c : Declares(i, c)' <=> Declares(i, c)
    BY <1>1, BodyPrime DEF Declares
  <2> QED BY <1>1, <1>3, <2>1 DEF ConstantsKnown
<1>12. Within'
  BY <1>1, <1>3 DEF Within, Outside, Opened, Language!Ends, Language!InBody, Language!Starts
<1> QED BY <1>1, <1>3, <1>10, <1>11, <1>12 DEF LayoutInv

\* At the end of a well formed program no function is open.
LEMMA AtTheEnd ==
  ASSUME IInv, WellInv, WellFormed(src, Operators), status = "compiling", pos = Len(src)
  PROVE  /\ Outside /\ compile_unit = NoUnit
         /\ DOMAIN functions = Names(src, "#") /\ memory_segments = Names(src, "@")
PROOF
<1>1. OpenBlocks(src)[pos] = <<>> /\ Len(src) \in Nat
  BY ProgramsAssumption, LenProperties DEF WellFormed, WellNested, IInv, Progress
<1>2. NestingKnown(<<>>, in_function, compile_unit, while_labels, if_labels)
  BY <1>1 DEF WellInv
<1>3. Outside /\ compile_unit = NoUnit
  BY <1>2 DEF NestingKnown, Outside
<1>4. NamesKnown(pos, DOMAIN functions, memory_segments, DOMAIN const_labels, functions_called)
  BY DEF WellInv
<1> QED BY <1>1, <1>3, <1>4, DeclaredAtEnds DEF NamesKnown

\* LayoutInv is inductive: every word that has been read has its code in its
\* function, and nothing else is there.
LEMMA LayoutInvStep ==
  IInv /\ WellInv /\ FrameInv /\ LayoutInv /\ [CompilerNext]_compilerVars => LayoutInv'
PROOF
<1> SUFFICES ASSUME IInv, WellInv, FrameInv, LayoutInv, [CompilerNext]_compilerVars PROVE LayoutInv'
  OBVIOUS
<1>1. src' = src
  BY DEF CompilerNext, ReadWord, Finish, WriteOutput, compilerVars
<1>2. CASE ~WellFormed(src, Operators)
  BY <1>1, <1>2 DEF LayoutInv
<1>3. CASE WellFormed(src, Operators)
  <2>0. WellInv'
    BY WellInvStep
  <2>1. CASE ReadWord
    BY <1>3, <2>0, <2>1, InsideLays, OutsideLays
  <2>2. CASE Finish
    <3>1. compile_unit = NoUnit
      BY <1>3, <2>2, AtTheEnd DEF Finish
    <3>2. UNCHANGED <<src, pos, in_function, compile_unit, functions, const_labels, strings>>
      BY <2>2, <3>1 DEF Finish, Fail, declVars
    <3> QED BY <3>2, LayoutKeeps
  <2>3. CASE WriteOutput
    BY <2>3, LayoutKeeps DEF WriteOutput, declVars
  <2>4. CASE UNCHANGED compilerVars
    BY <2>4, LayoutKeeps DEF compilerVars, declVars
  <2> QED BY <2>1, <2>2, <2>3, <2>4 DEF CompilerNext
<1> QED BY <1>2, <1>3

-----------------------------------------------------------------------------
(***************************************************************************)
(* The file.                                                               *)
(***************************************************************************)
\* A line of data.
DataLine(l, chars) ==
  \/ l.ins = "LCOMM" /\ l.size \in Nat
  \/ l.ins = "QUAD" /\ \E c \in chars : l.value = Len(c)
  \/ l.ins = "DATA" /\ l.chars \in chars
FileLine(l, chars) == TypedLine(l) \/ DataLine(l, chars)
FileCode(t, chars) == IsSeq(t) /\ \A l \in ToSet(t) : FileLine(l, chars)

\* c stands in t after b.
Stands(t, b, c) == /\ b \in Nat /\ Len(c) \in Nat /\ b + Len(c) <= Len(t)
                   /\ \A j \in 1 .. Len(c) : t[b + j] = c[j]
\* The line i of t is in the code of a function.
HousedAt(t, i) == \E f, b, c : /\ f \in DOMAIN functions /\ c = functions[f]
                               /\ b \in 1 .. Len(t) /\ t[b] = FuncLabel(f)
                               /\ Stands(t, b, c) /\ i \in b + 1 .. b + Len(c)
Housed(t) == \A i \in 1 .. Len(t) : t[i].ins = "LOC" => HousedAt(t, i)
FileLaid(t, chars) == FileCode(t, chars) /\ Housed(t)

\* Code that stands in a part of a file stands in the file.
LEMMA StandsFurther ==
  ASSUME NEW s, NEW t, NEW u, Joined(s, t, u), NEW b, NEW c
  PROVE  /\ Stands(s, b, c) => Stands(u, b, c)
         /\ \A n : n = Len(s) => (Stands(t, b, c) => Stands(u, n + b, c))
PROOF
<1>n. PICK m : m = Len(s)
  OBVIOUS
<1>k. PICK k : k = Len(t)
  OBVIOUS
<1>l. PICK l : l = Len(c)
  OBVIOUS
<1>1. /\ m \in Nat /\ k \in Nat /\ Len(u) = m + k
      /\ \A i \in 1 .. m : u[i] = s[i]
      /\ \A i \in 1 .. k : u[m + i] = t[i]
  BY <1>n, <1>k DEF Joined
<1>2. ASSUME Stands(s, b, c) PROVE Stands(u, b, c)
  <2>1. b \in Nat /\ l \in Nat /\ b + l <= m /\ \A j \in 1 .. l : s[b + j] = c[j]
    BY <1>2, <1>l, <1>n DEF Stands
  <2>2. \A j \in 1 .. l : b + j \in 1 .. m
    BY <1>1, <2>1
  <2>3. b + l <= m + k
    BY <1>1, <2>1
  <2> QED BY <1>1, <2>1, <2>2, <2>3, <1>l DEF Stands
<1>3. ASSUME Stands(t, b, c) PROVE Stands(u, m + b, c)
  <2>1. b \in Nat /\ l \in Nat /\ b + l <= k /\ \A j \in 1 .. l : t[b + j] = c[j]
    BY <1>3, <1>l, <1>k DEF Stands
  <2>2. \A j \in 1 .. l : b + j \in 1 .. k /\ (m + b) + j = m + (b + j)
    <3> SUFFICES ASSUME NEW j \in 1 .. l
                 PROVE  b + j \in 1 .. k /\ (m + b) + j = m + (b + j)
      OBVIOUS
    <3>1. m \in Nat /\ k \in Nat /\ b \in Nat /\ l \in Nat /\ b + l <= k
      BY <1>1, <2>1
    <3> QED BY <3>1
  <2>3. (m + b) + l <= m + k /\ m + b \in Nat
    BY <1>1, <2>1
  <2>4. \A j \in 1 .. l : u[(m + b) + j] = c[j]
    BY <1>1, <2>1, <2>2
  <2> QED BY <1>1, <2>1, <2>3, <2>4, <1>l DEF Stands
<1> QED BY <1>2, <1>3, <1>n

\* Two parts of a file, each of which has the whole code of its words, make a
\* file that has.
LEMMA HousedJoined ==
  ASSUME NEW s, NEW t, IsSeq(s), IsSeq(t), Housed(s), Housed(t), NEW u, u = s \o t
  PROVE  Housed(u)
PROOF
<1>n. PICK m : m = Len(s)
  OBVIOUS
<1>k. PICK k : k = Len(t)
  OBVIOUS
<1>0. Joined(s, t, u)
  BY ConcatAt
<1>1. /\ m \in Nat /\ k \in Nat /\ Len(u) = m + k
      /\ \A i \in 1 .. m : u[i] = s[i]
      /\ \A i \in 1 .. k : u[m + i] = t[i]
  BY <1>n, <1>k, <1>0 DEF Joined
<1> SUFFICES ASSUME NEW i \in 1 .. m + k, u[i].ins = "LOC" PROVE HousedAt(u, i)
  BY <1>1 DEF Housed
<1>2. CASE i <= m
  <2>1. i \in 1 .. m /\ s[i].ins = "LOC"
    BY <1>1, <1>2
  <2>2. HousedAt(s, i)
    BY <2>1, <1>n DEF Housed
  <2>3. PICK f, b, c : /\ f \in DOMAIN functions /\ c = functions[f]
                       /\ b \in 1 .. m /\ s[b] = FuncLabel(f)
                       /\ Stands(s, b, c) /\ i \in b + 1 .. b + Len(c)
    BY <2>2, <1>n DEF HousedAt
  <2>4. Stands(u, b, c)
    BY <1>0, <2>3, StandsFurther
  <2>5. b \in 1 .. Len(u) /\ u[b] = FuncLabel(f)
    BY <1>1, <2>3
  <2> QED BY <2>3, <2>4, <2>5 DEF HousedAt
<1>3. CASE ~(i <= m)
  <2>i. PICK h : h = i - m
    OBVIOUS
  <2>1. h \in 1 .. k /\ i = m + h
    BY <1>1, <1>3, <2>i
  <2>a. t[h].ins = "LOC"
    BY <1>1, <2>1
  <2>2. HousedAt(t, h)
    BY <2>1, <2>a, <1>k DEF Housed
  <2>3. PICK f, b, c : /\ f \in DOMAIN functions /\ c = functions[f]
                       /\ b \in 1 .. k /\ t[b] = FuncLabel(f)
                       /\ Stands(t, b, c) /\ h \in b + 1 .. b + Len(c)
    BY <2>2, <1>k DEF HousedAt
  <2>d. PICK d : d = m + b
    OBVIOUS
  <2>4. Stands(u, d, c)
    BY <1>0, <2>3, <1>n, <2>d, StandsFurther
  <2>l. PICK l : l = Len(c)
    OBVIOUS
  <2>6. l \in Nat
    BY <2>3, <2>l DEF Stands
  <2>5. d \in 1 .. m + k /\ i \in d + 1 .. d + l
    BY <1>1, <2>1, <2>3, <2>d, <2>l, <2>6
  <2>7. u[d] = FuncLabel(f)
    BY <1>1, <2>3, <2>d
  <2> QED BY <1>1, <2>3, <2>4, <2>5, <2>7, <2>l DEF HousedAt
<1> QED BY <1>2, <1>3

LEMMA FileJoined ==
  ASSUME NEW s, NEW t, NEW chars, FileLaid(s, chars), FileLaid(t, chars), NEW u, u = s \o t
  PROVE  FileLaid(u, chars)
PROOF
<1>1. Housed(u)
  BY HousedJoined DEF FileLaid, FileCode
<1>2. IsSeq(u) /\ ToSet(u) = ToSet(s) \cup ToSet(t)
  BY ConcatElems DEF FileLaid, FileCode
<1> QED BY <1>1, <1>2 DEF FileLaid, FileCode

\* Lines that stand for no word.
LEMMA NoWordsLaid ==
  ASSUME NEW s, NEW chars, FileCode(s, chars), \A l \in ToSet(s) : l.ins # "LOC"
  PROVE  FileLaid(s, chars)
PROOF
<1>1. \A i \in 1 .. Len(s) : s[i] \in ToSet(s)
  BY SeqDomain DEF FileCode, ToSet
<1> QED BY <1>1 DEF FileLaid, Housed
===============================================================================
