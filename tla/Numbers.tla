------------------------------- MODULE Numbers -------------------------------
(***************************************************************************)
(* Machine words, bytes and byte-addressed memory.  A word takes 8 bytes,  *)
(* so every size and offset the compiler uses (1, 2, 4, 8) keeps its       *)
(* value; how much a byte and a word hold is scaled down: 2 and 2^8 to     *)
(* compare whole words, 256 and 2^12 where bytes are letters.              *)
(***************************************************************************)
EXTENDS Integers

CONSTANTS ByteSize, WordBits

ASSUME NumbersAssumption == ByteSize \in Nat \ {0, 1} /\ WordBits \in Nat \ {0}

Bytes == 8
WordSize == LET power[i \in 0 .. WordBits] == IF i = 0 THEN 1 ELSE 2 * power[i - 1]
            IN power[WordBits]

\* How many values n bytes hold, within a word.
Values(n) ==
  LET upTo[i \in 0 .. n] == IF i = 0 THEN 1
                            ELSE IF upTo[i - 1] * ByteSize < WordSize
                            THEN upTo[i - 1] * ByteSize ELSE WordSize
  IN upTo[n]

ASSUME BytesAssumption == Values(Bytes) = WordSize

\* The n digits of v in a base, the lowest first, and what n digits amount to.
DigitsIn(base, v, n) ==
  LET rest[i \in 0 .. n] == IF i = 0 THEN v ELSE rest[i - 1] \div base
  IN [i \in 0 .. n - 1 |-> rest[i] % base]
ValueIn(base, digits, n) ==
  LET highest[i \in 0 .. n] ==
        IF i = 0 THEN 0 ELSE (digits[n - i] + base * highest[i - 1]) % WordSize
  IN highest[n]
Digits(v, n) == DigitsIn(ByteSize, v, n)
Value(digits, n) == ValueIn(ByteSize, digits, n)
Wrap(v) == v % WordSize
Signed(v) == IF v >= WordSize \div 2 THEN v - WordSize ELSE v

Bits(v) == DigitsIn(2, v, WordBits)
FromBits(bits) == ValueIn(2, bits, WordBits)
BitAnd(a, b) ==
  LET x == Bits(a)  y == Bits(b) IN FromBits([i \in 0 .. WordBits - 1 |-> x[i] * y[i]])
BitOr(a, b) ==
  LET x == Bits(a)  y == Bits(b)
  IN FromBits([i \in 0 .. WordBits - 1 |-> IF x[i] + y[i] = 0 THEN 0 ELSE 1])

Mapped(m, a, n) == \A i \in 0 .. n - 1 : a + i \in DOMAIN m
Load(m, a, n) == Value([i \in 0 .. n - 1 |-> m[a + i]], n)
Store(m, a, v, n) == [b \in DOMAIN m |-> IF b \in a .. a + n - 1
                                         THEN Digits(v, n)[b - a] ELSE m[b]]
Place(m, a, bytes) == [b \in DOMAIN m |-> IF b - a + 1 \in DOMAIN bytes
                                          THEN bytes[b - a + 1] ELSE m[b]]
=============================================================================
