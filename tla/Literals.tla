------------------------------- MODULE Literals -------------------------------
(***************************************************************************)
(* CodeIterator at the level of characters: get_next_op cuts the lines of  *)
(* a file into words and read_string_character reads what stands between   *)
(* quotes.  Then the way of a literal: get_char, or escape_gas_string and  *)
(* the assembler.                                                          *)
(*                                                                         *)
(* A character is its code.  A file is read as one text: the end of a line *)
(* is its newline or the end of the text.                                  *)
(***************************************************************************)
EXTENDS Integers, Sequences, SequencesExt

CONSTANT Files    \* [text, means]: a file, and what its literals mean if that is said

Tab == 9
NL == 10
CR == 13
Space == 32
Quote == 34
Apostrophe == 39
Semicolon == 59
Backslash == 92
IsSpace(ch) == ch \in (Tab .. CR) \cup (28 .. Space) \cup {133, 160}    \* str.isspace
IsOctal(ch) == ch \in 48 .. 55
IsDigit(ch) == ch \in 48 .. 57

\* Python ends a line at any CR; here a file has one only before a newline.
ASSUME FilesAssumption ==
  \A f \in Files : /\ f.text \in Seq(Nat)
                   /\ \A i \in DOMAIN f.text :
                        f.text[i] = CR => i < Len(f.text) /\ f.text[i + 1] = NL

VARIABLES
  file,
  next,      \* index of the next character
  line_num, op_num,
  delim,     \* quote of the literal being read; 0 outside
  res,       \* its characters so far
  from,      \* where it starts
  words,     \* words delivered: [line, op, first, last, delim, value]
  comments,  \* history: [first, last] of comments
  mode       \* "reading", "end", "unterminated", "IndexError"

wordVars == <<delim, res, from>>
lexerVars == <<file, next, line_num, op_num, wordVars, words, comments, mode>>

text == file.text
LexerInit ==
  /\ file \in Files
  /\ next = 1 /\ line_num = 1 /\ op_num = 0
  /\ delim = 0 /\ res = <<>> /\ from = 0
  /\ words = <<>> /\ comments = <<>> /\ mode = "reading"

-----------------------------------------------------------------------------
char == text[next]
LineEnd(i) == CHOOSE j \in i .. Len(text) : /\ j = Len(text) \/ text[j] = NL
                                            /\ \A k \in i .. j - 1 : text[k] # NL
WordEnd(i) == CHOOSE j \in i .. Len(text) : /\ j = Len(text) \/ IsSpace(text[j + 1])
                                            /\ \A k \in i .. j : ~IsSpace(text[k])
Deliver(first, last, d, v) ==
  words' = Append(words, [line |-> line_num, op |-> op_num + 1, first |-> first,
                          last |-> last, delim |-> d, value |-> v])

Between == mode = "reading" /\ delim = 0 /\ next <= Len(text)

Blank == /\ Between /\ IsSpace(char)
         /\ next' = next + 1
         /\ IF char = NL THEN line_num' = line_num + 1 /\ op_num' = 0
            ELSE UNCHANGED <<line_num, op_num>>
         /\ UNCHANGED <<file, wordVars, words, comments, mode>>

PlainWord == /\ Between /\ ~IsSpace(char) /\ char \notin {Quote, Apostrophe, Semicolon}
             /\ next' = WordEnd(next) + 1
             /\ Deliver(next, WordEnd(next), 0, <<>>)
             /\ op_num' = op_num + 1
             /\ UNCHANGED <<file, line_num, wordVars, comments, mode>>

\* A word that starts with ";", and skip_line.
Comment == /\ Between /\ char = Semicolon
           /\ LET end == LineEnd(next)
                  last == IF text[end] = NL THEN end - 1 ELSE end
              IN /\ next' = last + 1
                 /\ comments' = Append(comments, [first |-> next, last |-> last])
           /\ op_num' = op_num + 1
           /\ UNCHANGED <<file, line_num, wordVars, words, mode>>

OpenLiteral == /\ Between /\ char \in {Quote, Apostrophe}
               /\ delim' = char /\ res' = <<>> /\ from' = next
               /\ next' = next + 1
               /\ UNCHANGED <<file, line_num, op_num, words, comments, mode>>

EndOfInput == /\ mode = "reading" /\ delim = 0 /\ next > Len(text)
              /\ mode' = "end"
              /\ UNCHANGED <<file, next, line_num, op_num, wordVars, words, comments>>

-----------------------------------------------------------------------------
(***************************************************************************)
(* read_string_character.  It looks at the characters of the line without  *)
(* asking whether there are any.                                           *)
(***************************************************************************)
Past(i) == i > LineEnd(from)

\* Mutant: the loop looks at the index too late.
InLiteralLate == mode = "reading" /\ delim # 0 /\ next <= LineEnd(from) + 1
InLiteral == mode = "reading" /\ delim # 0 /\ ~Past(next)

Take(v, n) == /\ res' = Append(res, v)
              /\ next' = next + n
              /\ UNCHANGED mode
Raise(how) == mode' = how /\ UNCHANGED <<res, next>>
ReadPart == UNCHANGED <<file, line_num, op_num, delim, from, words, comments>>

LetterEscape == [l \in {110, 114, 116} |-> CASE l = 110 -> NL [] l = 114 -> CR [] l = 116 -> Tab]

\* One to three octal digits from i on.  Mutant: always as many as there are.
OctalCountLong(i) == CHOOSE n \in 1 .. Len(text) :
                       /\ \A k \in 0 .. n - 1 : ~Past(i + k) /\ IsOctal(text[i + k])
                       /\ Past(i + n) \/ ~IsOctal(text[i + n])
OctalCount(i) == CHOOSE n \in 1 .. 3 :
                   /\ \A k \in 0 .. n - 1 : ~Past(i + k) /\ IsOctal(text[i + k])
                   /\ n = 3 \/ Past(i + n) \/ ~IsOctal(text[i + n])
OctalValue(s) ==
  LET upTo[i \in 0 .. Len(s)] == IF i = 0 THEN 0 ELSE 8 * upTo[i - 1] + s[i] - 48
  IN upTo[Len(s)]

ReadCharacter ==
  /\ InLiteral
  /\ IF Past(next) THEN Raise("IndexError")
     ELSE char \notin {Backslash, delim} /\ Take(char, 1)
  /\ ReadPart

ReadEscape ==
  /\ InLiteral /\ ~Past(next) /\ char = Backslash
  /\ IF Past(next + 1) THEN Raise("IndexError")
     ELSE LET e == text[next + 1] IN
          \/ e \in DOMAIN LetterEscape /\ Take(LetterEscape[e], 2)
          \/ /\ IsOctal(e)
             /\ LET n == OctalCount(next + 1) IN
                IF n < 3 /\ Past(next + 1 + n) THEN Raise("IndexError")
                ELSE Take(OctalValue(SubSeq(text, next + 1, next + n)), 1 + n)
          \/ e \notin DOMAIN LetterEscape /\ ~IsOctal(e) /\ Take(e, 2)
  /\ ReadPart

CloseLiteral ==
  /\ InLiteral /\ ~Past(next) /\ char = delim
  /\ Deliver(from, next, delim, res)
  /\ next' = next + 1 /\ op_num' = op_num + 1 /\ delim' = 0
  /\ UNCHANGED <<file, line_num, res, from, comments, mode>>

\* "Expected \" to terminate string"
Unterminated == /\ mode = "reading" /\ delim # 0 /\ ~InLiteral
                /\ mode' = "unterminated"
                /\ UNCHANGED <<file, next, line_num, op_num, wordVars, words, comments>>

LexerNext == \/ Blank \/ PlainWord \/ Comment \/ OpenLiteral \/ EndOfInput
             \/ ReadCharacter \/ ReadEscape \/ CloseLiteral \/ Unterminated

-----------------------------------------------------------------------------
(***************************************************************************)
(* From a literal to the bytes of the program.                             *)
(***************************************************************************)
\* get_char; it gets what read_string_character has already unescaped.
Invalid == -1
CharEscape == LetterEscape @@ [e \in {Backslash, Apostrophe} |-> e]
GetChar(s) ==
  CASE Len(s) = 1 /\ s[1] # Backslash -> s[1]
    [] Len(s) \in 2 .. 4 /\ s[1] = Backslash /\ \A i \in 2 .. Len(s) : IsOctal(s[i])
         -> OctalValue(Tail(s))
    [] Len(s) = 2 /\ s[1] = Backslash /\ s[2] \in DOMAIN CharEscape -> CharEscape[s[2]]
    [] OTHER -> Invalid

\* What a literal amounts to: the code that is pushed, or the characters.
Meaning(w) == IF w.delim = Apostrophe THEN GetChar(w.value) ELSE w.value

\* escape_gas_string: at least three octal digits.  Mutant: as many as needed.
OctalDigits(n, atLeast) ==
  LET count == CHOOSE k \in atLeast .. 8 : n < 8^k /\ (k = atLeast \/ n >= 8^(k - 1))
  IN [i \in 1 .. count |-> 48 + ((n \div 8^(count - i)) % 8)]
EscapedAs(c, atLeast) ==
  IF c < 32 \/ c > 126 \/ c = Quote THEN <<Backslash>> \o OctalDigits(c, atLeast) ELSE <<c>>
EscapedShort(s) == FlattenSeq([i \in DOMAIN s |-> EscapedAs(s[i], 1)])
Escaped(s) == FlattenSeq([i \in DOMAIN s |-> EscapedAs(s[i], 3)])

\* How GNU as reads the text of .ascii between its quotes.  A backslash at the
\* end takes the quote with it, and the string runs on into the next line.
RunsOn == -1
GasEscape == LetterEscape @@ [e \in {98, 102} |-> IF e = 98 THEN 8 ELSE 12]
DigitCount(t, i) == CHOOSE n \in 0 .. 3 :
                      /\ \A k \in 0 .. n - 1 : i + k <= Len(t) /\ IsDigit(t[i + k])
                      /\ n = 3 \/ i + n > Len(t) \/ ~IsDigit(t[i + n])
Assembled(t) ==
  LET bytes[i \in 1 .. Len(t) + 1] ==
        IF i > Len(t) THEN <<>>
        ELSE IF t[i] # Backslash THEN <<t[i]>> \o bytes[i + 1]
        ELSE IF i = Len(t) THEN <<RunsOn>>
        ELSE IF DigitCount(t, i + 1) > 0
        THEN <<OctalValue(SubSeq(t, i + 1, i + DigitCount(t, i + 1))) % 256>>
             \o bytes[i + 1 + DigitCount(t, i + 1)]
        ELSE <<IF t[i + 1] \in DOMAIN GasEscape THEN GasEscape[t[i + 1]] ELSE t[i + 1]>>
             \o bytes[i + 2]
  IN bytes[1]

-----------------------------------------------------------------------------
(***************************************************************************)
(* Properties.                                                             *)
(***************************************************************************)
\* Literals are read as C reads them: letters, octal numbers of up to three
\* digits next to other digits, escaped quotes (CodeIterator.py:52-82,
\* main.py:366-396).
LiteralsMean ==
  mode = "end" =>
    file.means \subseteq {[i \in DOMAIN words |-> Meaning(words[i])]}

Ended == text # <<>> /\ text[Len(text)] = NL

\* A file whose last line is ended is never read past the end of a line, wherever
\* quotes, backslashes and digits stand (CodeIterator.py:53-69).
EndedFileIsReadWithin == Ended => mode # "IndexError"

\* The assembler puts the characters of a string, as many as the length in front
\* of them says, one byte each: unless there is a backslash among them, or a
\* character that is no byte (main.py:399-411, 474-476).
Strings == {words[i].value : i \in {j \in DOMAIN words : words[j].delim = Quote}}
StringsAssemble ==
  \A s \in Strings : Backslash \notin ToSet(s) /\ ToSet(s) \subseteq 0 .. 255 =>
                       Assembled(Escaped(s)) = s

\* README.md:21: a string is its size and then its bytes, and C's escapes are
\* supported.
StringIsItsBytes == \A s \in Strings : ToSet(s) \subseteq 0 .. 255 => Assembled(Escaped(s)) = s
=============================================================================
