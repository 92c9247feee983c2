------------------------------ MODULE SourceView ------------------------------
(***************************************************************************)
(* How the debugger shows a source file: getSource cuts it into lines and  *)
(* segments with a scanner of its own, and printSource marks the segment   *)
(* that the line table's line and column stand for.  Line and column come  *)
(* from the compiler's scanner (Literals): the two must agree on the file. *)
(***************************************************************************)
EXTENDS Literals

CONSTANT Heights   \* lines inside the border of the source window

ASSUME HeightsAssumption == Heights \subseteq Nat \ {0}

TAB_WIDTH == 4

VARIABLES
  get,            \* index of the next character
  source,         \* lines of segments: mSources[path]
  curLine,
  curWord,        \* [first, text]: where it starts in the file, and what is shown
  inWhitespace,
  quote,          \* the quote that is being read to its end, or 0
  loaded,         \* getSource has returned
  shown           \* the picture in the source window, if there is one

viewVars == <<get, source, curLine, curWord, inWhitespace, quote, loaded, shown>>
vars == <<lexerVars, viewVars>>

Init == /\ LexerInit
        /\ get = 1 /\ source = <<>> /\ curLine = <<>>
        /\ curWord = [first |-> 1, text |-> <<>>]
        /\ inWhitespace = TRUE /\ quote = 0 /\ loaded = FALSE /\ shown = {}

-----------------------------------------------------------------------------
(***************************************************************************)
(* getSource, once the file has been compiled: one character at a time.    *)
(***************************************************************************)
Reading == mode = "end" /\ ~loaded /\ get <= Len(text)
c == IF text[get] = CR /\ quote = 0 THEN Space ELSE text[get]

Segment(first, chars) == [first |-> first, text |-> chars]
Append2(chars) == curWord' = [curWord EXCEPT !.text = @ \o chars] /\ UNCHANGED curLine
StartSegment(chars) == curLine' = Append(curLine, curWord) /\ curWord' = Segment(get, chars)
EndLine == source' = Append(source, Append(curLine, curWord))
Read(n) == get' = get + n /\ UNCHANGED <<lexerVars, loaded, shown>>

NewLine == /\ Reading /\ quote = 0 /\ c = NL
           /\ EndLine
           /\ curLine' = <<>> /\ curWord' = Segment(get + 1, <<>>)
           /\ inWhitespace' = TRUE
           /\ Read(1) /\ UNCHANGED quote

\* A tab after a word starts a segment, but the next characters count as those
\* of a word and go to the same segment.
ReadTab == /\ Reading /\ quote = 0 /\ c = Tab
           /\ LET blanks == [i \in 1 .. TAB_WIDTH |-> Space] IN
              IF inWhitespace THEN Append2(blanks) ELSE StartSegment(blanks)
           /\ Read(1) /\ UNCHANGED <<source, inWhitespace, quote>>

\* A quote inside a word is a character like others.
SameKind == /\ Reading /\ quote = 0 /\ c \notin {NL, Tab}
            /\ (c = Space) = inWhitespace
            /\ Append2(<<c>>)
            /\ Read(1) /\ UNCHANGED <<source, inWhitespace, quote>>

OtherKind == /\ Reading /\ quote = 0 /\ c \notin {NL, Tab}
             /\ (c = Space) # inWhitespace
             /\ StartSegment(<<c>>)
             /\ inWhitespace' = ~inWhitespace
             /\ quote' = IF c \in {Quote, Apostrophe} THEN c ELSE 0
             /\ Read(1) /\ UNCHANGED source

\* Up to the same quote, across the ends of lines.
\* Mutants: an escaped quote ends the segment; the quote is not part of it.
InQuoteUnescaped == /\ Reading /\ quote # 0
                    /\ Append2(<<c>>)
                    /\ quote' = IF c = quote THEN 0 ELSE quote
                    /\ Read(1) /\ UNCHANGED <<source, inWhitespace>>
InQuoteDropsEnd == /\ Reading /\ quote # 0
                   /\ Append2(IF c = quote THEN <<>> ELSE <<c>>)
                   /\ quote' = IF c = quote THEN 0 ELSE quote
                   /\ Read(1) /\ UNCHANGED <<source, inWhitespace>>
InQuote == /\ Reading /\ quote # 0
           /\ IF c = Backslash /\ get < Len(text)
              THEN Append2(<<c, text[get + 1]>>) /\ Read(2) /\ UNCHANGED quote
              ELSE /\ Append2(<<c>>)
                   /\ quote' = IF c = quote THEN 0 ELSE quote
                   /\ Read(1)
           /\ UNCHANGED <<source, inWhitespace>>

EndOfFile == /\ mode = "end" /\ ~loaded /\ get > Len(text)
             /\ EndLine
             /\ loaded' = TRUE
             /\ UNCHANGED <<lexerVars, get, curLine, curWord, inWhitespace, quote, shown>>

-----------------------------------------------------------------------------
(***************************************************************************)
(* printSource at a word: which lines are in the window, counted from 0 as *)
(* in the code, and which segment stands out.                              *)
(***************************************************************************)
AtLeast(a, b) == IF a > b THEN a ELSE b
AtMost(a, b) == IF a < b THEN a ELSE b
LastLineFrom(first, height) == AtMost(first + height, Len(source) - 1)

\* Mutant: the current line is to be the last one in the window.
FirstLineAbove(line, height) == AtLeast(line - height, 0)
FirstLine(line, height) ==
  LET first == AtLeast(line - (height - 1) \div 2, 0)
      last == LastLineFrom(first, height)
  IN IF last - first < height THEN AtLeast(0, last - height) ELSE first

PrintSource(w, height) ==
  /\ loaded
  /\ shown' = {[word |-> w, line |-> w.line - 1, segment |-> 2 * (w.op - 1) + 1,
                height |-> height, firstLine |-> FirstLine(w.line - 1, height)]}
  /\ UNCHANGED <<lexerVars, get, source, curLine, curWord, inWhitespace, quote, loaded>>

ViewNext == \/ NewLine \/ ReadTab \/ SameKind \/ OtherKind \/ InQuote \/ EndOfFile
            \/ \E w \in ToSet(words), height \in Heights : PrintSource(w, height)
Next == (LexerNext /\ UNCHANGED viewVars) \/ ViewNext
Spec == Init /\ [][Next]_vars

-----------------------------------------------------------------------------
(***************************************************************************)
(* Properties.                                                             *)
(***************************************************************************)
TypeOK ==
  /\ next \in 1 .. Len(text) + 1 /\ get \in 1 .. Len(text) + 1
  /\ delim \in {0, Quote, Apostrophe} /\ quote \in {0, Quote, Apostrophe}
  /\ mode \in {"reading", "end", "unterminated", "IndexError"}
  /\ source \in Seq(Seq([first : Nat, text : Seq(Nat)]))

\* Where the two scanners are meant to agree: no white space that getSource does
\* not know, as a form feed; blanks other than tabs after words and after
\* literals; and in comments no quote after a blank.
Follows(i) == IF i < Len(text) THEN text[i + 1] ELSE NL
Tidy ==
  /\ \A i \in DOMAIN text : IsSpace(text[i]) => text[i] \in {Tab, NL, CR, Space}
  /\ \A i \in DOMAIN words : LET w == words[i] IN
       IF w.delim = 0 THEN Follows(w.last) # Tab ELSE Follows(w.last) \in {Space, NL, CR}
  /\ \A i \in DOMAIN comments : \A k \in comments[i].first + 1 .. comments[i].last :
       text[k] \in {Quote, Apostrophe} => text[k - 1] \notin {Space, Tab, CR}

\* The segment that stands out is the word the process has stopped at: of a tidy
\* file, for every word, also after literals with blanks, escapes and quotes in
\* them (debugger.cpp:242-310, debuggerview.cpp:346-411, CodeIterator.py:84-149).
CurrentWordStandsOut ==
  Tidy => \A s \in shown :
    LET segment == source[s.line + 1][s.segment + 1] IN
    /\ segment.first = s.word.first
    /\ segment.first + Len(segment.text) - 1 = s.word.last

\* The current line is in the window and not under its border; the last line of
\* a file whose last line is not ended may be (debuggerview.cpp:361-366, 373-375).
CurrentLineVisible ==
  Tidy /\ Ended =>
    \A s \in shown : s.line - s.firstLine + 1 \in 1 .. s.height

\* The view shows all of the file, in its order, blanks aside, whatever quotes
\* and tabs it holds (debugger.cpp:253-308).
Ink(s) == FlattenSeq([i \in DOMAIN s |-> IF s[i] \in {NL, Tab, CR, Space} THEN <<>> ELSE <<s[i]>>])
LineText(segments) == FlattenSeq([k \in DOMAIN segments |-> segments[k].text])
AllIsShown ==
  loaded => FlattenSeq([i \in DOMAIN source |-> Ink(LineText(source[i]))]) = Ink(text)
=============================================================================
