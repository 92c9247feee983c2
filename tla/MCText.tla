-------------------------------- MODULE MCText --------------------------------
(***************************************************************************)
(* Files for SourceView: literals made of all pairs of characters and      *)
(* escapes, and all short arrangements of words, blanks, quotes, comments  *)
(* and lines.                                                              *)
(***************************************************************************)
EXTENDS SourceView

File(t) == [text |-> t, means |-> {}]
LetterA == 97
LetterB == 98

-----------------------------------------------------------------------------
\* Escapes and characters, and what C reads them as.
E(chars) == <<Backslash>> \o chars
Is(chars, code) == [written |-> chars, code |-> code]
Octals == {Is(E(<<48>>), 0), Is(E(<<49, 48>>), 8), Is(E(<<49, 50, 51>>), 83)}
Items == Octals \cup
         {Is(<<LetterA>>, LetterA), Is(<<55>>, 55), Is(<<56>>, 56), Is(<<233>>, 233),
          Is(E(<<110>>), NL), Is(E(<<116>>), Tab), Is(E(<<114>>), CR),
          Is(E(<<Quote>>), Quote), Is(E(<<Apostrophe>>), Apostrophe)}
TheBackslash == Is(E(<<Backslash>>), Backslash)
\* A digit after a short octal number is part of it.
Apart(s) == \A i \in 1 .. Len(s) - 1 :
              s[i] \in Octals /\ IsOctal(s[i + 1].written[1]) => Len(s[i].written) = 4

Written(s) == FlattenSeq([i \in DOMAIN s |-> s[i].written])
Codes(s) == [i \in DOMAIN s |-> s[i].code]
Contents == {s \in UNION {[1 .. n -> Items \cup {TheBackslash}] : n \in 0 .. 3} : Apart(s)}
StringFiles == {[text |-> <<Quote>> \o Written(s) \o <<Quote, NL>>, means |-> {<<Codes(s)>>}]
                : s \in Contents}
CharFiles == {[text |-> <<Apostrophe>> \o i.written \o <<Apostrophe, Space, Quote, LetterA, Quote>>,
               means |-> {<<i.code, <<LetterA>>>>}] : i \in Items}

\* Literals cut short.
BoundedSeqs(S, n) == UNION {[1 .. k -> S] : k \in 0 .. n}
CutFiles == {File(<<Quote>> \o s) : s \in BoundedSeqs({Quote, Backslash, 49, NL}, 4)}

-----------------------------------------------------------------------------
\* Layout: pieces in every order.
Pieces == {<<LetterA>>, <<Space>>, <<Tab>>, <<NL>>, <<Semicolon>>, <<Apostrophe>>, <<Backslash>>,
           <<Quote, LetterA, Backslash, Quote, Space, LetterB, Quote>>}
LayoutFiles == {File(FlattenSeq(s) \o end) :
                  s \in BoundedSeqs(Pieces, 4), end \in {<<>>, <<CR, NL>>}}

\* White space to the compiler, a letter to the view.
FormFeedFiles == {File(<<LetterA, 12, LetterB, NL>>)}

MCFiles == FormFeedFiles \cup StringFiles \cup CharFiles \cup CutFiles \cup LayoutFiles
=============================================================================
