--------------------------- MODULE MCCodeIterator ---------------------------
(***************************************************************************)
(* Small instances of CodeIterator.  Every file system in which the root   *)
(* and a have at most two lines and b has one, drawn from lines that put   *)
(* imports first, last and twice in a line, before and after words.        *)
(***************************************************************************)
EXTENDS CodeIterator

CONSTANTS main, a, b, Upper

MCPaths == {main, a, b, Upper}
MCLower == [p \in MCPaths |-> IF p = Upper THEN a ELSE p]

RootLines == {<<Word, Import(a), Word>>, <<Import(b), Import(a)>>,
              <<Import(Upper)>>, <<Word, Comment, Import(b)>>}
SubLines == {<<>>, <<Word>>, <<Import(b), Word>>, <<Word, Import(a)>>, <<Import(main)>>}
BadLines == {<<Word, Unterminated>>, <<Word, Rejected, Word>>}

UpTo2(S) == {<<>>} \cup {<<l>> : l \in S} \cup {<<l, m>> : l \in S, m \in S}

Files(r, x, y) == [p \in {main, a, b} |-> CASE p = main -> r [] p = a -> x [] p = b -> y]

\* Every import succeeds.
AllPresent == {Files(r, x, y) : r \in UpTo2(RootLines), x \in UpTo2(SubLines),
                                y \in {<<l>> : l \in SubLines}}

\* One of the files is missing, or one of its words stops the compiler.
SomeBad == {Files(r, x, y) : r \in UpTo2(RootLines), x \in {<<l>> : l \in SubLines},
                             y \in {<<l>> : l \in BadLines}}
           \cup {[p \in {main, a} |-> IF p = main THEN r ELSE x] :
                   r \in UpTo2(RootLines), x \in UpTo2(SubLines)}

MCFileSystems == AllPresent \cup SomeBad
=============================================================================
