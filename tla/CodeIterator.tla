---------------------------- MODULE CodeIterator ----------------------------
(***************************************************************************)
(* The word source of the stacksy compiler: class CodeIterator and the     *)
(* part of Parser.run that drives it.  Files are read word by word; an     *)
(* import word suspends the current file in the middle of its line and     *)
(* opens the imported one, which is read to its end before the suspended   *)
(* file resumes.  A path is opened at most once per compilation.           *)
(*                                                                         *)
(* A word is a record that keeps what the iterator and its driver tell     *)
(* apart: an import and its path, a comment, a string without its closing  *)
(* quote, a word the parser rejects, and any other word.                   *)
(***************************************************************************)
EXTENDS Integers, SequencesExt

CONSTANTS
  Paths,        \* the paths that may follow "import:"
  Root,         \* the path given on the command line
  Lower,        \* path |-> the path that word.lower() makes of it
  FileSystems   \* the files that may exist: path |-> lines of words

Word == [kind |-> "word"]
Rejected == [kind |-> "rejected"]     \* the parser raises CodeException on it
Comment == [kind |-> "comment"]       \* starts with ";"
Unterminated == [kind |-> "broken"]   \* the iterator raises CodeException
Import(p) == [kind |-> "import", path |-> p]

Words == {Word, Rejected, Comment, Unterminated} \cup {Import(p) : p \in Paths}

ASSUME RootAssumption == Root \in Paths
ASSUME LowerAssumption == Lower \in [Paths -> Paths]
ASSUME FileSystemsAssumption ==
  \A d \in FileSystems : \E D \in SUBSET Paths :
    Root \in D /\ d \in [D -> Seq(Seq(Words))]

VARIABLES
  disk,                \* the files that exist; open() of another path fails
  open,                \* the parallel lists paths, line_nums, op_nums, lines,
                       \* files and line_indices, as one stack of records
  all_imported_paths,  \* path |-> file number
  fileTable,           \* the .file directives emitted: number and path
  log,                 \* the words handed to the parser: where they stand
                       \* and the file number of their .loc directive
  status               \* "reading", "done" (StopIteration), "error"

vars == <<disk, open, all_imported_paths, fileTable, log, status>>

-----------------------------------------------------------------------------
\* A file just opened: no line read yet, lines[-1] is empty.
Opened(p) == [path |-> p, line_num |-> 0, op_num |-> 0, index |-> 0]

Top == open[Len(open)]
Pop(s) == SubSeq(s, 1, Len(s) - 1)
ReplaceTop(frame) == [open EXCEPT ![Len(open)] = frame]

LineOf(f) == IF f.line_num = 0 THEN <<>> ELSE disk[f.path][f.line_num]
EndOfLine == Top.index >= Len(LineOf(Top))
Current == LineOf(Top)[Top.index + 1]

\* The frame after get_next_op returned a word and __next__ counted it.
Consumed == [Top EXCEPT !.op_num = @ + 1, !.index = @ + 1]

Here(f) == <<f.path, f.line_num, f.op_num>>
FileNum(p) == all_imported_paths[p]        \* get_file_num
\* Mutant: files are counted from zero.
WithNumberFromZero(p) ==
  [q \in DOMAIN all_imported_paths \cup {p} |->
     IF q \in DOMAIN all_imported_paths THEN FileNum(q)
     ELSE Cardinality(DOMAIN all_imported_paths) - 1]
WithNumber(p) ==                           \* add_import, first time for p
  [q \in DOMAIN all_imported_paths \cup {p} |->
     IF q \in DOMAIN all_imported_paths THEN FileNum(q)
     ELSE Cardinality(DOMAIN all_imported_paths) + 1]

Init == /\ disk \in FileSystems
        /\ open = <<Opened(Root)>>
        /\ all_imported_paths = [p \in {Root} |-> 1]
        /\ fileTable = <<<<1, Root>>>>
        /\ log = <<>>
        /\ status = "reading"

-----------------------------------------------------------------------------
\* Mutants: op_nums[-1] not reset; line_nums[-1] not advanced.
NextLineKeepsOpNum ==
  /\ EndOfLine
  /\ Top.line_num < Len(disk[Top.path])
  /\ open' = ReplaceTop([Top EXCEPT !.line_num = @ + 1, !.index = 0])
  /\ UNCHANGED <<disk, all_imported_paths, fileTable, log, status>>
NextLineRereads ==
  /\ EndOfLine
  /\ Top.line_num < Len(disk[Top.path])
  /\ open' = ReplaceTop([Top EXCEPT !.op_num = 0, !.index = 0])
  /\ UNCHANGED <<disk, all_imported_paths, fileTable, log, status>>
\* next(files[-1]) returned a line.
NextLine ==
  /\ EndOfLine
  /\ Top.line_num < Len(disk[Top.path])
  /\ open' = ReplaceTop([Top EXCEPT !.line_num = @ + 1, !.op_num = 0, !.index = 0])
  /\ UNCHANGED <<disk, all_imported_paths, fileTable, log, status>>

\* next(files[-1]) raised StopIteration.  The importing file, if any, goes on
\* in the line that imported this one.
CloseFile ==
  /\ EndOfLine
  /\ Top.line_num >= Len(disk[Top.path])
  /\ open' = Pop(open)
  /\ status' = IF Pop(open) = <<>> THEN "done" ELSE status
  /\ UNCHANGED <<disk, all_imported_paths, fileTable, log>>

ReadWord ==
  /\ ~EndOfLine
  /\ Current.kind \in {"word", "rejected"}
  /\ open' = ReplaceTop(Consumed)
  /\ log' = Append(log, [at |-> Here(Consumed), num |-> FileNum(Top.path)])
  /\ status' = IF Current.kind = "rejected" THEN "error" ELSE status
  /\ UNCHANGED <<disk, all_imported_paths, fileTable>>

SkipComment ==
  /\ ~EndOfLine
  /\ Current.kind = "comment"
  /\ open' = ReplaceTop([Consumed EXCEPT !.index = Len(LineOf(Top))])
  /\ UNCHANGED <<disk, all_imported_paths, fileTable, log, status>>

UnterminatedString ==
  /\ ~EndOfLine
  /\ Current.kind = "broken"
  /\ status' = "error"
  /\ UNCHANGED <<disk, open, all_imported_paths, fileTable, log>>

\* Mutants: no check for a path already imported; the .file directive of a
\* new file numbered after the importing one.
ImportNewUnchecked(p) ==
  /\ p \in DOMAIN disk
  /\ all_imported_paths' = WithNumber(p)
  /\ open' = Append(ReplaceTop(Consumed), Opened(p))
  /\ fileTable' = Append(fileTable, <<WithNumber(p)[p], p>>)
  /\ UNCHANGED <<disk, log, status>>
ImportNewMisnumbered(p) ==
  /\ p \notin DOMAIN all_imported_paths
  /\ p \in DOMAIN disk
  /\ all_imported_paths' = WithNumber(p)
  /\ open' = Append(ReplaceTop(Consumed), Opened(p))
  /\ fileTable' = Append(fileTable, <<FileNum(Top.path), p>>)
  /\ UNCHANGED <<disk, log, status>>
\* add_import registers and stacks the path before it opens the file, so a
\* path that cannot be opened keeps its number and its place in the lists.
ImportNew(p) ==
  /\ p \notin DOMAIN all_imported_paths
  /\ all_imported_paths' = WithNumber(p)
  /\ open' = Append(ReplaceTop(Consumed), Opened(p))
  /\ IF p \in DOMAIN disk
     THEN /\ fileTable' = Append(fileTable, <<WithNumber(p)[p], p>>)
          /\ UNCHANGED status
     ELSE /\ status' = "error"
          /\ UNCHANGED fileTable
  /\ UNCHANGED <<disk, log>>

\* add_import returns at once, and the .file directive that follows gets the
\* number of the importing file.
ImportAgain(p) ==
  /\ p \in DOMAIN all_imported_paths
  /\ open' = ReplaceTop(Consumed)
  /\ fileTable' = Append(fileTable, <<FileNum(Top.path), p>>)
  /\ UNCHANGED <<disk, all_imported_paths, log, status>>

ReadImport ==
  /\ ~EndOfLine
  /\ Current.kind = "import"
  /\ LET p == Lower[Current.path] IN ImportNew(p) \/ ImportAgain(p)

Next == /\ status = "reading"
        /\ \/ NextLine
           \/ CloseFile
           \/ ReadWord
           \/ SkipComment
           \/ UnterminatedString
           \/ ReadImport

\* The compiler is one thread that nothing blocks: it never stops by itself.
Spec == Init /\ [][Next]_vars /\ WF_vars(Next)

-----------------------------------------------------------------------------
\* The type of the state.
Frames == [path : Paths, line_num : Nat, op_num : Nat, index : Nat]

TypeOK == /\ disk \in FileSystems
          /\ open \in Seq(Frames)
          /\ DOMAIN all_imported_paths \subseteq Paths
          /\ all_imported_paths \in [DOMAIN all_imported_paths -> Nat \ {0}]
          /\ fileTable \in Seq((Nat \ {0}) \X Paths)
          /\ log \in Seq([at : Paths \X Nat \X Nat, num : Nat \ {0}])
          /\ status \in {"reading", "done", "error"}

\* A path is never open twice, and every open path has been registered: the
\* check in add_import that makes import cycles harmless.
OpenOnce == /\ \A i, j \in 1 .. Len(open) :
                 open[i].path = open[j].path => i = j
            /\ \A i \in 1 .. Len(open) :
                 open[i].path \in DOMAIN all_imported_paths

\* No word of any file is compiled twice, however the files import each other
\* and themselves ("used to ensure non-duplicate imports").
EachWordOnce == \A i, j \in 1 .. Len(log) : log[i].at = log[j].at => i = j

\* The file number in a .loc directive is one that an earlier .file directive
\* bound to the file the word comes from.
LocDeclared == \A i \in 1 .. Len(log) :
                 \E k \in 1 .. Len(fileTable) :
                   fileTable[k] = <<log[i].num, log[i].at[1]>>

\* Distinct files have distinct numbers (add_import counts the paths).
NumbersDistinct ==
  \A p, q \in DOMAIN all_imported_paths : FileNum(p) = FileNum(q) => p = q

\* The comment on all_imported_paths: it is used "to ensure non-duplicate
\* imports and provide file num for debug info".  A number that names two
\* paths does not tell a debugger which file a word is in.
FileTableConsistent ==
  \A i, j \in 1 .. Len(fileTable) :
    fileTable[i][1] = fileTable[j][1] => fileTable[i][2] = fileTable[j][2]

\* Reading ends: no cycle of imports is followed for ever.
Terminates == <>(status # "reading")

-----------------------------------------------------------------------------
(***************************************************************************)
(* The words still to come, as one text: the rest of the top file, then    *)
(* the rest of the file that imported it, and so on down the stack.        *)
(***************************************************************************)
ItemAt(d, p, l, i) ==
  LET w == d[p][l][i] IN
  CASE w.kind = "import" -> [kind |-> "import", path |-> Lower[w.path]]
    [] w.kind = "broken" -> w
    [] OTHER -> [kind |-> w.kind, at |-> <<p, l, i>>]

\* The words of a line before the first comment among those after the i-th.
LineEnd(line, i) ==
  LET comments == {k \in i + 1 .. Len(line) : line[k].kind = "comment"}
  IN IF comments = {} THEN Len(line) ELSE Min(comments) - 1

\* Items of line l after the first i words; a comment ends the line.
LineRest(d, p, l, i) ==
  [k \in 1 .. LineEnd(d[p][l], i) - i |-> ItemAt(d, p, l, i + k)]

\* Items of the lines after line l.
LinesAfter(d, p, l) ==
  FlattenSeq([k \in 1 .. Len(d[p]) - l |-> LineRest(d, p, l + k, 0)])

FrameRest(d, f) ==
  IF f.path \notin DOMAIN d THEN <<>>   \* open() failed
  ELSE (IF f.line_num = 0 THEN <<>> ELSE LineRest(d, f.path, f.line_num, f.index))
       \o LinesAfter(d, f.path, f.line_num)

StackText(d, s) ==
  FlattenSeq([n \in 1 .. Len(s) |-> FrameRest(d, s[Len(s) - n + 1])])

TextToCome == StackText(disk, open)

Program ==
  INSTANCE Inclusion WITH
    text <- [p \in DOMAIN disk |-> LinesAfter(disk, p, 0)],
    todo <- TextToCome,
    seen <- DOMAIN all_imported_paths,
    output <- [i \in 1 .. Len(log) |-> log[i].at]

\* The iterator implements textual inclusion: the words it hands to the
\* parser, with the line and op numbers it gives them, are those of the one
\* text in which each import is replaced by the file it names.
IsTextualInclusion == Program!Spec
=============================================================================
