------------------------------ MODULE Inclusion ------------------------------
(***************************************************************************)
(* What "import:filepath" promises: the file at filepath is included as if *)
(* it was a part of the importing file.  The program is one text.  An      *)
(* import word is replaced, in place, by the text of the file it names the *)
(* first time that file is named, and by nothing afterwards.               *)
(***************************************************************************)
EXTENDS Integers, Sequences

CONSTANT Root

VARIABLES
  text,    \* path |-> the items of that file, comments already dropped
  todo,    \* the items of the program that are still to be read
  seen,    \* the paths named so far
  output,  \* the items delivered
  status   \* "reading", "done" or "error"

vars == <<text, todo, seen, output, status>>

Init == /\ todo = text[Root]
        /\ seen = {Root}
        /\ output = <<>>
        /\ status = "reading"

Item == Head(todo)

Deliver == /\ todo # <<>>
           /\ Item.kind \in {"word", "rejected"}
           /\ output' = Append(output, Item.at)
           /\ todo' = Tail(todo)
           /\ status' = IF Item.kind = "rejected" THEN "error" ELSE status
           /\ UNCHANGED <<text, seen>>

Include == /\ todo # <<>>
           /\ Item.kind = "import"
           /\ Item.path \notin seen
           /\ Item.path \in DOMAIN text
           /\ seen' = seen \cup {Item.path}
           /\ todo' = text[Item.path] \o Tail(todo)
           /\ UNCHANGED <<text, output, status>>

IncludeNothing == /\ todo # <<>>
                  /\ Item.kind = "import"
                  /\ Item.path \in seen
                  /\ todo' = Tail(todo)
                  /\ UNCHANGED <<text, seen, output, status>>

\* The word cannot be read, or the file it names cannot be opened.
Fail == /\ todo # <<>>
        /\ \/ /\ Item.kind = "broken"
              /\ UNCHANGED <<todo, seen>>
           \/ /\ Item.kind = "import"
              /\ Item.path \notin seen \cup DOMAIN text
              /\ seen' = seen \cup {Item.path}
              /\ todo' = Tail(todo)
        /\ status' = "error"
        /\ UNCHANGED <<text, output>>

Finish == /\ todo = <<>>
          /\ status' = "done"
          /\ UNCHANGED <<text, todo, seen, output>>

Next == /\ status = "reading"
        /\ Deliver \/ Include \/ IncludeNothing \/ Fail \/ Finish

Spec == Init /\ [][Next]_vars
=============================================================================
