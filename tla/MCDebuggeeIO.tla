----------------------------- MODULE MCDebuggeeIO -----------------------------
(***************************************************************************)
(* Programs that print whole lines and programs that print them in pieces. *)
(***************************************************************************)
EXTENDS DebuggeeIO

ByLine == {<<"a", Newline>>, <<"b", Newline>>}
InPieces == {<<"a">>, <<"b", Newline>>, <<Newline>>}
MCSessions == {[texts |-> ByLine, letters |-> 2, output |-> 4],
               [texts |-> InPieces, letters |-> 1, output |-> 4],
               [texts |-> {<<"a">>}, letters |-> 4, output |-> 1]}
=============================================================================
