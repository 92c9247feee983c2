-------------------------------- MODULE Stream --------------------------------
(***************************************************************************)
(* What the view promises of both directions between the user and the      *)
(* process: what arrives is what was sent, in order, nothing twice and     *)
(* nothing left out.  It may arrive late, and in pieces.                   *)
(***************************************************************************)
EXTENDS Sequences, SequencesExt

VARIABLES sent, received

Init == sent = <<>> /\ received = <<>>

Send == IsStrictPrefix(sent, sent') /\ UNCHANGED received
Receive == /\ IsStrictPrefix(received, received')
           /\ IsPrefix(received', sent)
           /\ UNCHANGED sent

Spec == Init /\ [][Send \/ Receive]_<<sent, received>>
=============================================================================
