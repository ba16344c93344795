------------------------------ MODULE MCOptics ------------------------------
(* Instances of Optics small enough for TLC. *)
EXTENDS Optics

CONSTANTS remote, payload, honest, rogue, manager

Msg(n) == [destination |-> remote, nonce |-> n, payload |-> payload]

\* A root nobody will ever dispatch, and one that Home computes if a message
\* is dispatched later.
ForgedRoots == {<<Msg(2)>>, <<Msg(0)>>}

AllRoots == ForgedRoots \cup {<<>>, <<Msg(0), Msg(1)>>}
=============================================================================
