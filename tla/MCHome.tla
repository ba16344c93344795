------------------------------- MODULE MCHome -------------------------------
(* Instances of Home small enough for TLC. *)
EXTENDS Home

CONSTANTS d1, d2, p1, honest, rogue, m1, m2

\* A root of a message nobody dispatched, and one that a later dispatch may
\* make a true root of Home.
ForgedRoots ==
    { << [destination |-> d1, nonce |-> 1, payload |-> p1] >>,
      << [destination |-> d2, nonce |-> 0, payload |-> p1] >> }
=============================================================================
