----------------------------- MODULE MCWatcher -----------------------------
(* A Home with two replicas, which accept three updates and one. *)
EXTENDS Watcher, TLC

CONSTANTS r1, r2

\* The true update and the forged one on the first root, and the way back to it
MCLies == {[old |-> 0, new |-> 1], [old |-> 0, new |-> 3], [old |-> 3, new |-> 0]}
MCMaxLog == r1 :> 3 @@ r2 :> 1

=============================================================================
