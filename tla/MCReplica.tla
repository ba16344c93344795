----------------------------- MODULE MCReplica -----------------------------
(* Instances of Replica small enough for TLC. *)
EXTENDS Replica

CONSTANTS here, elsewhere, key, stranger

msg1 == [destination |-> here, nonce |-> 0]
msg2 == [destination |-> here, nonce |-> 1]
msg3 == [destination |-> elsewhere, nonce |-> 0]

MCMessages == {msg1, msg2, msg3}

\* The replica starts from a root with a message under it already, as one
\* deployed beside a Home in use does; then a fork: two roots that extend it.
MCInitialRoot == <<msg1>>
MCRoots == {<<msg1>>, <<msg1, msg2>>, <<msg1, msg3>>}
=============================================================================
