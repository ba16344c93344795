-------------------------- MODULE OptimisticChannel --------------------------
(***************************************************************************)
(* What Optics promises the contracts that use it (README.md of the        *)
(* repository, "one of the following is always true"): a message reaches   *)
(* its recipient at most once, and only if it was sent, unless the updater *)
(* has lied and the lie was public before.  Messages may arrive in any     *)
(* order, or never.                                                        *)
(***************************************************************************)
EXTENDS Naturals, Sequences

CONSTANT Messages

VARIABLES
    sent,      \* messages dispatched on the home chain
    received,  \* the calls of recipients on the remote chain, oldest first
    disputed   \* whether proof that the updater lied is public

vars == <<sent, received, disputed>>

Init ==
    /\ sent = {}
    /\ received = <<>>
    /\ disputed = FALSE

\* A root signed before its messages were dispatched is no lie any more once
\* they are.
Send(m) ==
    /\ sent' = sent \cup {m}
    /\ disputed' \in {disputed, FALSE}
    /\ UNCHANGED received

Receive(m) ==
    /\ \A i \in DOMAIN received : received[i] # m
    /\ m \in sent \/ disputed
    /\ received' = Append(received, m)
    /\ UNCHANGED <<sent, disputed>>

Dispute ==
    /\ disputed' = TRUE
    /\ UNCHANGED <<sent, received>>

Next ==
    \/ \E m \in Messages : Send(m) \/ Receive(m)
    \/ Dispute

Spec == Init /\ [][Next]_vars
=============================================================================
