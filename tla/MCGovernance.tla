---------------------------- MODULE MCGovernance ----------------------------
(* Three chains, governed from the first. *)
EXTENDS GovernanceRouter, TLC

CONSTANTS d1, d2, d3

MCDomains == {d1, d2, d3}
\* A stranger on the governing chain names the second chain governor there, and
\* one on the third chain cuts the governor off on the second.
MCForgeries ==
    {[from |-> d1, to |-> d2,
      body |-> [type |-> "transfer", domain |-> d2, governor |-> CHOOSE a \in Accounts : TRUE]],
     [from |-> d3, to |-> d2, body |-> [type |-> "router", domain |-> d1, router |-> NoRouter]]}

MCFirstList == d1 :> <<d2, d3>> @@ d2 :> <<d1, d3, d2>> @@ d3 :> <<d1, d2, d3>>

=============================================================================
