------------------------------ MODULE MCBridge ------------------------------
(* Three chains; a user and a provider with one transfer's worth each. *)
EXTENDS Bridge, TLC

CONSTANTS A, B, C, u, lp

MCEndowment == u :> 2 @@ lp :> 2
\* C drops and takes up the router of the token's own chain, at any time.
MCWavering == A :> {} @@ B :> {} @@ C :> {A}
MCMaxCalls == [send |-> 3, fill |-> 1, owner |-> 1]

=============================================================================
