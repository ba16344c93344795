---------------------------- MODULE MCDeployment ----------------------------
(* Three chains; a governor is configured on the first of them, or nowhere. *)
EXTENDS Deployment

CONSTANTS d1, d2, d3, a1

MCDomains == {d1, d2, d3}
MCOrder == <<d1, d2, d3>>
MCFirstList == [d \in MCDomains |-> MCOrder]
MCAppointments == {NoConfig, [domain |-> d1, address |-> a1]}

=============================================================================
