---------------------- MODULE MCXAppConnectionManager ----------------------
(* Instances of XAppConnectionManager small enough for TLC. *)
EXTENDS XAppConnectionManager

CONSTANTS ra, rb, rc, ua, ub, w1

\* Two replicas of one home, with its updater, and a third of another.
MCHomeOf == [r \in {ra, rb, rc} |-> IF r = rc THEN 2 ELSE 1]

MCUpdaterOf == [r \in {ra, rb, rc} |-> IF r = rc THEN ub ELSE ua]
=============================================================================
