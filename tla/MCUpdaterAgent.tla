--------------------------- MODULE MCUpdaterAgent ---------------------------
(* Instances of UpdaterAgent small enough for TLC. *)
EXTENDS UpdaterAgent

CONSTANTS remote, payload, agent, rogue, manager
=============================================================================
