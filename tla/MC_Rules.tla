------------------------------- MODULE MC_Rules -------------------------------
(* The event repositories of each instance. *)
EXTENDS RulesEngine
Notifying == {"notifying"}
AnyPath   == {"notifying", "plain"}
=============================================================================
