------------------------------ MODULE MC_Monitor ------------------------------
(* Which operations the clients of each instance use. *)
EXTENDS MonitorScheduler
ToggleOps  == {"toggle"}
EveryOp    == {"create", "edit", "toggle", "delete", "run", "runAll"}
DnsOps     == {"create", "reset", "delete"}
NoOps      == {}
=============================================================================
