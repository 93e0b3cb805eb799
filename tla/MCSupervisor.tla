---------------------------- MODULE MCSupervisor ----------------------------
(* The agent's sessions under a few failures. *)
EXTENDS Supervisor
=============================================================================
