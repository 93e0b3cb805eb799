---------------------------- MODULE MCMeshLeader ----------------------------
(* Small fleets: a tie on the priority is broken by the panel's name. *)
EXTENDS MeshLeader

ThreePanels == 1..3
TwoEqualOneWorse == <<1, 1, 2>>
=============================================================================
