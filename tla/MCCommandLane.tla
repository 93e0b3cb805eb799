--------------------------- MODULE MCCommandLane ---------------------------
(* Commands of a dimmable load with a number and a switch of its own. *)
EXTENDS CommandLane

Off    == [topic |-> "set", names |-> {"on"}, off |-> TRUE, plain |-> TRUE]
Dim    == [topic |-> "set", names |-> {"level"}, off |-> FALSE, plain |-> TRUE]
OnDim  == [topic |-> "set", names |-> {"on", "level"}, off |-> FALSE, plain |-> TRUE]
Switch == [topic |-> "set_switch", names |-> {"switch"}, off |-> FALSE, plain |-> FALSE]

LoadKinds == {Dim, Off, OnDim, Switch}
=============================================================================
