-------------------------- MODULE MCWiredFeedback --------------------------
(* A dimmable load: a command that switches it on at a level, then one that *)
(* dims it.                                                                 *)
EXTENDS WiredFeedback, TLC

CONSTANTS lo, hi
Two == {lo, hi}
Reported == Two \cup {None}
BothFields == {"on", "intensity"}
OnThenDim == <<[f \in BothFields |-> hi], "intensity" :> lo>>
=============================================================================
