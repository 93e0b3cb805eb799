-------------------------- MODULE MCWriteAdmission --------------------------
(* A folding slider and a maintenance write of the same peripheral. *)
EXTENDS WriteAdmission, TLC

CONSTANTS a, m   \* writes; m is a maintenance write

OneDevice == {"d"}
ToOneDevice == [w \in Writes |-> "d"]
TwoWrites == {a, m}
OneTarget == [w \in Writes |-> "p"]
TwoClasses == (a :> "latest") @@ (m :> "maintenance")
=============================================================================
