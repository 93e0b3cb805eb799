--------------------------- MODULE MCRetainedLedger ---------------------------
(* Two tasks publish and clear two topics. *)
EXTENDS RetainedLedger

CONSTANTS a, b, t, u

TwoCallers == {a, b}
TwoTopics == {t, u}
PublishAndClear == {"publish", "clear"}
=============================================================================
