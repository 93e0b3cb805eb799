---------------------------- MODULE NativeWrites ----------------------------
(***************************************************************************)
(* What the write path of the bus adapter promises to its callers: a       *)
(* device runs one native write at a time, writes to one peripheral start  *)
(* in the order they were accepted, a write starts at most once and with   *)
(* the last payload it was given, and never after it was withdrawn.        *)
(***************************************************************************)
EXTENDS Naturals

CONSTANTS Writes, DeviceOf, TargetOf

VARIABLES
  state,  \* of each write: new, wanted, withdrawn, running or done
  turn,   \* when each write was accepted
  turns,  \* writes accepted so far
  asked,  \* the last payload each write was given
  sent    \* the payload each write ran with, 0 when it never ran

vars == <<state, turn, turns, asked, sent>>

SameDevice(v, w) == DeviceOf[v] = DeviceOf[w]
SameTarget(v, w) == SameDevice(v, w) /\ TargetOf[v] = TargetOf[w]

Init ==
  /\ state = [w \in Writes |-> "new"]
  /\ turn = [w \in Writes |-> 0]
  /\ turns = 0
  /\ asked = [w \in Writes |-> 0]
  /\ sent = [w \in Writes |-> 0]

Accept(w) ==
  /\ state[w] = "new"
  /\ state' = [state EXCEPT ![w] = "wanted"]
  /\ turn' = [turn EXCEPT ![w] = turns]
  /\ turns' = turns + 1
  /\ asked' = [asked EXCEPT ![w] = 1]
  /\ UNCHANGED sent

Revise(w) ==
  /\ state[w] = "wanted"
  /\ asked' = [asked EXCEPT ![w] = @ + 1]
  /\ UNCHANGED <<state, turn, turns, sent>>

Withdraw(S) ==
  /\ \A w \in S : state[w] = "wanted"
  /\ state' = [w \in Writes |-> IF w \in S THEN "withdrawn" ELSE state[w]]
  /\ UNCHANGED <<turn, turns, asked, sent>>

Run(w) ==
  /\ state[w] = "wanted"
  /\ \A v \in Writes : SameDevice(v, w) => state[v] # "running"
  /\ \A v \in Writes : SameTarget(v, w) /\ state[v] = "wanted" => turn[w] <= turn[v]
  /\ state' = [state EXCEPT ![w] = "running"]
  /\ sent' = [sent EXCEPT ![w] = asked[w]]
  /\ UNCHANGED <<turn, turns, asked>>

End(w) ==
  /\ state[w] = "running"
  /\ state' = [state EXCEPT ![w] = "done"]
  /\ UNCHANGED <<turn, turns, asked, sent>>

Next ==
  \/ \E w \in Writes : Accept(w) \/ Revise(w) \/ Run(w) \/ End(w)
  \/ \E S \in SUBSET Writes : Withdraw(S)

Spec == Init /\ [][Next]_vars
=============================================================================
