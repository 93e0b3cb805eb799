----------------------------- MODULE MeshLeader -----------------------------
(***************************************************************************)
(* Election of the one panel that publishes the ble_mesh namespace         *)
(* (src/brilliant_mqtt/mesh_leader.py), over the retained MQTT topic       *)
(* brilliant/mesh/leader.                                                  *)
(*                                                                         *)
(* Every panel keeps only ages measured on its own monotonic clock, so the *)
(* model keeps ages too: Pass lets one unit of time go by, and all ages    *)
(* saturate at the largest value a comparison of the code looks at.  Panel *)
(* names are numbers, so that the tie-break on the name is a comparison.   *)
(***************************************************************************)
EXTENDS Integers, Sequences, SequencesExt

CONSTANTS
  Panels,      \* names of the panels of the fleet
  Priority,    \* MESH_PRIORITY of each panel; below 1 never publishes
  Heartbeat,   \* MESH_HEARTBEAT_SECONDS, in units of time
  TickGap,     \* longest time a running panel goes without a tick
  Delay,       \* longest time a claim spends between two panels
  MaxCrashes,  \* bound on the sessions that end in a behaviour
  MaxInbox     \* bound on the claims waiting at one panel

ASSUME PanelsAssumption == Panels \subseteq Nat /\ Panels # {}
ASSUME PriorityAssumption == Priority \in [Panels -> Int]
\* By default a tick comes every 2 s and a heartbeat every 10 s.  With the hot poll
\* disabled ticks come every 30 s, and the heartbeat has to be longer than 10 s.
ASSUME CadenceAssumption == TickGap < 3 * Heartbeat
ASSUME TimingAssumption ==
  /\ Heartbeat \in Nat \ {0}
  /\ TickGap \in Nat \ {0}
  /\ Delay \in Nat
  /\ MaxCrashes \in Nat
  /\ MaxInbox \in Nat \ {0}

None == -1               \* no claim, no age
StaleAfter == 3 * Heartbeat

VARIABLES
  up,           \* panels whose session runs and has joined the election
  leader,       \* panels whose _is_leader is set
  pendingSince, \* age of _pending_since, or None
  beat,         \* age of _last_beat
  other,        \* _other_claim: the panel it names, or None, and its age
  retained,     \* the claim the broker retains, or None
  inbox,        \* claims under way to each panel, oldest first, with their age
  idle,         \* time since the last tick of each running panel
  crashes,      \* sessions that ended so far
  outranked,    \* history: for how long each panel has led beside a better leader
                \* since the fleet last changed and a better claim was last
                \* overwritten in its slot
  vacant        \* history: for how long nobody led since the fleet last changed

panelVars == <<leader, pendingSince, beat, other>>
historyVars == <<outranked, vacant>>
electionVars == <<up, panelVars, retained, inbox, idle, crashes, historyVars>>

-----------------------------------------------------------------------------
\* (priority, panel) < (priority, panel)
Outranks(p, q) ==
  \/ Priority[p] < Priority[q]
  \/ Priority[p] = Priority[q] /\ p < q

Participates(p) == Priority[p] >= 1

\* Faulty variant: the claim of a dead panel never goes stale.
LiveOtherNeverStale(p) == other[p].panel

LiveOther(p) ==
  IF other[p].age >= StaleAfter THEN None ELSE other[p].panel

BetterIsLive(p) == LiveOther(p) # None /\ Outranks(LiveOther(p), p)

\* One retained publish: the broker keeps it and sends it to every subscriber.
Publish(p) ==
  /\ retained' = p
  /\ inbox' = [q \in Panels |->
                 IF q \in up THEN Append(inbox[q], [from |-> p, age |-> 0])
                             ELSE inbox[q]]

RoomForClaim == \A q \in up : Len(inbox[q]) < MaxInbox

-----------------------------------------------------------------------------
FleetChanges == vacant' = 0 /\ outranked' = [p \in Panels |-> 0]

\* A session joins: a fresh MeshLeader, and the broker sends what it retains.
Start(p) ==
  /\ p \notin up /\ Participates(p)
  /\ up' = up \cup {p}
  /\ leader' = leader \ {p}
  /\ pendingSince' = [pendingSince EXCEPT ![p] = None]
  /\ beat' = [beat EXCEPT ![p] = 0]
  /\ other' = [other EXCEPT ![p] = [panel |-> None, age |-> 0]]
  /\ inbox' = [inbox EXCEPT ![p] =
                 IF retained = None THEN <<>>
                 ELSE <<[from |-> retained, age |-> 0]>>]
  /\ idle' = [idle EXCEPT ![p] = 0]
  /\ FleetChanges
  /\ UNCHANGED <<retained, crashes>>

\* A session ends; its retained claim stays behind as a ghost.
EndSession(p) ==
  /\ p \in up /\ crashes < MaxCrashes
  /\ up' = up \ {p}
  /\ leader' = leader \ {p}
  /\ pendingSince' = [pendingSince EXCEPT ![p] = None]
  /\ beat' = [beat EXCEPT ![p] = 0]
  /\ other' = [other EXCEPT ![p] = [panel |-> None, age |-> 0]]
  /\ inbox' = [inbox EXCEPT ![p] = <<>>]
  /\ idle' = [idle EXCEPT ![p] = 0]
  /\ crashes' = crashes + 1
  /\ FleetChanges
  /\ UNCHANGED retained

\* The claim of q takes the place of a better one before a tick has read it.
Hides(p, q) == BetterIsLive(p) /\ Outranks(p, q)

OnMessage(p) ==
  /\ p \in up /\ inbox[p] # <<>>
  /\ inbox' = [inbox EXCEPT ![p] = Tail(@)]
  /\ LET claim == Head(inbox[p]).from IN
       /\ other' = IF claim = p THEN other
                   ELSE [other EXCEPT ![p] = [panel |-> claim, age |-> 0]]
       /\ outranked' = IF Hides(p, claim) THEN [outranked EXCEPT ![p] = 0] ELSE outranked
  /\ UNCHANGED <<up, leader, pendingSince, beat, retained, idle, crashes, vacant>>

-----------------------------------------------------------------------------
\* The branches of MeshLeader.tick.
\* Faulty variant: an incumbent never looks at the claims of others.
StepDownNever(p) ==
  /\ p \in leader /\ BetterIsLive(p)
  /\ UNCHANGED <<leader, pendingSince, beat, retained, inbox>>

StepDown(p) ==
  /\ p \in leader /\ BetterIsLive(p)
  /\ leader' = leader \ {p}
  /\ UNCHANGED <<pendingSince, beat, retained, inbox>>

Beat(p) ==
  /\ p \in leader /\ ~BetterIsLive(p) /\ beat[p] >= Heartbeat
  /\ RoomForClaim /\ Publish(p)
  /\ beat' = [beat EXCEPT ![p] = 0]
  /\ UNCHANGED <<leader, pendingSince>>

Yield(p) ==
  /\ p \notin leader /\ pendingSince[p] # None /\ BetterIsLive(p)
  /\ pendingSince' = [pendingSince EXCEPT ![p] = None]
  /\ UNCHANGED <<leader, beat, retained, inbox>>

Acquire(p) ==
  /\ p \notin leader /\ pendingSince[p] >= Heartbeat /\ ~BetterIsLive(p)
  /\ RoomForClaim /\ Publish(p)
  /\ leader' = leader \cup {p}
  /\ pendingSince' = [pendingSince EXCEPT ![p] = None]
  /\ beat' = [beat EXCEPT ![p] = 0]

\* Faulty variant: a standby waits for silence even when it outranks the leader.
ClaimOnlyAfterSilence(p) ==
  /\ p \notin leader /\ pendingSince[p] = None
  /\ LiveOther(p) = None
  /\ RoomForClaim /\ Publish(p)
  /\ pendingSince' = [pendingSince EXCEPT ![p] = 0]
  /\ UNCHANGED <<leader, beat>>

Claim(p) ==
  /\ p \notin leader /\ pendingSince[p] = None
  /\ LiveOther(p) # None => Outranks(p, LiveOther(p))
  /\ RoomForClaim /\ Publish(p)
  /\ pendingSince' = [pendingSince EXCEPT ![p] = 0]
  /\ UNCHANGED <<leader, beat>>

\* Nothing to do at this tick.
Wait(p) ==
  /\ \/ p \in leader /\ ~BetterIsLive(p) /\ beat[p] < Heartbeat
     \/ /\ p \notin leader /\ pendingSince[p] # None
        /\ ~BetterIsLive(p) /\ pendingSince[p] < Heartbeat
     \/ /\ p \notin leader /\ pendingSince[p] = None
        /\ LiveOther(p) # None /\ ~Outranks(p, LiveOther(p))
  /\ UNCHANGED <<leader, pendingSince, beat, retained, inbox>>

LeaderTick(p) ==
  /\ p \in up
  /\ StepDown(p) \/ Beat(p) \/ Yield(p) \/ Acquire(p) \/ Claim(p) \/ Wait(p)
  /\ idle' = [idle EXCEPT ![p] = 0]
  /\ UNCHANGED <<up, other, crashes, historyVars>>

-----------------------------------------------------------------------------
Upto(bound, n) == IF n < bound THEN n + 1 ELSE bound

DualBound == Heartbeat + Delay + 2 * TickGap - 1
VacantBound == 4 * Heartbeat + Delay + 2 * (TickGap - 1)
DualCap == DualBound + 1
VacantCap == VacantBound + 1

\* A unit of time passes.  The run loop ticks every TickGap, and a claim
\* arrives within Delay, so time cannot pass while either is overdue.
Pass ==
  /\ \A p \in up :
       /\ idle[p] < TickGap
       /\ \A i \in DOMAIN inbox[p] : inbox[p][i].age < Delay
  /\ idle' = [p \in Panels |-> IF p \in up THEN idle[p] + 1 ELSE 0]
  /\ inbox' = [p \in Panels |->
                 [i \in DOMAIN inbox[p] |-> [inbox[p][i] EXCEPT !.age = @ + 1]]]
  /\ pendingSince' = [p \in Panels |->
                        IF pendingSince[p] = None THEN None
                        ELSE Upto(Heartbeat, pendingSince[p])]
  /\ beat' = [p \in Panels |->
                IF p \in leader THEN Upto(Heartbeat, beat[p]) ELSE 0]
  /\ other' = [p \in Panels |->
                 IF other[p].panel = None THEN other[p]
                 ELSE [other[p] EXCEPT !.age = Upto(StaleAfter, @)]]
  /\ outranked' = [p \in Panels |->
                     IF p \in leader /\ \E q \in leader : Outranks(q, p)
                     THEN Upto(DualCap, outranked[p]) ELSE 0]
  /\ vacant' = IF up # {} /\ leader = {} THEN Upto(VacantCap, vacant) ELSE 0
  /\ UNCHANGED <<up, leader, retained, crashes>>

ElectionInit ==
  /\ up = {}
  /\ leader = {}
  /\ pendingSince = [p \in Panels |-> None]
  /\ beat = [p \in Panels |-> 0]
  /\ other = [p \in Panels |-> [panel |-> None, age |-> 0]]
  /\ retained = None
  /\ inbox = [p \in Panels |-> <<>>]
  /\ idle = [p \in Panels |-> 0]
  /\ crashes = 0
  /\ outranked = [p \in Panels |-> 0]
  /\ vacant = 0

ElectionNext ==
  \/ \E p \in Panels : Start(p) \/ EndSession(p) \/ OnMessage(p) \/ LeaderTick(p)
  \/ Pass

ElectionSpec == ElectionInit /\ [][ElectionNext]_electionVars

\* Panels tick, claims arrive and time passes; sessions start and end at will.
ElectionFairSpec ==
  /\ ElectionSpec
  /\ WF_electionVars(Pass)
  /\ \A p \in Panels : WF_electionVars(OnMessage(p)) /\ WF_electionVars(LeaderTick(p))

-----------------------------------------------------------------------------
\* Type invariant; in particular only a running session leads.
ElectionTypeOK ==
  /\ up \subseteq Panels
  /\ leader \subseteq up
  /\ pendingSince \in [Panels -> -1..Heartbeat]
  /\ beat \in [Panels -> 0..Heartbeat]
  /\ other \in [Panels -> [panel : Panels \cup {None}, age : 0..StaleAfter]]
  /\ retained \in Panels \cup {None}
  /\ inbox \in [Panels -> Seq([from : Panels, age : 0..Delay])]
  /\ idle \in [Panels -> 0..TickGap]
  /\ crashes \in 0..MaxCrashes
  /\ outranked \in [Panels -> 0..DualCap]
  /\ vacant \in 0..VacantCap

\* Two panels lead at once only while claims of third panels overwrite the better
\* one's in the single slot of MeshLeader before a tick reads it: from the last such
\* claim on, the worse of them hears the other's next beat, a heartbeat later,
\* and steps down at its next tick.
DualLeadershipIsBrief == \A p \in Panels : outranked[p] <= DualBound

\* Once the fleet stops changing somebody soon leads: a standby waits out the
\* ghost of a dead leader (three heartbeats), claims, and waits one more.
VacancyIsBounded == vacant <= VacantBound

\* When sessions stop starting and ending, the best running panel leads and
\* no other does: preemption, takeover and yielding converge.
BestLeads ==
  <>[](leader = {p \in up : \A q \in up \ {p} : Outranks(p, q)})
=============================================================================
