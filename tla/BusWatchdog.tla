------------------------------ MODULE BusWatchdog ------------------------------
(***************************************************************************)
(* The bus watchdog (brilliant_bus_watchdog): it samples the heartbeat and *)
(* the phase marker of the agent (BusPhase) and reboots the panel when     *)
(* both say that the bus has been dead for StaleAfter.  The cool-down and  *)
(* the cap of its reboots are in module RebootGuard; here the guard may    *)
(* refuse any reboot.                                                      *)
(***************************************************************************)
EXTENDS BusPhase

VARIABLES
    dead,      \* is the panel's bus wedged?
    broker,    \* does the broker answer?
    revoked,   \* BusFailureObserver._revoked: did the agent's process give up its lease alive?
    hung,      \* does the attempt at a wedged bus never return? (a subscription has no time-out)
    since,     \* time since the bus was last attempted
    away,      \* history: how long the agent has been off the bus
    quiet      \* history: time since it was last off the bus for longer than Retention

watchVars == <<dead, broker, revoked, hung, since, away, quiet>>
vars == <<stage, marker, leased, owned, beat, read, wrong, faults,
          dead, broker, revoked, hung, since, away, quiet>>

\* The type invariant.
TypeOK ==
    /\ PhaseTypeOK
    /\ dead \in BOOLEAN /\ broker \in BOOLEAN /\ revoked \in BOOLEAN /\ hung \in BOOLEAN
    /\ since \in Age /\ away \in Age /\ quiet \in Age

Init ==
    /\ PhaseInit
    /\ dead = FALSE /\ broker = TRUE /\ revoked = FALSE /\ hung = FALSE
    /\ since = 0 /\ away = 0 /\ quiet = 0

-----------------------------------------------------------------------------
(* A sample. *)

Alive == stage # "off" /\ marker.mine

\* A record the watchdog can date: of the bus, timed, and not older than the
\* start of the service.
Timed == marker.phase = "bus" /\ marker.ok \in {"attempt", "success"} /\ marker.mine

\* The agent lives, and let go of a record the watchdog had seen it hold.
LetGo == Timed /\ Alive /\ ~leased /\ marker.seen

\* The observer after a sample: only a new record under a lease clears it.
Revoked == (revoked \/ LetGo) /\ ~(Timed /\ Alive /\ leased)

\* bus_failure_age is not None: a live writer holds its lease; a dead one died
\* in an attempt, a moment ago.
Evidence ==
    /\ Timed /\ ~Revoked
    /\ IF Alive THEN leased
       ELSE marker.ok = "attempt" /\ marker.upd <= Retention

\* should_reboot, when the gateway answers.
Should == beat >= StaleAfter /\ Evidence /\ marker.fail >= StaleAfter

Observe ==
    /\ revoked' = Revoked
    /\ marker' = [marker EXCEPT !.seen = @ \/ (Timed /\ Alive /\ leased)]

\* A poll that reboots nothing: no reason, no gateway, or the guard's refusal.
Watch ==
    /\ Observe
    /\ UNCHANGED <<stage, leased, owned, beat, read, wrong, faults,
                   dead, broker, hung, since, away, quiet>>

\* A poll that reboots.  /run is emptied, and a heartbeat that is missing is
\* as old as the watchdog's start.
Reboot ==
    /\ Should
    /\ stage' = "off"
    /\ Marked(NoMarker, FALSE, FALSE)
    /\ beat' = 0 /\ read' = 0 /\ wrong' = {}
    /\ dead' = FALSE /\ revoked' = FALSE /\ hung' = FALSE
    /\ since' = 0 /\ away' = 0 /\ quiet' = 0
    /\ UNCHANGED <<broker, faults>>

\* The watchdog restarts with an observer that has seen nothing.
WatchdogRestarts ==
    /\ Fault
    /\ revoked' = FALSE
    /\ marker' = [marker EXCEPT !.seen = FALSE]
    /\ UNCHANGED <<stage, leased, owned, beat, read, wrong, dead, broker, hung, since, away, quiet>>

-----------------------------------------------------------------------------
(* The agent and its world. *)

AgentStep ==
    /\ \/ ~hung /\ SessionBegins
       \/ ProcessStarts
       \/ broker /\ BusAttempt
       \/ ~dead /\ Beat
       \/ Crash
    /\ hung' \in IF stage = "pre" /\ stage' = "bus" THEN {FALSE, dead}
                 ELSE {hung /\ stage' = "bus"}
    /\ since' = IF stage = "pre" /\ stage' = "bus" THEN 0 ELSE since
    /\ revoked' = (revoked /\ stage # "off")
    /\ away' = IF stage' = "bus" THEN 0 ELSE away
    /\ UNCHANGED <<dead, broker, quiet>>

\* A dead bus and a broker that answers: sessions turn faster than Retention,
\* since the handshake, a poll and the back-off between two sessions are bounded,
\* or the attempt hangs.
SessionsTurn == dead /\ broker /\ ~hung => since < Retention

\* Time passes.
Pass ==
    /\ SessionsTurn
    /\ beat' = Older(beat) /\ read' = Older(read) /\ since' = Older(since)
    /\ marker' = [marker EXCEPT !.fail = Older(@), !.upd = Older(@)]
    /\ away' = IF stage = "bus" THEN 0 ELSE Older(away)
    /\ quiet' = IF away' > Retention THEN 0 ELSE Older(quiet)
    /\ UNCHANGED <<stage, leased, owned, wrong, faults, dead, broker, revoked, hung>>

\* The wall clock is set; only the heartbeat is stamped with it.
ClockSet ==
    /\ Fault
    /\ beat' \in Age /\ wrong' = wrong \cup {"heartbeat"}
    /\ UNCHANGED <<stage, marker, leased, owned, read, watchVars>>

BusChanges ==
    /\ Fault /\ dead' = ~dead /\ hung' = FALSE
    /\ UNCHANGED <<stage, marker, leased, owned, beat, read, wrong,
                   broker, revoked, since, away, quiet>>
BrokerChanges ==
    /\ Fault /\ broker' = ~broker
    /\ UNCHANGED <<stage, marker, leased, owned, beat, read, wrong,
                   dead, revoked, hung, since, away, quiet>>

Environment == ClockSet \/ BusChanges \/ BrokerChanges
Next == AgentStep \/ Watch \/ Reboot \/ WatchdogRestarts \/ Pass \/ Environment

\* A session is over some time, the next one is tried and the service manager
\* restarts a dead process; the watchdog polls again and again, whatever phase
\* the session is in, the gateway answers some of these times, and the guard
\* does not refuse for ever (module RebootGuard).
Fairness ==
    /\ WF_vars(AgentStep /\ stage # stage' /\ stage' # "off")
    /\ WF_vars(Pass)
    /\ SF_vars(Reboot)
Spec == Init /\ [][Next]_vars /\ Fairness

-----------------------------------------------------------------------------
(* Properties. *)

\* What the inductive invariant says of the records, part by part.
\* A lease is held by a living agent, on the armed record it wrote.
LeaseIsLive ==
    leased => stage = "bus" /\ marker.phase = "bus" /\ marker.ok \in {"attempt", "success"}

\* A record of a success counts from that success.
SuccessIsFresh == marker.ok = "success" => marker.fail = marker.upd

\* A record that the watchdog or the next writer would trust.
Trusted == leased \/ (marker.ok = "attempt" /\ marker.upd <= Retention)

\* An agent off the bus ages its last attempt.
WaitIsSeen ==
    /\ stage # "bus" /\ marker.ok = "attempt" => away <= marker.upd
    /\ stage = "bus" => away = 0
WaitIsLeftOut == Trusted => marker.fail <= quiet
ReadIsSeen ==
    /\ Trusted /\ "marker" \notin wrong => marker.fail <= read
    /\ "heartbeat" \notin wrong => beat <= read

\* A record that would be trusted blames the bus for no more than the time since
\* the last read and since the last long wait, unless it lost that read.
EvidenceIsHonest ==
    LeaseIsLive /\ SuccessIsFresh /\ WaitIsSeen /\ WaitIsLeftOut /\ ReadIsSeen

\* The agent read the bus less than StaleAfter ago only if both records of
\* that read were lost; one misleading record never reboots the panel.
ReadsAreCounted == read >= StaleAfter \/ wrong = {"heartbeat", "marker"}

\* The panel is never rebooted for a bus that was read within StaleAfter while
\* one of the two records of that read survives (whatever crashed, whatever
\* the clock was set to), nor for time the agent spent waiting for the broker
\* or dead: a wait longer than Retention starts the count anew (bus_failure_age,
\* _inheritable_history, should_reboot).
RebootIsAttributed == [][Reboot => ReadsAreCounted /\ quiet >= StaleAfter]_vars

\* A bus that stays dead while the broker answers is recovered by a reboot,
\* although attempts restart the session, and crash the process, all the time.
\* One case is out: an attempt that never returns and whose marker was lost
\* leaves the panel without attribution (write_phase says so when it fails).
DeadBusReboots == dead /\ broker ~> ~(dead /\ broker) \/ (hung /\ ~leased)
=============================================================================
