------------------------------ MODULE Supervisor ------------------------------
(***************************************************************************)
(* The supervisor of the agent (brilliant_mqtt/__main__.py): run() builds  *)
(* one session after the other, _run_session serves it tick by tick and    *)
(* tears it down.  Every failure the supervisor meets comes out of a       *)
(* budget, so that "in the end" can be asked.                              *)
(***************************************************************************)
EXTENDS BusSession

CONSTANTS
    FencedStartLimit,   \* bus_fenced_start_limit
    MaxFaults           \* bound: failures of broker, bus, ledger and process

ASSUME SupervisorAssumption == FencedStartLimit \in Nat \ {0} /\ MaxFaults \in Nat

VARIABLES
    at,       \* what the session awaits
    why,      \* how it ended
    fenced,   \* fenced starts in a row
    latch,    \* faults latched for the next tick
    retry,    \* is the hot poll's single retry pending?
    fails,    \* resyncs that failed in a row
    misses,   \* history: reads that timed out since one succeeded
    stalled,  \* does the bus leave reads unanswered?
    faults    \* failures so far

control == <<at, why, fenced, latch, retry, fails, misses>>
vars == <<busVars, control, stalled, faults>>

Serving == {"loop", "poll", "resync"}
Places == {"connect", "start", "first", "stopping", "shutdown", "backoff", "dead"} \cup Serving
Reasons == {"none", "fenced", "ledger", "other"}
Latches == {"ledger", "fault"}   \* reader, write time-out and overload do the same

SupervisorTypeOK ==
    /\ at \in Places /\ why \in Reasons
    /\ fenced \in 0 .. FencedStartLimit
    /\ latch \subseteq Latches
    /\ retry \in BOOLEAN /\ stalled \in BOOLEAN
    /\ fails \in 0 .. 1
    /\ misses \in Nat
    /\ faults \in 0 .. MaxFaults

TypeOK == BusTypeOK /\ SupervisorTypeOK

Init ==
    /\ BusInit
    /\ at = "connect" /\ why = "none" /\ fenced = 0
    /\ latch = {} /\ retry = FALSE /\ fails = 0 /\ misses = 0
    /\ stalled = FALSE /\ faults = 0

Fault == faults < MaxFaults /\ faults' = faults + 1
Goto(place) == at' = place /\ UNCHANGED <<why, fenced, latch, retry, fails, misses>>

\* An exception leaves _run_session's body: its finally block begins.
End(reason) == at' = "stopping" /\ why' = reason

-----------------------------------------------------------------------------
(* From the broker to the first reconcile. *)

Connected ==
    /\ at = "connect"
    /\ Goto("start")
    /\ UNCHANGED <<busVars, stalled, faults>>

\* The broker refuses, or the ledger does not load.
ConnectFails ==
    /\ at = "connect" /\ Fault
    /\ End("other")
    /\ UNCHANGED <<busVars, stalled, fenced, latch, retry, fails, misses>>

StartBegins ==
    /\ at = "start" /\ Allocate(Resources)
    /\ UNCHANGED <<control, stalled, faults>>

\* The constructor of the processor raises: only the observer is owned.
ProcessorRaises ==
    /\ at = "start" /\ Fault
    /\ Allocate({"observer"})
    /\ UNCHANGED <<control, stalled>>

\* BusStartFencedError: the count goes on.
StartFenced ==
    /\ at = "start" /\ stage = "idle" /\ Fenced
    /\ End("fenced")
    /\ UNCHANGED <<busVars, stalled, faults, fenced, latch, retry, fails, misses>>

\* A start that was not fenced ends the streak, also when it fails.
StartSucceeds ==
    /\ at = "start" /\ Commit
    /\ at' = "first" /\ fenced' = 0
    /\ UNCHANGED <<why, latch, retry, fails, misses, stalled, faults>>

StartRaises ==
    /\ at = "start"
    /\ IF open = Resources THEN Fault ELSE UNCHANGED faults
    /\ StartFails
    /\ UNCHANGED <<control, stalled>>

StartUnwound ==
    /\ at = "start" /\ stage = "unwinding" /\ CloseAwaited
    /\ End("other")
    /\ fenced' = 0
    /\ UNCHANGED <<stalled, faults, latch, retry, fails, misses>>

\* The first reconcile must succeed; the scene bridge starts after it.
Reconciled ==
    /\ at = "first" /\ ~stalled
    /\ at' = "loop" /\ misses' = 0
    /\ UNCHANGED <<busVars, why, fenced, latch, retry, fails, stalled, faults>>

ReconcileFails ==
    /\ at = "first"
    /\ \/ stalled /\ UNCHANGED faults
       \/ Fault
    /\ End("other")
    /\ UNCHANGED <<busVars, fenced, latch, retry, fails, misses, stalled>>

-----------------------------------------------------------------------------
(* The tick loop. *)

\* A latched fault: the ledger's is looked at first.
TickFails ==
    /\ at = "loop" /\ latch # {}
    /\ End(IF "ledger" \in latch THEN "ledger" ELSE "other")
    /\ UNCHANGED <<busVars, fenced, latch, retry, fails, misses, stalled, faults>>

\* The stale-stream watchdog: nothing was heard for too long.
StreamIsStale ==
    /\ at = "loop" /\ latch = {} /\ deaf
    /\ End("other")
    /\ UNCHANGED <<busVars, fenced, latch, retry, fails, misses, stalled, faults>>

\* The reconnect-storm breaker, a lost election's publication, and the like.
TickRaises ==
    /\ at = "loop" /\ latch = {} /\ Fault
    /\ End("other")
    /\ UNCHANGED <<busVars, fenced, latch, retry, fails, misses, stalled>>

\* What a tick leaves alone at the adapter: all but its own read.
adapter == <<stage, resources, pushes, resub, running, dirty, deaf, reconnects>>

\* The hot poll's read begins; a pending retry first waits for its time, and
\* holds back the resync with it.
Tick ==
    /\ at = "loop" /\ latch = {}
    /\ Goto("poll")
    /\ UNCHANGED <<adapter, gap, stalled, faults>>
    /\ ReadBegins("tick")

\* Only a complete cycle earns new grace; a resync may be due.
Polled ==
    /\ at = "poll" /\ ~stalled
    /\ retry' = FALSE /\ misses' = 0
    /\ UNCHANGED <<adapter, why, fenced, latch, fails, stalled, faults>>
    /\ ReadSucceeds("tick")
    /\ \/ at' = "loop" /\ fresh' = fresh \ {"tick"}
       \/ at' = "resync" /\ ReadBegins("tick")

\* Faulty variant: the poll is retried for ever.
PollRetried ==
    /\ at = "poll" /\ stalled
    /\ misses' = misses + 1
    /\ misses < 4
    /\ at' = "loop" /\ retry' = TRUE
    /\ UNCHANGED <<busVars, why, fenced, latch, fails, stalled, faults>>

PollTimesOut ==
    /\ at = "poll" /\ stalled
    /\ misses' = misses + 1
    /\ IF retry
       THEN End("other") /\ UNCHANGED retry
       ELSE at' = "loop" /\ retry' = TRUE /\ UNCHANGED why
    /\ UNCHANGED <<busVars, fenced, latch, fails, stalled, faults>>

\* A publication of the cycle fails.
PollRaises ==
    /\ at = "poll" /\ Fault
    /\ End("other")
    /\ UNCHANGED <<busVars, fenced, latch, retry, fails, misses, stalled>>

Resynced ==
    /\ at = "resync" /\ ~stalled
    /\ ReadSucceeds("tick")
    /\ at' = "loop" /\ fresh' = fresh \ {"tick"}
    /\ fails' = 0 /\ misses' = 0
    /\ UNCHANGED <<adapter, why, fenced, latch, retry, stalled, faults>>

\* A read that times out, or a subscription the broker does not confirm:
\* one is forgiven, two in a row are not.
ResyncFails ==
    /\ at = "resync"
    /\ \/ stalled /\ misses' = misses + 1 /\ UNCHANGED faults
       \/ Fault /\ UNCHANGED misses
    /\ IF fails >= 1
       THEN End("other") /\ UNCHANGED fails
       ELSE at' = "loop" /\ fails' = 1 /\ UNCHANGED why
    /\ UNCHANGED <<busVars, fenced, latch, retry, stalled>>

-----------------------------------------------------------------------------
(* Teardown, back-off and the next session. *)

TeardownBegins ==
    /\ at = "stopping" /\ Shutdown
    /\ Goto("shutdown")
    /\ UNCHANGED <<stalled, faults>>

BusSettled ==
    /\ at = "shutdown" /\ Settled
    /\ UNCHANGED <<control, stalled, faults>>

\* Faulty variant: each session begins its own count of fenced starts.
TornDownUncounted ==
    /\ at = "shutdown" /\ stage = "closing" /\ CloseAwaited
    /\ fenced' = IF why = "fenced" THEN 1 ELSE 0
    /\ at' = IF fenced' >= FencedStartLimit THEN "dead" ELSE "backoff"
    /\ UNCHANGED <<why, latch, retry, fails, misses, stalled, faults>>

\* The bus is closed, or given up; the broker is left and run() counts.
TornDown ==
    /\ at = "shutdown" /\ stage = "closing" /\ CloseAwaited
    /\ fenced' = IF why = "fenced" THEN fenced + 1 ELSE fenced
    /\ at' = IF fenced' >= FencedStartLimit THEN "dead" ELSE "backoff"
    /\ UNCHANGED <<why, latch, retry, fails, misses, stalled, faults>>

NewSession ==
    /\ at' = "connect" /\ why' = "none"
    /\ latch' = {} /\ retry' = FALSE /\ fails' = 0 /\ misses' = 0
    /\ NewAdapter

NextSession ==
    /\ at = "backoff" /\ NewSession
    /\ UNCHANGED <<fenced, stalled, faults>>

\* os._exit, or a crash anywhere.
Crash ==
    /\ at # "dead" /\ Fault
    /\ Goto("dead")
    /\ UNCHANGED <<busVars, stalled>>

\* The kernel has closed the dead process's connections; the service manager
\* starts another.
Restart ==
    /\ at = "dead"
    /\ at' = "connect" /\ why' = "none" /\ fenced' = 0
    /\ latch' = {} /\ retry' = FALSE /\ fails' = 0 /\ misses' = 0
    /\ stage' = "idle" /\ open' = {} /\ alive' = Nobody /\ closers' = Nobody
    /\ ghosts' = Nobody
    /\ NoWork
    /\ UNCHANGED <<stalled, faults>>

-----------------------------------------------------------------------------
(* The adapter's own steps, and the environment. *)

Alive == at # "dead"
BusStep ==
    /\ Alive
    /\ \/ Push \/ ReconnectUnseen \/ Reconnect
       \/ \E r \in Resources : Closed(r)
    /\ UNCHANGED <<control, stalled, faults>>

BusWorks ==
    /\ Alive
    /\ \/ \E c \in Callbacks : Drain(c)
       \/ Resubscribed(TRUE)
       \/ ~stalled /\ RunEnds(TRUE)
    /\ UNCHANGED <<control, stalled, faults>>

\* The reconcile after a reconnection fails: a read that times out, or a
\* publication.  Nobody but the log hears of it.
RunFails ==
    /\ Alive
    /\ \/ stalled /\ UNCHANGED faults
       \/ Fault
    /\ RunEnds(FALSE)
    /\ UNCHANGED <<control, stalled>>

CloseRaises ==
    /\ Alive /\ Fault
    /\ \E r \in Resources : CloseFails(r)
    /\ UNCHANGED <<control, stalled>>

ResubscribeFails ==
    /\ Alive /\ Fault
    /\ Resubscribed(FALSE)
    /\ UNCHANGED <<control, stalled>>

Latch(f) ==
    /\ at \in Serving \cup {"first"} /\ f \notin latch
    /\ Fault
    /\ latch' = latch \cup {f}
    /\ UNCHANGED <<busVars, at, why, fenced, retry, fails, misses, stalled>>

Stall ==
    /\ ~stalled /\ Fault
    /\ stalled' = TRUE
    /\ UNCHANGED <<busVars, control>>

Heal ==
    /\ stalled
    /\ stalled' = FALSE
    /\ UNCHANGED <<busVars, control, faults>>

\* What the event loop does by itself.
Works ==
    \/ Connected \/ StartBegins \/ StartFenced \/ StartSucceeds \/ StartUnwound
    \/ Reconciled \/ TickFails \/ StreamIsStale
    \/ PollTimesOut \/ Resynced
    \/ TeardownBegins \/ BusSettled \/ TornDown \/ NextSession \/ Restart

Fails ==
    \/ ConnectFails \/ ProcessorRaises \/ StartRaises \/ ReconcileFails \/ TickRaises \/ PollRaises
    \/ ResyncFails \/ ResubscribeFails \/ RunFails \/ CloseRaises
    \/ Crash \/ Stall
    \/ \E f \in Latches : Latch(f)

Next == Works \/ Tick \/ Polled \/ Fails \/ Heal \/ BusStep \/ BusWorks

\* Timers fire and ready tasks run; the service manager restarts the agent;
\* the bus heals.  A close need not return and a fault need not happen.
Spec == Init /\ [][Next]_vars
FairSpec ==
    /\ Spec
    /\ WF_vars(Works) /\ WF_vars(Tick) /\ WF_vars(Polled)
    /\ WF_vars(StartRaises \/ ReconcileFails \/ ResyncFails)
    /\ WF_vars(BusWorks) /\ WF_vars(Heal)
    /\ SF_vars(StreamIsStale)   \* the silence grows, and every tick looks at it

-----------------------------------------------------------------------------
(* Properties. *)

\* A bus that leaves reads unanswered ends the session at the third in a row
\* at the latest, however its polls and resyncs are mixed: one retry is
\* pending at a time, and a pending retry of the poll spends no resync
\* (__main__.py:427-497).
StallsAreBounded == at \in Serving => misses <= 2

\* Whatever failed, and even when a close of the bus library never returns,
\* the agent ends up serving a session whose pushes arrive and whose
\* missed changes have been read (__main__.py:545-595).
ComesBack == <>[](at \in Serving /\ ~gap /\ ~deaf)
=============================================================================
