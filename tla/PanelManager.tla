----------------------------- MODULE PanelManager -----------------------------
(***************************************************************************)
(* How Home Assistant watches one panel (PanelManager in manager.py): the  *)
(* availability reports of the bridge, the grace period of an offline      *)
(* panel, repairs and updates over SSH, the recovery window that judges    *)
(* them, and the outages of the broker that suspend all verdicts.          *)
(*                                                                         *)
(* A timer that is armed may fire at any later time.  A recovery timeout   *)
(* of a window that a newer one replaced changes nothing any more, so only *)
(* the one of the current window is kept.                                  *)
(***************************************************************************)
EXTENDS Naturals

CONSTANTS
    AutoRepair,     \* OPT_AUTO_REPAIR
    MaxTries,       \* _CONNECT_RETRY_MAX_ATTEMPTS: connects of an update
    MaxReports,     \* bound: reports received from the panel
    MaxOutages,     \* bound: outages of the broker
    MaxOrders,      \* bound: repairs and updates an operator asks for
    MaxAuto         \* bound: cool-downs that end

ASSUME PanelAssumption ==
    AutoRepair \in BOOLEAN /\ MaxTries \in Nat \ {0} /\ 
        {MaxReports, MaxOutages, MaxOrders, MaxAuto} \subseteq Nat

\* "invalid" is a payload that could not be decoded (availability None); "lost" a
\* panel judged offline, "failed" a repair or an update that went wrong.
Availabilities == {"online", "offline", "invalid"}
Problems == {"none", "lost", "failed", "ledger"}
Kinds == {"auto", "manual", "update"}
NoJob == [kind |-> "none", stage |-> "none", tries |-> 0]
Stages == {"queued", "connecting", "connected", "mutating", "done", "abandoned"}

VARIABLES
    availability, problem,
    broker,                 \* is Home Assistant's link to the broker known to work?
    grace, recovery,        \* is the timer armed?
    deferred,               \* _recovery_deferred
    extended, activity,     \* the window was extended; a sign of life was seen in it
    judge,                  \* _recovery_timeout: "no", "waiting" for SSH or "reading"
    job,                    \* the repair or update that holds _repairing
    cooling,                \* does the cool-down of the last repair run?
    down,                   \* _shutting_down
    missed,                 \* history: a path to recovery was refused or dropped
                            \* because a repair or an update was under way, or
                            \* by an error that escaped all handlers
    reports, outages, orders, autos

timers == <<grace, recovery, deferred, extended>>
panelBounds == <<reports, outages, orders, autos>>
panelVars == <<availability, problem, broker, grace, recovery, deferred, extended, activity, judge,
          job, cooling, down, missed, reports, outages, orders, autos>>

\* The type invariant.
PanelTypeOK ==
    /\ availability \in Availabilities /\ problem \in Problems
    /\ {broker, grace, recovery, deferred, extended, activity, cooling, down, missed}
           \subseteq BOOLEAN
    /\ judge \in {"no", "waiting", "reading"}
    /\ job \in {NoJob} \cup [kind : Kinds, stage : Stages, tries : 1 .. MaxTries]
    /\ reports \in 0 .. MaxReports /\ outages \in 0 .. MaxOutages
    /\ orders \in 0 .. MaxOrders /\ autos \in 0 .. MaxAuto

PanelInit ==
    /\ availability = "invalid" /\ problem = "none" /\ broker = TRUE
    /\ grace = FALSE /\ recovery = FALSE /\ deferred = FALSE
    /\ extended = FALSE /\ activity = FALSE /\ judge = "no" /\ job = NoJob
    /\ cooling = FALSE /\ down = FALSE /\ missed = FALSE
    /\ reports = 0 /\ outages = 0 /\ orders = 0 /\ autos = 0

-----------------------------------------------------------------------------
(* Arming the timers *)

Repairing == job # NoJob
\* The fleet's SSH lock is held by this panel.
Locked == job.stage \notin {"none", "queued"} \/ judge = "reading"

\* _arm_offline_grace, with availability a and the problem p.
ArmGrace(a, p) ==
    LET wanted == ~down /\ a = "offline" /\ p # "ledger" /\ ~grace /\ ~recovery /\ ~deferred
    IN /\ grace' = (grace \/ (wanted /\ ~Repairing))
       /\ missed' = IF wanted THEN Repairing ELSE missed
       /\ UNCHANGED <<recovery, deferred, extended>>

\* _arm_recovery: a fresh window, for a fresh verdict.
ArmRecovery ==
    /\ recovery' = TRUE /\ deferred' = FALSE /\ extended' = FALSE /\ activity' = FALSE
    /\ judge' = "no" /\ missed' = FALSE

-----------------------------------------------------------------------------
(* Reports of the panel: they arrive while the broker link works *)

Report ==
    /\ broker /\ ~down
    /\ reports < MaxReports /\ reports' = reports + 1
    /\ UNCHANGED <<broker, judge, job, cooling, down, outages, orders, autos>>

\* _on_availability: the bridge is back.
Online ==
    /\ Report
    /\ availability' = "online" /\ activity' = TRUE
    /\ grace' = FALSE /\ recovery' = FALSE /\ deferred' = FALSE /\ missed' = FALSE
    /\ problem' = IF problem = "ledger" THEN "ledger" ELSE "none"
    /\ UNCHANGED extended

\* Its last will.
Offline ==
    /\ Report
    /\ availability' = "offline" /\ activity' = TRUE
    /\ ArmGrace("offline", problem)
    /\ UNCHANGED problem

Invalid ==
    /\ Report
    /\ availability' = "invalid"
    /\ UNCHANGED <<problem, timers, activity, missed>>

\* _on_meta: the agent reports that its ledger failed.
LedgerFails ==
    /\ Report
    /\ activity' = TRUE /\ problem' = "ledger"
    /\ grace' = FALSE /\ recovery' = FALSE /\ missed' = FALSE
    /\ UNCHANGED <<availability, deferred, extended>>

\* Ordinary meta: the ledger, if it had failed, has recovered.
Meta ==
    /\ Report
    /\ activity' = TRUE
    /\ IF problem = "ledger"
       THEN problem' = "none" /\ ArmGrace(availability, "none")
       ELSE UNCHANGED <<problem, timers, missed>>
    /\ UNCHANGED availability

-----------------------------------------------------------------------------
(* The broker *)

BrokerLost ==
    /\ broker /\ broker' = FALSE
    /\ outages < MaxOutages /\ outages' = outages + 1
    /\ UNCHANGED <<availability, problem, timers, activity, judge, job, cooling, down, missed,
                   reports, orders, autos>>

\* Faulty variant: a suspended verdict is dropped.
BrokerBackForgets ==
    /\ ~broker /\ broker' = TRUE
    /\ IF deferred
       THEN deferred' = FALSE /\ UNCHANGED <<grace, recovery, extended, activity, judge, missed>>
       ELSE ArmGrace(availability, problem) /\ UNCHANGED <<activity, judge>>
    /\ UNCHANGED <<availability, problem, job, cooling, down, reports, outages, orders, autos>>

\* async_broker_reconnected
BrokerBack ==
    /\ ~broker /\ broker' = TRUE
    /\ IF deferred
       THEN IF down \/ Repairing
            THEN /\ deferred' = FALSE /\ missed' = (missed \/ Repairing)
                 /\ UNCHANGED <<grace, recovery, extended, activity, judge>>
            ELSE ArmRecovery /\ UNCHANGED grace
       ELSE ArmGrace(availability, problem) /\ UNCHANGED <<activity, judge>>
    /\ UNCHANGED <<availability, problem, job, cooling, down, reports, outages, orders, autos>>

-----------------------------------------------------------------------------
(* The grace period *)

\* async_repair and async_update_agent, up to the wait for SSH.
BeginJob(k) ==
    /\ job' = [kind |-> k, stage |-> "queued", tries |-> 1]
    /\ grace' = FALSE

\* _grace_expired: a repair, an escalation, or nothing for now.
GraceExpires ==
    /\ grace
    /\ IF down \/ problem = "ledger" \/ availability = "online"
       THEN grace' = FALSE /\ UNCHANGED <<problem, job>>
       ELSE IF ~broker
       THEN grace' = (availability = "invalid") /\ UNCHANGED <<problem, job>>
       ELSE IF ~AutoRepair \/ cooling
       THEN grace' = FALSE /\ problem' = "lost" /\ UNCHANGED job
       ELSE IF Repairing
       THEN grace' = FALSE /\ UNCHANGED <<problem, job>>
       ELSE BeginJob("auto") /\ UNCHANGED problem
    /\ missed' = (missed \/ (~grace' /\ problem' = "none" /\ Repairing))
    /\ UNCHANGED <<availability, broker, recovery, deferred, extended, activity, judge, cooling,
                   down, panelBounds>>

\* The cool-down of the last repair is over.
CooldownEnds ==
    /\ cooling /\ cooling' = FALSE
    /\ autos < MaxAuto /\ autos' = autos + 1
    /\ UNCHANGED <<availability, problem, broker, timers, activity, judge, job, down, missed,
                   reports, outages, orders>>

-----------------------------------------------------------------------------
(* Repairs and updates *)

\* An operator's order, refused while another runs.
Order(k) ==
    /\ ~down /\ ~Repairing
    /\ orders < MaxOrders /\ orders' = orders + 1
    /\ BeginJob(k)
    /\ UNCHANGED <<availability, problem, broker, recovery, deferred, extended, activity, judge,
                   cooling, down, missed, reports, outages, autos>>

JobAt(stage) == job.stage = stage
JobTo(stage) == job' = [job EXCEPT !.stage = stage]

\* _auto_repair_still_warranted
Warranted == ~down /\ availability # "online" /\ broker
Stale == job.kind = "auto" /\ ~Warranted

\* _skip_stale_auto_repair
Skip ==
    /\ problem' = IF availability = "online" /\ problem # "ledger" THEN "none" ELSE problem
    /\ grace' = (grace \/ (availability = "invalid" /\ ~down))
    /\ UNCHANGED cooling

Job ==
    UNCHANGED <<availability, broker, deferred, extended, recovery, activity, judge, down,
                panelBounds>>

\* The SSH lock is granted; an automatic repair may be obsolete by now, and an
\* update whose entry is torn down stops.
Granted ==
    /\ JobAt("queued") /\ judge # "reading"
    /\ IF Stale
       THEN job' = NoJob /\ Skip
       ELSE IF down /\ job.kind = "update"
       THEN job' = NoJob /\ UNCHANGED <<problem, grace, cooling>>
       ELSE JobTo("connecting") /\ UNCHANGED <<problem, grace, cooling>>
    /\ Job /\ UNCHANGED missed

Connected ==
    /\ JobAt("connecting")
    /\ JobTo(IF job.kind = "update" THEN "mutating" ELSE "connected")
    /\ Job /\ UNCHANGED <<problem, grace, cooling, missed>>

\* An update that could not connect gives the lock back and tries once more.
Retries ==
    /\ JobAt("connecting") /\ job.kind = "update" /\ job.tries < MaxTries /\ ~down
    /\ job' = [job EXCEPT !.stage = "queued", !.tries = @ + 1]
    /\ Job /\ UNCHANGED <<problem, grace, cooling, missed>>

\* The panel cannot be reached: a repair is tried again later.
Unreachable ==
    /\ JobAt("connecting") /\ job' = NoJob
    /\ \/ problem' = "failed"
       \/ down /\ job.kind = "update" /\ UNCHANGED problem
    /\ cooling' = (cooling \/ job.kind # "update")
    /\ grace' = (job.kind # "update" /\ ~down /\ availability # "invalid")
    /\ Job /\ UNCHANGED missed

\* Its host key is another one, or the release to install cannot be read: an
\* operator has to act.
PanelRefused ==
    /\ JobAt("connecting") \/ (JobAt("queued") /\ job.kind = "update" /\ job.tries = 1)
    /\ job' = NoJob
    /\ problem' = "failed"
    /\ cooling' = (cooling \/ job.kind # "update")
    /\ Job /\ UNCHANGED <<grace, missed>>

\* An error that no handler names, like a PanelIdentityError of the connect, or a
\* cancellation ends the repair or update: no problem is set, no cool-down runs,
\* and the grace timer it cancelled is gone.
JobEscapes ==
    /\ job.stage \in {"queued", "connecting", "connected", "mutating"}
    /\ job' = IF job.stage \in {"queued", "connecting"}
              THEN NoJob ELSE [job EXCEPT !.stage = "abandoned"]
    /\ missed' = (missed \/ ~recovery)
    /\ Job /\ UNCHANGED <<problem, grace, cooling>>

\* The last look before the panel is changed, and again inside the transaction.
Gate(from, to) ==
    /\ JobAt(from)
    /\ IF Stale
       THEN JobTo("abandoned") /\ Skip
       ELSE JobTo(to) /\ UNCHANGED <<problem, grace, cooling>>
    /\ Job /\ UNCHANGED missed

Inspected == Gate("connected", "mutating")
Mutated == Gate("mutating", "done")

\* A step on the panel fails.
StepFails ==
    /\ JobAt("connected") \/ JobAt("mutating")
    /\ JobTo("abandoned")
    /\ problem' = "failed" /\ cooling' = (cooling \/ job.kind # "update")
    /\ Job /\ UNCHANGED <<grace, missed>>

\* An update to the release that is installed changes nothing; the timer it
\* cancelled is gone.
NoOp ==
    /\ JobAt("mutating") /\ job.kind = "update"
    /\ JobTo("abandoned")
    /\ missed' = (missed \/ ~recovery)
    /\ Job /\ UNCHANGED <<problem, grace, cooling>>

\* Faulty variant: a repair that outlived its entry still opens its window.
ClosedLate ==
    /\ job.stage \in {"done", "abandoned"} /\ job' = NoJob
    /\ IF JobAt("done") /\ problem # "ledger"
       THEN cooling' = (cooling \/ job.kind # "update") /\ ArmRecovery
       ELSE UNCHANGED <<cooling, recovery, deferred, extended, activity, judge, missed>>
    /\ UNCHANGED <<availability, problem, broker, grace, down, panelBounds>>

\* The shell is closed.  A panel that was changed is judged.
Closed ==
    /\ job.stage \in {"done", "abandoned"} /\ job' = NoJob
    /\ IF JobAt("done")
       THEN /\ cooling' = (cooling \/ job.kind # "update")
            /\ IF down \/ problem = "ledger"
               THEN UNCHANGED <<recovery, deferred, extended, activity, judge, missed>>
               ELSE ArmRecovery
       ELSE UNCHANGED <<cooling, recovery, deferred, extended, activity, judge, missed>>
    /\ UNCHANGED <<availability, problem, broker, grace, down, panelBounds>>

-----------------------------------------------------------------------------
(* The verdict *)

\* Nothing to judge: torn down, diagnosed or back.
Moot == down \/ problem = "ledger" \/ availability = "online"

\* _defer_recovery_verdict
Defer == grace' = FALSE /\ deferred' = TRUE

Verdict == UNCHANGED <<availability, broker, activity, job, cooling, down, missed, panelBounds>>

\* Faulty variant: the window is extended whenever there was a sign of life.
RecoveryExpiresAgain ==
    /\ recovery
    /\ IF Moot
       THEN recovery' = FALSE /\ UNCHANGED <<grace, deferred, extended, judge>>
       ELSE IF ~broker
       THEN recovery' = FALSE /\ Defer /\ UNCHANGED <<extended, judge>>
       ELSE IF activity
       THEN extended' = TRUE /\ UNCHANGED <<recovery, grace, deferred, judge>>
       ELSE recovery' = FALSE /\ judge' = "waiting" /\ UNCHANGED <<grace, deferred, extended>>
    /\ Verdict /\ UNCHANGED problem

\* _recovery_timeout up to the wait for SSH.
RecoveryExpires ==
    /\ recovery
    /\ IF Moot
       THEN recovery' = FALSE /\ UNCHANGED <<grace, deferred, extended, judge>>
       ELSE IF ~broker
       THEN recovery' = FALSE /\ Defer /\ UNCHANGED <<extended, judge>>
       ELSE IF activity /\ ~extended
       THEN extended' = TRUE /\ UNCHANGED <<recovery, grace, deferred, judge>>
       ELSE recovery' = FALSE /\ judge' = "waiting" /\ UNCHANGED <<grace, deferred, extended>>
    /\ Verdict /\ UNCHANGED problem

\* The lock is granted, and the journal is read.
JudgeReads ==
    /\ judge = "waiting" /\ ~Locked
    /\ IF Moot
       THEN judge' = "no" /\ UNCHANGED <<grace, deferred>>
       ELSE IF ~broker
       THEN judge' = "no" /\ Defer
       ELSE judge' = "reading" /\ UNCHANGED <<grace, deferred>>
    /\ Verdict /\ UNCHANGED <<problem, recovery, extended>>

\* Faulty variant: what happened while the journal was read is not looked at.
JudgeEndsBlind ==
    /\ judge = "reading" /\ judge' = "no"
    /\ grace' = FALSE /\ problem' = "lost" /\ UNCHANGED deferred
    /\ Verdict /\ UNCHANGED <<recovery, extended>>

\* The journal was read, or could not be.
JudgeEnds ==
    /\ judge = "reading" /\ judge' = "no"
    /\ IF Moot
       THEN UNCHANGED <<problem, grace, deferred>>
       ELSE IF ~broker
       THEN Defer /\ UNCHANGED problem
       ELSE grace' = FALSE /\ problem' = "lost" /\ UNCHANGED deferred
    /\ Verdict /\ UNCHANGED <<recovery, extended>>

\* _recovery_timeout dies of an error its handler does not name: a
\* PanelIdentityError of the shell, a PanelProcessError when it is closed.
JudgeDies ==
    /\ judge = "reading" /\ judge' = "no"
    /\ missed' = TRUE
    /\ UNCHANGED <<availability, problem, broker, timers, activity, job, cooling, down,
                   panelBounds>>

\* async_shutdown; what waits for SSH goes on.
Shutdown ==
    /\ ~down /\ down' = TRUE
    /\ grace' = FALSE /\ recovery' = FALSE
    /\ UNCHANGED <<availability, problem, broker, deferred, extended, activity, judge, job,
                   cooling, missed, panelBounds>>

-----------------------------------------------------------------------------
Working == Granted \/ Connected \/ Retries \/ Unreachable \/ PanelRefused \/ Inspected
           \/ Mutated \/ StepFails \/ NoOp \/ Closed
Judging == JudgeReads \/ JudgeEnds
Escapes == JobEscapes \/ JudgeDies

PanelNext ==
    \/ Online \/ Offline \/ Invalid \/ LedgerFails \/ Meta
    \/ BrokerLost \/ BrokerBack
    \/ GraceExpires \/ CooldownEnds
    \/ Order("manual") \/ Order("update")
    \/ Working \/ RecoveryExpires \/ Judging \/ Escapes \/ Shutdown

\* Timers fire, SSH sessions end one way or another, and the lock is granted in
\* turn.
PanelFairness ==
    /\ WF_panelVars(Working) /\ WF_panelVars(Judging)
    /\ WF_panelVars(GraceExpires) /\ WF_panelVars(RecoveryExpires)
PanelSpec == PanelInit /\ [][PanelNext]_panelVars /\ PanelFairness

-----------------------------------------------------------------------------
(* Properties *)

\* An offline panel never falls between the timers: while the broker link works, a
\* timer, a verdict or a repair is under way, or its problem is shown.  The
\* exceptions are history's missed: _arm_offline_grace refused during a repair or
\* an update that then ended without a window of its own, and a repair, an update
\* or a verdict that died of an error no handler names; either lasts only until
\* the next report or window.
OfflineHasPath ==
    availability = "offline" /\ broker /\ ~down /\ ~missed =>
        grace \/ recovery \/ judge # "no" \/ Repairing \/ problem # "none"

\* A panel that stays offline is brought to the operator's attention, whatever
\* outages, repairs and updates came before.
EventuallyFlagged ==
    <>[](availability = "offline" /\ broker /\ ~down /\ ~missed) => <>[](problem # "none")

\* No timer of an entry that was torn down is left or armed afterwards.
QuietAfterShutdown == down => ~grace /\ ~recovery

\* A panel is declared lost only on evidence: its last report was not online, the
\* broker link works, and no diagnosis of its ledger is overwritten, though all
\* of that may change while the journal is read.
VerdictsAreSeen ==
    [][problem' = "lost" /\ problem # "lost" =>
           broker /\ availability # "online" /\ ~down /\ problem # "ledger"]_panelVars
=============================================================================
