------------------------- MODULE HomeAssistant_proofs -------------------------
(***************************************************************************)
(* Proofs about the components of the integration in Home Assistant.       *)
(***************************************************************************)
EXTENDS PanelManager, FleetProvisioning, TLAPS

-----------------------------------------------------------------------------
(***************************************************************************)
(* Safety of PanelManager for every number of reports, outages and orders. *)
(*                                                                         *)
(* OfflineHasPath is not inductive: a job that ends must leave something   *)
(* behind.  PathInv says what: a suspended verdict exists only while the   *)
(* broker is away, and a job that only has its shell to close no longer    *)
(* counts as the panel's path.                                             *)
(***************************************************************************)

\* What remains of a path when the job is over.
PathWithoutJob == grace \/ recovery \/ judge # "no" \/ problem # "none"
Watched == availability = "offline" /\ broker /\ ~down /\ ~missed

PanelJobs == [kind : Kinds, stage : Stages, tries : 1 .. MaxTries]
PanelJobInv == job = NoJob \/ job \in PanelJobs

PathInv ==
    /\ grace \in BOOLEAN /\ missed \in BOOLEAN
    /\ deferred => ~broker
    /\ Watched => PathWithoutJob \/ (Repairing /\ job.stage # "abandoned")

\* The initial state: nothing is reported yet, nothing is deferred.
LEMMA InitPath == PanelInit => PathInv
BY DEF PanelInit, PathInv, Watched

\* The reports of the panel keep the invariant.
LEMMA ReportsKeepPath ==
    ASSUME PathInv, Online \/ Offline \/ Invalid \/ LedgerFails \/ Meta
    PROVE  PathInv'
<1> USE DEF PathInv, Watched, PathWithoutJob, Repairing, Report, timers
<1>1. CASE Online
    BY <1>1 DEF Online
<1>2. CASE Offline
    BY <1>2 DEF Offline, ArmGrace
<1>3. CASE Invalid
    BY <1>3 DEF Invalid
<1>4. CASE LedgerFails
    BY <1>4 DEF LedgerFails
<1>5. CASE Meta
    BY <1>5 DEF Meta, ArmGrace
<1> QED BY <1>1, <1>2, <1>3, <1>4, <1>5

\* Outages of the broker, expiring timers and the verdict keep the invariant.
LEMMA TimersKeepPath ==
    ASSUME PathInv,
           BrokerLost \/ BrokerBack \/ GraceExpires \/ CooldownEnds \/ RecoveryExpires
               \/ JudgeReads \/ JudgeEnds \/ JudgeDies \/ Shutdown
    PROVE  PathInv'
<1> USE DEF PathInv, Watched, PathWithoutJob, Repairing, timers, panelBounds
<1>1. CASE BrokerLost
    BY <1>1 DEF BrokerLost
<1>2. CASE BrokerBack
    <2>1. CASE deferred
        BY <1>2, <2>1 DEF BrokerBack, ArmRecovery
    <2>2. CASE ~deferred
        <3> DEFINE wants == ~down /\ availability = "offline" /\ problem # "ledger" /\ ~grace
                                /\ ~recovery
        <3>1. /\ grace' = (grace \/ (wants /\ ~Repairing))
              /\ missed' = IF wants THEN Repairing ELSE missed
              /\ UNCHANGED <<recovery, deferred, judge, availability, problem, job, down>>
            BY <1>2, <2>2 DEF BrokerBack, ArmGrace
        <3>2. grace' \in BOOLEAN /\ missed' \in BOOLEAN /\ ~deferred'
            BY <3>1, <2>2
        <3>3. CASE wants
            BY <3>1, <3>2, <3>3
        <3>4. CASE ~wants
            <4>1. Watched' => PathWithoutJob'
                BY <3>1, <3>4
            <4> QED BY <3>2, <4>1
        <3> QED BY <3>3, <3>4
    <2> QED BY <2>1, <2>2
<1>3. CASE GraceExpires
    <2>1. /\ grace' \in BOOLEAN /\ deferred' = deferred /\ broker' = broker
          /\ missed' = (missed \/ (~grace' /\ problem' = "none" /\ Repairing))
        BY <1>3 DEF GraceExpires, BeginJob
    <2>2. missed' \in BOOLEAN
        BY <2>1
    <2>3. ASSUME Watched' PROVE PathWithoutJob' \/ (Repairing' /\ job'.stage # "abandoned")
        <3>1. ~missed /\ ~(~grace' /\ problem' = "none" /\ Repairing)
            BY <2>1, <2>3
        <3> QED BY <1>3, <2>3, <3>1 DEF GraceExpires, BeginJob, NoJob
    <2> QED BY <2>1, <2>2, <2>3
<1>4. CASE CooldownEnds
    BY <1>4 DEF CooldownEnds
<1>5. CASE RecoveryExpires
    BY <1>5 DEF RecoveryExpires, Moot, Defer, Verdict
<1>6. CASE JudgeReads
    BY <1>6 DEF JudgeReads, Moot, Defer, Verdict
<1>7. CASE JudgeEnds
    BY <1>7 DEF JudgeEnds, Moot, Defer, Verdict
<1>8. CASE Shutdown
    BY <1>8 DEF Shutdown
<1>9. CASE JudgeDies
    BY <1>9 DEF JudgeDies
<1> QED BY <1>1, <1>2, <1>3, <1>4, <1>5, <1>6, <1>7, <1>8, <1>9

\* A repair or an update is a record of its kind, stage and tries.
LEMMA JobsAreTyped == PanelJobInv /\ [PanelNext]_panelVars => PanelJobInv'
<1> SUFFICES ASSUME PanelJobInv, [PanelNext]_panelVars PROVE PanelJobInv'
    OBVIOUS
<1>1. CASE UNCHANGED job
    BY <1>1 DEF PanelJobInv
<1>2. CASE GraceExpires \/ Order("manual") \/ Order("update")
    BY <1>2, PanelAssumption DEF GraceExpires, Order, BeginJob, PanelJobInv, PanelJobs, Kinds, Stages
<1>3. ASSUME job \in PanelJobs, NEW stage \in Stages, job' = [job EXCEPT !.stage = stage]
      PROVE  PanelJobInv'
    BY <1>3 DEF PanelJobInv, PanelJobs
<1>4. ASSUME NEW stage \in Stages \ {"none"}, JobAt(stage) PROVE job \in PanelJobs
    BY <1>4 DEF JobAt, PanelJobInv, NoJob
<1>5. CASE Granted
    BY <1>1, <1>3, <1>4, <1>5 DEF Granted, JobTo, PanelJobInv, Stages
<1>6. CASE Connected \/ StepFails \/ NoOp \/ Inspected \/ Mutated
    <2>1. job \in PanelJobs
        BY <1>4, <1>6 DEF Connected, StepFails, NoOp, Inspected, Mutated, Gate, Stages
    <2>2. PICK stage \in Stages : job' = [job EXCEPT !.stage = stage]
        BY <1>6 DEF Connected, StepFails, NoOp, Inspected, Mutated, Gate, JobTo, Stages
    <2> QED BY <1>3, <2>1, <2>2
<1>7. CASE Retries
    <2>1. job \in PanelJobs /\ job.tries < MaxTries
        BY <1>4, <1>7 DEF Retries, Stages
    <2>2. job.tries + 1 \in 1 .. MaxTries
        BY <2>1, PanelAssumption DEF PanelJobs
    <2>3. job' = [job EXCEPT !.stage = "queued", !.tries = @ + 1]
        BY <1>7 DEF Retries
    <2> QED BY <2>1, <2>2, <2>3 DEF PanelJobInv, PanelJobs, Stages
<1>8. CASE Unreachable \/ PanelRefused \/ Closed
    BY <1>8 DEF Unreachable, PanelRefused, Closed, PanelJobInv
<1>9. CASE Online \/ Offline \/ Invalid \/ LedgerFails \/ Meta \/ BrokerLost \/ BrokerBack
           \/ CooldownEnds \/ RecoveryExpires \/ Judging \/ JudgeDies \/ Shutdown
           \/ UNCHANGED panelVars
    <2>1. UNCHANGED job
        BY <1>9 DEF Online, Offline, Invalid, LedgerFails, Meta, Report, BrokerLost, BrokerBack,
            CooldownEnds, RecoveryExpires, Judging, JudgeReads, JudgeEnds, JudgeDies, Verdict,
            Shutdown, panelVars
    <2> QED BY <1>1, <2>1
<1>10. CASE JobEscapes
    <2>1. job \in PanelJobs
        BY <1>10 DEF JobEscapes, PanelJobInv, NoJob
    <2>2. job' = NoJob \/ job' = [job EXCEPT !.stage = "abandoned"]
        BY <1>10 DEF JobEscapes
    <2> QED BY <1>3, <2>1, <2>2 DEF PanelJobInv, Stages
<1> QED BY <1>2, <1>5, <1>6, <1>7, <1>8, <1>9, <1>10 DEF PanelNext, Working, Escapes

\* The flags, the panel's state and the bounded counters have their types.
FlagsOK ==
    /\ broker \in BOOLEAN /\ grace \in BOOLEAN /\ recovery \in BOOLEAN /\ deferred \in BOOLEAN
    /\ extended \in BOOLEAN /\ activity \in BOOLEAN /\ cooling \in BOOLEAN
    /\ down \in BOOLEAN /\ missed \in BOOLEAN
StateOK ==
    /\ availability \in Availabilities /\ problem \in Problems
    /\ judge \in {"no", "waiting", "reading"}
CountersOK ==
    /\ reports \in 0 .. MaxReports /\ outages \in 0 .. MaxOutages
    /\ orders \in 0 .. MaxOrders /\ autos \in 0 .. MaxAuto

\* _arm_offline_grace sets the timer and the history to conditions.
LEMMA GraceIsAFlag ==
    ASSUME FlagsOK, NEW a, NEW p, ArmGrace(a, p)
    PROVE  grace' \in BOOLEAN /\ missed' \in BOOLEAN
<1> DEFINE wants == ~down /\ a = "offline" /\ p # "ledger" /\ ~grace /\ ~recovery /\ ~deferred
<1>1. grace' = (grace \/ (wants /\ ~Repairing))
    BY DEF ArmGrace
<1>2. missed' = IF wants THEN Repairing ELSE missed
    BY DEF ArmGrace
<1> QED BY <1>1, <1>2 DEF FlagsOK, Repairing

\* A step sets a flag to a condition.
LEMMA FlagsAreKept == FlagsOK /\ [PanelNext]_panelVars => FlagsOK'
<1> SUFFICES ASSUME FlagsOK, [PanelNext]_panelVars PROVE FlagsOK'
    OBVIOUS
<1> DEFINE still == UNCHANGED <<deferred, extended, activity, broker, recovery, down>>
<1>1. CASE Online \/ Invalid \/ LedgerFails
    BY <1>1 DEF Online, Invalid, LedgerFails, Report, FlagsOK, timers
<1>2. CASE Offline
    <2>1. ArmGrace("offline", problem) /\ activity' = TRUE /\ UNCHANGED <<broker, cooling, down>>
        BY <1>2 DEF Offline, Report
    <2> QED BY <2>1, GraceIsAFlag DEF FlagsOK, ArmGrace
<1>3. CASE Meta
    <2>1. activity' = TRUE /\ UNCHANGED <<broker, cooling, down>>
          /\ (ArmGrace(availability, "none") \/ UNCHANGED <<timers, missed>>)
        BY <1>3 DEF Meta, Report
    <2> QED BY <2>1, GraceIsAFlag DEF FlagsOK, ArmGrace, timers
<1>4. CASE BrokerLost
    BY <1>4 DEF BrokerLost, FlagsOK, timers
<1>5. CASE BrokerBack
    <2>1. broker' = TRUE /\ UNCHANGED <<cooling, down>>
        BY <1>5 DEF BrokerBack
    <2>2. CASE deferred /\ (down \/ Repairing)
        <3>1. deferred' = FALSE /\ missed' = (missed \/ Repairing)
              /\ UNCHANGED <<grace, recovery, extended, activity>>
            BY <1>5, <2>2 DEF BrokerBack
        <3> QED BY <2>1, <3>1 DEF FlagsOK, Repairing
    <2>3. CASE deferred /\ ~(down \/ Repairing)
        BY <1>5, <2>1, <2>3 DEF BrokerBack, ArmRecovery, FlagsOK
    <2>4. CASE ~deferred
        <3>1. ArmGrace(availability, problem) /\ UNCHANGED activity
            BY <1>5, <2>4 DEF BrokerBack
        <3> QED BY <2>1, <3>1, GraceIsAFlag DEF FlagsOK, ArmGrace
    <2> QED BY <2>2, <2>3, <2>4
<1>6. CASE GraceExpires
    <2>1. still /\ UNCHANGED cooling
        BY <1>6 DEF GraceExpires
    <2>2. grace' = FALSE \/ grace' = (availability = "invalid")
        BY <1>6 DEF GraceExpires, BeginJob
    <2>3. missed' = (missed \/ (~grace' /\ problem' = "none" /\ Repairing))
        BY <1>6 DEF GraceExpires
    <2> QED BY <2>1, <2>2, <2>3 DEF FlagsOK
<1>7. CASE CooldownEnds \/ Shutdown
    BY <1>7 DEF CooldownEnds, Shutdown, FlagsOK, timers
<1>8. CASE Order("manual") \/ Order("update")
    BY <1>8 DEF Order, BeginJob, FlagsOK
<1>9. CASE Granted \/ Inspected \/ Mutated
    <2>1. still /\ UNCHANGED missed
        BY <1>9 DEF Granted, Inspected, Mutated, Gate, Job
    <2>2. Skip \/ UNCHANGED <<grace, cooling>>
        BY <1>9 DEF Granted, Inspected, Mutated, Gate
    <2>3. cooling' = cooling
        BY <2>2 DEF Skip
    <2>4. grace' = (grace \/ (availability = "invalid" /\ ~down)) \/ grace' = grace
        BY <2>2 DEF Skip
    <2> QED BY <2>1, <2>3, <2>4 DEF FlagsOK
<1>10. CASE Connected \/ Retries
    BY <1>10 DEF Connected, Retries, Job, FlagsOK
<1>11. CASE Unreachable \/ PanelRefused \/ StepFails
    <2>1. still /\ UNCHANGED missed
        BY <1>11 DEF Unreachable, PanelRefused, StepFails, Job
    <2>2. cooling' = (cooling \/ job.kind # "update")
        BY <1>11 DEF Unreachable, PanelRefused, StepFails
    <2>3. grace' = grace \/ grace' = (job.kind # "update" /\ ~down /\ availability # "invalid")
        BY <1>11 DEF Unreachable, PanelRefused, StepFails
    <2> QED BY <2>1, <2>2, <2>3 DEF FlagsOK
<1>12. CASE NoOp \/ JobEscapes
    <2>1. still /\ missed' = (missed \/ ~recovery) /\ UNCHANGED <<grace, cooling>>
        BY <1>12 DEF NoOp, JobEscapes, Job
    <2> QED BY <2>1 DEF FlagsOK
<1>13. CASE Closed
    <2>1. UNCHANGED <<broker, grace, down>>
        BY <1>13 DEF Closed
    <2>2. cooling' = cooling \/ cooling' = (cooling \/ job.kind # "update")
        BY <1>13 DEF Closed
    <2>3. ArmRecovery \/ UNCHANGED <<recovery, deferred, extended, activity, missed>>
        BY <1>13 DEF Closed
    <2> QED BY <2>1, <2>2, <2>3 DEF FlagsOK, ArmRecovery
<1>14. CASE RecoveryExpires \/ Judging
    BY <1>14 DEF RecoveryExpires, Judging, JudgeReads, JudgeEnds, Verdict, Defer, FlagsOK
<1>15. CASE JudgeDies \/ UNCHANGED panelVars
    BY <1>15 DEF JudgeDies, timers, panelVars, FlagsOK
<1> QED BY <1>1, <1>2, <1>3, <1>4, <1>5, <1>6, <1>7, <1>8, <1>9, <1>10, <1>11, <1>12, <1>13, <1>14,
           <1>15 DEF PanelNext, Working, Escapes

\* A step moves the panel's state among the values it has.
LEMMA StateIsKept == StateOK /\ [PanelNext]_panelVars => StateOK'
<1> SUFFICES ASSUME StateOK, [PanelNext]_panelVars PROVE StateOK'
    OBVIOUS
<1> USE DEF StateOK, Availabilities, Problems
<1>1. CASE Online \/ Offline \/ Invalid \/ LedgerFails \/ Meta
    BY <1>1 DEF Online, Offline, Invalid, LedgerFails, Meta, Report
<1>2. CASE BrokerLost \/ BrokerBack
    BY <1>2 DEF BrokerLost, BrokerBack, ArmRecovery
<1>3. CASE GraceExpires \/ CooldownEnds \/ Shutdown
    BY <1>3 DEF GraceExpires, CooldownEnds, Shutdown
<1>4. CASE Order("manual") \/ Order("update")
    BY <1>4 DEF Order
<1>5. CASE Granted \/ Inspected \/ Mutated
    BY <1>5 DEF Granted, Inspected, Mutated, Gate, Skip, Job
<1>6. CASE Connected \/ Retries \/ Unreachable \/ PanelRefused \/ StepFails \/ NoOp \/ JobEscapes
    BY <1>6 DEF Connected, Retries, Unreachable, PanelRefused, StepFails, NoOp, JobEscapes, Job
<1>7. CASE Closed
    BY <1>7 DEF Closed, ArmRecovery
<1>8. CASE RecoveryExpires \/ Judging \/ JudgeDies
    BY <1>8 DEF RecoveryExpires, Judging, JudgeReads, JudgeEnds, JudgeDies, Verdict
<1>9. CASE UNCHANGED panelVars
    BY <1>9 DEF panelVars
<1> QED BY <1>1, <1>2, <1>3, <1>4, <1>5, <1>6, <1>7, <1>8, <1>9 DEF PanelNext, Working, Escapes

\* A counter grows below its bound.
LEMMA CountersAreKept == CountersOK /\ [PanelNext]_panelVars => CountersOK'
<1> SUFFICES ASSUME CountersOK, [PanelNext]_panelVars PROVE CountersOK'
    OBVIOUS
<1> USE PanelAssumption DEF CountersOK
<1>1. CASE Online \/ Offline \/ Invalid \/ LedgerFails \/ Meta
    <2>1. reports < MaxReports /\ reports' = reports + 1 /\ UNCHANGED <<outages, orders, autos>>
        BY <1>1 DEF Online, Offline, Invalid, LedgerFails, Meta, Report
    <2> QED BY <2>1
<1>2. CASE BrokerLost
    BY <1>2 DEF BrokerLost
<1>3. CASE CooldownEnds
    BY <1>3 DEF CooldownEnds
<1>4. CASE Order("manual") \/ Order("update")
    BY <1>4 DEF Order
<1>5. CASE BrokerBack \/ GraceExpires \/ Shutdown \/ Working \/ RecoveryExpires \/ Judging
           \/ Escapes \/ UNCHANGED panelVars
    <2>1. UNCHANGED panelBounds
        BY <1>5 DEF BrokerBack, GraceExpires, Shutdown, Working, RecoveryExpires, Judging, Granted,
           Connected, Retries, Unreachable, PanelRefused, Inspected, Mutated, Gate, StepFails, NoOp,
           Closed, Job, JudgeReads, JudgeEnds, Verdict, Escapes, JobEscapes, JudgeDies,
           panelBounds, panelVars
    <2> QED BY <2>1 DEF panelBounds
<1> QED BY <1>1, <1>2, <1>3, <1>4, <1>5 DEF PanelNext

\* Orders and the steps of a repair or an update keep the invariant.
LEMMA JobsKeepPath ==
    ASSUME PathInv, PanelJobInv, PanelJobInv',
           Order("manual") \/ Order("update") \/ Working \/ JobEscapes
    PROVE  PathInv'
<1> USE DEF PathInv, Watched, PathWithoutJob, Repairing, JobAt, JobTo, Job, panelBounds
<1>1. CASE Order("manual") \/ Order("update")
    <2>1. /\ job'.stage = "queued" /\ grace' = FALSE
          /\ UNCHANGED <<availability, broker, deferred, recovery, judge, down, missed, problem>>
        BY <1>1 DEF Order, BeginJob
    <2>2. job' # NoJob /\ job'.stage # "abandoned"
        BY <2>1 DEF NoJob
    <2> QED BY <2>1, <2>2
<1>2. CASE Granted
    <2>1. UNCHANGED <<availability, broker, deferred, recovery, judge, down, missed>>
        BY <1>2 DEF Granted
    <2>2. CASE Stale
        BY <1>2, <2>1, <2>2 DEF Granted, Stale, Warranted, Skip, NoJob
    <2>3. CASE ~Stale /\ down
        BY <1>2, <2>1, <2>3 DEF Granted, NoJob, Stages, PanelJobInv, PanelJobs
    <2>4. CASE ~Stale /\ ~down
        BY <1>2, <2>1, <2>4 DEF Granted, NoJob, Stages, PanelJobInv, PanelJobs
    <2> QED BY <2>2, <2>3, <2>4
<1>3. CASE Connected \/ Retries
    <2>1. job \in PanelJobs
        BY <1>3 DEF Connected, Retries, NoJob, PanelJobInv
    <2>2. job'.stage \in {"mutating", "connected", "queued"}
        BY <1>3, <2>1 DEF Connected, Retries, PanelJobs
    <2>3. job' # NoJob /\ job'.stage # "abandoned"
        BY <2>2 DEF NoJob
    <2>4. UNCHANGED <<availability, broker, deferred, recovery, judge, down, missed, grace, problem>>
        BY <1>3 DEF Connected, Retries
    <2> QED BY <2>4, <2>3
<1>4. CASE Unreachable
    BY <1>4 DEF Unreachable
<1>5. CASE PanelRefused
    BY <1>5 DEF PanelRefused
<1>6. ASSUME NEW from \in {"connected", "mutating"}, NEW to \in {"mutating", "done"},
             Gate(from, to)
      PROVE  PathInv'
    <2>1. /\ job \in PanelJobs
          /\ UNCHANGED <<availability, broker, deferred, recovery, judge, down, missed>>
        BY <1>6 DEF Gate, NoJob, PanelJobInv
    <2>2. CASE Stale
        <3>1. ~Watched' /\ grace' \in BOOLEAN
            BY <1>6, <2>1, <2>2 DEF Gate, Stale, Warranted, Skip
        <3> QED BY <2>1, <3>1
    <2>3. CASE ~Stale
        <3>1. job'.stage = to
            BY <1>6, <2>1, <2>3 DEF Gate, PanelJobs
        <3>2. job' # NoJob /\ job'.stage # "abandoned"
            BY <1>6, <3>1 DEF NoJob
        <3>3. UNCHANGED <<grace, problem>>
            BY <1>6, <2>3 DEF Gate
        <3> QED BY <2>1, <3>2, <3>3
    <2> QED BY <2>2, <2>3
<1>7. CASE StepFails
    <2>1. /\ UNCHANGED <<availability, broker, deferred, recovery, judge, down, missed, grace>>
          /\ problem' = "failed"
        BY <1>7 DEF StepFails
    <2> QED BY <2>1
<1>8. CASE NoOp \/ JobEscapes
    <2>1. UNCHANGED <<availability, broker, deferred, recovery, judge, down, grace, problem>>
        BY <1>8 DEF NoOp, JobEscapes
    <2>2. missed' = (missed \/ ~recovery)
        BY <1>8 DEF NoOp, JobEscapes
    <2>3. missed' \in BOOLEAN
        BY <2>2
    <2>4. ~missed' => recovery'
        BY <2>1, <2>2
    <2> QED BY <2>1, <2>3, <2>4
<1>9. CASE Closed
    BY <1>9 DEF Closed, ArmRecovery, NoJob
<1> QED
    BY <1>1, <1>2, <1>3, <1>4, <1>5, <1>6, <1>7, <1>8, <1>9 DEF Working, Inspected, Mutated

\* Every step keeps the invariant.
LEMMA NextKeepsPath == PathInv /\ PanelJobInv /\ [PanelNext]_panelVars => PathInv' /\ PanelJobInv'
<1> SUFFICES ASSUME PathInv, PanelJobInv, [PanelNext]_panelVars PROVE PathInv' /\ PanelJobInv'
    OBVIOUS
<1>1. PanelJobInv'
    BY JobsAreTyped
<1>2. CASE UNCHANGED panelVars
    BY <1>1, <1>2 DEF panelVars, PathInv, Watched, PathWithoutJob, Repairing
<1>3. CASE PanelNext
    BY <1>1, <1>3, ReportsKeepPath, TimersKeepPath, JobsKeepPath
       DEF PanelNext, Judging, Escapes
<1> QED BY <1>2, <1>3

\* The panel manager keeps its types; in particular an update connects MaxTries times at
\* the most (_CONNECT_RETRY_MAX_ATTEMPTS).
THEOREM PanelTypesHold == PanelSpec => []PanelTypeOK
<1> DEFINE Types == FlagsOK /\ StateOK /\ CountersOK /\ PanelJobInv
<1>1. PanelInit => Types
    <2>1. PanelInit => CountersOK
        BY PanelAssumption DEF PanelInit, CountersOK
    <2>2. PanelInit => FlagsOK /\ PanelJobInv
        BY DEF PanelInit, FlagsOK, PanelJobInv
    <2>3. PanelInit => StateOK
        BY DEF PanelInit, StateOK, Availabilities, Problems
    <2> QED BY <2>1, <2>2, <2>3
<1>2. Types /\ [PanelNext]_panelVars => Types'
    BY FlagsAreKept, StateIsKept, CountersAreKept, JobsAreTyped
<1>3. Types => PanelTypeOK
    BY DEF FlagsOK, StateOK, CountersOK, PanelJobInv, PanelJobs, PanelTypeOK
<1> QED BY <1>1, <1>2, <1>3, PTL DEF PanelSpec

\* An offline panel keeps a path to recovery (_arm_offline_grace,
\* async_broker_reconnected, the ends of repairs, updates and verdicts).
THEOREM OfflineKeepsAPath == PanelSpec => []OfflineHasPath
<1>1. PathInv => OfflineHasPath
    BY DEF PathInv, OfflineHasPath, Watched, PathWithoutJob
<1>2. PanelInit => PanelJobInv
    BY DEF PanelInit, PanelJobInv
<1> QED BY InitPath, NextKeepsPath, <1>1, <1>2, PTL DEF PanelSpec

\* No timer of an entry is armed after its teardown (async_shutdown, and the
\* checks before every call of async_call_later).
THEOREM NoTimerOutlivesItsEntry == PanelSpec => []QuietAfterShutdown
<1>1. PanelInit => QuietAfterShutdown
    BY DEF PanelInit, QuietAfterShutdown
<1>2. QuietAfterShutdown /\ [PanelNext]_panelVars => QuietAfterShutdown'
    <2> SUFFICES ASSUME QuietAfterShutdown, [PanelNext]_panelVars PROVE QuietAfterShutdown'
        OBVIOUS
    <2> USE DEF QuietAfterShutdown, timers, panelBounds
    <2>1. CASE Online \/ Offline \/ Invalid \/ LedgerFails \/ Meta
        BY <2>1 DEF Online, Offline, Invalid, LedgerFails, Meta, Report, ArmGrace
    <2>2. CASE BrokerLost \/ BrokerBack
        BY <2>2 DEF BrokerLost, BrokerBack, ArmGrace, ArmRecovery
    <2>3. CASE GraceExpires \/ CooldownEnds \/ Order("manual") \/ Order("update")
        BY <2>3 DEF GraceExpires, CooldownEnds, Order, BeginJob
    <2>4. CASE RecoveryExpires \/ Judging \/ Shutdown
        BY <2>4 DEF RecoveryExpires, Judging, JudgeReads, JudgeEnds, Shutdown, Moot, Defer, Verdict
    <2>5. CASE Granted \/ Inspected \/ Mutated
        BY <2>5 DEF Granted, Inspected, Mutated, Gate, Skip, Job
    <2>6. CASE Connected \/ Retries \/ Unreachable \/ PanelRefused \/ StepFails \/ NoOp
        BY <2>6 DEF Connected, Retries, Unreachable, PanelRefused, StepFails, NoOp, Job
    <2>7. CASE Closed
        BY <2>7 DEF Closed, ArmRecovery
    <2>8. CASE UNCHANGED panelVars
        BY <2>8 DEF panelVars
    <2>9. CASE Escapes
        BY <2>9 DEF Escapes, JobEscapes, JudgeDies, Job
    <2> QED BY <2>1, <2>2, <2>3, <2>4, <2>5, <2>6, <2>7, <2>8, <2>9 DEF PanelNext, Working
<1> QED BY <1>1, <1>2, PTL DEF PanelSpec

\* A panel is declared lost on current evidence only (_grace_expired and the end
\* of _recovery_timeout).
THEOREM LostIsJudgedOnEvidence == PanelSpec => VerdictsAreSeen
<1> DEFINE Seen == problem' = "lost" /\ problem # "lost" =>
                       broker /\ availability # "online" /\ ~down /\ problem # "ledger"
<1>1. [PanelNext]_panelVars => [Seen]_panelVars
    <2> SUFFICES ASSUME PanelNext PROVE Seen
        BY DEF panelVars
    <2> USE DEF timers, panelBounds
    <2>1. CASE Online \/ Offline \/ Invalid \/ LedgerFails \/ Meta
        BY <2>1 DEF Online, Offline, Invalid, LedgerFails, Meta, Report
    <2>2. CASE BrokerLost \/ BrokerBack \/ CooldownEnds \/ Order("manual") \/ Order("update")
        BY <2>2 DEF BrokerLost, BrokerBack, CooldownEnds, Order
    <2>3. CASE GraceExpires
        BY <2>3 DEF GraceExpires
    <2>4. CASE RecoveryExpires \/ JudgeReads \/ Shutdown
        BY <2>4 DEF RecoveryExpires, JudgeReads, Shutdown
    <2>5. CASE JudgeEnds
        BY <2>5 DEF JudgeEnds, Moot
    <2>6. CASE Working \/ Escapes
        BY <2>6 DEF Working, Escapes, JobEscapes, JudgeDies, Granted, Connected, Retries, Unreachable,
                    PanelRefused, Inspected, Mutated, Gate, Skip, StepFails, NoOp, Closed, Job
    <2> QED BY <2>1, <2>2, <2>3, <2>4, <2>5, <2>6 DEF PanelNext, Judging
<1> QED BY <1>1, PTL DEF PanelSpec, VerdictsAreSeen

-----------------------------------------------------------------------------
(***************************************************************************)
(* Proofs about durable provisioning, for every number of transactions,    *)
(* failures and ends of Home Assistant: the stores and the panel keep      *)
(* their types, a journalled transaction can be undone, a panel with a new *)
(* release has an owner, and what is recorded as restored is what it runs. *)
(*                                                                         *)
(* The three properties are about the stores, the panel and the entry; the *)
(* invariant has to say as well what every step of a job finds, for the    *)
(* handoff, the flow and FleetManager write the same stores while a job is *)
(* between two steps, and a failure sends it to another step.  RecordInv   *)
(* is what the stores say of the panel and of the entry, EntryInv what the *)
(* handoff knows of memory and disk, JobInv who may be at which step, and  *)
(* StepInv what that step relies on.                                       *)
(***************************************************************************)

\* The two stores, by themselves and against the panel.
StoresInv ==
    /\ journal.id = 0 => journal = NoJournal
    /\ journal.id # 0 => journal.operation \in Operations /\ journal.phase \in Phases
    /\ retained.id = 0 => retained = NoRetained
    /\ retained.id # 0 => retained.state \in States
    /\ retained.id # 0 /\ retained.state # "finalizing" => retained.id \in archives
    /\ live = Mixed => journal.phase \in {"activation_pending", "rollback_pending"}
    /\ journal.phase = "staged" => live = retained.base

\* The entry: what is on disk came from memory, and a handoff goes with its record.
EntryInv ==
    /\ saved # "none" => entry # "none"
    /\ saved = "owned" => entry = "owned"
    /\ flow # "none" => entry = "none"
    /\ hand # "none" => prepared /\ entry # "none"
    /\ hand \in {"unmarked", "persisted", "soaked", "committed"} => entry = "owned"
    /\ hand \in {"persisted", "soaked", "committed"} => saved = "owned"
    /\ hand \in {"soaked", "committed"} => retained.state = "soak"
    /\ hand = "soaked" => journal.phase = "pending_config_commit"
    /\ hand = "committed" => journal.phase = "committed"

\* What the stores say of the entry.
OwnerInv ==
    /\ journal.operation = "update" \/ journal.phase = "committed" => saved = "owned"
    /\ retained.state = "soak" => saved = "owned"
    /\ retained.base \in Ids => saved # "none"
    /\ (flow = "ready" \/ "marked" \in {entry, saved}) /\ retained.state = "armed"
          => journal.phase = "pending_config_commit"

\* Which jobs are at which steps, and what a job says of the entry.
JobInv ==
    /\ work.job = "none" => work.step = "none"
    /\ work.job = "install" => entry = "none" /\ flow \in {"none", "open", "marked"}
    /\ work.job = "update" => saved = "owned"
    /\ work.step \in {"mark_flow", "report", "compensate", "retreat"} => work.job = "install"
    /\ work.step \in {"capture", "arm", "create", "mark_flow", "stage", "to_ap", "activate",
                      "switch", "health", "to_a"}
          => work.job \in {"install", "update"} /\ work.id \in Ids

\* What the step a job is at finds: whoever runs beside the job leaves it that way.
StepInv ==
    /\ work.step \in {"capture", "arm"} => Armable
    /\ work.step = "arm" => work.id \in archives
    /\ work.step = "create" =>
          journal.id = 0 /\ retained.id = work.id /\ retained.state = "armed" /\ live = retained.base
    /\ work.step \in {"mark_flow", "stage", "to_ap"} =>
          journal.id = work.id /\ retained.state = "armed" /\ journal.phase = "staged"
    /\ work.step \in {"activate", "switch"} =>
          journal.id = work.id /\ retained.state = "armed" /\ journal.phase = "activation_pending"
    /\ work.step \in {"health", "to_a"} => live # Mixed
    /\ work.step \in {"soak", "commit"} => saved = "owned"
    /\ work.step = "commit" => retained.state = "soak"
    /\ work.step = "remove" =>
          /\ retained.state # "restore_requested"
          /\ journal.phase \in {"none", "committed", "rolled_back"}
          /\ journal.phase = "rolled_back" => live = retained.base
    /\ work.step \in {"restore", "reswitch"} =>
          journal.phase = "rollback_pending" /\ retained.state = "restore_requested"
    /\ work.step \in {"verify", "restored", "prune", "rolled_back", "clear"} => live = retained.base
    /\ work.step \in {"rolled_back", "clear"} => retained.state = "restored"
    /\ work.step = "prune" /\ retained.base # Absent => retained.state = "restored"
    /\ work.step = "triage" /\ journal.phase = "committed" => retained.state # "restore_requested"
    /\ work.step = "intend" => journal.id = 0 \/ retained.state = "restore_requested"
    /\ work.step = "purge" => retained.state = "finalizing"

\* The stores against the panel and the entry; the three properties are a part of it.
RecordInv == StoresInv /\ OwnerInv /\ CanBeUndone /\ OwnedOrUndone /\ RestoredIsRestored

\* The inductive invariant.
IInv == TypeOK /\ EntryInv /\ RecordInv /\ JobInv /\ StepInv

-----------------------------------------------------------------------------
(* Where a step of the job leads.                                           *)

WorkType == [job : Jobs, step : Steps, id : {0} \cup Ids,
             known : Phases \cup {"none"}, cut : BOOLEAN]

\* The job is over.
Ended == work'.step = "none" /\ work'.job = "none"

\* The job goes on with step s, or is over at "end".
Advances(s) ==
    /\ work' \in WorkType
    /\ s = "end" => Ended
    /\ s # "end" => work'.step = s /\ work'.job = work.job /\ work'.id = work.id

\* The job is over, or at a step that handles its failure.
Fails ==
    /\ work' \in WorkType
    /\ \/ Ended
       \/ /\ work'.step \in {"failed", "compensate", "undo", "request"}
          /\ work'.job = work.job
          /\ work'.step = "compensate" => work.job = "install"

\* The numbers of releases are different from one another.
LEMMA ReleaseFacts ==
    /\ Absent \notin Ids /\ Mixed \notin Releases /\ Mixed \notin Ids /\ Mixed # Absent
    /\ 0 \notin Ids /\ Ids \subseteq Releases /\ Absent \in Releases /\ Incumbent \in Releases
    /\ 1 \in 1 .. MaxTransactions + 1
    /\ \A i \in Ids : i + 1 \in 1 .. MaxTransactions + 1
BY ProvisioningAssumption DEF Absent, Ids, Mixed, Releases, Incumbent

\* Goto leads to the step it names, "end" to the end of the job.
LEMMA GotoAdvances ==
    ASSUME work \in WorkType, NEW s \in Steps \cup {"end"}, Goto(s)
    PROVE  Advances(s)
<1>1. CASE s = "end"
  <2>1. work' = Idle
    BY <1>1 DEF Goto
  <2>2. Idle \in WorkType
    BY DEF Idle, WorkType, Jobs, Steps
  <2> QED BY <1>1, <2>1, <2>2 DEF Advances, Ended, Idle
<1>2. CASE s # "end"
  <2>1. work' = [work EXCEPT !.step = s]
    BY <1>2 DEF Goto
  <2> QED BY <1>2, <2>1 DEF Advances, WorkType
<1> QED BY <1>1, <1>2

\* The steps an error leads to.
LEMMA ErrorFails ==
    ASSUME work \in WorkType, NEW s \in ErrorSteps, Goto(s)
    PROVE  Fails
<1>1. s \in {"end", "failed", "compensate", "undo", "request"}
  BY DEF ErrorSteps
<1>3. s \in Steps \cup {"end"}
  BY <1>1 DEF Steps
<1>2. s = "compensate" => work.job = "install"
  BY DEF ErrorSteps
<1>4. Advances(s)
  BY <1>3, GotoAdvances
<1>5. CASE s = "end"
  BY <1>4, <1>5 DEF Advances, Fails
<1>6. CASE s # "end"
  BY <1>1, <1>2, <1>4, <1>6 DEF Advances, Fails
<1> QED BY <1>5, <1>6

\* What no step of a job but the ones named changes.
Aside == UNCHANGED <<entry, saved, hand, prepared, nextId, crashes>>
FaultsOK == faults' \in 0 .. MaxFaults

\* A step that may go wrong counts its fault.
LEMMA HoldsOrBreaks ==
    ASSUME TypeOK
    PROVE  /\ Holds => FaultsOK
           /\ Breaks => FaultsOK /\ Fails
           /\ Refused => FaultsOK /\ Fails
<1>1. work \in WorkType /\ faults \in 0 .. MaxFaults
  BY DEF TypeOK, WorkType
<1>2. Holds => FaultsOK
  BY <1>1 DEF Holds, FaultsOK
<1>3. ASSUME Breaks PROVE FaultsOK /\ Fails
  <2>1. FaultsOK
    BY <1>1, <1>3, ProvisioningAssumption DEF Breaks, FaultsOK
  <2>2. PICK s \in ErrorSteps : Goto(s)
    BY <1>3 DEF Breaks
  <2> QED BY <1>1, <2>1, <2>2, ErrorFails
<1>4. ASSUME Refused PROVE FaultsOK /\ Fails
  <2>1. FaultsOK
    BY <1>1, <1>4 DEF Refused, FaultsOK
  <2>2. PICK s \in ErrorSteps : Goto(s)
    BY <1>4 DEF Refused
  <2> QED BY <1>1, <2>1, <2>2, ErrorFails
<1> QED BY <1>2, <1>3, <1>4

\* A write of the journal: done and the job goes on, or the job fails with or without it.
LEMMA SaveJournalEffect ==
    ASSUME TypeOK, NEW allowed \in BOOLEAN, NEW record, NEW next \in Steps \cup {"end"},
           SaveJournal(allowed, record, next)
    PROVE  /\ StoresFree /\ FaultsOK /\ Aside
           /\ UNCHANGED <<retained, live, archives, flow, wanted>>
           /\ \/ allowed /\ journal' = record /\ (Advances(next) \/ Fails)
              \/ UNCHANGED journal /\ Fails
<1>1. work \in WorkType
  BY DEF TypeOK, WorkType
<1>2. StoresFree /\ Aside /\ UNCHANGED <<retained, live, archives, flow, wanted>>
  BY DEF SaveJournal, panel, owner, bounds, Aside
<1>3. CASE allowed /\ Holds /\ journal' = record /\ Goto(next)
  BY <1>1, <1>2, <1>3, HoldsOrBreaks, GotoAdvances
<1>4. CASE allowed /\ Breaks /\ journal' \in {journal, record}
  BY <1>2, <1>4, HoldsOrBreaks
<1>5. CASE ~allowed /\ Refused /\ UNCHANGED journal
  BY <1>2, <1>5, HoldsOrBreaks
<1> QED BY <1>3, <1>4, <1>5 DEF SaveJournal

\* A write of the retained baseline, likewise.
LEMMA SaveRetainedEffect ==
    ASSUME TypeOK, NEW allowed \in BOOLEAN, NEW record, NEW next \in Steps \cup {"end"},
           SaveRetained(allowed, record, next)
    PROVE  /\ StoresFree /\ FaultsOK /\ Aside
           /\ UNCHANGED <<journal, live, archives, flow, wanted>>
           /\ \/ allowed /\ retained' = record /\ (Advances(next) \/ Fails)
              \/ UNCHANGED retained /\ Fails
<1>1. work \in WorkType
  BY DEF TypeOK, WorkType
<1>2. StoresFree /\ Aside /\ UNCHANGED <<journal, live, archives, flow, wanted>>
  BY DEF SaveRetained, panel, owner, bounds, Aside
<1>3. CASE allowed /\ Holds /\ retained' = record /\ Goto(next)
  BY <1>1, <1>2, <1>3, HoldsOrBreaks, GotoAdvances
<1>4. CASE allowed /\ Breaks /\ retained' \in {retained, record}
  BY <1>2, <1>4, HoldsOrBreaks
<1>5. CASE ~allowed /\ Refused /\ UNCHANGED retained
  BY <1>2, <1>5, HoldsOrBreaks
<1> QED BY <1>3, <1>4, <1>5 DEF SaveRetained

\* A step on the panel, likewise.
LEMMA OnPanelEffect ==
    ASSUME TypeOK, NEW allowed \in BOOLEAN, NEW runs, NEW stored, NEW next \in Steps \cup {"end"},
           OnPanel(allowed, runs, stored, next)
    PROVE  /\ FaultsOK /\ Aside
           /\ UNCHANGED <<journal, retained, flow, wanted>>
           /\ \/ allowed /\ live' = runs /\ archives' = stored /\ (Advances(next) \/ Fails)
              \/ UNCHANGED <<live, archives>> /\ Fails
<1>1. work \in WorkType
  BY DEF TypeOK, WorkType
<1>2. Aside /\ UNCHANGED <<journal, retained, flow, wanted>>
  BY DEF OnPanel, stores, owner, bounds, Aside
<1>3. CASE allowed /\ Holds /\ live' = runs /\ archives' = stored /\ Goto(next)
  BY <1>1, <1>2, <1>3, HoldsOrBreaks, GotoAdvances
<1>4. CASE /\ allowed /\ Breaks
           /\ \E p \in {panel, <<runs, stored>>} : live' = p[1] /\ archives' = p[2]
  <2>1. \/ live' = runs /\ archives' = stored
        \/ UNCHANGED <<live, archives>>
    BY <1>4 DEF panel
  <2> QED BY <1>2, <1>4, <2>1, HoldsOrBreaks
<1>5. CASE ~allowed /\ Refused /\ UNCHANGED panel
  BY <1>2, <1>5, HoldsOrBreaks DEF panel
<1> QED BY <1>3, <1>4, <1>5 DEF OnPanel

\* A step that changes nothing durable, and a branch.
LEMMA PassesEffect ==
    ASSUME TypeOK, NEW next \in Steps \cup {"end"}, Passes(next) \/ Turns(next)
    PROVE  /\ FaultsOK /\ Aside
           /\ UNCHANGED <<journal, retained, live, archives, flow, wanted>>
           /\ Advances(next) \/ Fails
<1>1. work \in WorkType
  BY DEF TypeOK, WorkType
<1>2. CASE Turns(next)
  <2>1. FaultsOK /\ Aside /\ UNCHANGED <<journal, retained, live, archives, flow, wanted>>
    BY <1>2 DEF Turns, stores, panel, owner, bounds, Aside, FaultsOK, TypeOK
  <2>2. Advances(next)
    BY <1>1, <1>2, GotoAdvances DEF Turns
  <2> QED BY <2>1, <2>2
<1>3. CASE Passes(next)
  <2>1. Aside /\ UNCHANGED <<journal, retained, live, archives, flow, wanted>>
    BY <1>3 DEF Passes, stores, panel, owner, bounds, Aside
  <2>2. CASE Holds /\ Goto(next)
    BY <1>1, <2>1, <2>2, HoldsOrBreaks, GotoAdvances
  <2>3. CASE Breaks
    BY <2>1, <2>3, HoldsOrBreaks
  <2> QED BY <1>3, <2>2, <2>3 DEF Passes
<1> QED BY <1>2, <1>3

\* A transition of the journal: the phase moves along an approved edge.
LEMMA TransitionEffect ==
    ASSUME TypeOK, NEW s, NEW phase \in Phases, NEW next \in Steps \cup {"end"},
           Transition(s, phase, next)
    PROVE  /\ work.step = s /\ StoresFree /\ FaultsOK /\ Aside
           /\ UNCHANGED <<retained, live, archives, flow, wanted>>
           /\ \/ MayMove(phase) /\ journal' = Moved(phase) /\ (Advances(next) \/ Fails)
              \/ UNCHANGED journal /\ Fails
<1>1. work \in WorkType
  BY DEF TypeOK, WorkType
<1>2. /\ work.step = s /\ StoresFree /\ Aside
      /\ UNCHANGED <<retained, live, archives, flow, wanted>>
  BY DEF Transition, panel, owner, bounds, Aside, At
<1>3. CASE /\ MayMove(phase) /\ Holds /\ journal' = Moved(phase)
           /\ work' = IF next = "end" THEN Idle
                      ELSE [work EXCEPT !.step = next, !.known = phase]
  <2>1. CASE next = "end"
    <3>1. Goto(next)
      BY <1>3, <2>1 DEF Goto
    <3> QED BY <1>1, <1>2, <1>3, <3>1, HoldsOrBreaks, GotoAdvances
  <2>2. CASE next # "end"
    <3>1. work' = [work EXCEPT !.step = next, !.known = phase]
      BY <1>3, <2>2
    <3>2. Advances(next)
      BY <1>1, <2>2, <3>1 DEF Advances, WorkType
    <3> QED BY <1>2, <1>3, <3>2, HoldsOrBreaks
  <2> QED BY <2>1, <2>2
<1>4. CASE MayMove(phase) /\ Breaks /\ journal' \in {journal, Moved(phase)}
  BY <1>2, <1>4, HoldsOrBreaks
<1>5. CASE ~MayMove(phase) /\ Refused /\ UNCHANGED journal
  BY <1>2, <1>5, HoldsOrBreaks
<1> QED BY <1>3, <1>4, <1>5 DEF Transition

-----------------------------------------------------------------------------
(* What a change of the stores or of the panel keeps.                       *)

JournalType == [id : {0} \cup Ids, operation : Operations \cup {"none"},
                phase : Phases \cup {"none"}]
RetainedType == [id : {0} \cup Ids, operation : Operations \cup {"none"},
                 state : States \cup {"none"}, base : Releases,
                 proven : BOOLEAN, ownerless : BOOLEAN]

Owner == <<flow, entry, saved>>

\* The journal is removed: the panel runs what it ran before or has an owner.
LEMMA JournalRemoved ==
    ASSUME TypeOK, RecordInv, journal' = NoJournal, UNCHANGED <<retained, panel, Owner>>,
           live # Mixed, saved = "none" => live \notin Ids,
           flow = "ready" \/ "marked" \in {entry, saved} => retained.state \notin {"armed", "soak"}
    PROVE  RecordInv'
<1>1. journal'.id = 0 /\ journal'.operation = "none" /\ journal'.phase = "none"
  BY DEF NoJournal
<1> QED
  BY <1>1 DEF RecordInv, StoresInv, OwnerInv, CanBeUndone, OwnedOrUndone, RestoredIsRestored,
              panel, Owner

\* A requested restoration is journalled.
LEMMA RestorationJournalled ==
    ASSUME TypeOK, RecordInv, Restorable, journal' = RestoreRecord,
           UNCHANGED <<retained, panel, Owner>>
    PROVE  RecordInv' /\ journal' \in JournalType
<1>1. /\ journal'.id = retained.id /\ journal'.phase = "rollback_pending"
      /\ journal'.operation \in {"onboarding_rollback", "rollback"}
  BY DEF RestoreRecord
<1>2. retained.id # 0 /\ retained.state = "restore_requested" /\ retained.id \in Ids
  BY DEF Restorable, RecordInv, StoresInv, NoRetained, TypeOK
<1>3. journal' \in JournalType
  BY <1>2 DEF RestoreRecord, JournalType, Operations, Phases
<1>4. StoresInv' /\ CanBeUndone'
  BY <1>1, <1>2 DEF RecordInv, StoresInv, CanBeUndone, Operations, Phases, panel
<1> QED
  BY <1>1, <1>2, <1>3, <1>4 DEF RecordInv, OwnerInv, OwnedOrUndone, RestoredIsRestored, panel, Owner

\* The journalled transaction goes to another phase.
LEMMA PhaseMoved ==
    ASSUME TypeOK, RecordInv, NEW phase \in Phases \ {"staged"}, journal.id # 0,
           journal' = Moved(phase), UNCHANGED <<retained, panel, Owner>>,
           live = Mixed => phase \in {"activation_pending", "rollback_pending"},
           phase = "committed" => saved = "owned",
           (flow = "ready" \/ "marked" \in {entry, saved}) /\ retained.state = "armed"
              => phase = "pending_config_commit"
    PROVE  RecordInv' /\ journal' \in JournalType
<1>1. /\ journal'.id = journal.id /\ journal'.operation = journal.operation
      /\ journal'.phase = phase /\ journal' \in JournalType
  BY DEF Moved, TypeOK, JournalType
<1> QED
  BY <1>1 DEF RecordInv, StoresInv, OwnerInv, CanBeUndone, OwnedOrUndone, RestoredIsRestored,
              panel, Owner

\* The retained baseline goes to another state.
LEMMA StateSet ==
    ASSUME TypeOK, RecordInv, retained.id # 0, retained' \in RetainedType,
           retained'.id = retained.id, retained'.base = retained.base,
           UNCHANGED <<journal, panel, Owner>>,
           retained'.state \in States \ {"armed"},
           retained.state = "finalizing" => retained'.state = "finalizing",
           retained'.state = "finalizing" => journal.id = 0,
           retained'.state = "soak" => saved = "owned" /\ entry = "owned",
           retained'.state = "restored" =>
              live = retained.base /\ (retained.base = Absent \/ retained'.proven)
    PROVE  RecordInv'
BY DEF RecordInv, StoresInv, OwnerInv, CanBeUndone, OwnedOrUndone, RestoredIsRestored,
       panel, Owner

\* The states a record can be set to are those of Allowed.
LEMMA SettableFacts ==
    ASSUME TypeOK, RecordInv, NEW t, NEW state \in States, Settable(t, state)
    PROVE  /\ retained.id # 0 /\ retained.id = t
           /\ retained.state = "finalizing" => state = "finalizing"
           /\ state = "finalizing" => retained.state # "restore_requested"
           /\ state = "armed" => retained.state = "armed"
<1>1. retained.id # 0
  BY DEF Settable, RecordInv, StoresInv, NoRetained, Allowed, States
<1> QED
  BY <1>1 DEF Settable, Allowed, States, TypeOK

\* Setting a state changes nothing else in the record.
LEMMA RetainsFacts ==
    ASSUME TypeOK, NEW state \in States
    PROVE  /\ Retains(state) \in RetainedType
           /\ Retains(state).id = retained.id /\ Retains(state).base = retained.base
           /\ Retains(state).state = state
BY DEF TypeOK, Retains, RetainedType

\* The types of the variables that the steps of a job change.
LEMMA TypesKept ==
    ASSUME TypeOK, Aside, FaultsOK, journal' \in JournalType, retained' \in RetainedType,
           live' \in Releases \cup {Mixed}, archives' \subseteq Ids, flow' \in Flows,
           wanted' \in BOOLEAN, work' \in WorkType
    PROVE  TypeOK'
BY DEF TypeOK, Aside, FaultsOK, JournalType, RetainedType, WorkType

\* While the stores are free, what they hold does not matter to a handoff.
LEMMA EntryKept ==
    ASSUME EntryInv, UNCHANGED <<Owner, hand, prepared>>,
           StoresFree \/ UNCHANGED <<journal, retained>>
    PROVE  EntryInv'
BY DEF EntryInv, Owner, StoresFree

\* A job that failed or ended owes nothing.
LEMMA WorkGivenUp ==
    ASSUME JobInv, work.step # "none", Fails, UNCHANGED <<entry, saved>>,
           Ended \/ UNCHANGED flow
    PROVE  JobInv' /\ StepInv'
<1>1. CASE Ended
  BY <1>1 DEF JobInv, StepInv, Ended
<1>2. CASE ~Ended
  <2>1. /\ work'.step \in {"failed", "compensate", "undo", "request"}
        /\ work'.job = work.job /\ work.job # "none" /\ UNCHANGED flow
        /\ work'.step = "compensate" => work.job = "install"
    BY <1>2 DEF Fails, JobInv
  <2> QED BY <2>1 DEF JobInv, StepInv
<1> QED BY <1>1, <1>2

-----------------------------------------------------------------------------
(* The steps of a job keep the invariant.                                   *)

Kept == TypeOK' /\ EntryInv' /\ RecordInv' /\ JobInv' /\ StepInv'

\* The types of the state, by variable.
LEMMA Types ==
    ASSUME TypeOK
    PROVE  /\ journal \in JournalType /\ retained \in RetainedType /\ work \in WorkType
           /\ live \in Releases \cup {Mixed} /\ archives \subseteq Ids /\ flow \in Flows
           /\ wanted \in BOOLEAN
BY DEF TypeOK, JournalType, RetainedType, WorkType

\* Without a change to the stores or the panel the records stay right.
LEMMA RecordSame ==
    ASSUME RecordInv, UNCHANGED <<journal, retained, live, archives>>, UNCHANGED <<entry, saved>>,
           UNCHANGED flow \/ flow' # "ready"
    PROVE  RecordInv'
BY DEF RecordInv, StoresInv, OwnerInv, CanBeUndone, OwnedOrUndone, RestoredIsRestored

\* The end of a job is one of the ways it can be given up.
LEMMA EndFails == ASSUME Advances("end") PROVE Fails
BY DEF Advances, Fails

\* A step of a job keeps the invariant when what it wrote does and when the job, if
\* it goes on, has what its next step needs.
LEMMA StepKeeps ==
    ASSUME IInv, work.step # "none", FaultsOK, Aside, UNCHANGED <<flow, wanted>>,
           StoresFree \/ UNCHANGED <<journal, retained>>,
           journal' \in JournalType, retained' \in RetainedType,
           live' \in Releases \cup {Mixed}, archives' \subseteq Ids,
           RecordInv', Fails \/ (work' \in WorkType /\ JobInv' /\ StepInv')
    PROVE  Kept
<1> USE DEF IInv
<1>1. UNCHANGED <<entry, saved, hand, prepared>>
  BY DEF Aside
<1>2. EntryInv'
  BY <1>1, EntryKept DEF Owner
<1>3. work' \in WorkType
  BY DEF Fails
<1>4. TypeOK'
  BY <1>3, Types, TypesKept
<1>5. JobInv' /\ StepInv'
  BY <1>1, WorkGivenUp
<1> QED BY <1>2, <1>4, <1>5 DEF Kept

\* The approved edges, from their ends.
LEMMA MayMoveFacts ==
    ASSUME TypeOK, RecordInv, NEW phase \in Phases, MayMove(phase)
    PROVE  /\ journal.id # 0 /\ journal.id = work.id /\ phase \notin {"staged", "committed", "rolled_back"}
           /\ phase = "activation_pending" => journal.phase = "staged"
           /\ phase = "activated" => journal.phase = "activation_pending"
           /\ phase = "verifying" => journal.phase = "activated"
           /\ phase = "pending_config_commit" => journal.phase = "verifying"
<1>1. journal.phase \in Phases \cup {"none"} /\ phase \in Transitions[journal.phase]
  BY DEF MayMove, TypeOK
<1>2. journal.phase # "none"
  BY <1>1 DEF Transitions, Phases
<1>3. journal.id # 0
  BY <1>2 DEF RecordInv, StoresInv, NoJournal
<1> QED BY <1>1, <1>3 DEF Transitions, Phases, MayMove

-----------------------------------------------------------------------------
(* An installation and an update.                                           *)

\* The archived baseline is one of this transaction.
LEMMA CaptureKeeps == ASSUME IInv, Capture PROVE Kept
<1> USE DEF IInv
<1>1. /\ work.step = "capture" /\ work.id \in Ids /\ work.job \in {"install", "update"}
      /\ Armable /\ "arm" \in Steps \cup {"end"} /\ TRUE \in BOOLEAN
  BY DEF Capture, At, JobInv, StepInv, Steps
<1>2. /\ FaultsOK /\ Aside /\ UNCHANGED <<journal, retained, live, flow, wanted>>
      /\ \/ archives' = archives \cup {work.id} /\ (Advances("arm") \/ Fails)
         \/ UNCHANGED archives /\ Fails
  BY <1>1, OnPanelEffect DEF Capture
<1>3. archives' \subseteq Ids
  BY <1>1, <1>2, Types
<1>4. RecordInv'
  BY <1>2 DEF RecordInv, StoresInv, OwnerInv, CanBeUndone, OwnedOrUndone, RestoredIsRestored, Aside
<1>5. ASSUME Advances("arm"), archives' = archives \cup {work.id}
      PROVE  work' \in WorkType /\ JobInv' /\ StepInv'
  BY <1>1, <1>2, <1>5 DEF Advances, JobInv, StepInv, Armable, Aside
<1> QED BY <1>1, <1>2, <1>3, <1>4, <1>5, Types, StepKeeps

\* The baseline is armed while nothing is journalled, for a panel with an owner or one
\* that is being added.
LEMMA ArmKeeps == ASSUME IInv, Arm PROVE Kept
<1> USE DEF IInv
<1> DEFINE record == ArmedRecord(work.id, Operation, live)
<1>1. /\ work.step = "arm" /\ work.id \in Ids /\ work.job \in {"install", "update"}
      /\ Armable /\ work.id \in archives /\ "create" \in Steps \cup {"end"} /\ TRUE \in BOOLEAN
  BY DEF Arm, At, JobInv, StepInv, Steps
<1>2. live \in Releases
  BY <1>1, Types DEF RecordInv, CanBeUndone, Armable
<1>3. /\ record.id = work.id /\ record.state = "armed" /\ record.base = live
      /\ record \in RetainedType
  BY <1>1, <1>2 DEF ArmedRecord, RetainedType, Operation, Operations, States
<1>4. flow # "ready" /\ "marked" \notin {entry, saved}
  BY <1>1 DEF JobInv, EntryInv
<1>5. /\ StoresFree /\ FaultsOK /\ Aside
      /\ UNCHANGED <<journal, live, archives, flow, wanted, entry, saved>>
      /\ \/ retained' = record /\ (Advances("create") \/ Fails)
         \/ UNCHANGED retained /\ Fails
  BY <1>1, SaveRetainedEffect DEF Arm, Aside
<1> HIDE DEF record
<1>6. RecordInv'
  <2>1. CASE retained' = record
    <3>1. StoresInv' /\ CanBeUndone'
      BY <1>1, <1>3, <1>5, <2>1, ReleaseFacts
         DEF RecordInv, StoresInv, CanBeUndone, Armable, States, NoJournal
    <3> QED
      BY <1>1, <1>3, <1>4, <1>5, <2>1, <3>1
         DEF RecordInv, OwnerInv, OwnedOrUndone, RestoredIsRestored, Armable
  <2> QED BY <1>5, <2>1, RecordSame
<1>7. ASSUME Advances("create"), retained' = record
      PROVE  work' \in WorkType /\ JobInv' /\ StepInv'
  BY <1>1, <1>3, <1>5, <1>7 DEF Advances, JobInv, StepInv, Armable
<1>8. retained' \in RetainedType
  BY <1>3, <1>5, Types
<1> QED BY <1>1, <1>5, <1>6, <1>7, <1>8, Types, StepKeeps

\* The transaction is staged on its armed and archived baseline.
LEMMA CreateKeeps == ASSUME IInv, Create PROVE Kept
<1> USE DEF IInv
<1> DEFINE record == StagedRecord(work.id, Operation)
           next == IF work.job = "update" THEN "to_ap" ELSE "mark_flow"
<1>1. /\ work.step = "create" /\ work.id \in Ids /\ work.job \in {"install", "update"}
      /\ journal.id = 0 /\ retained.id = work.id /\ retained.state = "armed"
      /\ live = retained.base
  BY DEF Create, At, JobInv, StepInv
<1>2. /\ record.id = work.id /\ record.phase = "staged" /\ record \in JournalType
      /\ record.operation \in Operations
      /\ record.operation = "update" => work.job = "update"
  BY <1>1 DEF StagedRecord, JournalType, Operation, Operations, Phases
<1> HIDE DEF record
<1>3. /\ FaultsOK /\ Aside /\ StoresFree
      /\ UNCHANGED <<retained, live, archives, flow, entry, saved, wanted>>
      /\ \/ journal' = record /\ Advances(next)
         \/ journal' \in {journal, record} /\ Fails
  <2>1. /\ Aside /\ StoresFree
        /\ UNCHANGED <<retained, live, archives, flow, entry, saved, wanted>>
    BY DEF Create, panel, owner, bounds, Aside
  <2>2. CASE /\ Holds /\ journal' = record
             /\ work' = [work EXCEPT !.known = "staged", !.step = next]
    <3>1. Advances(next)
      BY <1>1, <2>2, Types DEF Advances, WorkType, Steps, Phases
    <3> QED BY <2>1, <2>2, <3>1, HoldsOrBreaks
  <2>3. CASE Breaks /\ journal' \in {journal, record}
    BY <2>1, <2>3, HoldsOrBreaks
  <2> QED BY <2>2, <2>3 DEF Create, record
<1> HIDE DEF next
<1>4. EntryInv'
  BY <1>3, EntryKept DEF Aside, Owner
<1>5. journal' \in JournalType /\ work' \in WorkType
  BY <1>2, <1>3, Types DEF Advances, Fails
<1>6. TypeOK'
  BY <1>3, <1>5, Types, TypesKept
<1>7. RecordInv'
  <2>1. CASE UNCHANGED journal
    BY <1>3, <2>1 DEF RecordInv, StoresInv, OwnerInv, CanBeUndone, OwnedOrUndone, RestoredIsRestored
  <2>2. CASE journal' = record
    <3>1. StoresInv'
      BY <1>1, <1>2, <1>3, <2>2, ReleaseFacts, Types
         DEF RecordInv, StoresInv, CanBeUndone, Phases
    <3>2. flow # "ready" /\ "marked" \notin {entry, saved}
      BY <1>1 DEF JobInv, EntryInv
    <3> QED
      BY <1>1, <1>2, <1>3, <2>2, <3>1, <3>2, ReleaseFacts
         DEF RecordInv, StoresInv, OwnerInv, CanBeUndone, OwnedOrUndone, RestoredIsRestored, JobInv
  <2> QED BY <1>3, <2>1, <2>2
<1>8. JobInv' /\ StepInv'
  <2>1. CASE Fails
    BY <1>1, <1>3, <2>1, WorkGivenUp
  <2>2. CASE journal' = record /\ Advances(next)
    <3>1. \/ work.job = "update" /\ next = "to_ap"
          \/ work.job = "install" /\ next = "mark_flow"
      BY <1>1 DEF next
    <3>2. CASE work.job = "update" /\ next = "to_ap"
      BY <1>1, <1>2, <1>3, <2>2, <3>2 DEF Advances, JobInv, StepInv
    <3>3. CASE work.job = "install" /\ next = "mark_flow"
      BY <1>1, <1>2, <1>3, <2>2, <3>3 DEF Advances, JobInv, StepInv
    <3> QED BY <3>1, <3>2, <3>3
  <2> QED BY <1>3, <2>1, <2>2
<1> QED BY <1>4, <1>6, <1>7, <1>8 DEF Kept

\* The flow learns of its installation, at the staging and at its end.
LEMMA FlowLearnsKeeps == ASSUME IInv, MarkFlow \/ ReportDone PROVE Kept
<1> USE DEF IInv
<1>1. work.step \in {"mark_flow", "report"} /\ work.job = "install" /\ entry = "none"
  BY DEF MarkFlow, ReportDone, At, JobInv
<1>2. Aside /\ UNCHANGED <<journal, retained, live, archives, entry, saved, wanted>>
  BY DEF MarkFlow, ReportDone, stores, panel, bounds, Aside
<1>3. /\ FaultsOK
      /\ \/ UNCHANGED flow /\ Fails
         \/ work.step = "mark_flow" /\ flow' = "marked" /\ Advances("stage")
         \/ flow' = "installed" /\ Advances("end")
  <2>1. CASE MarkFlow
    <3>1. CASE flow = "open" /\ Holds /\ Goto("stage") /\ flow' = "marked"
      <4>1. "stage" \in Steps \cup {"end"} /\ work.step = "mark_flow"
        BY <2>1 DEF Steps, MarkFlow, At
      <4> QED BY <3>1, <4>1, HoldsOrBreaks, GotoAdvances, Types
    <3>2. CASE Breaks /\ UNCHANGED flow
      BY <3>2, HoldsOrBreaks
    <3> QED BY <2>1, <3>1, <3>2 DEF MarkFlow
  <2>2. CASE ReportDone
    <3>1. CASE Holds /\ Goto("end") /\ flow' = "installed"
      BY <3>1, HoldsOrBreaks, GotoAdvances, Types
    <3>2. CASE Breaks /\ UNCHANGED flow
      BY <3>2, HoldsOrBreaks
    <3> QED BY <2>2, <3>1, <3>2 DEF ReportDone
  <2> QED BY <2>1, <2>2
<1>4. EntryInv'
  BY <1>1, <1>2, <1>3 DEF EntryInv, Aside
<1>5. RecordInv'
  BY <1>2, <1>3 DEF RecordInv, StoresInv, OwnerInv, CanBeUndone, OwnedOrUndone, RestoredIsRestored
<1>6. work' \in WorkType /\ flow' \in Flows
  BY <1>3, Types DEF Advances, Fails, Flows
<1>7. TypeOK'
  BY <1>2, <1>3, <1>6, Types, TypesKept
<1>8. JobInv' /\ StepInv'
  <2>1. CASE UNCHANGED flow /\ Fails
    BY <1>1, <1>2, <2>1, WorkGivenUp
  <2>2. CASE flow' = "installed" /\ Advances("end")
    BY <1>1, <1>2, <2>2, WorkGivenUp DEF Advances, Fails
  <2>3. CASE work.step = "mark_flow" /\ flow' = "marked" /\ Advances("stage")
    BY <1>1, <1>2, <2>3 DEF Advances, JobInv, StepInv
  <2> QED BY <1>3, <2>1, <2>2, <2>3
<1> QED BY <1>4, <1>5, <1>7, <1>8 DEF Kept
\* The activation is journalled as pending.
LEMMA ToActivationPendingKeeps == ASSUME IInv, ToActivationPending PROVE Kept
<1> USE DEF IInv
<1> DEFINE next == "activate"
<1>1. /\ work.step = "to_ap" /\ work.id \in Ids /\ work.job \in {"install", "update"}
      /\ journal.id = work.id /\ retained.state = "armed" /\ journal.phase = "staged"
  BY DEF ToActivationPending, Transition, At, JobInv, StepInv
<1>2. next \in Steps \cup {"end"} /\ "activation_pending" \in Phases \ {"staged"}
  BY DEF Steps, Phases
<1>3. /\ StoresFree /\ FaultsOK /\ Aside
      /\ UNCHANGED <<retained, live, archives, flow, wanted, entry, saved>>
      /\ \/ MayMove("activation_pending") /\ journal' = Moved("activation_pending") /\ (Advances(next) \/ Fails)
         \/ UNCHANGED journal /\ Fails
  BY <1>2, TransitionEffect DEF ToActivationPending, Aside
<1>4. RecordInv' /\ journal' \in JournalType
  <2>1. CASE MayMove("activation_pending") /\ journal' = Moved("activation_pending")
    BY <1>1, <1>2, <1>3, <2>1, MayMoveFacts, PhaseMoved DEF panel, Owner, RecordInv, OwnerInv,
       StoresInv
  <2> QED BY <1>3, <2>1, RecordSame, Types
<1>5. ASSUME Advances(next), next # "end", MayMove("activation_pending"), journal' = Moved("activation_pending")
      PROVE  work' \in WorkType /\ JobInv' /\ StepInv'
  <2>1. journal'.phase = "activation_pending" /\ journal'.id = journal.id /\ journal.id = work.id
    BY <1>5, Types DEF Moved, JournalType, MayMove
  <2> QED BY <1>1, <1>3, <1>5, <2>1 DEF Advances, JobInv, StepInv
<1> HIDE DEF next
<1> QED BY <1>1, <1>3, <1>4, <1>5, Types, EndFails, StepKeeps

\* The candidate was switched to: nothing is half replaced any more.
LEMMA ToActivatedKeeps == ASSUME IInv, ToActivated PROVE Kept
<1> USE DEF IInv
<1> DEFINE next == IF work.job = "update" THEN "to_v" ELSE "health"
<1>1. /\ work.step = "to_a" /\ work.id \in Ids /\ work.job \in {"install", "update"} /\ live # Mixed
  BY DEF ToActivated, Transition, At, JobInv, StepInv
<1>2. next \in Steps \cup {"end"} /\ "activated" \in Phases \ {"staged"}
  BY DEF Steps, Phases
<1>3. /\ StoresFree /\ FaultsOK /\ Aside
      /\ UNCHANGED <<retained, live, archives, flow, wanted, entry, saved>>
      /\ \/ MayMove("activated") /\ journal' = Moved("activated") /\ (Advances(next) \/ Fails)
         \/ UNCHANGED journal /\ Fails
  BY <1>2, TransitionEffect DEF ToActivated, Aside
<1>4. RecordInv' /\ journal' \in JournalType
  <2>1. CASE MayMove("activated") /\ journal' = Moved("activated")
    BY <1>1, <1>2, <1>3, <2>1, MayMoveFacts, PhaseMoved DEF panel, Owner, RecordInv, OwnerInv,
       StoresInv
  <2> QED BY <1>3, <2>1, RecordSame, Types
<1>5. ASSUME Advances(next), next # "end", MayMove("activated"), journal' = Moved("activated")
      PROVE  work' \in WorkType /\ JobInv' /\ StepInv'
  <2>1. journal'.phase = "activated" /\ journal'.id = journal.id /\ journal.id = work.id
    BY <1>5, Types DEF Moved, JournalType, MayMove
  <2> QED BY <1>1, <1>3, <1>5, <2>1 DEF Advances, JobInv, StepInv
<1> HIDE DEF next
<1> QED BY <1>1, <1>3, <1>4, <1>5, Types, EndFails, StepKeeps

\* The candidate answers.
LEMMA ToVerifyingKeeps == ASSUME IInv, ToVerifying PROVE Kept
<1> USE DEF IInv
<1> DEFINE next == CASE work.job = "update" -> "to_p"
                    [] work.job = "install" -> "report"
                    [] OTHER -> "relook"
<1>1. work.step = "to_v"
  BY DEF ToVerifying, Transition, At
<1>2. next \in Steps \cup {"end"} /\ "verifying" \in Phases \ {"staged"}
  BY DEF Steps, Phases
<1>3. /\ StoresFree /\ FaultsOK /\ Aside
      /\ UNCHANGED <<retained, live, archives, flow, wanted, entry, saved>>
      /\ \/ MayMove("verifying") /\ journal' = Moved("verifying") /\ (Advances(next) \/ Fails)
         \/ UNCHANGED journal /\ Fails
  BY <1>2, TransitionEffect DEF ToVerifying, Aside
<1>4. RecordInv' /\ journal' \in JournalType
  <2>1. CASE MayMove("verifying") /\ journal' = Moved("verifying")
    BY <1>1, <1>2, <1>3, <2>1, MayMoveFacts, PhaseMoved DEF panel, Owner, RecordInv, OwnerInv,
       StoresInv
  <2> QED BY <1>3, <2>1, RecordSame, Types
<1>5. ASSUME Advances(next), next # "end", MayMove("verifying"), journal' = Moved("verifying")
      PROVE  work' \in WorkType /\ JobInv' /\ StepInv'
  <2>1. journal'.phase = "verifying" /\ journal'.id = journal.id /\ journal.id = work.id
    BY <1>5, Types DEF Moved, JournalType, MayMove
  <2> QED BY <1>1, <1>3, <1>5, <2>1 DEF Advances, JobInv, StepInv
<1> HIDE DEF next
<1> QED BY <1>1, <1>3, <1>4, <1>5, Types, EndFails, StepKeeps

\* The commit is pending; that of an update goes on by itself, for its panel has an owner.
LEMMA ToPendingKeeps == ASSUME IInv, ToPending PROVE Kept
<1> USE DEF IInv
<1> DEFINE next == IF work.job = "update" THEN "soak" ELSE "end"
<1>1. work.step = "to_p"
  BY DEF ToPending, Transition, At
<1>2. next \in Steps \cup {"end"} /\ "pending_config_commit" \in Phases \ {"staged"}
  BY DEF Steps, Phases
<1>3. /\ StoresFree /\ FaultsOK /\ Aside
      /\ UNCHANGED <<retained, live, archives, flow, wanted, entry, saved>>
      /\ \/ MayMove("pending_config_commit") /\ journal' = Moved("pending_config_commit") /\ (Advances(next) \/ Fails)
         \/ UNCHANGED journal /\ Fails
  BY <1>2, TransitionEffect DEF ToPending, Aside
<1>4. RecordInv' /\ journal' \in JournalType
  <2>1. CASE MayMove("pending_config_commit") /\ journal' = Moved("pending_config_commit")
    BY <1>1, <1>2, <1>3, <2>1, MayMoveFacts, PhaseMoved DEF panel, Owner, RecordInv, OwnerInv,
       StoresInv
  <2> QED BY <1>3, <2>1, RecordSame, Types
<1>5. ASSUME Advances(next), next # "end", MayMove("pending_config_commit"), journal' = Moved("pending_config_commit")
      PROVE  work' \in WorkType /\ JobInv' /\ StepInv'
  <2>1. journal'.phase = "pending_config_commit" /\ journal'.id = journal.id /\ journal.id = work.id
    BY <1>5, Types DEF Moved, JournalType, MayMove
  <2> QED BY <1>1, <1>3, <1>5, <2>1 DEF Advances, JobInv, StepInv
<1> HIDE DEF next
<1> QED BY <1>1, <1>3, <1>4, <1>5, Types, EndFails, StepKeeps

\* A failed installation begins its rollback; its panel has no entry yet.
LEMMA RetreatKeeps == ASSUME IInv, Retreat PROVE Kept
<1> USE DEF IInv
<1> DEFINE next == "request"
<1>1. work.step = "retreat" /\ work.job = "install"
  BY DEF Retreat, Transition, At, JobInv
<1>2. next \in Steps \cup {"end"} /\ "rollback_pending" \in Phases \ {"staged"}
  BY DEF Steps, Phases
<1>3. /\ StoresFree /\ FaultsOK /\ Aside
      /\ UNCHANGED <<retained, live, archives, flow, wanted, entry, saved>>
      /\ \/ MayMove("rollback_pending") /\ journal' = Moved("rollback_pending") /\ (Advances(next) \/ Fails)
         \/ UNCHANGED journal /\ Fails
  BY <1>2, TransitionEffect DEF Retreat, Aside
<1>4. RecordInv' /\ journal' \in JournalType
  <2>1. CASE MayMove("rollback_pending") /\ journal' = Moved("rollback_pending")
    BY <1>1, <1>2, <1>3, <2>1, MayMoveFacts, PhaseMoved DEF panel, Owner, RecordInv, OwnerInv,
       StoresInv, JobInv, EntryInv
  <2> QED BY <1>3, <2>1, RecordSame, Types
<1>5. ASSUME Advances(next), next # "end", MayMove("rollback_pending"), journal' = Moved("rollback_pending")
      PROVE  work' \in WorkType /\ JobInv' /\ StepInv'
  <2>1. journal'.phase = "rollback_pending" /\ journal'.id = journal.id /\ journal.id = work.id
    BY <1>5, Types DEF Moved, JournalType, MayMove
  <2> QED BY <1>1, <1>3, <1>5, <2>1 DEF Advances, JobInv, StepInv
<1> HIDE DEF next
<1> QED BY <1>1, <1>3, <1>4, <1>5, Types, EndFails, StepKeeps
\* While files are replaced, the journal says that an activation is pending.
LEMMA ActivateKeeps == ASSUME IInv, Activate PROVE Kept
<1> USE DEF IInv
<1> DEFINE next == "switch"
<1>1. work.step = "activate" /\ work.id \in Ids /\ work.job \in {"install", "update"}
      /\ journal.id = work.id /\ retained.state = "armed"
      /\ journal.phase = "activation_pending"
  BY DEF Activate, At, JobInv, StepInv
<1>2. next \in Steps \cup {"end"} /\ (TRUE) \in BOOLEAN
  BY DEF Steps
<1>3. /\ FaultsOK /\ Aside /\ UNCHANGED <<journal, retained, flow, wanted, entry, saved>>
      /\ \/ TRUE /\ live' = Mixed /\ archives' = archives /\ (Advances(next) \/ Fails)
         \/ UNCHANGED <<live, archives>> /\ Fails
  BY <1>2, OnPanelEffect DEF Activate, Aside
<1>4. RecordInv' /\ live' \in Releases \cup {Mixed} /\ archives' \subseteq Ids
  <2>1. CASE TRUE /\ live' = Mixed /\ archives' = archives
    BY <1>1, <1>3, <2>1, Types, ReleaseFacts DEF RecordInv, StoresInv, OwnerInv, CanBeUndone,
       OwnedOrUndone, RestoredIsRestored
  <2> QED BY <1>3, <2>1, RecordSame, Types
<1>5. ASSUME Advances(next), next # "end", TRUE, live' = Mixed, archives' = archives
      PROVE  work' \in WorkType /\ JobInv' /\ StepInv'
  BY <1>1, <1>3, <1>5 DEF Advances, JobInv, StepInv
<1> HIDE DEF next
<1> QED BY <1>1, <1>3, <1>4, <1>5, Types, EndFails, StepKeeps

\* The panel runs the candidate.
LEMMA SwitchKeeps == ASSUME IInv, Switch PROVE Kept
<1> USE DEF IInv
<1> DEFINE next == IF work.job = "update" THEN "health" ELSE "to_a"
<1>1. work.step = "switch" /\ work.id \in Ids /\ work.job \in {"install", "update"}
      /\ journal.id = work.id /\ retained.state = "armed"
      /\ journal.phase = "activation_pending"
  BY DEF Switch, At, JobInv, StepInv
<1>2. next \in Steps \cup {"end"} /\ (TRUE) \in BOOLEAN
  BY DEF Steps
<1>3. /\ FaultsOK /\ Aside /\ UNCHANGED <<journal, retained, flow, wanted, entry, saved>>
      /\ \/ TRUE /\ live' = work.id /\ archives' = archives /\ (Advances(next) \/ Fails)
         \/ UNCHANGED <<live, archives>> /\ Fails
  BY <1>2, OnPanelEffect DEF Switch, Aside
<1>4. RecordInv' /\ live' \in Releases \cup {Mixed} /\ archives' \subseteq Ids
  <2>1. CASE TRUE /\ live' = work.id /\ archives' = archives
    BY <1>1, <1>3, <2>1, Types, ReleaseFacts DEF RecordInv, StoresInv, OwnerInv, CanBeUndone,
       OwnedOrUndone, RestoredIsRestored
  <2> QED BY <1>3, <2>1, RecordSame, Types
<1>5. ASSUME Advances(next), next # "end", TRUE, live' = work.id, archives' = archives
      PROVE  work' \in WorkType /\ JobInv' /\ StepInv'
  BY <1>1, <1>3, <1>5, ReleaseFacts DEF Advances, JobInv, StepInv
<1> HIDE DEF next
<1> QED BY <1>1, <1>3, <1>4, <1>5, Types, EndFails, StepKeeps

\* A candidate that does not run is removed.
LEMMA UnstageKeeps == ASSUME IInv, Unstage PROVE Kept
<1> USE DEF IInv
<1> DEFINE next == "forget"
<1>1. work.step = "unstage"
  BY DEF Unstage, At
<1>2. next \in Steps \cup {"end"} /\ (live \notin {work.id, Mixed}) \in BOOLEAN
  BY DEF Steps
<1>3. /\ FaultsOK /\ Aside /\ UNCHANGED <<journal, retained, flow, wanted, entry, saved>>
      /\ \/ live \notin {work.id, Mixed} /\ live' = live /\ archives' = archives /\ (Advances(next) \/ Fails)
         \/ UNCHANGED <<live, archives>> /\ Fails
  BY <1>2, OnPanelEffect DEF Unstage, Aside
<1>4. RecordInv' /\ live' \in Releases \cup {Mixed} /\ archives' \subseteq Ids
  <2>1. CASE live \notin {work.id, Mixed} /\ live' = live /\ archives' = archives
    BY <1>3, <2>1, RecordSame, Types
  <2> QED BY <1>3, <2>1, RecordSame, Types
<1>5. ASSUME Advances(next), next # "end", live \notin {work.id, Mixed}, live' = live, archives' = archives
      PROVE  work' \in WorkType /\ JobInv' /\ StepInv'
  BY <1>1, <1>3, <1>5 DEF Advances, JobInv, StepInv
<1> HIDE DEF next
<1> QED BY <1>1, <1>3, <1>4, <1>5, Types, EndFails, StepKeeps

\* While a baseline is restored, the journal says that a rollback is pending.
LEMMA RestoreKeeps == ASSUME IInv, Restore PROVE Kept
<1> USE DEF IInv
<1> DEFINE next == "reswitch"
<1>1. work.step = "restore" /\ journal.phase = "rollback_pending" /\ retained.state = "restore_requested"
  BY DEF Restore, At, StepInv
<1>2. next \in Steps \cup {"end"} /\ (work.id \in archives) \in BOOLEAN
  BY DEF Steps
<1>3. /\ FaultsOK /\ Aside /\ UNCHANGED <<journal, retained, flow, wanted, entry, saved>>
      /\ \/ work.id \in archives /\ live' = Mixed /\ archives' = archives /\ (Advances(next) \/ Fails)
         \/ UNCHANGED <<live, archives>> /\ Fails
  BY <1>2, OnPanelEffect DEF Restore, Aside
<1>4. RecordInv' /\ live' \in Releases \cup {Mixed} /\ archives' \subseteq Ids
  <2>1. CASE work.id \in archives /\ live' = Mixed /\ archives' = archives
    BY <1>1, <1>3, <2>1, Types, ReleaseFacts DEF RecordInv, StoresInv, OwnerInv, CanBeUndone,
       OwnedOrUndone, RestoredIsRestored, NoJournal
  <2> QED BY <1>3, <2>1, RecordSame, Types
<1>5. ASSUME Advances(next), next # "end", work.id \in archives, live' = Mixed, archives' = archives
      PROVE  work' \in WorkType /\ JobInv' /\ StepInv'
  BY <1>1, <1>3, <1>5 DEF Advances, JobInv, StepInv
<1> HIDE DEF next
<1> QED BY <1>1, <1>3, <1>4, <1>5, Types, EndFails, StepKeeps

\* The panel runs its baseline again.
LEMMA ReswitchKeeps == ASSUME IInv, Reswitch PROVE Kept
<1> USE DEF IInv
<1> DEFINE next == IF retained.base = Absent THEN "prune" ELSE "verify"
<1>1. work.step = "reswitch" /\ journal.phase = "rollback_pending" /\ retained.state = "restore_requested"
  BY DEF Reswitch, At, StepInv
<1>2. next \in Steps \cup {"end"} /\ (TRUE) \in BOOLEAN
  BY DEF Steps
<1>3. /\ FaultsOK /\ Aside /\ UNCHANGED <<journal, retained, flow, wanted, entry, saved>>
      /\ \/ TRUE /\ live' = retained.base /\ archives' = archives /\ (Advances(next) \/ Fails)
         \/ UNCHANGED <<live, archives>> /\ Fails
  BY <1>2, OnPanelEffect DEF Reswitch, Aside
<1>4. RecordInv' /\ live' \in Releases \cup {Mixed} /\ archives' \subseteq Ids
  <2>1. CASE TRUE /\ live' = retained.base /\ archives' = archives
    <3>1. retained.base \in Releases /\ retained.base # Mixed /\ journal.id # 0
      BY <1>1, Types, ReleaseFacts DEF RetainedType, RecordInv, StoresInv, NoJournal
    <3> QED BY <1>1, <1>3, <2>1, <3>1, Types DEF RecordInv, StoresInv, OwnerInv, CanBeUndone, OwnedOrUndone, RestoredIsRestored
  <2> QED BY <1>3, <2>1, RecordSame, Types
<1>5. ASSUME Advances(next), next # "end", TRUE, live' = retained.base, archives' = archives
      PROVE  work' \in WorkType /\ JobInv' /\ StepInv'
  BY <1>1, <1>3, <1>5 DEF Advances, JobInv, StepInv
<1> HIDE DEF next
<1> QED BY <1>1, <1>3, <1>4, <1>5, Types, EndFails, StepKeeps

\* The candidate is removed from a panel that runs its baseline.
LEMMA PruneKeeps == ASSUME IInv, Prune PROVE Kept
<1> USE DEF IInv
<1> DEFINE next == IF retained.base = Absent THEN "restored" ELSE "rolled_back"
<1>1. /\ work.step = "prune" /\ live = retained.base
      /\ retained.base # Absent => retained.state = "restored"
  BY DEF Prune, At, StepInv
<1>2. next \in Steps \cup {"end"} /\ (live \notin {work.id, Mixed}) \in BOOLEAN
  BY DEF Steps
<1>3. /\ FaultsOK /\ Aside /\ UNCHANGED <<journal, retained, flow, wanted, entry, saved>>
      /\ \/ live \notin {work.id, Mixed} /\ live' = live /\ archives' = archives /\ (Advances(next) \/ Fails)
         \/ UNCHANGED <<live, archives>> /\ Fails
  BY <1>2, OnPanelEffect DEF Prune, Aside
<1>4. RecordInv' /\ live' \in Releases \cup {Mixed} /\ archives' \subseteq Ids
  <2>1. CASE live \notin {work.id, Mixed} /\ live' = live /\ archives' = archives
    BY <1>3, <2>1, RecordSame, Types
  <2> QED BY <1>3, <2>1, RecordSame, Types
<1>5. ASSUME Advances(next), next # "end", live \notin {work.id, Mixed}, live' = live, archives' = archives
      PROVE  work' \in WorkType /\ JobInv' /\ StepInv'
  BY <1>1, <1>3, <1>5 DEF Advances, JobInv, StepInv
<1> HIDE DEF next
<1> QED BY <1>1, <1>3, <1>4, <1>5, Types, EndFails, StepKeeps

\* A candidate is started again.
LEMMA RestartKeeps == ASSUME IInv, Restart PROVE Kept
<1> USE DEF IInv
<1> DEFINE next == IF journal.phase = "activated" THEN "to_v" ELSE "relook"
<1>1. work.step = "restart"
  BY DEF Restart, At
<1>2. next \in Steps \cup {"end"} /\ (live = work.id) \in BOOLEAN
  BY DEF Steps
<1>3. /\ FaultsOK /\ Aside /\ UNCHANGED <<journal, retained, flow, wanted, entry, saved>>
      /\ \/ live = work.id /\ live' = live /\ archives' = archives /\ (Advances(next) \/ Fails)
         \/ UNCHANGED <<live, archives>> /\ Fails
  BY <1>2, OnPanelEffect DEF Restart, Aside
<1>4. RecordInv' /\ live' \in Releases \cup {Mixed} /\ archives' \subseteq Ids
  <2>1. CASE live = work.id /\ live' = live /\ archives' = archives
    BY <1>3, <2>1, RecordSame, Types
  <2> QED BY <1>3, <2>1, RecordSame, Types
<1>5. ASSUME Advances(next), next # "end", live = work.id, live' = live, archives' = archives
      PROVE  work' \in WorkType /\ JobInv' /\ StepInv'
  BY <1>1, <1>3, <1>5 DEF Advances, JobInv, StepInv
<1> HIDE DEF next
<1> QED BY <1>1, <1>3, <1>4, <1>5, Types, EndFails, StepKeeps

\* The archive goes only when the baseline is given up, and nothing is journalled then.
LEMMA PurgeKeeps == ASSUME IInv, Purge PROVE Kept
<1> USE DEF IInv
<1> DEFINE next == "drop"
<1>1. work.step = "purge" /\ retained.state = "finalizing"
  BY DEF Purge, At, StepInv
<1>2. next \in Steps \cup {"end"} /\ (TRUE) \in BOOLEAN
  BY DEF Steps
<1>3. /\ FaultsOK /\ Aside /\ UNCHANGED <<journal, retained, flow, wanted, entry, saved>>
      /\ \/ TRUE /\ live' = live /\ archives' = archives \ {retained.id} /\ (Advances(next) \/ Fails)
         \/ UNCHANGED <<live, archives>> /\ Fails
  BY <1>2, OnPanelEffect DEF Purge, Aside
<1>4. RecordInv' /\ live' \in Releases \cup {Mixed} /\ archives' \subseteq Ids
  <2>1. CASE TRUE /\ live' = live /\ archives' = archives \ {retained.id}
    BY <1>1, <1>3, <2>1, Types DEF RecordInv, StoresInv, OwnerInv, CanBeUndone, OwnedOrUndone,
       RestoredIsRestored
  <2> QED BY <1>3, <2>1, RecordSame, Types
<1>5. ASSUME Advances(next), next # "end", TRUE, live' = live, archives' = archives \ {retained.id}
      PROVE  work' \in WorkType /\ JobInv' /\ StepInv'
  BY <1>1, <1>3, <1>5 DEF Advances, JobInv, StepInv
<1> HIDE DEF next
<1> QED BY <1>1, <1>3, <1>4, <1>5, Types, EndFails, StepKeeps

\* A committed release soaks; its panel has an owner on disk.
LEMMA SoakKeeps == ASSUME IInv, Soak PROVE Kept
<1> USE DEF IInv
<1> DEFINE next == "commit"
           allowed == Settable(work.id, "soak")
<1>1. work.step = "soak" /\ saved = "owned"
  BY DEF Soak, Sets, At, StepInv
<1>2. next \in Steps \cup {"end"} /\ allowed \in BOOLEAN /\ "soak" \in States
  BY DEF Steps, States, Settable
<1>3. /\ StoresFree /\ FaultsOK /\ Aside
      /\ UNCHANGED <<journal, live, archives, flow, wanted, entry, saved>>
      /\ \/ allowed /\ retained' = Retains("soak") /\ (Advances(next) \/ Fails)
         \/ UNCHANGED retained /\ Fails
  <2>1. SaveRetained(allowed, Retains("soak"), next)
    BY DEF Soak, Sets
  <2> QED BY <1>2, <2>1, SaveRetainedEffect DEF Aside
<1>4. RecordInv' /\ retained' \in RetainedType
  <2>1. CASE allowed /\ retained' = Retains("soak")
    <3>1. /\ retained' \in RetainedType /\ retained'.id = retained.id
          /\ retained'.base = retained.base /\ retained'.state = "soak"
      BY <1>2, <2>1, RetainsFacts
    <3>2. /\ retained.id # 0
          /\ retained.state = "finalizing" => "soak" = "finalizing"
          /\ "soak" = "finalizing" => retained.state # "restore_requested"
      BY <1>2, <2>1, SettableFacts
    <3> QED
      BY <1>1, <1>2, <1>3, <3>1, <3>2, StateSet DEF panel, Owner, EntryInv
  <2> QED BY <1>3, <2>1, RecordSame, Types
<1>5. ASSUME Advances(next), next # "end", allowed, retained' = Retains("soak")
      PROVE  work' \in WorkType /\ JobInv' /\ StepInv'
  <2>1. retained'.state = "soak" /\ retained'.base = retained.base
    BY <1>2, <1>5, RetainsFacts
  <2> QED BY <1>1, <1>3, <1>5, <2>1 DEF Advances, JobInv, StepInv
<1> HIDE DEF next, allowed
<1> QED BY <1>1, <1>3, <1>4, <1>5, Types, EndFails, StepKeeps

\* A rollback is requested before the panel is touched.
LEMMA RequestKeeps == ASSUME IInv, Request PROVE Kept
<1> USE DEF IInv
<1> DEFINE next == "begin"
           allowed == Settable(work.id, "restore_requested")
<1>1. work.step = "request"
  BY DEF Request, Sets, At
<1>2. next \in Steps \cup {"end"} /\ allowed \in BOOLEAN /\ "restore_requested" \in States
  BY DEF Steps, States, Settable
<1>3. /\ StoresFree /\ FaultsOK /\ Aside
      /\ UNCHANGED <<journal, live, archives, flow, wanted, entry, saved>>
      /\ \/ allowed /\ retained' = Retains("restore_requested") /\ (Advances(next) \/ Fails)
         \/ UNCHANGED retained /\ Fails
  <2>1. SaveRetained(allowed, Retains("restore_requested"), next)
    BY DEF Request, Sets
  <2> QED BY <1>2, <2>1, SaveRetainedEffect DEF Aside
<1>4. RecordInv' /\ retained' \in RetainedType
  <2>1. CASE allowed /\ retained' = Retains("restore_requested")
    <3>1. /\ retained' \in RetainedType /\ retained'.id = retained.id
          /\ retained'.base = retained.base /\ retained'.state = "restore_requested"
      BY <1>2, <2>1, RetainsFacts
    <3>2. /\ retained.id # 0
          /\ retained.state = "finalizing" => "restore_requested" = "finalizing"
          /\ "restore_requested" = "finalizing" => retained.state # "restore_requested"
      BY <1>2, <2>1, SettableFacts
    <3> QED
      BY <1>1, <1>2, <1>3, <3>1, <3>2, StateSet DEF panel, Owner, EntryInv
  <2> QED BY <1>3, <2>1, RecordSame, Types
<1>5. ASSUME Advances(next), next # "end", allowed, retained' = Retains("restore_requested")
      PROVE  work' \in WorkType /\ JobInv' /\ StepInv'
  <2>1. retained'.state = "restore_requested" /\ retained'.base = retained.base
    BY <1>2, <1>5, RetainsFacts
  <2> QED BY <1>1, <1>3, <1>5, <2>1 DEF Advances, JobInv, StepInv
<1> HIDE DEF next, allowed
<1> QED BY <1>1, <1>3, <1>4, <1>5, Types, EndFails, StepKeeps

\* The failure of a restore is recorded.
LEMMA FailedKeeps == ASSUME IInv, Failed PROVE Kept
<1> USE DEF IInv
<1> DEFINE next == "end"
           allowed == Settable(work.id, "rollback_failed")
<1>1. work.step = "failed"
  BY DEF Failed, Sets, At
<1>2. next \in Steps \cup {"end"} /\ allowed \in BOOLEAN /\ "rollback_failed" \in States
  BY DEF Steps, States, Settable
<1>3. /\ StoresFree /\ FaultsOK /\ Aside
      /\ UNCHANGED <<journal, live, archives, flow, wanted, entry, saved>>
      /\ \/ allowed /\ retained' = Retains("rollback_failed") /\ (Advances(next) \/ Fails)
         \/ UNCHANGED retained /\ Fails
  <2>1. SaveRetained(allowed, Retains("rollback_failed"), next)
    BY DEF Failed, Sets
  <2> QED BY <1>2, <2>1, SaveRetainedEffect DEF Aside
<1>4. RecordInv' /\ retained' \in RetainedType
  <2>1. CASE allowed /\ retained' = Retains("rollback_failed")
    <3>1. /\ retained' \in RetainedType /\ retained'.id = retained.id
          /\ retained'.base = retained.base /\ retained'.state = "rollback_failed"
      BY <1>2, <2>1, RetainsFacts
    <3>2. /\ retained.id # 0
          /\ retained.state = "finalizing" => "rollback_failed" = "finalizing"
          /\ "rollback_failed" = "finalizing" => retained.state # "restore_requested"
      BY <1>2, <2>1, SettableFacts
    <3> QED
      BY <1>1, <1>2, <1>3, <3>1, <3>2, StateSet DEF panel, Owner, EntryInv
  <2> QED BY <1>3, <2>1, RecordSame, Types
<1>5. ASSUME Advances(next), next # "end", allowed, retained' = Retains("rollback_failed")
      PROVE  work' \in WorkType /\ JobInv' /\ StepInv'
  <2>1. retained'.state = "rollback_failed" /\ retained'.base = retained.base
    BY <1>2, <1>5, RetainsFacts
  <2> QED BY <1>1, <1>3, <1>5, <2>1 DEF Advances, JobInv, StepInv
<1> HIDE DEF next, allowed
<1> QED BY <1>1, <1>3, <1>4, <1>5, Types, EndFails, StepKeeps

\* The operator asks for a rollback.
LEMMA AskedKeeps == ASSUME IInv, Asked PROVE Kept
<1> USE DEF IInv
<1> DEFINE next == "ask_begin"
           allowed == Settable(work.id, "restore_requested")
<1>1. work.step = "ask"
  BY DEF Asked, Sets, At
<1>2. next \in Steps \cup {"end"} /\ allowed \in BOOLEAN /\ "restore_requested" \in States
  BY DEF Steps, States, Settable
<1>3. /\ StoresFree /\ FaultsOK /\ Aside
      /\ UNCHANGED <<journal, live, archives, flow, wanted, entry, saved>>
      /\ \/ allowed /\ retained' = Retains("restore_requested") /\ (Advances(next) \/ Fails)
         \/ UNCHANGED retained /\ Fails
  <2>1. SaveRetained(allowed, Retains("restore_requested"), next)
    BY DEF Asked, Sets
  <2> QED BY <1>2, <2>1, SaveRetainedEffect DEF Aside
<1>4. RecordInv' /\ retained' \in RetainedType
  <2>1. CASE allowed /\ retained' = Retains("restore_requested")
    <3>1. /\ retained' \in RetainedType /\ retained'.id = retained.id
          /\ retained'.base = retained.base /\ retained'.state = "restore_requested"
      BY <1>2, <2>1, RetainsFacts
    <3>2. /\ retained.id # 0
          /\ retained.state = "finalizing" => "restore_requested" = "finalizing"
          /\ "restore_requested" = "finalizing" => retained.state # "restore_requested"
      BY <1>2, <2>1, SettableFacts
    <3> QED
      BY <1>1, <1>2, <1>3, <3>1, <3>2, StateSet DEF panel, Owner, EntryInv
  <2> QED BY <1>3, <2>1, RecordSame, Types
<1>5. ASSUME Advances(next), next # "end", allowed, retained' = Retains("restore_requested")
      PROVE  work' \in WorkType /\ JobInv' /\ StepInv'
  <2>1. retained'.state = "restore_requested" /\ retained'.base = retained.base
    BY <1>2, <1>5, RetainsFacts
  <2> QED BY <1>1, <1>3, <1>5, <2>1 DEF Advances, JobInv, StepInv
<1> HIDE DEF next, allowed
<1> QED BY <1>1, <1>3, <1>4, <1>5, Types, EndFails, StepKeeps

\* A baseline is given up only while nothing is journalled: a transaction begun since
\* the order would have requested a restore first, which forbids it.
LEMMA IntendKeeps == ASSUME IInv, Intend PROVE Kept
<1> USE DEF IInv
<1> DEFINE next == "purge"
           allowed == Settable(work.id, "finalizing")
<1>1. work.step = "intend" /\ (journal.id = 0 \/ retained.state = "restore_requested")
  BY DEF Intend, Sets, At, StepInv
<1>2. next \in Steps \cup {"end"} /\ allowed \in BOOLEAN /\ "finalizing" \in States
  BY DEF Steps, States, Settable
<1>3. /\ StoresFree /\ FaultsOK /\ Aside
      /\ UNCHANGED <<journal, live, archives, flow, wanted, entry, saved>>
      /\ \/ allowed /\ retained' = Retains("finalizing") /\ (Advances(next) \/ Fails)
         \/ UNCHANGED retained /\ Fails
  <2>1. SaveRetained(allowed, Retains("finalizing"), next)
    BY DEF Intend, Sets
  <2> QED BY <1>2, <2>1, SaveRetainedEffect DEF Aside
<1>4. RecordInv' /\ retained' \in RetainedType
  <2>1. CASE allowed /\ retained' = Retains("finalizing")
    <3>1. /\ retained' \in RetainedType /\ retained'.id = retained.id
          /\ retained'.base = retained.base /\ retained'.state = "finalizing"
      BY <1>2, <2>1, RetainsFacts
    <3>2. /\ retained.id # 0
          /\ retained.state = "finalizing" => "finalizing" = "finalizing"
          /\ "finalizing" = "finalizing" => retained.state # "restore_requested"
      BY <1>2, <2>1, SettableFacts
    <3> QED
      BY <1>1, <1>2, <1>3, <3>1, <3>2, StateSet DEF panel, Owner, EntryInv
  <2> QED BY <1>3, <2>1, RecordSame, Types
<1>5. ASSUME Advances(next), next # "end", allowed, retained' = Retains("finalizing")
      PROVE  work' \in WorkType /\ JobInv' /\ StepInv'
  <2>1. retained'.state = "finalizing" /\ retained'.base = retained.base
    BY <1>2, <1>5, RetainsFacts
  <2> QED BY <1>1, <1>3, <1>5, <2>1 DEF Advances, JobInv, StepInv
<1> HIDE DEF next, allowed
<1> QED BY <1>1, <1>3, <1>4, <1>5, Types, EndFails, StepKeeps
\* A commit is journalled once its panel has an owner on disk.
LEMMA CommitKeeps == ASSUME IInv, Commit PROVE Kept
<1> USE DEF IInv
<1> DEFINE next == "remove"
<1>1. work.step = "commit" /\ saved = "owned" /\ retained.state = "soak"
  BY DEF Commit, At, StepInv
<1>2. next \in Steps \cup {"end"} /\ (journal.phase = "pending_config_commit") \in BOOLEAN
  BY DEF Steps
<1>3. /\ StoresFree /\ FaultsOK /\ Aside
      /\ UNCHANGED <<retained, live, archives, flow, wanted, entry, saved>>
      /\ \/ journal.phase = "pending_config_commit" /\ journal' = Moved("committed") /\ (Advances(next) \/ Fails)
         \/ UNCHANGED journal /\ Fails
  BY <1>2, SaveJournalEffect DEF Commit, Aside
<1>4. RecordInv' /\ journal' \in JournalType
  <2>1. CASE journal.phase = "pending_config_commit" /\ journal' = Moved("committed")
    <3>1. "committed" \in Phases \ {"staged"} /\ journal.id # 0
      BY <1>1, <2>1 DEF Phases, RecordInv, StoresInv, NoJournal
    <3> QED
      BY <1>1, <1>3, <2>1, <3>1, PhaseMoved, ReleaseFacts, Types
         DEF panel, Owner, RecordInv, StoresInv, OwnerInv, RetainedType
  <2> QED BY <1>3, <2>1, RecordSame, Types
<1>5. ASSUME Advances(next), next # "end", journal.phase = "pending_config_commit", journal' = Moved("committed")
      PROVE  work' \in WorkType /\ JobInv' /\ StepInv'
  <2>1. journal'.phase = "committed" /\ journal'.id = journal.id
    BY <1>5, Types DEF Moved, JournalType
  <2> QED BY <1>1, <1>3, <1>5, <2>1 DEF Advances, JobInv, StepInv
<1> HIDE DEF next
<1> QED BY <1>1, <1>3, <1>4, <1>5, Types, EndFails, StepKeeps

\* The journal of what was committed or rolled back goes.
LEMMA RemoveKeeps == ASSUME IInv, Remove PROVE Kept
<1> USE DEF IInv
<1> DEFINE next == "end"
<1>1. /\ work.step = "remove" /\ journal.phase \in {"none", "committed", "rolled_back"}
      /\ journal.phase = "rolled_back" => live = retained.base
  BY DEF Remove, At, StepInv
<1>2. next \in Steps \cup {"end"} /\ (TRUE) \in BOOLEAN
  BY DEF Steps
<1>3. /\ StoresFree /\ FaultsOK /\ Aside
      /\ UNCHANGED <<retained, live, archives, flow, wanted, entry, saved>>
      /\ \/ TRUE /\ journal' = NoJournal /\ (Advances(next) \/ Fails)
         \/ UNCHANGED journal /\ Fails
  BY <1>2, SaveJournalEffect DEF Remove, Aside
<1>4. RecordInv' /\ journal' \in JournalType
  <2>1. CASE TRUE /\ journal' = NoJournal
    <3>1. journal' \in JournalType
      BY <2>1 DEF NoJournal, JournalType
    <3>2. live # Mixed
      BY <1>1 DEF RecordInv, StoresInv
    <3>3. saved = "none" => live \notin Ids
      <4>1. journal.phase = "none" => journal.id = 0
        BY DEF RecordInv, StoresInv, Phases
      <4> QED BY <1>1, <4>1 DEF RecordInv, OwnerInv, OwnedOrUndone
    <3>4. flow = "ready" \/ "marked" \in {entry, saved} => retained.state \notin {"armed", "soak"}
      BY <1>1 DEF RecordInv, OwnerInv, EntryInv
    <3> QED BY <1>3, <2>1, <3>1, <3>2, <3>3, <3>4, JournalRemoved DEF panel, Owner
  <2> QED BY <1>3, <2>1, RecordSame, Types
<1>5. ASSUME Advances(next), next # "end", TRUE, journal' = NoJournal
      PROVE  work' \in WorkType /\ JobInv' /\ StepInv'
  BY <1>1, <1>3, <1>5 DEF Advances, JobInv, StepInv
<1> HIDE DEF next
<1> QED BY <1>1, <1>3, <1>4, <1>5, Types, EndFails, StepKeeps

\* The journal of an installation that changed nothing goes.
LEMMA ForgetKeeps == ASSUME IInv, Forget PROVE Kept
<1> USE DEF IInv
<1> DEFINE next == "end"
<1>1. work.step = "forget"
  BY DEF Forget, At
<1>2. next \in Steps \cup {"end"} /\ (journal.phase = "staged") \in BOOLEAN
  BY DEF Steps
<1>3. /\ StoresFree /\ FaultsOK /\ Aside
      /\ UNCHANGED <<retained, live, archives, flow, wanted, entry, saved>>
      /\ \/ journal.phase = "staged" /\ journal' = NoJournal /\ (Advances(next) \/ Fails)
         \/ UNCHANGED journal /\ Fails
  BY <1>2, SaveJournalEffect DEF Forget, Aside
<1>4. RecordInv' /\ journal' \in JournalType
  <2>1. CASE journal.phase = "staged" /\ journal' = NoJournal
    <3>1. journal' \in JournalType
      BY <2>1 DEF NoJournal, JournalType
    <3>2. live # Mixed
      BY <2>1 DEF RecordInv, StoresInv
    <3>3. saved = "none" => live \notin Ids
      BY <2>1 DEF RecordInv, StoresInv, OwnerInv
    <3>4. flow = "ready" \/ "marked" \in {entry, saved} => retained.state \notin {"armed", "soak"}
      BY <2>1 DEF RecordInv, OwnerInv, EntryInv
    <3> QED BY <1>3, <2>1, <3>1, <3>2, <3>3, <3>4, JournalRemoved DEF panel, Owner
  <2> QED BY <1>3, <2>1, RecordSame, Types
<1>5. ASSUME Advances(next), next # "end", journal.phase = "staged", journal' = NoJournal
      PROVE  work' \in WorkType /\ JobInv' /\ StepInv'
  BY <1>1, <1>3, <1>5 DEF Advances, JobInv, StepInv
<1> HIDE DEF next
<1> QED BY <1>1, <1>3, <1>4, <1>5, Types, EndFails, StepKeeps

\* The journal of a restoration goes when the panel runs its baseline.
LEMMA ClearKeeps == ASSUME IInv, Clear PROVE Kept
<1> USE DEF IInv
<1> DEFINE next == "end"
<1>1. work.step = "clear" /\ live = retained.base /\ retained.state = "restored"
  BY DEF Clear, At, StepInv
<1>2. next \in Steps \cup {"end"} /\ (TRUE) \in BOOLEAN
  BY DEF Steps
<1>3. /\ StoresFree /\ FaultsOK /\ Aside
      /\ UNCHANGED <<retained, live, archives, flow, wanted, entry, saved>>
      /\ \/ TRUE /\ journal' = NoJournal /\ (Advances(next) \/ Fails)
         \/ UNCHANGED journal /\ Fails
  BY <1>2, SaveJournalEffect DEF Clear, Aside
<1>4. RecordInv' /\ journal' \in JournalType
  <2>1. CASE TRUE /\ journal' = NoJournal
    <3>1. journal' \in JournalType
      BY <2>1 DEF NoJournal, JournalType
    <3>2. live # Mixed
      BY <1>1, Types, ReleaseFacts DEF RetainedType
    <3>3. saved = "none" => live \notin Ids
      BY <1>1 DEF RecordInv, OwnerInv
    <3>4. flow = "ready" \/ "marked" \in {entry, saved} => retained.state \notin {"armed", "soak"}
      BY <1>1
    <3> QED BY <1>3, <2>1, <3>1, <3>2, <3>3, <3>4, JournalRemoved DEF panel, Owner
  <2> QED BY <1>3, <2>1, RecordSame, Types
<1>5. ASSUME Advances(next), next # "end", TRUE, journal' = NoJournal
      PROVE  work' \in WorkType /\ JobInv' /\ StepInv'
  BY <1>1, <1>3, <1>5 DEF Advances, JobInv, StepInv
<1> HIDE DEF next
<1> QED BY <1>1, <1>3, <1>4, <1>5, Types, EndFails, StepKeeps

\* The restoration is journalled before it begins.
LEMMA BeginKeeps == ASSUME IInv, Begin PROVE Kept
<1> USE DEF IInv
<1> DEFINE next == "restore"
<1>1. work.step = "begin"
  BY DEF Begin, At
<1>2. next \in Steps \cup {"end"} /\ (Restorable) \in BOOLEAN
  BY DEF Steps, Restorable
<1>3. /\ StoresFree /\ FaultsOK /\ Aside
      /\ UNCHANGED <<retained, live, archives, flow, wanted, entry, saved>>
      /\ \/ Restorable /\ journal' = RestoreRecord /\ (Advances(next) \/ Fails)
         \/ UNCHANGED journal /\ Fails
  BY <1>2, SaveJournalEffect DEF Begin, Aside
<1>4. RecordInv' /\ journal' \in JournalType
  <2>1. CASE Restorable /\ journal' = RestoreRecord
    BY <1>3, <2>1, RestorationJournalled DEF panel, Owner
  <2> QED BY <1>3, <2>1, RecordSame, Types
<1>5. ASSUME Advances(next), next # "end", Restorable, journal' = RestoreRecord
      PROVE  work' \in WorkType /\ JobInv' /\ StepInv'
  BY <1>1, <1>3, <1>5 DEF Advances, JobInv, StepInv, Restorable, RestoreRecord
<1> HIDE DEF next
<1> QED BY <1>1, <1>3, <1>4, <1>5, Types, EndFails, StepKeeps

\* A recovery journals a restoration that was only requested.
LEMMA RebeginKeeps == ASSUME IInv, Rebegin PROVE Kept
<1> USE DEF IInv
<1> DEFINE next == "triage"
<1>1. work.step = "rebegin"
  BY DEF Rebegin, At
<1>2. next \in Steps \cup {"end"} /\ (Restorable) \in BOOLEAN
  BY DEF Steps, Restorable
<1>3. /\ StoresFree /\ FaultsOK /\ Aside
      /\ UNCHANGED <<retained, live, archives, flow, wanted, entry, saved>>
      /\ \/ Restorable /\ journal' = RestoreRecord /\ (Advances(next) \/ Fails)
         \/ UNCHANGED journal /\ Fails
  BY <1>2, SaveJournalEffect DEF Rebegin, Aside
<1>4. RecordInv' /\ journal' \in JournalType
  <2>1. CASE Restorable /\ journal' = RestoreRecord
    BY <1>3, <2>1, RestorationJournalled DEF panel, Owner
  <2> QED BY <1>3, <2>1, RecordSame, Types
<1>5. ASSUME Advances(next), next # "end", Restorable, journal' = RestoreRecord
      PROVE  work' \in WorkType /\ JobInv' /\ StepInv'
  BY <1>1, <1>3, <1>5 DEF Advances, JobInv, StepInv, Restorable, RestoreRecord
<1> HIDE DEF next
<1> QED BY <1>1, <1>3, <1>4, <1>5, Types, EndFails, StepKeeps

\* A rollback is journalled as done when the panel runs its baseline.
LEMMA RolledBackKeeps == ASSUME IInv, RolledBack PROVE Kept
<1> USE DEF IInv
<1>1. /\ work.step = "rolled_back" /\ live = retained.base /\ retained.state = "restored"
      /\ "clear" \in Steps \cup {"end"} /\ "rolled_back" \in Phases \ {"staged"}
  BY DEF RolledBack, At, StepInv, Steps, Phases
<1>2. /\ FaultsOK /\ Aside
      /\ UNCHANGED <<retained, live, archives, flow, wanted, entry, saved>>
      /\ StoresFree \/ UNCHANGED journal
      /\ \/ /\ journal.phase = "rollback_pending" /\ journal' = Moved("rolled_back")
            /\ Advances("clear") \/ Fails
         \/ UNCHANGED journal /\ (Advances("clear") \/ Fails)
  <2>1. CASE journal.phase = "rolled_back"
    BY <1>1, <2>1, PassesEffect DEF RolledBack, Aside
  <2>2. CASE journal.phase # "rolled_back"
    <3>1. (journal.phase = "rollback_pending") \in BOOLEAN
      OBVIOUS
    <3> QED BY <1>1, <2>2, <3>1, SaveJournalEffect DEF RolledBack, Aside
  <2> QED BY <2>1, <2>2
<1>3. RecordInv' /\ journal' \in JournalType
  <2>1. CASE journal.phase = "rollback_pending" /\ journal' = Moved("rolled_back")
    <3>1. journal.id # 0
      BY <2>1 DEF RecordInv, StoresInv, NoJournal
    <3> QED
      BY <1>1, <1>2, <2>1, <3>1, PhaseMoved, ReleaseFacts, Types
         DEF panel, Owner, RetainedType
  <2> QED BY <1>2, <2>1, RecordSame, Types
<1>4. ASSUME Advances("clear")
      PROVE  work' \in WorkType /\ JobInv' /\ StepInv'
  BY <1>1, <1>2, <1>4 DEF Advances, JobInv, StepInv
<1> QED BY <1>1, <1>2, <1>3, <1>4, Types, StepKeeps

\* Upload and preflight.
LEMMA StageKeeps == ASSUME IInv, Stage PROVE Kept
<1> USE DEF IInv
<1> DEFINE next == "to_ap"
<1>1. /\ work.step = "stage" /\ journal.id = work.id /\ retained.state = "armed"
      /\ journal.phase = "staged" /\ work.job \in {"install", "update"} /\ work.id \in Ids
  BY DEF Stage, At, JobInv, StepInv
<1>2. next \in Steps \cup {"end"}
  BY DEF Steps
<1>3. /\ FaultsOK /\ Aside
      /\ UNCHANGED <<journal, retained, live, archives, flow, wanted, entry, saved>>
      /\ Advances(next) \/ Fails
  BY <1>2, PassesEffect DEF Stage, Aside
<1>4. RecordInv'
  BY <1>3, RecordSame
<1>5. ASSUME Advances(next), next # "end"
      PROVE  work' \in WorkType /\ JobInv' /\ StepInv'
  BY <1>1, <1>3, <1>5 DEF Advances, JobInv, StepInv
<1> HIDE DEF next
<1> QED BY <1>1, <1>3, <1>4, <1>5, Types, EndFails, StepKeeps

\* The agent of the candidate answers.
LEMMA HealthKeeps == ASSUME IInv, Health PROVE Kept
<1> USE DEF IInv
<1> DEFINE next == IF work.job = "update" THEN "to_a" ELSE "to_v"
<1>1. /\ work.step = "health" /\ live # Mixed
      /\ work.job \in {"install", "update"} /\ work.id \in Ids
  BY DEF Health, At, JobInv, StepInv
<1>2. next \in Steps \cup {"end"}
  BY DEF Steps
<1>3. /\ FaultsOK /\ Aside
      /\ UNCHANGED <<journal, retained, live, archives, flow, wanted, entry, saved>>
      /\ Advances(next) \/ Fails
  BY <1>2, PassesEffect DEF Health, Aside
<1>4. RecordInv'
  BY <1>3, RecordSame
<1>5. ASSUME Advances(next), next # "end"
      PROVE  work' \in WorkType /\ JobInv' /\ StepInv'
  BY <1>1, <1>3, <1>5 DEF Advances, JobInv, StepInv
<1> HIDE DEF next
<1> QED BY <1>1, <1>3, <1>4, <1>5, Types, EndFails, StepKeeps

\* The agent of the baseline answers.
LEMMA VerifyKeeps == ASSUME IInv, Verify PROVE Kept
<1> USE DEF IInv
<1> DEFINE next == "restored"
<1>1. work.step = "verify" /\ live = retained.base
  BY DEF Verify, At, StepInv
<1>2. next \in Steps \cup {"end"}
  BY DEF Steps
<1>3. /\ FaultsOK /\ Aside
      /\ UNCHANGED <<journal, retained, live, archives, flow, wanted, entry, saved>>
      /\ Advances(next) \/ Fails
  BY <1>2, PassesEffect DEF Verify, Aside
<1>4. RecordInv'
  BY <1>3, RecordSame
<1>5. ASSUME Advances(next), next # "end"
      PROVE  work' \in WorkType /\ JobInv' /\ StepInv'
  BY <1>1, <1>3, <1>5 DEF Advances, JobInv, StepInv
<1> HIDE DEF next
<1> QED BY <1>1, <1>3, <1>4, <1>5, Types, EndFails, StepKeeps

\* A failed update is undone, unless it is committed.
LEMMA UndoKeeps == ASSUME IInv, Undo PROVE Kept
<1> USE DEF IInv
<1> DEFINE next == IF journal.id = 0 \/ journal.phase = "committed" THEN "end" ELSE "request"
<1>1. work.step = "undo"
  BY DEF Undo, At
<1>2. next \in Steps \cup {"end"}
  BY DEF Steps
<1>3. /\ FaultsOK /\ Aside
      /\ UNCHANGED <<journal, retained, live, archives, flow, wanted, entry, saved>>
      /\ Advances(next) \/ Fails
  BY <1>2, PassesEffect DEF Undo, Aside
<1>4. RecordInv'
  BY <1>3, RecordSame
<1>5. ASSUME Advances(next), next # "end"
      PROVE  work' \in WorkType /\ JobInv' /\ StepInv'
  BY <1>1, <1>3, <1>5 DEF Advances, JobInv, StepInv
<1> HIDE DEF next
<1> QED BY <1>1, <1>3, <1>4, <1>5, Types, EndFails, StepKeeps

\* What a recovery does about the retained baseline.
LEMMA ScanKeeps == ASSUME IInv, Scan PROVE Kept
<1> USE DEF IInv
<1> DEFINE next == CASE retained.state = "finalizing" ->
                         IF retained.ownerless \/ entry = "none" THEN "end" ELSE "purge"
                    [] retained.state = "restore_requested" ->
                         IF Compensates \/ entry # "none" THEN "rebegin" ELSE "end"
                    [] OTHER -> "triage"
<1>1. work.step = "scan"
  BY DEF Scan, At
<1>2. next \in Steps \cup {"end"}
  BY DEF Steps
<1>3. /\ FaultsOK /\ Aside
      /\ UNCHANGED <<journal, retained, live, archives, flow, wanted, entry, saved>>
      /\ Advances(next) \/ Fails
  BY <1>2, PassesEffect DEF Scan, Aside
<1>4. RecordInv'
  BY <1>3, RecordSame
<1>5. ASSUME Advances(next), next # "end"
      PROVE  work' \in WorkType /\ JobInv' /\ StepInv'
  BY <1>1, <1>3, <1>5 DEF Advances, JobInv, StepInv
<1> HIDE DEF next
<1> QED BY <1>1, <1>3, <1>4, <1>5, Types, EndFails, StepKeeps

\* A recovery looks once more whether the flow or the entry is there.
LEMMA RelookKeeps == ASSUME IInv, Relook PROVE Kept
<1> USE DEF IInv
<1> DEFINE next == IF FlowPending THEN "to_p" ELSE "request"
<1>1. work.step = "relook"
  BY DEF Relook, At
<1>2. next \in Steps \cup {"end"}
  BY DEF Steps
<1>3. /\ FaultsOK /\ Aside
      /\ UNCHANGED <<journal, retained, live, archives, flow, wanted, entry, saved>>
      /\ Advances(next) \/ Fails
  BY <1>2, PassesEffect DEF Relook, Aside
<1>4. RecordInv'
  BY <1>3, RecordSame
<1>5. ASSUME Advances(next), next # "end"
      PROVE  work' \in WorkType /\ JobInv' /\ StepInv'
  BY <1>1, <1>3, <1>5 DEF Advances, JobInv, StepInv
<1> HIDE DEF next
<1> QED BY <1>1, <1>3, <1>4, <1>5, Types, EndFails, StepKeeps

-----------------------------------------------------------------------------
(* Compensation, triage and the orders of an operator.                      *)

\* A failed installation is compensated, and nobody can cancel that.
LEMMA CompensateKeeps == ASSUME IInv, Compensate PROVE Kept
<1> USE DEF IInv
<1>1. /\ work.step = "compensate" /\ work.job = "install" /\ faults \in 0 .. MaxFaults
      /\ Aside /\ UNCHANGED <<journal, retained, live, archives, flow, wanted, entry, saved, faults>>
  BY DEF Compensate, At, JobInv, TypeOK, stores, panel, owner, bounds, Aside
<1>2. RecordInv' /\ FaultsOK
  BY <1>1, RecordSame DEF FaultsOK
<1>3. Fails \/ (work' \in WorkType /\ JobInv' /\ StepInv')
  <2>1. CASE work.known = "none"
    <3>1. Goto("end")
      BY <2>1 DEF Compensate, Goto
    <3> QED BY <3>1, GotoAdvances, EndFails, Types
  <2>2. CASE work.known # "none"
    <3> DEFINE next == IF work.known = "staged" THEN "unstage" ELSE "retreat"
    <3>1. work' = [work EXCEPT !.cut = FALSE, !.step = next]
      BY <2>2 DEF Compensate
    <3>2. /\ work' \in WorkType /\ work'.job = "install"
          /\ work'.step \in {"unstage", "retreat"}
      BY <1>1, <3>1, Types DEF WorkType, Steps
    <3> QED BY <1>1, <3>2 DEF JobInv, StepInv
  <2> QED BY <2>1, <2>2
<1> QED BY <1>1, <1>2, <1>3, Types, StepKeeps

\* A recovery goes where the journal says: to its removal only when it was committed or
\* rolled back to a verified baseline, to the soak only for an update.
LEMMA TriageKeeps == ASSUME IInv, Triage PROVE Kept
<1> USE DEF IInv
<1>1. /\ work.step = "triage" /\ faults \in 0 .. MaxFaults
      /\ journal.phase = "committed" => retained.state # "restore_requested"
      /\ Aside /\ UNCHANGED <<journal, retained, live, archives, flow, wanted, entry, saved, faults>>
  BY DEF Triage, At, StepInv, TypeOK, stores, panel, owner, bounds, Aside
<1>2. RecordInv' /\ FaultsOK
  BY <1>1, RecordSame DEF FaultsOK
<1>3. /\ Course \in {"end", "remove", "unstage", "soak", "restart", "request"}
      /\ Course = "soak" => journal.operation = "update"
      /\ Course = "remove" => \/ journal.phase = "committed"
                              \/ journal.phase = "rolled_back" /\ Verified
  BY DEF Course
<1>4. Fails \/ (work' \in WorkType /\ JobInv' /\ StepInv')
  <2>1. CASE Course = "end"
    <3>1. Goto("end")
      BY <2>1 DEF Triage, Goto
    <3> QED BY <3>1, GotoAdvances, EndFails, Types
  <2>2. CASE Course # "end"
    <3>1. work' = [work EXCEPT !.step = Course, !.id = journal.id]
      BY <2>2 DEF Triage
    <3>2. /\ work' \in WorkType /\ work'.job = work.job /\ work'.step = Course
      BY <1>3, <2>2, <3>1, Types DEF WorkType, JournalType, Steps
    <3>3. work.job # "none"
      BY <1>1 DEF JobInv
    <3>4. JobInv'
      BY <1>1, <1>3, <2>2, <3>2, <3>3 DEF JobInv
    <3>5. StepInv'
      BY <1>1, <1>3, <2>2, <3>2
         DEF StepInv, RecordInv, OwnerInv, RestoredIsRestored, Verified
    <3> QED BY <3>2, <3>4, <3>5
  <2> QED BY <2>1, <2>2
<1> QED BY <1>1, <1>2, <1>4, Types, StepKeeps

\* The operator's rollback is journalled, and a recovery is asked for.
LEMMA AskedBeginKeeps == ASSUME IInv, AskedBegin PROVE Kept
<1> USE DEF IInv
<1>1. /\ work.step = "ask_begin" /\ StoresFree /\ Aside
      /\ UNCHANGED <<retained, live, archives, flow, entry, saved, hand, prepared>>
  BY DEF AskedBegin, At, panel, bounds, Aside
<1>2. /\ FaultsOK /\ Fails /\ wanted' \in BOOLEAN
      /\ (Restorable /\ journal' = RestoreRecord) \/ UNCHANGED journal
  <2>1. CASE Restorable /\ Holds /\ journal' = RestoreRecord /\ Goto("end") /\ wanted' = TRUE
    BY <2>1, HoldsOrBreaks, GotoAdvances, EndFails, Types
  <2>2. CASE Restorable /\ Breaks /\ journal' \in {journal, RestoreRecord} /\ UNCHANGED wanted
    BY <2>2, HoldsOrBreaks, Types
  <2>3. CASE ~Restorable /\ Refused /\ UNCHANGED <<journal, wanted>>
    BY <2>3, HoldsOrBreaks, Types
  <2> QED BY <2>1, <2>2, <2>3 DEF AskedBegin
<1>3. RecordInv' /\ journal' \in JournalType
  BY <1>1, <1>2, RestorationJournalled, RecordSame, Types DEF panel, Owner
<1>4. EntryInv'
  BY <1>1, EntryKept DEF Owner
<1>5. TypeOK'
  BY <1>1, <1>2, <1>3, Types, TypesKept DEF Fails
<1>6. JobInv' /\ StepInv'
  BY <1>1, <1>2, WorkGivenUp
<1> QED BY <1>3, <1>4, <1>5, <1>6 DEF Kept

\* The end of a restore is recorded when the panel runs its baseline.
LEMMA RestoredKeeps == ASSUME IInv, Restored PROVE Kept
<1> USE DEF IInv
<1> DEFINE record == [Retains("restored") EXCEPT !.proven = retained.base # Absent]
           next == IF retained.base = Absent THEN "clear" ELSE "prune"
<1>1. /\ work.step = "restored" /\ live = retained.base /\ next \in Steps \cup {"end"}
      /\ "restored" \in States
  BY DEF Restored, At, StepInv, Steps, States
<1>2. /\ StoresFree /\ FaultsOK /\ Aside
      /\ UNCHANGED <<journal, live, archives, flow, wanted, entry, saved>>
      /\ \/ Settable(work.id, "restored") /\ retained' = record /\ (Advances(next) \/ Fails)
         \/ UNCHANGED retained /\ Fails
  <2>1. Settable(work.id, "restored") \in BOOLEAN
    BY DEF Settable
  <2> QED BY <1>1, <2>1, SaveRetainedEffect DEF Restored, Aside
<1>3. /\ record \in RetainedType /\ record.id = retained.id /\ record.state = "restored"
      /\ record.base = retained.base
  BY <1>1, Types DEF Retains, RetainedType
<1>4. retained.base # Absent => record.proven
  BY Types DEF Retains, RetainedType
<1> HIDE DEF record
<1>5. RecordInv' /\ retained' \in RetainedType
  <2>1. CASE Settable(work.id, "restored") /\ retained' = record
    <3>1. retained.id # 0 /\ retained.state # "finalizing"
      BY <1>1, <2>1, SettableFacts
    <3> QED BY <1>1, <1>2, <1>3, <1>4, <2>1, <3>1, StateSet DEF panel, Owner
  <2> QED BY <1>2, <2>1, RecordSame, Types
<1>6. ASSUME Advances(next), retained' = record
      PROVE  work' \in WorkType /\ JobInv' /\ StepInv'
  BY <1>1, <1>2, <1>3, <1>6 DEF Advances, JobInv, StepInv
<1> HIDE DEF next
<1> QED BY <1>1, <1>2, <1>5, <1>6, Types, StepKeeps

\* A restored baseline nobody owns is given up.
LEMMA IntendOwnerlessKeeps == ASSUME IInv, IntendOwnerless PROVE Kept
<1> USE DEF IInv
<1> DEFINE record == [Retains("finalizing") EXCEPT !.ownerless = TRUE]
<1>1. work.step = "intend_ownerless" /\ "purge" \in Steps \cup {"end"}
  BY DEF IntendOwnerless, At, Steps
<1>2. /\ StoresFree /\ FaultsOK /\ Aside
      /\ UNCHANGED <<journal, live, archives, flow, wanted, entry, saved>>
      /\ \/ journal.id = 0 /\ Forgettable /\ retained' = record /\ (Advances("purge") \/ Fails)
         \/ UNCHANGED retained /\ Fails
  <2>1. (journal.id = 0 /\ Forgettable) \in BOOLEAN
    OBVIOUS
  <2> QED BY <1>1, <2>1, SaveRetainedEffect DEF IntendOwnerless, Aside
<1>3. /\ record \in RetainedType /\ record.id = retained.id /\ record.state = "finalizing"
      /\ record.base = retained.base
  BY Types DEF Retains, RetainedType, States
<1> HIDE DEF record
<1>4. RecordInv' /\ retained' \in RetainedType
  <2>1. CASE journal.id = 0 /\ Forgettable /\ retained' = record
    <3>1. retained.id # 0 /\ "finalizing" \in States \ {"armed"}
      BY <2>1 DEF Forgettable, Onboarding, RecordInv, StoresInv, NoRetained, States
    <3> QED BY <1>2, <1>3, <2>1, <3>1, StateSet DEF panel, Owner
  <2> QED BY <1>2, <2>1, RecordSame, Types
<1>5. ASSUME Advances("purge"), retained' = record
      PROVE  work' \in WorkType /\ JobInv' /\ StepInv'
  BY <1>1, <1>2, <1>3, <1>5 DEF Advances, JobInv, StepInv
<1> QED BY <1>1, <1>2, <1>4, <1>5, Types, StepKeeps

\* The record of a baseline that was given up goes.
LEMMA DropKeeps == ASSUME IInv, Drop PROVE Kept
<1> USE DEF IInv
<1> DEFINE next == IF work.job = "recover" THEN "triage" ELSE "end"
<1>1. work.step = "drop" /\ next \in Steps \cup {"end"}
  BY DEF Drop, At, Steps
<1>2. /\ StoresFree /\ FaultsOK /\ Aside
      /\ UNCHANGED <<journal, live, archives, flow, wanted, entry, saved>>
      /\ \/ retained.state = "finalizing" /\ retained' = NoRetained /\ (Advances(next) \/ Fails)
         \/ UNCHANGED retained /\ Fails
  <2>1. (retained.state = "finalizing") \in BOOLEAN
    OBVIOUS
  <2> QED BY <1>1, <2>1, SaveRetainedEffect DEF Drop, Aside
<1>3. NoRetained \in RetainedType /\ NoRetained.base = Absent
  BY ReleaseFacts DEF NoRetained, RetainedType
<1>4. RecordInv' /\ retained' \in RetainedType
  <2>1. CASE retained.state = "finalizing" /\ retained' = NoRetained
    <3>1. journal.id = 0 /\ journal.phase = "none"
      BY <2>1 DEF RecordInv, StoresInv, CanBeUndone, NoJournal
    <3>2. retained'.id = 0 /\ retained'.state = "none" /\ retained'.base = Absent
      BY <2>1 DEF NoRetained
    <3> QED BY <1>2, <1>3, <2>1, <3>1, <3>2, ReleaseFacts
            DEF RecordInv, StoresInv, OwnerInv, CanBeUndone, OwnedOrUndone, RestoredIsRestored
  <2> QED BY <1>2, <2>1, RecordSame, Types
<1>5. ASSUME Advances(next), next # "end", retained' = NoRetained
      PROVE  work' \in WorkType /\ JobInv' /\ StepInv'
  <2>1. retained'.state = "none"
    BY <1>5 DEF NoRetained
  <2> QED BY <1>1, <1>2, <1>5, <2>1 DEF Advances, JobInv, StepInv
<1> HIDE DEF next
<1> QED BY <1>1, <1>2, <1>4, <1>5, Types, EndFails, StepKeeps


\* Every step of a job keeps the invariant.
LEMMA WorkKeeps == ASSUME IInv, Work PROVE Kept
<1>1. CASE Capture \/ Arm \/ Create \/ MarkFlow \/ Stage \/ ToActivationPending \/ Activate
  BY <1>1, CaptureKeeps, ArmKeeps, CreateKeeps, FlowLearnsKeeps, StageKeeps,
     ToActivationPendingKeeps, ActivateKeeps
<1>2. CASE Switch \/ ToActivated \/ Health \/ ToVerifying \/ ReportDone \/ ToPending \/ Soak
  BY <1>2, SwitchKeeps, ToActivatedKeeps, HealthKeeps, ToVerifyingKeeps, FlowLearnsKeeps,
     ToPendingKeeps, SoakKeeps
<1>3. CASE Commit \/ Remove \/ Undo \/ Compensate \/ Unstage \/ Forget \/ Retreat \/ Request
  BY <1>3, CommitKeeps, RemoveKeeps, UndoKeeps, CompensateKeeps, UnstageKeeps, ForgetKeeps,
     RetreatKeeps, RequestKeeps
<1>4. CASE Begin \/ Restore \/ Reswitch \/ Verify \/ Restored \/ Prune \/ RolledBack \/ Clear
  BY <1>4, BeginKeeps, RestoreKeeps, ReswitchKeeps, VerifyKeeps, RestoredKeeps, PruneKeeps,
     RolledBackKeeps, ClearKeeps
<1>5. CASE Failed \/ Scan \/ Rebegin \/ Triage \/ Restart \/ Relook \/ Asked \/ AskedBegin
  BY <1>5, FailedKeeps, ScanKeeps, RebeginKeeps, TriageKeeps, RestartKeeps, RelookKeeps,
     AskedKeeps, AskedBeginKeeps
<1>6. CASE Intend \/ IntendOwnerless \/ Purge \/ Drop
  BY <1>6, IntendKeeps, IntendOwnerlessKeeps, PurgeKeeps, DropKeeps
<1> QED BY <1>1, <1>2, <1>3, <1>4, <1>5, <1>6 DEF Work

-----------------------------------------------------------------------------
(* What starts a job.                                                       *)

\* A job starts with what its first step needs.
LEMMA StartKeeps ==
    ASSUME IInv, NEW j \in Jobs \ {"none"}, NEW step \in Steps, NEW t \in {0} \cup Ids,
           Takes(j, step, t),
           UNCHANGED <<stores, panel, entry, saved, hand, prepared, crashes, faults>>,
           nextId' \in 1 .. MaxTransactions + 1, flow' \in Flows, wanted' \in BOOLEAN,
           flow' = flow \/ (flow' = "open" /\ entry = "none"),
           j = "install" => entry = "none" /\ flow' \in {"none", "open", "marked"},
           j = "update" => saved = "owned",
           \/ step = "capture" /\ Armable /\ j \in {"install", "update"} /\ t \in Ids
           \/ step \in {"scan", "ask", "intend_ownerless"}
           \/ step = "intend" /\ journal.id = 0
           \/ step = "triage" /\ journal.phase # "committed"
           \/ step = "prune" /\ retained.state = "restored"
    PROVE  Kept
<1> USE DEF IInv
<1>1. /\ work'.job = j /\ work'.step = step /\ work'.id = t /\ work' \in WorkType
  BY DEF Takes, Idle, WorkType
<1>2. UNCHANGED <<journal, retained, live, archives, entry, saved, hand, prepared, crashes, faults>>
  BY DEF stores, panel
<1>3. TypeOK'
  BY <1>1, <1>2 DEF TypeOK, WorkType
<1>4. EntryInv'
  BY <1>2 DEF EntryInv
<1>5. RecordInv'
  BY <1>2, RecordSame
<1>6. JobInv'
  BY <1>1, <1>2 DEF JobInv
<1>7. StepInv'
  BY <1>1, <1>2 DEF StepInv, Armable, RecordInv, RestoredIsRestored
<1> QED BY <1>3, <1>4, <1>5, <1>6, <1>7 DEF Kept

\* An installation starts for a panel nobody owns, an update for one that is owned on disk.
LEMMA StartTransactionKeeps == ASSUME IInv, StartInstall \/ StartUpdate PROVE Kept
<1> USE DEF IInv
<1>1. /\ nextId \in Ids /\ nextId' \in 1 .. MaxTransactions + 1 /\ Armable
      /\ {"install", "update"} \subseteq Jobs \ {"none"} /\ "capture" \in Steps
  BY ReleaseFacts DEF StartInstall, StartUpdate, Jobs, Steps
<1>2. CASE StartInstall
  <2>1. /\ Takes("install", "capture", nextId) /\ flow' = "open" /\ entry = "none"
        /\ UNCHANGED <<stores, panel, entry, saved, wanted, hand, prepared, crashes, faults>>
    BY <1>2 DEF StartInstall
  <2>2. flow' \in Flows /\ wanted' \in BOOLEAN
    BY <2>1, Types DEF Flows
  <2> QED BY <1>1, <2>1, <2>2, StartKeeps
<1>3. CASE StartUpdate
  <2>1. /\ Takes("update", "capture", nextId) /\ saved = "owned"
        /\ UNCHANGED <<stores, panel, owner, crashes, faults>>
    BY <1>3 DEF StartUpdate, Managed
  <2>2. /\ UNCHANGED <<flow, wanted, entry, saved, hand, prepared>>
        /\ flow' \in Flows /\ wanted' \in BOOLEAN
    BY <2>1, Types DEF owner
  <2> QED BY <1>1, <2>1, <2>2, StartKeeps
<1> QED BY <1>2, <1>3

\* A recovery, an operator's order, and what a flow starts for a panel nobody owns.
LEMMA StartOrderKeeps ==
    ASSUME IInv, StartRecovery \/ StartRollback \/ StartFinalize \/ StartOwnerlessFinalize
                 \/ StartOwnerlessRecovery
    PROVE  Kept
<1> USE DEF IInv
<1>1. /\ {"recover", "operator", "settle"} \subseteq Jobs \ {"none"}
      /\ {"scan", "ask", "intend", "intend_ownerless", "prune", "triage"} \subseteq Steps
      /\ retained.id \in {0} \cup Ids /\ journal.id \in {0} \cup Ids /\ 0 \in {0} \cup Ids
  BY DEF Jobs, Steps, TypeOK
<1>2. /\ UNCHANGED <<stores, panel, flow, entry, saved, hand, prepared, nextId, crashes, faults>>
      /\ wanted' \in BOOLEAN /\ flow' \in Flows /\ nextId' \in 1 .. MaxTransactions + 1
  <2>1. UNCHANGED <<stores, panel, flow, entry, saved, hand, prepared, nextId, crashes, faults>>
    BY DEF StartRecovery, StartRollback, StartFinalize, StartOwnerlessFinalize,
           StartOwnerlessRecovery, owner, bounds
  <2>2. wanted' \in BOOLEAN
    BY Types DEF StartRecovery, StartRollback, StartFinalize, StartOwnerlessFinalize,
                 StartOwnerlessRecovery, owner
  <2> QED BY <2>1, <2>2 DEF TypeOK
<1>3. CASE StartRecovery
  <2>1. Takes("recover", "scan", 0)
    BY <1>3 DEF StartRecovery
  <2> QED BY <1>1, <1>2, <2>1, StartKeeps
<1>4. CASE StartRollback
  <2>1. Takes("operator", "ask", retained.id)
    BY <1>4 DEF StartRollback
  <2> QED BY <1>1, <1>2, <2>1, StartKeeps
<1>5. CASE StartFinalize
  <2>1. Takes("operator", "intend", retained.id) /\ journal.id = 0
    BY <1>5 DEF StartFinalize
  <2> QED BY <1>1, <1>2, <2>1, StartKeeps
<1>6. CASE StartOwnerlessFinalize
  <2>1. Takes("operator", "intend_ownerless", retained.id)
    BY <1>6 DEF StartOwnerlessFinalize
  <2> QED BY <1>1, <1>2, <2>1, StartKeeps
<1>7. CASE StartOwnerlessRecovery
  <2>1. journal.phase # "committed"
    BY <1>7 DEF StartOwnerlessRecovery, Recoverable
  <2>2. \/ retained.state = "restored" /\ Takes("settle", "prune", journal.id)
        \/ Takes("recover", "triage", journal.id)
    BY <1>7 DEF StartOwnerlessRecovery
  <2> QED BY <1>1, <1>2, <2>1, <2>2, StartKeeps
<1> QED BY <1>3, <1>4, <1>5, <1>6, <1>7

-----------------------------------------------------------------------------
(* The flow, the entry and its disk.                                        *)

\* The pending commit is journalled when no job runs.
LEMMA MarkPendingKeeps == ASSUME IInv, MarkPending PROVE Kept
<1> USE DEF IInv
<1>1. /\ flow = "installed" /\ work = Idle /\ StoresFree /\ work' = work
      /\ UNCHANGED <<retained, live, archives, entry, saved, hand, prepared, nextId, crashes>>
      /\ flow' \in {"ready", "none"} /\ wanted' \in BOOLEAN
  BY Types DEF MarkPending, panel, bounds
<1>2. /\ \/ UNCHANGED journal
         \/ journal.phase \in {"verifying", "pending_config_commit"}
            /\ journal' = Moved("pending_config_commit")
      /\ flow' = "ready" => journal.phase \in {"verifying", "pending_config_commit"}
                            /\ journal' = Moved("pending_config_commit")
  BY DEF MarkPending
<1>3. faults' \in 0 .. MaxFaults
  BY ProvisioningAssumption DEF MarkPending, TypeOK
<1>4. /\ journal' \in JournalType
      /\ journal'.id = journal.id /\ journal'.operation = journal.operation
      /\ journal'.phase = journal.phase \/ (/\ journal.phase \in {"verifying", "pending_config_commit"}
                                            /\ journal'.phase = "pending_config_commit")
      /\ flow' = "ready" => journal'.phase = "pending_config_commit"
  BY <1>2, Types DEF Moved, JournalType, Phases
<1>5. TypeOK'
  BY <1>1, <1>3, <1>4 DEF TypeOK, JournalType, Flows
<1>6. EntryInv'
  BY <1>1 DEF EntryInv, StoresFree
<1>7. RecordInv'
  <2>1. StoresInv'
    BY <1>1, <1>2, <1>4 DEF RecordInv, StoresInv, NoJournal, Phases
  <2> QED BY <1>1, <1>4, <2>1
          DEF RecordInv, OwnerInv, CanBeUndone, OwnedOrUndone, RestoredIsRestored
<1>8. JobInv' /\ StepInv'
  BY <1>1 DEF JobInv, StepInv, Idle
<1> QED BY <1>5, <1>6, <1>7, <1>8 DEF Kept

\* The entry is created for a transaction that is pending, by a flow without a job.
LEMMA CreateEntryKeeps == ASSUME IInv, CreateEntry PROVE Kept
<1> USE DEF IInv
<1>1. /\ flow = "ready" /\ flow' = "none" /\ entry' = "marked" /\ prepared' = FALSE
      /\ UNCHANGED <<journal, retained, live, archives, work, nextId, crashes, faults,
                     saved, wanted, hand>>
  BY DEF CreateEntry, stores, panel, bounds
<1>2. entry = "none" /\ hand = "none" /\ saved = "none"
  BY <1>1 DEF EntryInv, TypeOK
<1>3. TypeOK'
  <2>1. entry' \in Entries /\ flow' \in Flows /\ prepared' \in BOOLEAN
    BY <1>1 DEF Entries, Flows
  <2> QED BY <1>1, <2>1 DEF TypeOK
<1>4. EntryInv'
  BY <1>1, <1>2 DEF EntryInv
<1>5. RecordInv'
  BY <1>1, <1>2 DEF RecordInv, StoresInv, OwnerInv, CanBeUndone, OwnedOrUndone,
                    RestoredIsRestored, NoJournal
<1>6. JobInv' /\ StepInv'
  BY <1>1, <1>2 DEF JobInv, StepInv, Armable
<1> QED BY <1>3, <1>4, <1>5, <1>6 DEF Kept

\* The flow ends, and with it an installation that still runs.
LEMMA FlowEndsKeeps == ASSUME IInv, CloseFlow \/ FlowPops PROVE Kept
<1> USE DEF IInv
<1>1. /\ flow' = "none" /\ wanted' \in BOOLEAN
      /\ UNCHANGED <<journal, retained, live, archives, nextId, crashes, faults,
                     entry, saved, hand, prepared>>
  BY Types DEF CloseFlow, FlowPops, stores, panel, bounds
<1>2. work' \in WorkType /\ work'.job = work.job /\ work'.step = work.step /\ work'.id = work.id
  <2>1. UNCHANGED work \/ work' = [work EXCEPT !.cut = TRUE]
    BY DEF CloseFlow, FlowPops
  <2> QED BY <2>1, Types DEF WorkType
<1>3. TypeOK'
  BY <1>1, <1>2 DEF TypeOK, WorkType, Flows
<1>4. EntryInv'
  BY <1>1 DEF EntryInv
<1>5. RecordInv'
  BY <1>1, RecordSame
<1>6. JobInv' /\ StepInv'
  BY <1>1, <1>2 DEF JobInv, StepInv, Armable
<1> QED BY <1>3, <1>4, <1>5, <1>6 DEF Kept

\* The entry gets to the disk as it is in memory.
LEMMA SaveEntryKeeps == ASSUME IInv, SaveEntry PROVE Kept
<1> USE DEF IInv
<1>1. /\ saved' = entry
      /\ UNCHANGED <<journal, retained, live, archives, work, nextId, crashes, faults,
                     flow, entry, wanted, hand, prepared>>
  BY DEF SaveEntry, stores, panel, bounds
<1>2. saved # "none" => entry # "none" /\ (saved = "owned" => entry = "owned")
  BY DEF EntryInv
<1>3. TypeOK'
  BY <1>1 DEF TypeOK
<1>4. EntryInv'
  BY <1>1, <1>2 DEF EntryInv
<1>5. RecordInv'
  BY <1>1, <1>2 DEF RecordInv, StoresInv, OwnerInv, CanBeUndone, OwnedOrUndone,
                    RestoredIsRestored
<1>6. JobInv' /\ StepInv'
  BY <1>1, <1>2 DEF JobInv, StepInv, Armable
<1> QED BY <1>3, <1>4, <1>5, <1>6 DEF Kept

\* Home Assistant ends: the entry is what was on disk, and nothing runs.
LEMMA CrashKeeps == ASSUME IInv, Crash PROVE Kept
<1> USE DEF IInv
<1>1. /\ crashes' = crashes + 1 /\ crashes < MaxCrashes
      /\ entry' = saved /\ flow' = "none" /\ wanted' = FALSE
      /\ work' = Idle /\ hand' = "none" /\ prepared' = FALSE
      /\ UNCHANGED <<journal, retained, live, archives, saved, nextId, faults>>
  BY DEF Crash, stores, panel
<1>2. work' \in WorkType /\ work'.step = "none" /\ work'.job = "none"
  BY <1>1 DEF Idle, WorkType, Jobs, Steps
<1>3. crashes' \in 0 .. MaxCrashes
  BY <1>1, ProvisioningAssumption DEF TypeOK
<1>4. TypeOK'
  BY <1>1, <1>2, <1>3 DEF TypeOK, WorkType, Flows, Hands
<1>5. EntryInv'
  BY <1>1 DEF EntryInv
<1>6. RecordInv'
  BY <1>1 DEF RecordInv, StoresInv, OwnerInv, CanBeUndone, OwnedOrUndone, RestoredIsRestored
<1>7. JobInv' /\ StepInv'
  BY <1>2 DEF JobInv, StepInv
<1> QED BY <1>4, <1>5, <1>6, <1>7 DEF Kept

-----------------------------------------------------------------------------
(* FleetManager and the handoff.                                            *)

\* The entry is loaded again, or the stores ask for nothing but a recovery or a handoff.
LEMMA PrepareKeeps == ASSUME IInv, Reload \/ Prepare PROVE Kept
<1> USE DEF IInv
<1>1. /\ UNCHANGED <<journal, retained, live, archives, work, nextId, crashes, faults,
                     flow, entry, saved>>
      /\ wanted' \in BOOLEAN /\ prepared' \in BOOLEAN
  BY Types DEF Reload, Prepare, stores, panel, bounds
<1>2. \/ hand' = "none"
      \/ hand' = hand /\ prepared' = TRUE
      \/ hand' = "bound" /\ prepared' = TRUE /\ entry # "none"
  BY DEF Reload, Prepare
<1>3. TypeOK'
  BY <1>1, <1>2 DEF TypeOK, Hands
<1>4. EntryInv'
  BY <1>1, <1>2 DEF EntryInv
<1>5. RecordInv'
  BY <1>1, RecordSame
<1>6. JobInv' /\ StepInv'
  BY <1>1 DEF JobInv, StepInv, Armable
<1> QED BY <1>3, <1>4, <1>5, <1>6 DEF Kept

\* A restoration is journalled while a job runs only where that job expects it.
LEMMA PrepareRestoreKeeps == ASSUME IInv, PrepareRestore PROVE Kept
<1> USE DEF IInv
<1>1. /\ StoresFree /\ Restorable /\ retained.state = "restore_requested"
      /\ UNCHANGED <<retained, live, archives, work, nextId, crashes,
                     flow, entry, saved, wanted, hand, prepared>>
      /\ UNCHANGED journal \/ journal' = RestoreRecord
  BY DEF PrepareRestore, Requested, Restorable, Compensates, panel, owner, bounds
<1>2. faults' \in 0 .. MaxFaults
  BY ProvisioningAssumption DEF PrepareRestore, TypeOK
<1>3. RecordInv' /\ journal' \in JournalType
  BY <1>1, RestorationJournalled, RecordSame, Types DEF panel, Owner
<1>4. TypeOK'
  BY <1>1, <1>2, <1>3 DEF TypeOK, JournalType
<1>5. EntryInv'
  BY <1>1, EntryKept DEF Owner
<1>6. JobInv' /\ StepInv'
  <2>1. UNCHANGED journal \/ journal'.phase = "rollback_pending"
    BY <1>1 DEF RestoreRecord
  <2>2. retained.id # 0
    BY <1>1 DEF RecordInv, StoresInv, NoRetained
  <2> QED BY <1>1, <2>1, <2>2 DEF JobInv, StepInv, Armable
<1> QED BY <1>3, <1>4, <1>5, <1>6 DEF Kept

\* Without a job that relies on it, the journal of a committed transaction goes.
LEMMA CommittedRemoved ==
    ASSUME IInv, journal.phase = "committed", journal' = NoJournal, entry = "owned",
           UNCHANGED <<retained, panel, Owner, work>>
    PROVE  RecordInv' /\ JobInv' /\ StepInv' /\ journal' \in JournalType
<1> USE DEF IInv
<1>1. /\ saved = "owned" /\ live # Mixed /\ flow # "ready" /\ journal.id # 0
  BY DEF EntryInv, RecordInv, StoresInv, OwnerInv, NoJournal
<1>2. journal' \in JournalType /\ journal'.id = 0 /\ journal'.phase = "none"
  BY DEF NoJournal, JournalType
<1>3. RecordInv'
  BY <1>1, JournalRemoved
<1>4. JobInv' /\ StepInv'
  BY <1>1, <1>2 DEF JobInv, StepInv, Armable, panel, Owner
<1> QED BY <1>2, <1>3, <1>4

\* FleetManager removes the journal of a committed transaction.
LEMMA PrepareClearKeeps == ASSUME IInv, PrepareClear PROVE Kept
<1> USE DEF IInv
<1>1. /\ ~prepared /\ journal.phase = "committed" /\ entry = "owned" /\ prepared' \in BOOLEAN
      /\ UNCHANGED <<retained, panel, live, archives, work, nextId, crashes,
                     flow, entry, saved, wanted, hand>>
      /\ UNCHANGED journal \/ journal' = NoJournal
  BY DEF PrepareClear, panel, bounds, TypeOK
<1>2. faults' \in 0 .. MaxFaults
  BY ProvisioningAssumption DEF PrepareClear, TypeOK
<1>3. RecordInv' /\ JobInv' /\ StepInv' /\ journal' \in JournalType
  <2>1. CASE UNCHANGED journal
    BY <1>1, <2>1, RecordSame, Types DEF JobInv, StepInv, Armable
  <2>2. CASE journal' = NoJournal
    BY <1>1, <2>2, CommittedRemoved DEF Owner
  <2> QED BY <1>1, <2>1, <2>2
<1>4. TypeOK'
  BY <1>1, <1>2, <1>3 DEF TypeOK, JournalType
<1>5. EntryInv'
  BY <1>1 DEF EntryInv
<1> QED BY <1>3, <1>4, <1>5 DEF Kept

\* The marker goes, and what went is waited for on the disk.
LEMMA UnmarkKeeps == ASSUME IInv, Unmark \/ Persisted \/ HandTimesOut PROVE Kept
<1> USE DEF IInv
<1>1. /\ UNCHANGED <<journal, retained, live, archives, work, nextId, crashes, flow, saved, wanted>>
      /\ hand # "none" /\ prepared /\ entry # "none" /\ flow = "none"
  BY DEF Unmark, Persisted, HandTimesOut, stores, panel, bounds, EntryInv
<1>2. \/ hand' = "unmarked" /\ entry' = "owned" /\ prepared' = prepared
      \/ hand' = "persisted" /\ entry' = entry /\ entry = "owned" /\ saved = "owned"
         /\ prepared' = prepared
      \/ hand' = "none" /\ entry' = entry /\ prepared' = FALSE
  BY DEF Unmark, Persisted, HandTimesOut, GivesUp, EntryInv
<1>3. faults' \in 0 .. MaxFaults
  BY ProvisioningAssumption DEF Unmark, Persisted, HandTimesOut, TypeOK
<1>4. TypeOK'
  <2>1. entry' \in Entries /\ hand' \in Hands /\ prepared' \in BOOLEAN
    BY <1>2 DEF TypeOK, Entries, Hands
  <2> QED BY <1>1, <1>3, <2>1 DEF TypeOK
<1>5. EntryInv'
  BY <1>1, <1>2 DEF EntryInv
<1>6. RecordInv'
  <2>1. "marked" \in {entry', saved'} => "marked" \in {entry, saved}
    BY <1>1, <1>2
  <2>2. StoresInv' /\ CanBeUndone' /\ RestoredIsRestored'
    BY <1>1 DEF RecordInv, StoresInv, CanBeUndone, RestoredIsRestored
  <2>3. OwnerInv' /\ OwnedOrUndone'
    BY <1>1, <2>1 DEF RecordInv, OwnerInv, OwnedOrUndone
  <2> QED BY <2>2, <2>3 DEF RecordInv
<1>7. JobInv' /\ StepInv'
  BY <1>1, <1>2 DEF JobInv, StepInv, Armable
<1> QED BY <1>4, <1>5, <1>6, <1>7 DEF Kept

\* A write of the handoff: done, or given up with the write on disk or not.
LEMMA HandWritesEffect ==
    ASSUME TypeOK, NEW allowed \in BOOLEAN, NEW newJournal, NEW newRetained, NEW next,
           HandWrites(allowed, newJournal, newRetained, next)
    PROVE  /\ UNCHANGED <<live, archives, panel, work, nextId, crashes, flow, entry, saved, wanted>>
           /\ FaultsOK
           /\ \/ allowed /\ journal' = newJournal /\ retained' = newRetained
              \/ UNCHANGED <<journal, retained>>
           /\ \/ /\ allowed /\ journal' = newJournal /\ retained' = newRetained
                 /\ hand' = next /\ UNCHANGED prepared
              \/ hand' = "none" /\ prepared' = FALSE
<1>1. UNCHANGED <<live, archives, panel, work, nextId, crashes, flow, entry, saved, wanted>>
  BY DEF HandWrites, panel, bounds
<1>2. FaultsOK
  BY ProvisioningAssumption DEF HandWrites, FaultsOK, TypeOK
<1>3. CASE /\ allowed /\ faults < MaxFaults /\ faults' = faults + 1 /\ GivesUp
           /\ \E s \in {stores, <<newJournal, newRetained>>} :
                journal' = s[1] /\ retained' = s[2]
  <2>1. \/ journal' = newJournal /\ retained' = newRetained
        \/ UNCHANGED <<journal, retained>>
    BY <1>3 DEF stores
  <2> QED BY <1>1, <1>2, <1>3, <2>1 DEF GivesUp
<1>4. CASE ~allowed /\ GivesUp /\ UNCHANGED <<stores, faults>>
  BY <1>1, <1>2, <1>4 DEF GivesUp, stores
<1>5. CASE /\ allowed /\ journal' = newJournal /\ retained' = newRetained
           /\ hand' = next /\ UNCHANGED <<prepared, faults>>
  BY <1>1, <1>2, <1>5
<1> QED BY <1>3, <1>4, <1>5 DEF HandWrites

\* The baseline of an installed panel goes to its soak once the entry is owned on disk.
LEMMA HandSoakKeeps == ASSUME IInv, HandSoak PROVE Kept
<1> USE DEF IInv
<1> DEFINE allowed == journal.phase = "pending_config_commit" /\ Settable(journal.id, "soak")
<1>1. /\ hand = "persisted" /\ prepared /\ entry = "owned" /\ saved = "owned" /\ flow = "none"
      /\ HandWrites(allowed, journal, Retains("soak"), "soaked")
  BY DEF HandSoak, EntryInv
<1>2. allowed \in BOOLEAN
  BY DEF Settable
<1>3. "soak" \in States \ {"armed"}
  BY DEF States
<1>4. /\ UNCHANGED <<journal, live, archives, panel, work, nextId, crashes, flow, entry, saved, wanted>>
      /\ FaultsOK
      /\ (allowed /\ retained' = Retains("soak")) \/ UNCHANGED retained
      /\ \/ allowed /\ retained' = Retains("soak") /\ hand' = "soaked" /\ UNCHANGED prepared
         \/ hand' = "none" /\ prepared' = FALSE
  <2> HIDE DEF allowed
  <2> QED BY <1>1, <1>2, HandWritesEffect
<1>5. allowed => /\ retained.id # 0 /\ retained.state \in {"armed", "soak"}
                 /\ journal.phase = "pending_config_commit"
  <2>1. ASSUME allowed PROVE retained.id # 0
    BY <2>1, <1>3, SettableFacts
  <2>2. ASSUME allowed PROVE retained.state \in {"armed", "soak"}
    BY <2>2, Types DEF Settable, Allowed, States, RetainedType
  <2> QED BY <2>1, <2>2
<1>6. allowed => journal.id # 0
  BY DEF RecordInv, StoresInv, NoJournal
<1>7. /\ Retains("soak") \in RetainedType /\ Retains("soak").id = retained.id
      /\ Retains("soak").base = retained.base /\ Retains("soak").state = "soak"
  BY <1>3, RetainsFacts
<1> HIDE DEF allowed
<1>8. RecordInv' /\ retained' \in RetainedType
  <2>1. CASE allowed /\ retained' = Retains("soak")
    BY <1>1, <1>3, <1>4, <1>5, <1>7, <2>1, StateSet DEF Owner
  <2>2. CASE UNCHANGED retained
    BY <1>4, <2>2, RecordSame, Types
  <2> QED BY <1>4, <2>1, <2>2
<1>9. TypeOK'
  BY <1>4, <1>8 DEF TypeOK, FaultsOK, RetainedType, Hands
<1>10. EntryInv'
  BY <1>1, <1>4, <1>5, <1>7 DEF EntryInv
<1>11. JobInv'
  BY <1>4 DEF JobInv
<1>12. StepInv'
  <2>1. CASE allowed /\ retained' = Retains("soak")
    <3>1. retained'.state = "soak" /\ retained'.id = retained.id /\ retained'.base = retained.base
      BY <1>7, <2>1
    <3> QED BY <1>4, <1>5, <1>6, <2>1, <3>1 DEF StepInv, Armable
  <2>2. CASE UNCHANGED retained
    BY <1>4, <2>2 DEF StepInv, Armable
  <2> QED BY <1>4, <2>1, <2>2
<1> QED BY <1>8, <1>9, <1>10, <1>11, <1>12 DEF Kept

\* The pending transaction is committed, with its entry owned on disk.
LEMMA HandCommitKeeps == ASSUME IInv, HandCommit PROVE Kept
<1> USE DEF IInv
<1>1. /\ hand = "soaked" /\ prepared /\ entry = "owned" /\ saved = "owned" /\ flow = "none"
      /\ journal.phase = "pending_config_commit" /\ retained.state = "soak"
      /\ HandWrites(TRUE, Moved("committed"), retained, "committed") /\ TRUE \in BOOLEAN
  BY DEF HandCommit, EntryInv
<1>2. /\ UNCHANGED <<retained, live, archives, panel, work, nextId, crashes, flow, entry, saved, wanted>>
      /\ FaultsOK
      /\ journal' = Moved("committed") \/ UNCHANGED journal
      /\ \/ journal' = Moved("committed") /\ hand' = "committed" /\ UNCHANGED prepared
         \/ hand' = "none" /\ prepared' = FALSE
  BY <1>1, HandWritesEffect
<1>3. journal.id # 0 /\ live # Mixed /\ "committed" \in Phases \ {"staged"}
  BY <1>1 DEF RecordInv, StoresInv, NoJournal, Phases
<1>4. RecordInv' /\ journal' \in JournalType
  <2>1. CASE journal' = Moved("committed")
    BY <1>1, <1>2, <1>3, <2>1, PhaseMoved DEF Owner
  <2>2. CASE UNCHANGED journal
    BY <1>2, <2>2, RecordSame, Types
  <2> QED BY <1>2, <2>1, <2>2
<1>5. Moved("committed").phase = "committed" /\ Moved("committed").id = journal.id
  BY Types DEF Moved, JournalType
<1>6. TypeOK'
  BY <1>2, <1>4 DEF TypeOK, FaultsOK, JournalType, Hands
<1>7. EntryInv'
  BY <1>1, <1>2, <1>5 DEF EntryInv
<1>8. JobInv' /\ StepInv'
  <2>1. CASE journal' = Moved("committed")
    BY <1>1, <1>2, <1>3, <1>5, <2>1 DEF JobInv, StepInv, Armable
  <2>2. CASE UNCHANGED journal
    BY <1>2, <2>2 DEF JobInv, StepInv, Armable
  <2> QED BY <1>2, <2>1, <2>2
<1> QED BY <1>4, <1>6, <1>7, <1>8 DEF Kept

\* The journal of the committed transaction goes last.
LEMMA HandRemoveKeeps == ASSUME IInv, HandRemove PROVE Kept
<1> USE DEF IInv
<1>1. /\ hand = "committed" /\ prepared /\ entry = "owned" /\ saved = "owned" /\ flow = "none"
      /\ journal.phase = "committed"
      /\ HandWrites(TRUE, NoJournal, retained, "none") /\ TRUE \in BOOLEAN
  BY DEF HandRemove, EntryInv
<1>2. /\ UNCHANGED <<retained, live, archives, panel, work, nextId, crashes, flow, entry, saved, wanted>>
      /\ FaultsOK /\ hand' = "none" /\ prepared' \in BOOLEAN
      /\ journal' = NoJournal \/ UNCHANGED journal
  BY <1>1, HandWritesEffect DEF TypeOK
<1>3. RecordInv' /\ JobInv' /\ StepInv' /\ journal' \in JournalType
  <2>1. CASE UNCHANGED journal
    BY <1>2, <2>1, RecordSame, Types DEF JobInv, StepInv, Armable
  <2>2. CASE journal' = NoJournal
    BY <1>1, <1>2, <2>2, CommittedRemoved DEF Owner
  <2> QED BY <1>2, <2>1, <2>2
<1>4. TypeOK'
  BY <1>2, <1>3 DEF TypeOK, FaultsOK, JournalType, Hands
<1>5. EntryInv'
  BY <1>1, <1>2 DEF EntryInv
<1> QED BY <1>3, <1>4, <1>5 DEF Kept

-----------------------------------------------------------------------------
(* The specification.                                                       *)

\* Provisioning starts with empty stores and a panel without a new release.
LEMMA InitIInv == Init => IInv
<1> SUFFICES ASSUME Init PROVE IInv
  OBVIOUS
<1> USE DEF Init
<1>1. /\ journal.id = 0 /\ journal.operation = "none" /\ journal.phase = "none"
      /\ retained.id = 0 /\ retained.state = "none" /\ retained.base = Absent
      /\ work.step = "none" /\ work.job = "none"
  BY DEF NoJournal, NoRetained, Idle
<1>2. TypeOK
  <2>1. journal \in JournalType /\ retained \in RetainedType /\ work \in WorkType
    BY ReleaseFacts DEF NoJournal, NoRetained, Idle, JournalType, RetainedType, WorkType, Jobs,
       Steps
  <2>2. /\ faults \in 0 .. MaxFaults /\ crashes \in 0 .. MaxCrashes
    BY ProvisioningAssumption
  <2> QED BY <2>1, <2>2, ReleaseFacts
          DEF TypeOK, JournalType, RetainedType, WorkType, Flows, Entries, Hands
<1>3. live # Mixed /\ live \notin Ids
  BY ReleaseFacts, ProvisioningAssumption DEF Incumbent, Ids, Mixed, Absent
<1>4. EntryInv /\ JobInv /\ StepInv
  BY <1>1, <1>3 DEF EntryInv, JobInv, StepInv, Armable
<1>5. RecordInv
  BY <1>1, <1>3, ReleaseFacts
     DEF RecordInv, StoresInv, OwnerInv, CanBeUndone, OwnedOrUndone, RestoredIsRestored
<1> QED BY <1>2, <1>4, <1>5 DEF IInv

\* Every step keeps the invariant.
LEMMA NextIInv == IInv /\ [Next]_vars => IInv'
<1> SUFFICES ASSUME IInv, [Next]_vars PROVE IInv'
  OBVIOUS
<1>1. Kept => IInv'
  BY DEF Kept, IInv
<1>2. CASE Work \/ Crash
  BY <1>1, <1>2, WorkKeeps, CrashKeeps
<1>3. CASE \/ StartInstall \/ StartUpdate \/ StartRecovery \/ StartRollback \/ StartFinalize
           \/ StartOwnerlessFinalize \/ StartOwnerlessRecovery
  BY <1>1, <1>3, StartTransactionKeeps, StartOrderKeeps
<1>4. CASE MarkPending \/ CreateEntry \/ CloseFlow \/ FlowPops \/ SaveEntry
  BY <1>1, <1>4, MarkPendingKeeps, CreateEntryKeeps, FlowEndsKeeps, SaveEntryKeeps
<1>5. CASE Reload \/ PrepareRestore \/ Prepare \/ PrepareClear
  BY <1>1, <1>5, PrepareKeeps, PrepareRestoreKeeps, PrepareClearKeeps
<1>6. CASE Handoff \/ HandTimesOut
  BY <1>1, <1>6, UnmarkKeeps, HandSoakKeeps, HandCommitKeeps, HandRemoveKeeps DEF Handoff
<1>7. CASE UNCHANGED vars
  BY <1>7 DEF vars, stores, panel, owner, bounds, IInv, TypeOK, EntryInv, RecordInv, StoresInv,
              OwnerInv, CanBeUndone, OwnedOrUndone, RestoredIsRestored, JobInv, StepInv, Armable
<1> QED BY <1>2, <1>3, <1>4, <1>5, <1>6, <1>7 DEF Next

\* The invariant holds of every behaviour.
THEOREM IInvHolds == Spec => []IInv
BY InitIInv, NextIInv, PTL DEF Spec

\* The variables of provisioning keep their types (the stores, the entry and the SSH lock's
\* holder of fleet_manager.py and panel_provisioner.py).
THEOREM TypeCorrect == Spec => []TypeOK
<1>1. IInv => TypeOK
  BY DEF IInv
<1> QED BY <1>1, IInvHolds, PTL

\* Whatever failed or ended, a journalled transaction has its baseline retained and on the
\* panel, and a half replaced panel has a journal (async_create, async_begin_restore,
\* async_retained_state).
THEOREM AlwaysUndoable == Spec => []CanBeUndone
<1>1. IInv => CanBeUndone
  BY DEF IInv, RecordInv
<1> QED BY <1>1, IInvHolds, PTL

\* Without a journal a panel that runs a new release has an owner on disk, and no owner
\* carries the marker of a committed transaction (_async_complete_pending_handoff).
THEOREM NeverOrphaned == Spec => []OwnedOrUndone
<1>1. IInv => OwnedOrUndone
  BY DEF IInv, RecordInv
<1> QED BY <1>1, IInvHolds, PTL

\* A baseline recorded as restored runs on the panel, and its agent answered
\* (async_restore_verified).
THEOREM RestoredIsTrue == Spec => []RestoredIsRestored
<1>1. IInv => RestoredIsRestored
  BY DEF IInv, RecordInv
<1> QED BY <1>1, IInvHolds, PTL
=============================================================================
