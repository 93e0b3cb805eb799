--------------------------- MODULE FleetProvisioning ---------------------------
(***************************************************************************)
(* Provisioning as a whole: the flow that adds a panel (flow/onboarding.py *)
(* and flow/gateway.py), FleetManager, which looks at the stores whenever  *)
(* its entry is set up or changed and hands an installed panel over to the *)
(* entry (fleet_manager.py), the provisioner's jobs, and Home Assistant,   *)
(* which writes its entries some time after they change and may end        *)
(* between any two steps.                                                  *)
(***************************************************************************)
EXTENDS PanelProvisioner

-------------------------------------------------------------------------------
\* The flow.  An older baseline or journal of the panel refuses it.

StartInstall ==
    /\ flow = "none" /\ entry = "none" /\ Armable
    /\ nextId \in Ids /\ nextId' = nextId + 1
    /\ Takes("install", "capture", nextId)
    /\ flow' = "open"
    /\ UNCHANGED <<stores, panel, entry, saved, wanted, hand, prepared, crashes, faults>>

\* The flow journals that its entry is to be created (async_mark_pending_config_commit).
MarkPending ==
    /\ flow = "installed" /\ work = Idle /\ StoresFree
    /\ \/ /\ journal.phase \in {"verifying", "pending_config_commit"}
          /\ journal' = Moved("pending_config_commit")
          /\ flow' = "ready" /\ UNCHANGED <<wanted, faults>>
       \/ /\ \/ journal.phase \notin {"verifying", "pending_config_commit"}
                   /\ UNCHANGED <<journal, faults>>
             \/ /\ journal.phase = "verifying"
                /\ faults < MaxFaults /\ faults' = faults + 1
                /\ journal' \in {journal, Moved("pending_config_commit")}
          /\ flow' = "none" /\ wanted' = TRUE
    /\ UNCHANGED <<retained, panel, work, bounds, entry, saved, hand, prepared>>

\* The flow creates the entry, which carries the transaction as a marker.
CreateEntry ==
    /\ flow = "ready" /\ flow' = "none"
    /\ entry' = "marked" /\ prepared' = FALSE
    /\ UNCHANGED <<stores, panel, work, bounds, faults, saved, wanted, hand>>

\* The flow is closed or given up: a running installation is cancelled, and what was
\* marked is recovered.
CloseFlow ==
    /\ flow # "none" /\ flow' = "none"
    /\ wanted' = (wanted \/ flow # "open")
    /\ work' = IF work.job = "install" THEN [work EXCEPT !.cut = TRUE] ELSE work
    /\ UNCHANGED <<stores, panel, bounds, faults, entry, saved, hand, prepared>>

\* The flow of an installation that failed drops its mark.
FlowPops ==
    /\ flow \in {"open", "marked"} /\ work.job # "install"
    /\ flow' = "none"
    /\ UNCHANGED <<stores, panel, work, bounds, faults, entry, saved, wanted, hand, prepared>>

-------------------------------------------------------------------------------
\* Home Assistant's entries.

SaveEntry ==
    /\ entry # saved /\ saved' = entry
    /\ UNCHANGED <<stores, panel, work, bounds, faults, flow, entry, wanted, hand, prepared>>

\* The entry is loaded again.
Reload ==
    /\ prepared /\ hand = "none" /\ journal.id # 0
    /\ prepared' = FALSE
    /\ UNCHANGED <<stores, panel, work, bounds, faults, flow, entry, saved, wanted, hand>>

-------------------------------------------------------------------------------
\* FleetManager (_async_prepare_provisioning).

\* A requested restore without its journal gets it first.
Requested == retained.state = "restore_requested" /\ (journal.id = 0 \/ Compensates)
PrepareRestore ==
    /\ ~prepared /\ StoresFree
    /\ Requested /\ journal # RestoreRecord
    /\ Compensates \/ entry # "none"
    /\ \/ journal' = RestoreRecord /\ UNCHANGED faults
       \/ /\ faults < MaxFaults /\ faults' = faults + 1
          /\ journal' \in {journal, RestoreRecord}
    /\ UNCHANGED <<retained, panel, owner, work, bounds>>

\* Faulty variant: the compensation of an onboarding waits for an owner like any rollback.
MayRestoreOwned ==
    \/ journal.operation \in {"onboarding_rollback", "rollback"} /\ entry # "none"
    \/ journal.operation = "update" /\ entry = "owned"

\* May a rollback that is journalled be recovered in the background?
MayRestore ==
    \/ journal.operation = "onboarding_rollback" /\ Compensates
    \/ journal.operation = "rollback" /\ entry # "none"
    \/ journal.operation = "update" /\ entry = "owned"

\* Then the journal decides: nothing to do, a recovery, the handoff of an entry, or an
\* installation whose flow is still there.  In every other case the entry is not loaded.
Prepare ==
    /\ ~prepared /\ prepared' = TRUE
    /\ ~(Requested /\ journal # RestoreRecord)
    /\ \/ /\ journal.id = 0 /\ entry # "marked"
          /\ wanted' = (wanted \/ retained.state = "finalizing") /\ UNCHANGED hand
       \/ MayRestore /\ wanted' = TRUE /\ UNCHANGED hand
       \/ /\ journal.operation \in Onboarding /\ entry # "none"
          /\ journal.phase = "pending_config_commit"
          /\ hand' = "bound" /\ UNCHANGED wanted
       \/ /\ journal.operation \in Onboarding /\ entry = "none"
          /\ journal.phase # "committed"
          /\ wanted' = (wanted \/ ~FlowPending) /\ UNCHANGED hand
    /\ UNCHANGED <<stores, panel, work, bounds, faults, flow, entry, saved>>

\* The entry owns the panel and its commit is journalled: only the journal goes.
PrepareClear ==
    /\ ~prepared /\ journal.operation \in Onboarding
    /\ journal.phase = "committed" /\ entry = "owned"
    /\ \/ journal' = NoJournal /\ prepared' = TRUE /\ UNCHANGED faults
       \/ /\ faults < MaxFaults /\ faults' = faults + 1
          /\ journal' \in {journal, NoJournal} /\ UNCHANGED prepared
    /\ UNCHANGED <<retained, panel, work, bounds, flow, entry, saved, wanted, hand>>

-------------------------------------------------------------------------------
\* The handoff (_async_complete_pending_handoff): the marker goes, that is on disk before
\* the journal says committed, and the journal goes last.

Unmark ==
    /\ hand = "bound" /\ hand' = "unmarked" /\ entry' = "owned"
    /\ UNCHANGED <<stores, panel, work, bounds, faults, flow, saved, wanted, prepared>>

\* Faulty variant: the journal is committed while the entry is only in memory.
PersistedUnproven ==
    /\ hand = "unmarked" /\ hand' = "persisted"
    /\ UNCHANGED <<stores, panel, work, bounds, faults, flow, entry, saved, wanted, prepared>>

Persisted ==
    /\ hand = "unmarked" /\ saved = entry /\ hand' = "persisted"
    /\ UNCHANGED <<stores, panel, work, bounds, faults, flow, entry, saved, wanted, prepared>>

\* A step of the handoff fails: the entry is set up again later.
GivesUp == hand' = "none" /\ prepared' = FALSE

\* A write of the handoff: done, refused, or broken with the write on disk or not.
HandWrites(allowed, newJournal, newRetained, next) ==
    /\ \/ /\ allowed /\ journal' = newJournal /\ retained' = newRetained
          /\ hand' = next /\ UNCHANGED <<prepared, faults>>
       \/ /\ allowed /\ faults < MaxFaults /\ faults' = faults + 1 /\ GivesUp
          /\ \E s \in {stores, <<newJournal, newRetained>>} :
                journal' = s[1] /\ retained' = s[2]
       \/ ~allowed /\ GivesUp /\ UNCHANGED <<stores, faults>>
    /\ UNCHANGED <<panel, work, bounds, flow, entry, saved, wanted>>

HandSoak ==
    /\ hand = "persisted"
    /\ HandWrites(/\ journal.phase = "pending_config_commit"
                  /\ Settable(journal.id, "soak"),
                  journal, Retains("soak"), "soaked")
HandCommit ==
    hand = "soaked" /\ HandWrites(TRUE, Moved("committed"), retained, "committed")
HandRemove ==
    hand = "committed" /\ HandWrites(TRUE, NoJournal, retained, "none")

\* The entry does not get to the disk in time.
HandTimesOut ==
    /\ hand = "unmarked" /\ faults < MaxFaults /\ faults' = faults + 1
    /\ GivesUp
    /\ UNCHANGED <<stores, panel, work, bounds, flow, entry, saved, wanted>>

Handoff == Unmark \/ Persisted \/ HandSoak \/ HandCommit \/ HandRemove

-------------------------------------------------------------------------------
\* Home Assistant ends and starts again: what is left is on disk and on the panel.
Crash ==
    /\ crashes < MaxCrashes /\ crashes' = crashes + 1
    /\ entry' = saved /\ flow' = "none" /\ wanted' = FALSE
    /\ work' = Idle /\ hand' = "none" /\ prepared' = FALSE
    /\ UNCHANGED <<stores, panel, saved, nextId, faults>>

Next ==
    \/ StartInstall \/ MarkPending \/ CreateEntry \/ CloseFlow \/ FlowPops
    \/ SaveEntry \/ Reload \/ PrepareRestore \/ Prepare \/ PrepareClear
    \/ Handoff \/ HandTimesOut \/ Crash
    \/ Work \/ StartUpdate \/ StartRecovery \/ StartRollback \/ StartFinalize
    \/ StartOwnerlessFinalize \/ StartOwnerlessRecovery

(***************************************************************************)
(* Fairness: Home Assistant's tasks go on, its entries get to the disk,    *)
(* the lock is first come, first served, and somebody finishes or closes a *)
(* flow and loads the entry again while a journal is left.                 *)
(***************************************************************************)
Fairness ==
    /\ WF_vars(Work) /\ WF_vars(MarkPending) /\ WF_vars(FlowPops)
    /\ WF_vars(CreateEntry \/ CloseFlow)
    /\ WF_vars(SaveEntry) /\ WF_vars(PrepareRestore \/ Prepare \/ PrepareClear)
    /\ WF_vars(Handoff) /\ SF_vars(Reload)
    /\ SF_vars(StartRecovery)

Spec == Init /\ [][Next]_vars /\ Fairness

-------------------------------------------------------------------------------
\* Type invariant.
TypeOK ==
    /\ journal \in [id : {0} \cup Ids, operation : Operations \cup {"none"},
                    phase : Phases \cup {"none"}]
    /\ retained \in [id : {0} \cup Ids, operation : Operations \cup {"none"},
                     state : States \cup {"none"}, base : Releases,
                     proven : BOOLEAN, ownerless : BOOLEAN]
    /\ live \in Releases \cup {Mixed} /\ archives \subseteq Ids
    /\ flow \in Flows /\ {entry, saved} \subseteq Entries /\ hand \in Hands
    /\ work \in [job : Jobs, step : Steps, id : {0} \cup Ids,
                 known : Phases \cup {"none"}, cut : BOOLEAN]
    /\ {wanted, prepared} \subseteq BOOLEAN
    /\ nextId \in 1 .. MaxTransactions + 1
    /\ faults \in 0 .. MaxFaults /\ crashes \in 0 .. MaxCrashes

\* As long as a transaction is journalled, whatever failed or ended in between, its baseline
\* is retained, is not being given up and is on the panel; and a panel whose files are half
\* replaced has a journal that says so.
CanBeUndone ==
    /\ journal.id # 0 =>
          /\ retained.id = journal.id /\ retained.state # "finalizing"
          /\ journal.id \in archives
    /\ live = Mixed => journal.id # 0

\* Once the journal is gone, a panel that runs a new release has an owner on disk, and no
\* owner carries the marker of a transaction that was committed.
OwnedOrUndone ==
    journal.id = 0 =>
        /\ saved = "none" => live \notin Ids
        /\ "marked" \in {entry, saved} => retained.state \notin {"armed", "soak"}

\* A baseline that is recorded as restored is what the panel runs, and its agent answered.
RestoredIsRestored ==
    retained.state = "restored" =>
        live = retained.base /\ (retained.base = Absent \/ retained.proven)

\* The end of a restore failed after it was journalled as rolled back: see the README.
Wedged == journal.phase = "rolled_back" /\ retained.state = "rollback_failed"

\* A journalled transaction is settled: committed, cleaned up or rolled back.
TransactionsSettle ==
    \A t \in Ids : journal.id = t ~> journal.id # t \/ Wedged
===============================================================================
