---------------------------- MODULE PanelProvisioner ----------------------------
(***************************************************************************)
(* The provisioner (panel_provisioner.py): the one job at a time that holds*)
(* Home Assistant's SSH lock - an installation, an update, a recovery, an  *)
(* order of the operator - and what each of its steps does to the journal, *)
(* the retained baseline and the panel.                                    *)
(*                                                                         *)
(* A step that writes a store may fail with its write on disk or not; a    *)
(* step on the panel may fail before or after it took effect.  A failure   *)
(* sends the job where the code's handlers send it (ErrorSteps).  A step   *)
(* of the model is a step of the code up to its next durable effect.       *)
(***************************************************************************)
EXTENDS ProvisioningJournal

VARIABLES
    live,       \* the release the panel runs
    archives,   \* the baselines stored on the panel
    flow,       \* the flow that adds the panel
    entry,      \* the panel's configuration entry, as it is in memory
    saved,      \* ... and on disk
    work,       \* the holder of the SSH lock: its job, the step it is at, its transaction,
                \* the phase it has seen journalled (known) and whether it was cancelled (cut)
    wanted,     \* a recovery waits for the SSH lock
    hand,       \* where FleetManager's handoff of an installed panel stands
    prepared,   \* FleetManager has looked at the stores since the entry last changed
    nextId,     \* the next transaction
    faults,     \* steps that failed so far
    crashes     \* ends of Home Assistant so far

stores == <<journal, retained>>
panel == <<live, archives>>
owner == <<flow, entry, saved, wanted, hand, prepared>>
bounds == <<nextId, crashes>>
vars == <<stores, panel, owner, work, bounds, faults>>

Flows == {"none", "open", "marked", "installed", "ready"}
Entries == {"none", "marked", "owned"}
Hands == {"none", "bound", "unmarked", "persisted", "soaked", "committed"}
Jobs == {"none", "install", "update", "recover", "settle", "operator"}
Steps == {"none", "capture", "arm", "create", "mark_flow", "stage", "to_ap", "activate",
          "switch", "to_a", "health", "to_v", "report", "to_p", "soak", "commit", "remove",
          "undo", "compensate", "unstage", "forget", "retreat", "request", "begin", "restore",
          "reswitch", "verify", "restored", "prune", "rolled_back", "clear", "failed", "scan",
          "rebegin", "triage", "restart", "relook", "ask", "ask_begin", "intend",
          "intend_ownerless", "purge", "drop"}

Idle == [job |-> "none", step |-> "none", id |-> 0, known |-> "none", cut |-> FALSE]

Init ==
    /\ journal = NoJournal /\ retained = NoRetained
    /\ live \in {Absent, Incumbent} /\ archives = {}
    /\ flow = "none" /\ entry = "none" /\ saved = "none"
    /\ work = Idle /\ wanted = FALSE /\ hand = "none" /\ prepared = TRUE
    /\ nextId = 1 /\ faults = 0 /\ crashes = 0

-------------------------------------------------------------------------------
\* Where the work goes.

Goto(s) == work' = IF s = "end" THEN Idle ELSE [work EXCEPT !.step = s]

\* The steps inside async_restore_verified, whose failure is recorded.
RestoreSteps == {"restore", "reswitch", "verify", "restored", "prune", "rolled_back", "clear"}

\* Where a failure sends the work.  The deadline around a whole recovery cancels the
\* restore instead, and records nothing.
ErrorSteps ==
    CASE work.job = "settle" -> {"end"}
      [] work.job # "settle" /\ work.step \in RestoreSteps ->
            {"failed"} \cup (IF work.job = "recover" THEN {"end"} ELSE {})
      [] work.job = "install" /\ work.step \in
            {"capture", "arm", "create", "mark_flow", "stage", "to_ap", "activate", "switch",
             "to_a", "health", "to_v", "report"} -> {"compensate"}
      [] work.job = "update" /\ work.step \in
            {"activate", "switch", "health", "to_a", "to_v", "to_p", "soak", "commit",
             "remove"} -> {"undo"}
      [] work.job = "recover" /\ work.step = "restart" -> {"request", "end"}
      [] OTHER -> {"end"}

At(s) == work.step = s
Holds == ~work.cut /\ UNCHANGED faults
Refused == UNCHANGED faults /\ \E s \in ErrorSteps : Goto(s)
Breaks ==
    /\ IF work.cut THEN UNCHANGED faults ELSE faults < MaxFaults /\ faults' = faults + 1
    /\ \E s \in ErrorSteps : Goto(s)

\* The journal's own lock is held by the commit of a handoff.
StoresFree == hand \notin {"soaked", "committed"}

\* A write of one store: done, refused, or broken with the write on disk or not.
SaveJournal(allowed, record, next) ==
    /\ StoresFree
    /\ \/ allowed /\ Holds /\ journal' = record /\ Goto(next)
       \/ allowed /\ Breaks /\ journal' \in {journal, record}
       \/ ~allowed /\ Refused /\ UNCHANGED journal
    /\ UNCHANGED <<retained, panel, owner, bounds>>
SaveRetained(allowed, record, next) ==
    /\ StoresFree
    /\ \/ allowed /\ Holds /\ retained' = record /\ Goto(next)
       \/ allowed /\ Breaks /\ retained' \in {retained, record}
       \/ ~allowed /\ Refused /\ UNCHANGED retained
    /\ UNCHANGED <<journal, panel, owner, bounds>>

\* A step on the panel: what runs and what is archived become thus.
OnPanel(allowed, runs, stored, next) ==
    /\ \/ allowed /\ Holds /\ live' = runs /\ archives' = stored /\ Goto(next)
       \/ /\ allowed /\ Breaks
          /\ \E p \in {panel, <<runs, stored>>} : live' = p[1] /\ archives' = p[2]
       \/ ~allowed /\ Refused /\ UNCHANGED panel
    /\ UNCHANGED <<stores, owner, bounds>>

\* A step that changes nothing durable.
Passes(next) ==
    /\ (Holds /\ Goto(next)) \/ Breaks
    /\ UNCHANGED <<stores, panel, owner, bounds>>
\* A branch of the code.
Turns(next) == UNCHANGED <<stores, panel, owner, bounds, faults>> /\ Goto(next)

\* async_transition: one approved edge.  The provisioner notes the phase when it returns.
Moved(phase) == [journal EXCEPT !.phase = phase]
MayMove(phase) == journal.id = work.id /\ phase \in Transitions[journal.phase]
Transition(s, phase, next) ==
    /\ At(s) /\ StoresFree
    /\ \/ /\ MayMove(phase) /\ Holds /\ journal' = Moved(phase)
          /\ work' = IF next = "end" THEN Idle
                     ELSE [work EXCEPT !.step = next, !.known = phase]
       \/ MayMove(phase) /\ Breaks /\ journal' \in {journal, Moved(phase)}
       \/ ~MayMove(phase) /\ Refused /\ UNCHANGED journal
    /\ UNCHANGED <<retained, panel, owner, bounds>>

\* async_retained_state.
Retains(state) == [retained EXCEPT !.state = state]
Sets(s, state, next) ==
    At(s) /\ SaveRetained(Settable(work.id, state), Retains(state), next)

-------------------------------------------------------------------------------
\* An installation and an update.

\* The baseline is captured, verified and archived before anything else changes.
Capture ==
    At("capture") /\ OnPanel(TRUE, live, archives \cup {work.id}, "arm")

Operation == IF work.job = "update" THEN "update"
             ELSE IF live = Absent THEN "install" ELSE "upgrade"
Arm == At("arm") /\ SaveRetained(TRUE, ArmedRecord(work.id, Operation, live), "create")
Create ==
    LET record == StagedRecord(work.id, Operation)
    IN  /\ At("create") /\ StoresFree
        /\ \/ /\ Holds /\ journal' = record
              /\ work' = [work EXCEPT !.known = "staged",
                            !.step = IF work.job = "update" THEN "to_ap" ELSE "mark_flow"]
           \/ Breaks /\ journal' \in {journal, record}
        /\ UNCHANGED <<retained, panel, owner, bounds>>

\* The progress report of the staging marks the flow with the transaction.
MarkFlow ==
    /\ At("mark_flow")
    /\ \/ flow = "open" /\ Holds /\ Goto("stage") /\ flow' = "marked"
       \/ Breaks /\ UNCHANGED flow
    /\ UNCHANGED <<stores, panel, bounds, entry, saved, wanted, hand, prepared>>

\* Upload and preflight.
Stage == At("stage") /\ Passes("to_ap")
ToActivationPending == Transition("to_ap", "activation_pending", "activate")
Activate == At("activate") /\ OnPanel(TRUE, Mixed, archives, "switch")
Switch ==
    /\ At("switch")
    /\ OnPanel(TRUE, work.id, archives, IF work.job = "update" THEN "health" ELSE "to_a")
ToActivated ==
    Transition("to_a", "activated", IF work.job = "update" THEN "to_v" ELSE "health")
Health == At("health") /\ Passes(IF work.job = "update" THEN "to_a" ELSE "to_v")
ToVerifying ==
    Transition("to_v", "verifying",
               CASE work.job = "update" -> "to_p"
                 [] work.job = "install" -> "report"
                 [] OTHER -> "relook")

\* The installation is done: the flow goes on to journal the pending commit.
ReportDone ==
    /\ At("report")
    /\ \/ Holds /\ Goto("end") /\ flow' = "installed"
       \/ Breaks /\ UNCHANGED flow
    /\ UNCHANGED <<stores, panel, bounds, entry, saved, wanted, hand, prepared>>

\* async_complete_commit, by the job of an update or of a recovery.
ToPending == Transition("to_p", "pending_config_commit",
                        IF work.job = "update" THEN "soak" ELSE "end")
Soak == Sets("soak", "soak", "commit")
Commit ==
    At("commit") /\ SaveJournal(journal.phase = "pending_config_commit",
                                Moved("committed"), "remove")
Remove == At("remove") /\ SaveJournal(TRUE, NoJournal, "end")

\* A failed update is undone, unless it is committed (or its journal is gone).
Undo ==
    At("undo") /\ Turns(IF journal.id = 0 \/ journal.phase = "committed"
                        THEN "end" ELSE "request")

-------------------------------------------------------------------------------
\* Compensation of a failed installation.  It goes on when its caller is cancelled.

Compensate ==
    /\ At("compensate")
    /\ work' = IF work.known = "none" THEN Idle
               ELSE [work EXCEPT !.cut = FALSE,
                        !.step = IF work.known = "staged" THEN "unstage" ELSE "retreat"]
    /\ UNCHANGED <<stores, panel, owner, bounds, faults>>

\* A candidate that was never activated is removed; the panel refuses if it is in use.
Unstage ==
    At("unstage") /\ OnPanel(live \notin {work.id, Mixed}, live, archives, "forget")
Forget == At("forget") /\ SaveJournal(journal.phase = "staged", NoJournal, "end")

Retreat == Transition("retreat", "rollback_pending", "request")

\* _async_recovery_rollback: the intent is durable before the panel is touched.
Request == Sets("request", "restore_requested", "begin")
Begin == At("begin") /\ SaveJournal(Restorable, RestoreRecord, "restore")

\* rollback_snapshot.
Restore == At("restore") /\ OnPanel(work.id \in archives, Mixed, archives, "reswitch")
\* Faulty variant: the restore is not compared with the snapshot.
ReswitchUnchecked ==
    /\ At("reswitch")
    /\ \E runs \in {retained.base, Mixed} :
          OnPanel(TRUE, runs, archives,
                  IF retained.base = Absent THEN "prune" ELSE "verify")
Reswitch ==
    /\ At("reswitch")
    /\ OnPanel(TRUE, retained.base, archives,
               IF retained.base = Absent THEN "prune" ELSE "verify")
\* The restored agent answers under a new deployment, and that evidence is recorded.
Verify == At("verify") /\ Passes("restored")
Restored ==
    LET record == [Retains("restored") EXCEPT !.proven = retained.base # Absent]
    IN  /\ At("restored")
        /\ SaveRetained(Settable(work.id, "restored"), record,
                        IF retained.base = Absent THEN "clear" ELSE "prune")
Prune ==
    /\ At("prune")
    /\ OnPanel(live \notin {work.id, Mixed}, live, archives,
               IF retained.base = Absent THEN "restored" ELSE "rolled_back")
RolledBack ==
    /\ At("rolled_back")
    /\ IF journal.phase = "rolled_back" THEN Turns("clear")
       ELSE SaveJournal(journal.phase = "rollback_pending", Moved("rolled_back"), "clear")
Clear == At("clear") /\ SaveJournal(TRUE, NoJournal, "end")

\* The failure of a restore is recorded with the retained baseline.
Failed == Sets("failed", "rollback_failed", "end")

-------------------------------------------------------------------------------
\* Recovery (async_recover).

\* The retained baseline first: an interrupted finalization goes on, a requested restore
\* gets its journal.
Scan ==
    /\ At("scan")
    /\ Turns(CASE retained.state = "finalizing" ->
                    IF retained.ownerless \/ entry = "none" THEN "end" ELSE "purge"
               [] retained.state = "restore_requested" ->
                    IF Compensates \/ entry # "none" THEN "rebegin" ELSE "end"
               [] OTHER -> "triage")
Rebegin == At("rebegin") /\ SaveJournal(Restorable, RestoreRecord, "triage")

\* _async_transaction_lookup: is the flow or the entry of this transaction still there?
FlowPending == flow \in {"marked", "installed", "ready"} \/ entry # "none"

\* Then the journal, according to its phase.
Course ==
    CASE journal.phase = "none" -> "end"
      [] journal.phase = "rolled_back" -> IF Verified THEN "remove" ELSE "end"
      [] journal.phase = "committed" -> "remove"
      [] journal.phase = "staged" -> "unstage"
      [] journal.phase = "pending_config_commit" /\ journal.operation = "update" -> "soak"
      [] journal.phase = "pending_config_commit" /\ FlowPending -> "end"
      [] journal.phase \in {"activated", "verifying"} /\ journal.operation # "update" ->
            IF FlowPending THEN "restart" ELSE "request"
      [] OTHER -> "request"
Triage ==
    /\ At("triage")
    /\ work' = IF Course = "end" THEN Idle
               ELSE [work EXCEPT !.step = Course, !.id = journal.id]
    /\ UNCHANGED <<stores, panel, owner, bounds, faults>>

\* A candidate whose flow is there is restarted, and rolled back if it does not answer.
Restart ==
    /\ At("restart")
    /\ OnPanel(live = work.id, live, archives,
               IF journal.phase = "activated" THEN "to_v" ELSE "relook")
Relook == At("relook") /\ Turns(IF FlowPending THEN "to_p" ELSE "request")

-------------------------------------------------------------------------------
\* Giving a baseline up, and an operator's rollback.

Asked == Sets("ask", "restore_requested", "ask_begin")
AskedBegin ==
    /\ At("ask_begin") /\ StoresFree
    /\ \/ Restorable /\ Holds /\ journal' = RestoreRecord /\ Goto("end") /\ wanted' = TRUE
       \/ /\ Restorable /\ Breaks /\ journal' \in {journal, RestoreRecord}
          /\ UNCHANGED wanted
       \/ ~Restorable /\ Refused /\ UNCHANGED <<journal, wanted>>
    /\ UNCHANGED <<retained, panel, bounds, flow, entry, saved, hand, prepared>>

Intend == Sets("intend", "finalizing", "purge")
IntendOwnerless ==
    /\ At("intend_ownerless")
    /\ SaveRetained(journal.id = 0 /\ Forgettable,
                    [Retains("finalizing") EXCEPT !.ownerless = TRUE], "purge")
Purge == At("purge") /\ OnPanel(TRUE, live, archives \ {retained.id}, "drop")
Drop ==
    /\ At("drop")
    /\ SaveRetained(retained.state = "finalizing", NoRetained,
                    IF work.job = "recover" THEN "triage" ELSE "end")

Work ==
    \/ Capture \/ Arm \/ Create \/ MarkFlow \/ Stage \/ ToActivationPending \/ Activate
    \/ Switch \/ ToActivated \/ Health \/ ToVerifying \/ ReportDone \/ ToPending \/ Soak
    \/ Commit \/ Remove \/ Undo \/ Compensate \/ Unstage \/ Forget \/ Retreat \/ Request
    \/ Begin \/ Restore \/ Reswitch \/ Verify \/ Restored \/ Prune \/ RolledBack \/ Clear
    \/ Failed \/ Scan \/ Rebegin \/ Triage \/ Restart \/ Relook \/ Asked \/ AskedBegin
    \/ Intend \/ IntendOwnerless \/ Purge \/ Drop

-------------------------------------------------------------------------------
\* What starts a job: the lock is free.

Takes(job, step, t) ==
    /\ work = Idle
    /\ work' = [Idle EXCEPT !.job = job, !.step = step, !.id = t]

\* The panel has a manager that takes orders.  An entry is on disk seconds after it changed,
\* before anybody gives one.
Managed == entry # "none" /\ saved = entry /\ prepared

StartUpdate ==
    /\ Managed /\ entry = "owned" /\ Armable
    /\ nextId \in Ids /\ nextId' = nextId + 1
    /\ Takes("update", "capture", nextId)
    /\ UNCHANGED <<stores, panel, owner, crashes, faults>>

StartRecovery ==
    /\ wanted /\ wanted' = FALSE
    /\ Takes("recover", "scan", 0)
    /\ UNCHANGED <<stores, panel, bounds, faults, flow, entry, saved, hand, prepared>>

\* async_rollback: an order of the panel's owner.
StartRollback ==
    /\ Managed /\ retained.id # 0
    /\ journal.id \in {0, retained.id}
    /\ Takes("operator", "ask", retained.id)
    /\ UNCHANGED <<stores, panel, owner, bounds, faults>>

\* async_finalize.
\* Faulty variant: a baseline is given up while its transaction is journalled.
StartFinalizeAnyway ==
    /\ Managed /\ retained.id # 0 /\ ~retained.ownerless
    /\ Takes("operator", "intend", retained.id)
    /\ UNCHANGED <<stores, panel, owner, bounds, faults>>
StartFinalize ==
    /\ Managed /\ retained.id # 0
    /\ journal.id = 0 /\ ~retained.ownerless
    /\ Takes("operator", "intend", retained.id)
    /\ UNCHANGED <<stores, panel, owner, bounds, faults>>

\* The two that a flow with a fresh login starts for a panel nobody owns.
StartOwnerlessFinalize ==
    /\ entry = "none" /\ journal.id = 0 /\ Forgettable
    /\ Takes("operator", "intend_ownerless", retained.id)
    /\ UNCHANGED <<stores, panel, owner, bounds, faults>>
StartOwnerlessRecovery ==
    /\ ~FlowPending /\ Recoverable
    /\ IF retained.state = "restored" /\ journal.phase = "rollback_pending"
       THEN Takes("settle", "prune", journal.id)
       ELSE Takes("recover", "triage", journal.id)
    /\ UNCHANGED <<stores, panel, owner, bounds, faults>>
===============================================================================
