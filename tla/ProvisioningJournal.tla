-------------------------- MODULE ProvisioningJournal --------------------------
(***************************************************************************)
(* The two durable stores of a provisioning transaction in Home Assistant  *)
(* (provisioning_journal.py): the journal, which holds the one transaction *)
(* in progress, and the retained baseline, which holds what a panel ran    *)
(* before it until an operator gives that guarantee up.                    *)
(*                                                                         *)
(* Every operation of the code holds one lock, reads the store again and   *)
(* reads back what it wrote, so the model has the stores themselves and no *)
(* copy of them in memory.  The panel of the model has one baseline: a     *)
(* second one for the same SSH identity is refused (Armable).              *)
(***************************************************************************)
EXTENDS Naturals

CONSTANTS
    MaxTransactions,    \* bound: transactions started
    MaxFaults,          \* bound: steps of a store or of the panel that fail
    MaxCrashes          \* bound: ends of Home Assistant at any point

ASSUME ProvisioningAssumption ==
    {MaxTransactions, MaxFaults, MaxCrashes} \subseteq Nat

\* What a panel can run: nothing, the agent found on it, or the release of a transaction.
\* While files and links are being replaced it is Mixed.
Ids == 1 .. MaxTransactions
Absent == 0
Incumbent == MaxTransactions + 1
Mixed == MaxTransactions + 2
Releases == {Absent, Incumbent} \cup Ids

Operations == {"install", "upgrade", "update", "rollback", "onboarding_rollback"}
Onboarding == {"install", "upgrade"}
Phases == {"staged", "activation_pending", "activated", "verifying",
           "pending_config_commit", "committed", "rollback_pending", "rolled_back"}
States == {"armed", "soak", "restore_requested", "restored", "finalizing", "rollback_failed"}

NoJournal == [id |-> 0, operation |-> "none", phase |-> "none"]
NoRetained == [id |-> 0, operation |-> "none", state |-> "none", base |-> Absent,
               proven |-> FALSE, ownerless |-> FALSE]

VARIABLES
    journal,        \* the record in the journal's store
    retained        \* the record in the retained store; proven: recovery_deployment_id is
                    \* set; ownerless: finalization_origin is; base: the prior snapshot

\* _TRANSITIONS: the phases async_transition may reach.
Transitions ==
    [p \in Phases \cup {"none"} |->
        CASE p = "staged" -> {"activation_pending", "rollback_pending"}
          [] p = "activation_pending" -> {"activated", "rollback_pending"}
          [] p = "activated" -> {"verifying", "rollback_pending"}
          [] p = "verifying" -> {"pending_config_commit", "rollback_pending"}
          [] p = "pending_config_commit" -> {"rollback_pending"}
          [] OTHER -> {}]

\* The states async_retained_state may reach (setting the same state again is allowed).
Allowed ==
    [s \in States \cup {"none"} |->
        CASE s = "armed" ->
                {"soak", "restore_requested", "finalizing", "restored", "rollback_failed"}
          [] s = "soak" -> {"restore_requested", "finalizing"}
          [] s = "restore_requested" -> {"restored", "rollback_failed"}
          [] s = "rollback_failed" -> {"restore_requested", "restored", "finalizing"}
          [] s = "restored" -> {"restore_requested", "finalizing", "rollback_failed"}
          [] OTHER -> {}]

\* May the retained record of a transaction be set to this state?
Settable(t, state) ==
    /\ retained.id = t
    /\ (state = retained.state \/ state \in Allowed[retained.state])

\* May a new transaction be armed and journalled?
Armable == journal.id = 0 /\ retained.id = 0

\* async_create: the baseline is armed first, then the transaction is staged.
ArmedRecord(t, op, base) ==
    [id |-> t, operation |-> op, state |-> "armed", base |-> base, proven |-> FALSE,
     ownerless |-> FALSE]
StagedRecord(t, op) == [id |-> t, operation |-> op, phase |-> "staged"]

\* compensation_password: may the baseline be restored with the credential that only the
\* journal of its own onboarding holds?
Compensates ==
    /\ journal.id # 0 /\ journal.id = retained.id
    /\ retained.operation \in Onboarding
    /\ \/ /\ journal.operation = "onboarding_rollback"
          /\ retained.state \in {"restore_requested", "restored", "rollback_failed"}
          /\ journal.phase \in {"rollback_pending", "rolled_back"}
       \/ /\ journal.operation = retained.operation
          /\ retained.state = "restore_requested"
          /\ journal.phase \notin {"committed", "rolled_back"}

\* async_begin_restore: the journal's record of a restoration.
RestoreRecord ==
    [id |-> retained.id, phase |-> "rollback_pending",
     operation |-> IF Compensates THEN "onboarding_rollback" ELSE "rollback"]
Restorable ==
    retained.state = "restore_requested" /\ journal.id \in {0, retained.id}

\* May an ownerless, verified restore be given up (ownerless_finalization_allowed)?
Forgettable ==
    /\ retained.operation \in Onboarding
    /\ \/ retained.state = "restored"
       \/ retained.state = "finalizing" /\ retained.ownerless
    /\ (retained.base = Absent \/ retained.proven)

\* May a flow with a fresh login drive the compensation of this journal
\* (ownerless_journal_recovery_allowed)?
Recoverable ==
    /\ journal.id # 0 /\ journal.id = retained.id
    /\ journal.operation \in Onboarding \cup {"onboarding_rollback"}
    /\ journal.phase # "committed"
    /\ retained.operation \in Onboarding /\ ~retained.ownerless
    /\ \/ /\ retained.state \in {"armed", "restore_requested", "rollback_failed"}
          /\ journal.phase # "rolled_back"
       \/ /\ retained.state = "restored"
          /\ journal.phase \in {"rollback_pending", "rolled_back"}
          /\ (retained.base = Absent \/ retained.proven)

\* Is it proven that the journalled panel runs what it ran before?
Verified == retained.id = journal.id /\ retained.state = "restored" /\ retained.proven
===============================================================================
