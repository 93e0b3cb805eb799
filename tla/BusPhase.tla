------------------------------- MODULE BusPhase -------------------------------
(***************************************************************************)
(* How the agent testifies about the panel's bus (brilliant_mqtt/          *)
(* heartbeat.py): a heartbeat after successful reads, and a phase marker   *)
(* that says since when attempts at the bus have been failing.  A live     *)
(* writer holds a lock, its lease, on the marker's inode.  Every file      *)
(* operation may fail.  Times are ages, capped at Old.                     *)
(***************************************************************************)
EXTENDS Naturals

CONSTANTS
    StaleAfter,    \* BUS_WATCHDOG_STALE_AFTER
    Retention,     \* DEAD_WRITER_RETENTION_S
    MaxFaults      \* bound: failures, crashes and restarts in a behaviour

ASSUME PhaseAssumption ==
    /\ StaleAfter \in Nat /\ Retention \in Nat /\ MaxFaults \in Nat
    /\ 0 < Retention /\ Retention < StaleAfter

Old == StaleAfter
Age == 0 .. Old
Older(a) == IF a < Old THEN a + 1 ELSE Old

\* mine: written by the process started last; seen: the watchdog has sampled
\* this very record under its lease.  "untimed" and "unarmed" carry no evidence.
Markers ==
    [phase : {"none", "pre_bus", "bus"}, mine : BOOLEAN, fail : Age, upd : Age,
     ok : {"untimed", "unarmed", "attempt", "success"}, seen : BOOLEAN]
NoMarker == [phase |-> "none", mine |-> FALSE, fail |-> 0, upd |-> 0,
             ok |-> "untimed", seen |-> FALSE]

VARIABLES
    stage,    \* of the agent: "pre" its session begins, "bus" it uses the bus, "off" it is dead
    marker,   \* the marker file
    leased,   \* does the live agent hold the lock of the inode at the marker's path?
    owned,    \* _owned_phase_records: does the agent know the marker for its own?
    beat,     \* age of the heartbeat
    read,     \* history: age of the last successful read
    wrong,    \* history: which of the two records misstate that read
    faults    \* failures so far

PhaseTypeOK ==
    /\ stage \in {"off", "pre", "bus"}
    /\ marker \in Markers
    /\ leased \in BOOLEAN /\ owned \in BOOLEAN
    /\ beat \in Age /\ read \in Age
    /\ wrong \subseteq {"heartbeat", "marker"}
    /\ faults \in 0 .. MaxFaults

Fault == faults < MaxFaults /\ faults' = faults + 1

-----------------------------------------------------------------------------
(* Writing the marker. *)

\* _inheritable_history: a failure goes on if its last attempt is recent and
\* was this process's own (and no write was lost since) or a dead process's.
Inheritable(known) ==
    /\ marker.phase # "none" /\ marker.ok = "attempt"
    /\ marker.upd <= Retention
    /\ known

\* The marker is replaced or rewritten; the agent holds its lock or not, and
\* knows it for its own or not.
Marked(record, lock, own) == marker' = record /\ leased' = lock /\ owned' = own

\* Faulty variant: a write that fails leaves a lock on the stale marker.
InvalidatedLocked ==
    /\ Fault
    /\ \E left \in {marker, NoMarker} : Marked(left, stage # "off", FALSE)

\* _invalidate_failed_write: the marker is gone, or stale and unlocked.
Invalidated ==
    /\ Fault
    /\ \E left \in {marker, NoMarker} : Marked(left, FALSE, FALSE)

\* Faulty variant: the next session starts the count of a failure anew.
PreBusMarkForgets(known) ==
    [phase |-> "pre_bus", mine |-> TRUE, seen |-> FALSE, fail |-> 0, upd |-> 0,
     ok |-> "untimed"]

\* write_phase("pre_bus") carries the timing of a failure over.  When the file
\* cannot be replaced, the locked one is rewritten before its lock is released.
PreBusMark(known) ==
    LET goesOn == Inheritable(known)
    IN  [phase |-> "pre_bus", mine |-> TRUE, seen |-> FALSE,
         fail |-> IF goesOn THEN marker.fail ELSE 0,
         upd |-> IF goesOn THEN marker.upd ELSE 0,
         ok |-> IF goesOn THEN "attempt" ELSE "untimed"]

WritePreBus(known) ==
    \/ Marked(PreBusMark(known), FALSE, TRUE) /\ UNCHANGED faults
    \/ Invalidated

\* Faulty variant: a success leaves the start of the failure in the marker.
BusMarkKeepsFailure(succeeded) ==
    [phase |-> "bus", mine |-> TRUE, seen |-> FALSE, upd |-> 0,
     fail |-> IF marker.ok \in {"attempt", "success"} /\ owned THEN marker.fail ELSE 0,
     ok |-> IF succeeded THEN "success" ELSE "attempt"]

\* write_phase("bus"), before an attempt and after a success: in place when the
\* agent holds the lock; else a new unarmed marker, its lock, then the armed one.
BusMark(succeeded) ==
    [phase |-> "bus", mine |-> TRUE, seen |-> FALSE, upd |-> 0,
     fail |-> IF Inheritable(owned) /\ ~succeeded THEN marker.fail ELSE 0,
     ok |-> IF succeeded THEN "success" ELSE "attempt"]
Unarmed(record) == [record EXCEPT !.phase = "pre_bus", !.ok = "unarmed"]

WriteBus(succeeded) ==
    \/ Marked(BusMark(succeeded), TRUE, TRUE) /\ UNCHANGED faults
    \/ Fault /\ Marked(Unarmed(BusMark(succeeded)), FALSE, FALSE)  \* a reader has the lock
    \/ Invalidated

-----------------------------------------------------------------------------
(* The agent's sessions. *)

PhaseInit ==
    /\ stage = "off"
    /\ marker = NoMarker /\ leased = FALSE /\ owned = FALSE
    /\ beat = 0 /\ read = 0 /\ wrong = {}
    /\ faults = 0

\* _run_session of a process that lives on: the last session has ended, on the
\* bus or because the broker could not be reached.
SessionBegins ==
    /\ stage # "off"
    /\ stage' = "pre"
    /\ WritePreBus(owned)
    /\ UNCHANGED <<beat, read, wrong>>

\* The service manager starts a process: whatever is there is a dead one's.
ProcessStarts ==
    /\ stage = "off"
    /\ stage' = "pre"
    /\ \/ Marked(PreBusMark(TRUE), FALSE, TRUE) /\ UNCHANGED faults
       \/ Fault /\ \E left \in {[marker EXCEPT !.mine = FALSE], NoMarker} :
                        Marked(left, FALSE, FALSE)
    /\ UNCHANGED <<beat, read, wrong>>

\* The broker is connected: bus.start() is next.
BusAttempt ==
    /\ stage = "pre"
    /\ stage' = "bus"
    /\ WriteBus(FALSE)
    /\ UNCHANGED <<beat, read, wrong>>

\* _beat(): a read succeeded.  Each file is written at most every ten seconds:
\* soon after a write, or after one that failed, the marker stays as it is.
MarkSuccess ==
    \/ WriteBus(TRUE)
    \/ /\ \/ leased /\ marker.ok = "success" /\ marker.upd = 0
          \/ ~leased /\ ~owned
       /\ UNCHANGED <<marker, leased, owned, faults>>

Stamped(ok) ==
    /\ beat' = IF ok THEN 0 ELSE beat
    /\ wrong' = (IF ok THEN {} ELSE {"heartbeat"}) \cup (IF leased' THEN {} ELSE {"marker"})

Beat ==
    /\ stage = "bus"
    /\ read' = 0
    /\ \/ MarkSuccess /\ Stamped(TRUE)
       \/ Fault /\ Marked(BusMark(TRUE), TRUE, TRUE) /\ Stamped(FALSE)
       \/ Invalidated /\ Stamped(FALSE)
    /\ UNCHANGED stage

\* The process dies anywhere, and the kernel releases its lock.
Crash ==
    /\ stage # "off" /\ Fault
    /\ stage' = "off"
    /\ leased' = FALSE /\ owned' = FALSE
    /\ UNCHANGED <<marker, beat, read, wrong>>
=============================================================================
