------------------------------ MODULE RebootGuard ------------------------------
(***************************************************************************)
(* The guard of the reboots of both watchdogs (reboot_guard.py of          *)
(* brilliant_bus_watchdog and of brilliant_wifi_watchdog, and the handle() *)
(* of the bus watchdog).  Reboots are stamped with the wall clock in a     *)
(* file; the clock may be set, the file may be unreadable or unwritable,   *)
(* and every reboot or restart of the watchdog clears its memory.  A stamp *)
(* is kept as its age by the wall clock, negative in the future.  The file *)
(* never holds more than Cap stamps, whose order does not matter: it is    *)
(* Cap slots.                                                              *)
(***************************************************************************)
EXTENDS Integers, FiniteSets

CONSTANTS
    Cooldown, Cap, Window,    \* GuardPolicy
    MaxFailures,                \* bound: clock settings, storage failures and restarts
    MaxStep                   \* bound: how far the clock is set at a time

ASSUME GuardAssumption ==
    /\ {Cooldown, Cap, Window, MaxFailures, MaxStep} \subseteq Nat
    /\ 0 < Cooldown /\ Cooldown <= Window /\ 0 < Cap

\* Older than any stamp that counts, however the clock is set; -Far is a future
\* the clock does not reach.
Far == Window + 1 + MaxFailures * MaxStep
OlderBy(a, d) == IF a = -Far THEN -Far ELSE IF a + d > Far THEN Far ELSE a + d
None == Far + 1
Aged(a, d) == IF a = None THEN None ELSE OlderBy(a, d)
Slots == 1 .. Cap

VARIABLES
    readable, stamps,   \* the file: can it be parsed; the ages in its slots, or None
    writable,           \* can it be replaced?
    badFor,             \* age of _bad_since by the monotonic clock, or None
    clamp,              \* age of _future_clamp, or None
    known,              \* is _future_history the history in the file?
    lastWall,           \* age of _last_wall, or None
    log,                \* history: the reboots [age, kept], kept: still in the file
    failures

memory == <<badFor, clamp, known, lastWall>>
storage == <<readable, stamps, writable>>
guardVars == <<readable, stamps, writable, badFor, clamp, known, lastWall, log, failures>>

\* The type invariant.
GuardTypeOK ==
    /\ {readable, writable, known} \subseteq BOOLEAN
    /\ stamps \in [Slots -> -Far .. None]
    /\ badFor \in 0 .. None /\ clamp \in -Far .. None /\ lastWall \in -Far .. None
    /\ log \subseteq [age : 0 .. Window, kept : BOOLEAN]
    /\ failures \in 0 .. MaxFailures

Forgotten == badFor' = None /\ clamp' = None /\ known' = FALSE /\ lastWall' = None

GuardInit ==
    /\ readable = TRUE /\ stamps = [i \in Slots |-> None] /\ writable = TRUE
    /\ badFor = None /\ clamp = None /\ known = FALSE /\ lastWall = None
    /\ log = {} /\ failures = 0

-----------------------------------------------------------------------------
(* can_reboot and record *)

Future == readable /\ \E i \in Slots : stamps[i] < 0

\* A new history in the future, or another setting back of the clock.
NewEpisode == Future /\ (~known \/ lastWall < 0)

\* _normalize: a stamp in the future counts from the clamp, an old one not at all.
Normalized(cl) ==
    LET Past(age) == IF age >= 0 THEN age ELSE IF cl \in 0 .. Far THEN cl ELSE 0
    IN  [i \in Slots |-> IF readable /\ Past(stamps[i]) <= Window
                         THEN Past(stamps[i]) ELSE None]

Free(ages) == {i \in Slots : ages[i] = None}

\* _history_allows
Allows(ages) ==
    /\ \A i \in Slots : ages[i] >= Cooldown
    /\ Free(ages) # {}

\* Faulty variant: every poll anchors a future history at its own time.
ReadingAnchorsAnew ==
    LET since == IF NewEpisode THEN None ELSE badFor
        bad == ~readable \/ (Future /\ clamp = None)
        waited == IF bad /\ since = None THEN 0 ELSE since
        waiting == waited # None /\ waited < Cooldown
    IN  [bad |-> IF waiting THEN waited ELSE None,
         clamp |-> IF ~waiting /\ Future THEN 0 ELSE None,
         lastBad |-> ~readable \/ Future,
         ages |-> Normalized(0),
         can |-> ~waiting /\ Allows(Normalized(0))]

\* can_reboot: what it leaves in memory and what it answers.
Reading ==
    LET clampNow == IF Future /\ ~NewEpisode THEN clamp ELSE None
        since == IF NewEpisode THEN None ELSE badFor
        bad == ~readable \/ (Future /\ clampNow = None)
        waited == IF bad /\ since = None THEN 0 ELSE since
        waiting == waited # None /\ waited < Cooldown
        anchor == IF waited # None /\ ~waiting /\ Future THEN 0 ELSE clampNow
        ages == Normalized(anchor)
    IN  [bad |-> IF waiting THEN waited ELSE None,
         clamp |-> IF waiting THEN clampNow ELSE anchor,
         lastBad |-> ~readable \/ Future,
         ages |-> ages,
         can |-> ~waiting /\ Allows(ages)]

\* A poll that wants no reboot, or is refused one, or cannot record it.
Remember(r) ==
    badFor' = r.bad /\ clamp' = r.clamp /\ known' = Future /\ lastWall' = 0

Poll ==
    /\ Remember(Reading)
    /\ UNCHANGED <<storage, log, failures>>

\* A new stamp comes first; a free slot takes up the move of those before it.
NewlyStamped(ages) ==
    LET hole == CHOOSE i \in Free(ages) : TRUE
    IN  [i \in Slots |-> IF i = 1 THEN 0 ELSE IF i <= hole THEN ages[i - 1] ELSE ages[i]]

\* record: the normalized history and this reboot replace the file.
Record(r) ==
    /\ writable
    /\ readable' = TRUE
    /\ stamps' = NewlyStamped(r.ages)
    /\ UNCHANGED writable

\* Faulty variant: a history that could be read but not written is no obstacle.
AllowedUnrecorded(r) ==
    /\ r.can
    /\ \/ Record(r)
       \/ ~writable /\ UNCHANGED storage

\* handle: a reboot is recorded first; one that cannot be recorded happens only
\* when the file could not be trusted anyway.
Allowed(r) ==
    /\ r.can
    /\ \/ Record(r)
       \/ ~writable /\ r.lastBad /\ UNCHANGED storage

\* A file that could not be parsed and is replaced has lost the reboots before.
StillKept == {[e EXCEPT !.kept = @ /\ (readable \/ ~writable)] : e \in log}

\* The reboot clears the watchdog's memory.
GuardedReboot ==
    /\ Allowed(Reading)
    /\ Forgotten
    /\ log' = StillKept \cup {[age |-> 0, kept |-> writable]}
    /\ UNCHANGED failures

-----------------------------------------------------------------------------
(* Time and failures. *)

GuardFault == failures < MaxFailures /\ failures' = failures + 1

\* Only a setting forward makes a reboot look older than it is: log ages with
\* the fastest reading of the clock, and ends with the window.
TimesPass(wall, fastest) ==
    /\ stamps' = [i \in Slots |-> Aged(stamps[i], wall)]
    /\ clamp' = Aged(clamp, wall) /\ lastWall' = Aged(lastWall, wall)
    /\ log' = {e \in {[e EXCEPT !.age = OlderBy(@, fastest)] : e \in log} : e.age <= Window}
    /\ UNCHANGED <<readable, writable, known>>

GuardPass ==
    /\ TimesPass(1, 1)
    /\ badFor' = Aged(badFor, 1)
    /\ UNCHANGED failures

WallClockSet(d) ==
    /\ GuardFault
    /\ TimesPass(d, IF d > 0 THEN d ELSE 0)
    /\ UNCHANGED badFor

\* The clock is lost: it starts again years ago.
ClockLost ==
    /\ GuardFault
    /\ stamps' = [i \in Slots |-> IF stamps[i] = None THEN None ELSE -Far]
    /\ clamp' = (IF clamp = None THEN None ELSE -Far)
    /\ lastWall' = (IF lastWall = None THEN None ELSE -Far)
    /\ UNCHANGED <<readable, writable, badFor, known, log>>

\* The request of a recorded reboot comes to nothing.
RequestLost ==
    /\ GuardFault
    /\ LET r == Reading
       IN /\ Allowed(r)
          /\ badFor' = r.bad /\ clamp' = r.clamp /\ lastWall' = 0
          /\ known' = (Future /\ ~writable)
    /\ log' = StillKept

GuardRestarts == GuardFault /\ Forgotten /\ UNCHANGED <<storage, log>>

\* The file becomes unreadable or invalid; it may become readable again, without
\* the reboots that could not be stamped in it.
FileChanges ==
    /\ GuardFault
    /\ readable' = ~readable
    /\ log' = IF readable THEN log ELSE {e \in log : e.kept}
    /\ UNCHANGED <<stamps, writable, memory>>

StorageChanges ==
    /\ GuardFault
    /\ writable' = ~writable
    /\ UNCHANGED <<readable, stamps, memory, log>>

Failure ==
    \/ \E d \in -MaxStep .. MaxStep \ {0} : WallClockSet(d)
    \/ ClockLost
    \/ FileChanges \/ StorageChanges

-----------------------------------------------------------------------------
(* Properties. *)

\* Whatever was restarted, unreadable, unwritable or set back: two reboots are a
\* cool-down apart and no more than Cap of those the file could keep fall into
\* one window, by the fastest reading of the clock (class docstring, can_reboot).
Spaced == \A e \in log : e.age >= Cooldown
Capped == readable => Cardinality({e \in log : e.kept}) < Cap
RebootsAreBounded == [][GuardedReboot => Spaced /\ Capped]_guardVars
=============================================================================
