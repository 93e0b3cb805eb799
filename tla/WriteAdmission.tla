--------------------------- MODULE WriteAdmission ---------------------------
(***************************************************************************)
(* Admission of native bus writes (RpcBusAdapter.set_variables and the     *)
(* scheduler behind it, src/brilliant_mqtt/bus.py).                        *)
(*                                                                         *)
(* A write is admitted to the waiter list of its device; a device serves   *)
(* one write at a time, which takes the device lock, issues the RPC of the *)
(* closed-source bus library, and keeps the lock until the RPC returns,    *)
(* however long ago its caller gave up.  A waiter is ordered by its        *)
(* arrival: the list of the code is only appended to and removed from.     *)
(***************************************************************************)
EXTENDS Naturals, FiniteSets

CONSTANTS
  Writes,       \* identities of admissions (tickets)
  Devices,      \* bus devices, each with its lock
  DeviceOf,     \* device of each write
  TargetOf,     \* peripheral of each write
  ClassOf,      \* "latest", "fifo" or "maintenance": its WriteClass
  MaxBypasses,  \* _MAINTENANCE_BYPASSES
  MaxRevisions, \* bound on the payloads one ticket carries in turn
  MaxSessions,  \* bound on the sessions of one adapter
  None          \* no write

ASSUME ConstantsAssumption ==
  /\ DeviceOf \in [Writes -> Devices]
  /\ ClassOf \in [Writes -> {"latest", "fifo", "maintenance"}]
  /\ MaxBypasses \in Nat /\ MaxRevisions \in Nat /\ MaxSessions \in Nat
  /\ None \notin Writes

VARIABLES
  phase,     \* of the task of each write, see Phase
  outcome,   \* how a task that returned ended
  waiters,   \* writes in _write_waiters
  arrival,   \* position of each write in the order of admission
  arrivals,  \* writes admitted so far
  slot,      \* _write_serving of each device
  lock,      \* holder of the lock of each device
  tracked,   \* writes in _write_admissions: their ticket can still be used
  revoked,   \* writes whose acquired future was cancelled with their caller
  cancelling,\* writes whose task was asked to cancel
  result,    \* result future of each write
  caller,    \* who awaits the current payload of each write, see Caller
  revision,  \* payloads the ticket has carried, the last one is current
  bypasses,  \* interactive writes issued while this one waited
  aged,      \* maintenance writes that waited for _MAINTENANCE_AGE_S
  session,   \* _session
  bornIn,    \* session each write was admitted in
  shutting,  \* _shutting_down
  latch,     \* _write_timed_out
  timers,    \* issued writes whose hard-cap timer has not fired
  native,    \* history: payload each write sent to the bus, 0 when it did not
  withdrawn  \* history: writes given up before they were issued

schedVars == <<waiters, arrival, arrivals, slot, bypasses, aged>>
callVars == <<tracked, revoked, result, caller, revision>>
sessVars == <<session, bornIn, shutting, latch, timers>>
vars == <<phase, outcome, lock, cancelling, schedVars, callVars, sessVars,
          native, withdrawn>>

\* new -> queued -> issued (the RPC runs) -> returned (the task is done, its
\* done-callback is not) -> settled; a queued task may be cancelled.
Phase == {"new", "queued", "issued", "returned", "settled"}
Outcome == {"pending", "replied", "cancelled"}
\* none: folded by the command lane, which has not called set_variables yet.
Caller == {"absent", "waiting", "cancelled", "none", "gone"}

Queued == {w \in Writes : phase[w] = "queued"}

-----------------------------------------------------------------------------
\* The scheduler: _serve_next.

\* Maintenance gives way until it is old or was bypassed often enough.
Deferred(w) ==
  /\ ClassOf[w] = "maintenance"
  /\ w \notin aged
  /\ bypasses[w] < MaxBypasses

\* Only the first waiter of each peripheral may be served.
Eligible(w, S, order) ==
  /\ w \in S
  /\ \A v \in S : DeviceOf[v] = DeviceOf[w] /\ TargetOf[v] = TargetOf[w]
                    => order[w] <= order[v]

Preferred(w, v, order) ==
  \/ Deferred(v) /\ ~Deferred(w)
  \/ (Deferred(w) => Deferred(v)) /\ order[w] <= order[v]

\* What the device serves next when S waits, in this order.
ServeNext(d, held, S, order) ==
  LET here == {w \in S : DeviceOf[w] = d} IN
  IF held # None \/ here = {}
  THEN slot' = [slot EXCEPT ![d] = held] /\ waiters' = S
  ELSE \E w \in here :
         /\ Eligible(w, S, order)
         /\ \A v \in here : Eligible(v, S, order) => Preferred(w, v, order)
         /\ slot' = [slot EXCEPT ![d] = w]
         /\ waiters' = S \ {w}

-----------------------------------------------------------------------------
\* set_variables with a new ticket.
Admit(w) ==
  /\ phase[w] = "new" /\ ~shutting
  /\ phase' = [phase EXCEPT ![w] = "queued"]
  /\ arrival' = [arrival EXCEPT ![w] = arrivals]
  /\ arrivals' = arrivals + 1
  /\ bornIn' = [bornIn EXCEPT ![w] = session]
  /\ tracked' = tracked \cup {w}
  /\ caller' = [caller EXCEPT ![w] = "waiting"]
  /\ revision' = [revision EXCEPT ![w] = 1]
  /\ ServeNext(DeviceOf[w], slot[DeviceOf[w]], waiters \cup {w}, arrival')
  /\ UNCHANGED <<outcome, lock, cancelling, bypasses, aged, revoked, result,
                 session, shutting, latch, timers, native, withdrawn>>

\* Faulty variant: a caller cancelled a moment ago is not looked at.
FencedBySessionOnly(w) == bornIn[w] # session \/ shutting

\* What _run_write checks once it has the lock.
Fenced(w) == bornIn[w] # session \/ shutting \/ w \in revoked

\* _run_write takes the lock, arms the hard-cap timer of this write, and issues
\* the RPC with the current payload.
Issue(w) ==
  LET d == DeviceOf[w] IN
  /\ phase[w] = "queued" /\ slot[d] = w /\ w \notin cancelling /\ lock[d] = None
  /\ ~Fenced(w)
  /\ phase' = [phase EXCEPT ![w] = "issued"]
  /\ lock' = [lock EXCEPT ![d] = w]
  /\ timers' = timers \cup {w}
  /\ bypasses' = [v \in Writes |->
                    IF /\ v \in waiters /\ DeviceOf[v] = d
                       /\ ClassOf[v] = "maintenance" /\ ClassOf[w] # "maintenance"
                    THEN bypasses[v] + 1 ELSE bypasses[v]]
  /\ native' = [native EXCEPT ![w] = revision[w]]
  /\ UNCHANGED <<outcome, cancelling, waiters, arrival, arrivals, slot, aged,
                 callVars, session, bornIn, shutting, latch, withdrawn>>

\* The task ends without an RPC: cancelled, or fenced once it has the lock.
Drop(w) ==
  /\ phase[w] = "queued"
  /\ \/ w \in cancelling
     \/ slot[DeviceOf[w]] = w /\ lock[DeviceOf[w]] = None /\ Fenced(w)
  /\ phase' = [phase EXCEPT ![w] = "returned"]
  /\ outcome' = [outcome EXCEPT ![w] = "cancelled"]
  /\ UNCHANGED <<lock, cancelling, schedVars, callVars, sessVars, native, withdrawn>>

\* The RPC returns or fails, or honours a cancellation; the timer is cancelled
\* and the lock released.
RpcReturns(w, how) ==
  /\ phase[w] = "issued"
  /\ how = "cancelled" => w \in cancelling
  /\ phase' = [phase EXCEPT ![w] = "returned"]
  /\ outcome' = [outcome EXCEPT ![w] = how]
  /\ lock' = [lock EXCEPT ![DeviceOf[w]] = None]
  /\ timers' = timers \ {w}
  /\ UNCHANGED <<cancelling, schedVars, callVars, session, bornIn, shutting, latch,
                 native, withdrawn>>

\* Faulty variant: only a write that ran hands the device on.
FinishRunsOnly(w) ==
  LET d == DeviceOf[w] IN
  /\ phase[w] = "returned"
  /\ phase' = [phase EXCEPT ![w] = "settled"]
  /\ result' = [result EXCEPT ![w] = IF @ = "pending" THEN outcome[w] ELSE @]
  /\ outcome' = [outcome EXCEPT ![w] = "pending"]
  /\ IF native[w] # 0
     THEN ServeNext(d, IF slot[d] = w THEN None ELSE slot[d], waiters \ {w}, arrival)
     ELSE /\ slot' = [slot EXCEPT ![d] = IF @ = w THEN None ELSE @]
          /\ waiters' = waiters \ {w}
  /\ UNCHANGED <<lock, cancelling, arrival, arrivals, bypasses, aged,
                 tracked, revoked, caller, revision, sessVars, native, withdrawn>>

\* _finish_admission, the done-callback of the task.
Finish(w) ==
  LET d == DeviceOf[w] IN
  /\ phase[w] = "returned"
  /\ phase' = [phase EXCEPT ![w] = "settled"]
  /\ result' = [result EXCEPT ![w] = IF @ = "pending" THEN outcome[w] ELSE @]
  /\ outcome' = [outcome EXCEPT ![w] = "pending"]
  /\ ServeNext(d, IF slot[d] = w THEN None ELSE slot[d], waiters \ {w}, arrival)
  /\ UNCHANGED <<lock, cancelling, arrival, arrivals, bypasses, aged,
                 tracked, revoked, caller, revision, sessVars, native, withdrawn>>

\* A maintenance write has waited for _MAINTENANCE_AGE_S.
Age(w) ==
  /\ w \in waiters \ aged /\ ClassOf[w] = "maintenance"
  /\ aged' = aged \cup {w}
  /\ UNCHANGED <<phase, outcome, lock, cancelling, waiters, arrival, arrivals,
                 slot, bypasses, callVars, sessVars, native, withdrawn>>

-----------------------------------------------------------------------------
\* try_supersede replaces the payload in place: the caller of the old payload
\* gets Superseded, the lane adopts the ticket later.
Supersede(w) ==
  /\ w \in tracked /\ ~shutting /\ bornIn[w] = session
  /\ phase[w] = "queued" /\ w \notin cancelling /\ w \notin revoked
  /\ result[w] = "pending" /\ ClassOf[w] = "latest"
  /\ \A v \in waiters : DeviceOf[v] = DeviceOf[w] /\ TargetOf[v] = TargetOf[w]
                          => arrival[v] <= arrival[w]
  /\ revision[w] < MaxRevisions
  /\ revision' = [revision EXCEPT ![w] = @ + 1]
  /\ caller' = [caller EXCEPT ![w] = "none"]
  /\ UNCHANGED <<phase, outcome, lock, cancelling, schedVars, tracked, revoked,
                 result, sessVars, native, withdrawn>>

\* set_variables with the ticket of a folded payload.
Adopt(w) ==
  /\ caller[w] = "none" /\ w \in tracked /\ ~shutting /\ bornIn[w] = session
  /\ caller' = [caller EXCEPT ![w] = "waiting"]
  /\ UNCHANGED <<phase, outcome, lock, cancelling, schedVars, tracked, revoked,
                 result, revision, sessVars, native, withdrawn>>

\* What _cancel_waiting does to a write that was not issued.
Withdraw(w) ==
  IF phase[w] = "queued"
  THEN cancelling' = cancelling \cup {w} /\ withdrawn' = withdrawn \cup {w}
  ELSE UNCHANGED <<cancelling, withdrawn>>

\* The lane gives a folded payload up before adopting it (cancel_waiting).
LaneCancels(w) ==
  /\ caller[w] = "none"
  /\ caller' = [caller EXCEPT ![w] = "gone"]
  /\ tracked' = tracked \ {w}
  /\ IF w \in tracked THEN Withdraw(w) ELSE UNCHANGED <<cancelling, withdrawn>>
  /\ UNCHANGED <<phase, outcome, lock, schedVars, revoked, result, revision,
                 sessVars, native>>

CallerReturns(w) ==
  /\ caller[w] = "waiting" /\ result[w] # "pending"
  /\ caller' = [caller EXCEPT ![w] = "gone"]
  /\ tracked' = tracked \ {w}
  /\ UNCHANGED <<phase, outcome, lock, cancelling, schedVars, revoked, result,
                 revision, sessVars, native, withdrawn>>

\* _WRITE_DEADLINE_S after the lock was acquired the caller gives up; the RPC
\* keeps running and keeps the lock.
Detach(w) ==
  /\ caller[w] = "waiting" /\ phase[w] = "issued" /\ result[w] = "pending"
  /\ caller' = [caller EXCEPT ![w] = "gone"]
  /\ tracked' = tracked \ {w}
  /\ UNCHANGED <<phase, outcome, lock, cancelling, schedVars, revoked, result,
                 revision, sessVars, native, withdrawn>>

\* Task.cancel() of the caller cancels the future it awaits at once...
CancelCaller(w) ==
  /\ caller[w] = "waiting" /\ result[w] = "pending"
  /\ caller' = [caller EXCEPT ![w] = "cancelled"]
  /\ IF phase[w] = "queued"
     THEN revoked' = revoked \cup {w} /\ withdrawn' = withdrawn \cup {w}
     ELSE UNCHANGED <<revoked, withdrawn>>
  /\ UNCHANGED <<phase, outcome, lock, cancelling, schedVars, tracked, result,
                 revision, sessVars, native>>

\* ... and the caller withdraws its write when it gets its turn.
CancelDelivered(w) ==
  /\ caller[w] = "cancelled"
  /\ caller' = [caller EXCEPT ![w] = "gone"]
  /\ tracked' = tracked \ {w}
  /\ Withdraw(w)
  /\ UNCHANGED <<phase, outcome, lock, schedVars, revoked, result, revision,
                 sessVars, native>>

-----------------------------------------------------------------------------
\* Faulty variant: the timer goes with the caller that gave up.
CapWhileAwaited(w) ==
  /\ w \in timers /\ caller[w] = "waiting"
  /\ latch' = TRUE
  /\ timers' = timers \ {w}
  /\ UNCHANGED <<phase, outcome, lock, cancelling, schedVars, callVars, session,
                 bornIn, shutting, native, withdrawn>>

\* _cap_write: an RPC outlives _WRITE_HARD_CAP_S.  The timer is armed once for a
\* write, so a straggler that outlives its session says so at most once.
Cap(w) ==
  /\ w \in timers
  /\ latch' = TRUE
  /\ timers' = timers \ {w}
  /\ UNCHANGED <<phase, outcome, lock, cancelling, schedVars, callVars, session,
                 bornIn, shutting, native, withdrawn>>

\* shutdown up to its first await: the supervisor consumed the latch, or met
\* another fault.  _settle_writes answers every caller and cancels every task.
Shutdown ==
  /\ ~shutting
  /\ shutting' = TRUE
  /\ latch' = FALSE
  /\ tracked' = {}
  /\ result' = [w \in Writes |-> IF w \in tracked /\ result[w] = "pending"
                                 THEN "cancelled" ELSE result[w]]
  /\ cancelling' = cancelling \cup {w \in Writes : phase[w] \in {"queued", "issued"}}
  /\ withdrawn' = withdrawn \cup Queued
  /\ UNCHANGED <<phase, outcome, lock, schedVars, revoked, caller, revision,
                 session, bornIn, timers, native>>

\* start of a reused adapter; a straggler still holds its lock and its slot.
Open ==
  /\ shutting /\ session < MaxSessions
  /\ session' = session + 1
  /\ shutting' = FALSE
  /\ latch' = FALSE
  /\ UNCHANGED <<phase, outcome, lock, cancelling, schedVars, callVars, bornIn,
                 timers, native, withdrawn>>

-----------------------------------------------------------------------------
Init ==
  /\ phase = [w \in Writes |-> "new"]
  /\ outcome = [w \in Writes |-> "pending"]
  /\ waiters = {}
  /\ arrival = [w \in Writes |-> 0]
  /\ arrivals = 0
  /\ slot = [d \in Devices |-> None]
  /\ lock = [d \in Devices |-> None]
  /\ tracked = {}
  /\ revoked = {}
  /\ cancelling = {}
  /\ result = [w \in Writes |-> "pending"]
  /\ caller = [w \in Writes |-> "absent"]
  /\ revision = [w \in Writes |-> 0]
  /\ bypasses = [w \in Writes |-> 0]
  /\ aged = {}
  /\ session = 0
  /\ bornIn = [w \in Writes |-> 0]
  /\ shutting = TRUE
  /\ latch = FALSE
  /\ timers = {}
  /\ native = [w \in Writes |-> 0]
  /\ withdrawn = {}

WriteStep(w) ==
  \/ Admit(w) \/ Issue(w) \/ Drop(w) \/ Finish(w) \/ Age(w)
  \/ \E how \in {"replied", "cancelled"} : RpcReturns(w, how)
  \/ Supersede(w) \/ Adopt(w) \/ LaneCancels(w)
  \/ CallerReturns(w) \/ Detach(w) \/ CancelCaller(w) \/ CancelDelivered(w)
  \/ Cap(w)

Next == (\E w \in Writes : WriteStep(w)) \/ Shutdown \/ Open

Spec == Init /\ [][Next]_vars

\* The event loop runs what is ready, timers fire, lanes go on, and the
\* supervisor acts on the latch.  An RPC may hang for ever, and nothing obliges
\* a maintenance write to age before it is served.
FairSpec ==
  /\ Spec
  /\ \A w \in Writes :
       /\ WF_vars(Issue(w)) /\ WF_vars(Drop(w)) /\ WF_vars(Finish(w))
       /\ WF_vars(Adopt(w) \/ LaneCancels(w)) /\ WF_vars(CallerReturns(w))
       /\ WF_vars(Detach(w)) /\ WF_vars(CancelDelivered(w)) /\ WF_vars(Cap(w))
  /\ WF_vars(latch /\ Shutdown)

-----------------------------------------------------------------------------
\* Type invariant.
TypeOK ==
  /\ phase \in [Writes -> Phase]
  /\ outcome \in [Writes -> Outcome]
  /\ waiters \subseteq Writes
  /\ arrival \in [Writes -> Nat] /\ arrivals \in Nat
  /\ slot \in [Devices -> Writes \cup {None}]
  /\ lock \in [Devices -> Writes \cup {None}]
  /\ tracked \subseteq Writes /\ revoked \subseteq Writes
  /\ cancelling \subseteq Writes /\ withdrawn \subseteq Writes
  /\ result \in [Writes -> Outcome]
  /\ caller \in [Writes -> Caller]
  /\ revision \in [Writes -> Nat] /\ native \in [Writes -> Nat]
  /\ bypasses \in [Writes -> Nat] /\ aged \subseteq Writes
  /\ session \in Nat /\ bornIn \in [Writes -> Nat]
  /\ shutting \in BOOLEAN /\ latch \in BOOLEAN /\ timers \subseteq Writes

\* The lock and the serving slot of a device agree: a write whose caller gave
\* up, or that outlived its session, still keeps the next one out.
SlotsAreConsistent ==
  \A d \in Devices :
    /\ slot[d] # None => /\ DeviceOf[slot[d]] = d /\ slot[d] \notin waiters
                         /\ phase[slot[d]] \in {"queued", "issued", "returned"}
    /\ lock[d] # None => /\ phase[lock[d]] = "issued" /\ slot[d] = lock[d]

\* Where each write is, as its phase, its waiter list, its slot and its lock
\* tell it; a write served is the oldest of its peripheral.
QueuesAreConsistent ==
  /\ SlotsAreConsistent
  /\ \A w \in waiters : phase[w] \in {"queued", "returned"}
  /\ \A w \in Queued : w \in waiters \/ slot[DeviceOf[w]] = w
  /\ \A w \in Writes : phase[w] = "issued" => lock[DeviceOf[w]] = w
  /\ \A w \in Writes : arrival[w] <= arrivals
  /\ \A v \in waiters, w \in Writes :
       slot[DeviceOf[v]] = w /\ TargetOf[v] = TargetOf[w] => arrival[w] <= arrival[v]

\* What was sent, and what can still be.
HistoryIsConsistent ==
  /\ \A w \in Writes : phase[w] \in {"new", "queued"} => native[w] = 0
  /\ \A w \in Writes : phase[w] = "new" => w \notin withdrawn
  /\ \A w \in Writes : phase[w] # "new" => revision[w] > 0
  /\ \A w \in Writes : phase[w] = "issued" => native[w] # 0
  /\ withdrawn \cap Queued \subseteq cancelling \cup revoked

\* A device runs one native write at a time, also across sessions.
OneNativeWrite ==
  \A v, w \in Writes :
    phase[v] = "issued" /\ phase[w] = "issued" /\ DeviceOf[v] = DeviceOf[w] => v = w

\* A write given up before it was issued (its caller cancelled, its lane gave
\* it up, its session ended) never reaches the bus.
WithdrawnNeverSent == \A w \in withdrawn : native[w] = 0

\* A payload whose caller was told Superseded never reached the bus, and the
\* one that did is the last the ticket carried.
LatestPayloadSent == \A w \in Writes : native[w] # 0 => native[w] = revision[w]

\* A device is never idle while writes wait for it.
NoLostWakeup == \A w \in waiters : slot[DeviceOf[w]] # None

\* At most MaxBypasses interactive writes that arrived later are issued while a
\* maintenance write waits.
MaintenanceOvertaking ==
  \A w \in waiters :
    ClassOf[w] = "maintenance" =>
      Cardinality({v \in Writes : /\ native[v] # 0 /\ DeviceOf[v] = DeviceOf[w]
                                  /\ ClassOf[v] # "maintenance"
                                  /\ arrival[v] > arrival[w]}) <= MaxBypasses

\* What a write is to its callers: its state in NativeWrites.
Standing ==
  [w \in Writes |->
     IF phase[w] = "new" THEN "new"
     ELSE IF phase[w] = "issued" THEN "running"
     ELSE IF phase[w] = "queued" /\ w \notin withdrawn THEN "wanted"
     ELSE IF native[w] = 0 THEN "withdrawn" ELSE "done"]

\* The promise of the write path.
Abstract == INSTANCE NativeWrites WITH
  state <- Standing, turn <- arrival, turns <- arrivals,
  asked <- revision, sent <- native

\* Whatever the classes, cancellations, timeouts and sessions do, a device is
\* written in order, one write at a time, with the last payload of each ticket.
KeepsWritePromise == Abstract!Spec

\* The invariant the proofs are by induction on: the books of the scheduler and
\* the history agree, whatever was cancelled, timed out or ended its session.
IInv ==
  /\ TypeOK /\ QueuesAreConsistent /\ HistoryIsConsistent
  /\ NoLostWakeup /\ WithdrawnNeverSent /\ LatestPayloadSent

\* A write admitted before this session holds the device of w, and its timer has
\* fired: nothing bounds the wait for it.
BehindStraggler(w) ==
  \E v \in Writes \ timers :
    lock[DeviceOf[w]] = v /\ v # w /\ bornIn[v] # session

\* Every caller gets an answer, even behind an RPC that never returns: the hard
\* cap latches, the session ends and settles all that wait.  The one exception is
\* a reused adapter: the cap of a write fires once, so what is queued behind a
\* straggler whose cap went to an earlier session waits as long as it does.
CallersAnswered ==
  \A w \in Writes :
    caller[w] \in {"waiting", "cancelled", "none"}
      ~> (caller[w] = "gone" \/ []BehindStraggler(w))
=============================================================================
