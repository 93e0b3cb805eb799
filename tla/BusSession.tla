------------------------------ MODULE BusSession ------------------------------
(***************************************************************************)
(* The connection of one RpcBusAdapter to the panel's bus: its start, the  *)
(* pushes it hands on, reconnections of the bus library, and a shutdown    *)
(* that may leave a resource closing (brilliant_mqtt/bus.py).  The         *)
(* supervisor makes a new adapter for every session; only the tasks that   *)
(* close resources outlive it, and fence the next start.                   *)
(***************************************************************************)
EXTENDS Naturals, Sequences, FiniteSets

CONSTANTS
    MaxPushes,      \* bound: pushes in one session
    MaxReconnects   \* bound: reconnections of the bus library

ASSUME BusBoundsAssumption == MaxPushes \in Nat /\ MaxReconnects \in Nat

\* What start() allocates at the bus library, in this order.
Resources == {"observer", "processor"}

\* The bridge coalesces pushes of a device; the scene bridge must see each.
Callbacks == {"bridge", "scenes"}
Lossless == {"scenes"}

VARIABLES
    stage,       \* of the adapter in use; it admits pushes only while "live"
    open,        \* the resources it owns
    alive,       \* peers started and not shut down, of any adapter of the process
    closers,     \* closes that have not returned, of any adapter
    ghosts,      \* history: peers whose close raised; the agent gave them up
    sent,        \* pushes dispatched in this session
    pending,     \* snapshots that wait for each callback
    done,        \* the last snapshot each callback was given
    drain,       \* does each callback have a drain task?
    resub,       \* reconnections that have not re-subscribed yet
    running,     \* is the coalesced reconcile running?
    dirty,       \* was it asked for again meanwhile?
    gap,         \* history: changes may have been missed and not been read since
    fresh,       \* history: readers that began with all subscriptions in place,
                 \* and no reconnection since
    deaf,        \* the bus lost the subscriptions and nobody restores them
    reconnects   \* reconnections so far

resources == <<open, alive, closers, ghosts>>
pushes == <<sent, pending, done, drain>>
reconciles == <<resub, running, dirty, gap, deaf, fresh, reconnects>>
busVars == <<stage, resources, pushes, reconciles>>

\* The coalesced reconcile, and the supervisor's poll or resync.
Readers == {"run", "tick"}

Nobody == [r \in Resources |-> 0]
Plus(f, S) == [r \in Resources |-> IF r \in S THEN f[r] + 1 ELSE f[r]]

BusTypeOK ==
    /\ stage \in {"idle", "starting", "unwinding", "live", "settling", "closing", "closed"}
    /\ open \subseteq Resources
    /\ alive \in [Resources -> Nat] /\ closers \in [Resources -> Nat]
    /\ ghosts \in [Resources -> Nat]
    /\ sent \in 0 .. MaxPushes
    /\ pending \in [Callbacks -> Seq(1 .. MaxPushes)]
    /\ done \in [Callbacks -> 0 .. MaxPushes]
    /\ drain \in [Callbacks -> BOOLEAN]
    /\ resub \in Nat /\ reconnects \in 0 .. MaxReconnects
    /\ {running, dirty, gap, deaf} \subseteq BOOLEAN /\ fresh \subseteq Readers

\* A new adapter: nothing waits and nothing runs.
NoWork ==
    /\ sent' = 0
    /\ pending' = [c \in Callbacks |-> <<>>]
    /\ done' = [c \in Callbacks |-> 0]
    /\ drain' = [c \in Callbacks |-> FALSE]
    /\ resub' = 0 /\ running' = FALSE /\ dirty' = FALSE /\ gap' = FALSE /\ deaf' = FALSE
    /\ fresh' = {}
    /\ UNCHANGED reconnects

BusInit ==
    /\ stage = "idle" /\ open = {} /\ alive = Nobody /\ closers = Nobody
    /\ ghosts = Nobody
    /\ sent = 0
    /\ pending = [c \in Callbacks |-> <<>>]
    /\ done = [c \in Callbacks |-> 0]
    /\ drain = [c \in Callbacks |-> FALSE]
    /\ resub = 0 /\ reconnects = 0
    /\ running = FALSE /\ dirty = FALSE /\ gap = FALSE /\ deaf = FALSE
    /\ fresh = {}

NewAdapter ==
    /\ stage' = "idle" /\ open' = {}
    /\ NoWork
    /\ UNCHANGED <<alive, closers, ghosts>>

-----------------------------------------------------------------------------
(* Start and shutdown. *)

Fenced == \E r \in Resources : closers[r] > 0

\* start(): the observer is owned before the processor is constructed, which
\* may raise; each is owned before anything can fail.
Allocate(S) ==
    /\ stage = "idle" /\ ~Fenced
    /\ open' = S
    /\ alive' = Plus(alive, S)
    /\ stage' = "starting"
    /\ UNCHANGED <<closers, ghosts, pushes, reconciles>>

\* _close_bus_resources(): one retained task for each owned resource.
CloseOwned(next) ==
    /\ closers' = Plus(closers, open)
    /\ open' = {}
    /\ stage' = next
    /\ UNCHANGED <<alive, ghosts>>

\* Any exception or cancellation of start() unwinds what it owns.
StartFails ==
    /\ stage = "starting"
    /\ CloseOwned("unwinding")
    /\ UNCHANGED <<pushes, reconciles>>

\* Connected, subscribed and hooked: the session is live.
Commit ==
    /\ stage = "starting" /\ open = Resources
    /\ stage' = "live"
    /\ UNCHANGED <<resources, pushes, reconciles>>

\* shutdown(): admission is closed, then writes and callbacks are settled.
Shutdown ==
    /\ stage \in {"idle", "live", "closed"}
    /\ stage' = "settling"
    /\ UNCHANGED <<resources, pushes, reconciles>>

\* Callback tasks are cancelled, snapshots dropped, and the bus is closed.
Settled ==
    /\ stage = "settling"
    /\ NoWork
    /\ CloseOwned("closing")

\* Faulty variant: a close that outlives the deadline is no longer tracked.
CloseForgotten ==
    /\ stage \in {"unwinding", "closing"}
    /\ stage' = "closed"
    /\ closers' = Nobody
    /\ UNCHANGED <<open, alive, ghosts, pushes, reconciles>>

\* The close was waited for: all returned, or the shared deadline passed.
CloseAwaited ==
    /\ stage \in {"unwinding", "closing"}
    /\ stage' = "closed"
    /\ UNCHANGED <<resources, pushes, reconciles>>

\* A resource's shutdown() returns, perhaps after its session, perhaps never.
Closed(r) ==
    /\ closers[r] > 0
    /\ closers' = [closers EXCEPT ![r] = @ - 1]
    /\ alive' = [alive EXCEPT ![r] = @ - 1]
    /\ UNCHANGED <<stage, open, ghosts, pushes, reconciles>>

\* A resource's shutdown() raises, which is only logged: the close is over and
\* fences no start any more, though the peer may still be there.
CloseFails(r) ==
    /\ closers[r] > 0
    /\ closers' = [closers EXCEPT ![r] = @ - 1]
    /\ ghosts' = [ghosts EXCEPT ![r] = @ + 1]
    /\ UNCHANGED <<stage, open, alive, pushes, reconciles>>

-----------------------------------------------------------------------------
(* Pushes. *)

\* Faulty variant: the scene bridge's snapshots are coalesced, too.
PushCoalesced ==
    /\ stage = "live" /\ ~deaf
    /\ sent < MaxPushes
    /\ sent' = sent + 1
    /\ pending' = [c \in Callbacks |-> <<sent'>>]
    /\ drain' = [c \in Callbacks |-> TRUE]
    /\ UNCHANGED <<stage, resources, done, reconciles>>

\* _dispatch_raw_device: the snapshot replaces what waits for a coalescing
\* callback, and a callback without a drain task gets one.
Push ==
    /\ stage = "live" /\ ~deaf
    /\ sent < MaxPushes
    /\ sent' = sent + 1
    /\ pending' = [c \in Callbacks |->
                     IF c \in Lossless THEN Append(pending[c], sent') ELSE <<sent'>>]
    /\ drain' = [c \in Callbacks |-> TRUE]
    /\ UNCHANGED <<stage, resources, done, reconciles>>

\* _drain_pushes from one await to the next: the task ends when the session
\* does or nothing waits, or it gives its callback the next snapshot.
Drain(c) ==
    /\ drain[c]
    /\ IF stage = "live" /\ pending[c] # <<>>
       THEN /\ done' = [done EXCEPT ![c] = Head(pending[c])]
            /\ pending' = [pending EXCEPT ![c] = Tail(@)]
            /\ UNCHANGED drain
       ELSE /\ drain' = [drain EXCEPT ![c] = FALSE]
            /\ UNCHANGED <<done, pending>>
    /\ UNCHANGED <<stage, resources, sent, reconciles>>

-----------------------------------------------------------------------------
(* Reconnections of the bus library, and the reads that make up for them. *)

\* r begins to read everything.
ReadBegins(r) ==
    fresh' = IF resub' = 0 /\ ~deaf' THEN fresh \cup {r} ELSE fresh \ {r}

\* What r read has arrived and was published: it closes the gap if it was asked
\* for with all subscriptions in place and no reconnection came between.
ReadSucceeds(r) == gap' = (gap /\ r \notin fresh)

\* Before the hook is installed nobody hears of a reconnection.
ReconnectUnseen ==
    /\ stage = "starting" /\ open = Resources
    /\ reconnects < MaxReconnects
    /\ reconnects' = reconnects + 1
    /\ deaf' = TRUE /\ gap' = TRUE /\ fresh' = {}
    /\ UNCHANGED <<stage, resources, pushes, resub, running, dirty>>

\* _on_proc_reconnect
Reconnect ==
    /\ stage = "live"
    /\ reconnects < MaxReconnects
    /\ reconnects' = reconnects + 1
    /\ resub' = resub + 1
    /\ gap' = TRUE /\ fresh' = {}
    /\ UNCHANGED <<stage, resources, pushes, running, dirty, deaf>>

RunBegins == running' = TRUE /\ dirty' = FALSE /\ ReadBegins("run")

\* _CoalescingCallback.__call__ up to its await
Coalesce ==
    IF running THEN dirty' = TRUE /\ UNCHANGED <<running, fresh>> ELSE RunBegins

\* _after_reconnect goes on when the subscriptions were restored, or not.
Resubscribed(ok) ==
    /\ resub > 0
    /\ resub' = resub - 1
    /\ IF stage = "live"
       THEN deaf' = ~ok /\ Coalesce
       ELSE UNCHANGED <<running, dirty, fresh, deaf>>
    /\ UNCHANGED <<stage, resources, pushes, gap, reconnects>>

\* A run ends, and goes on if it was asked for again.  A run that raised is only
\* logged: what was missed stays unread.
RunEnds(ok) ==
    /\ running
    /\ UNCHANGED <<stage, resources, pushes, resub, deaf, reconnects>>
    /\ IF ok THEN ReadSucceeds("run") ELSE UNCHANGED gap
    /\ IF dirty
       THEN RunBegins
       ELSE running' = FALSE /\ fresh' = fresh \ {"run"} /\ UNCHANGED dirty

-----------------------------------------------------------------------------
(* Properties. *)

\* Two peers of this process are never at work at once, whatever became of earlier
\* starts and however long their closes take: a second one is there only when the
\* close of the first one raised, one for each close that did (bus.py:577-618,
\* 1519-1575).
OneLivePeer == \A r \in Resources : alive[r] <= 1 + ghosts[r]

\* While the session lives, every callback has been given the newest push or
\* has a task that will give it, and the scene bridge misses none between
\* (bus.py:847-929).
NoPushLost ==
    stage = "live" =>
        \A c \in Callbacks :
            /\ done[c] < sent => drain[c] /\ pending[c] # <<>>
            /\ pending[c] # <<>> => pending[c][Len(pending[c])] = sent
            /\ \A i \in 1 .. Len(pending[c]) : pending[c][i] > done[c]
            /\ c \in Lossless => Len(pending[c]) = sent - done[c]

=============================================================================
