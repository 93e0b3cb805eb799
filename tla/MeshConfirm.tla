---------------------------- MODULE MeshConfirm ----------------------------
(***************************************************************************)
(* Observation-confirmed writes to one mesh load (src/brilliant_mqtt/      *)
(* bridge.py): a command withholds the load's state until observations     *)
(* back or contradict it, while polls, pushes, reconciles, timers and the  *)
(* loss of the election run beside it.                                     *)
(*                                                                         *)
(* The bridge has five tasks that publish the load: the tick loop, the     *)
(* reconcile after a bus reconnection, the drain of bus pushes, the        *)
(* handler of the load's command lane and the confirmation timer.  Each    *)
(* awaits its own publication before it goes on, so a task is busy while   *)
(* its publication is in pubs.  The bus is its promise (NativeWrites).     *)
(***************************************************************************)
EXTENDS Integers, Sequences, SequencesExt

CONSTANTS
  Values,       \* values of the load's primary variable
  None,         \* no value, no record; as a published state: null
  MaxInputs     \* bound on the commands, reconnections of the bus, failed
                \* publications, changes by hand and losses of the election,
                \* together; a loss may be the last, one above it

ASSUME ValuesAssumption == None \notin Values /\ Values # {}
ASSUME BoundsAssumption == MaxInputs \in Nat

Loops == {"tick", "reconnect"}
Tasks == Loops \cup {"push", "handler", "resolver"}

VARIABLES
  leader,     \* leader.is_leader, the scope of the mesh bridge
  at, dev,    \* what each loop awaits, and the snapshot it carries
  enabled,    \* _mesh_feedback_enabled
  route,      \* the load's topic is in _by_cmd_topic
  subscribed, \* the load's topic is in _subscribed
  heard,      \* the broker holds the subscription
  snap,       \* _devices: the value last observed, or None
  gen,        \* _mesh_write_generation
  pending,    \* _pending_mesh; its timer sleeps as long as it is there, for
              \* PendingCanSettle rules the early return of the timer out
  fresh,      \* last_observed_at is recent enough at the deadline
  feedback,   \* _mesh_feedback
  pubs,       \* _mesh_feedback_tasks in the order of their creation
  cached,     \* _last_state_fields, or None
  wire,       \* what this bridge last had the broker retain, or None
  command,    \* a command in the load's lane, or None
  handler,    \* the command being handled
  rpcs,       \* native writes to the load in order, the first one running
  mirror,     \* the value the bus shows
  actual,     \* the value the load has
  inputs,     \* how much of MaxInputs is used
  torn        \* history: a publication failed after it was handed over

bridgeVars == <<enabled, snap, gen, pending, fresh, feedback, pubs, cached>>
routeVars == <<route, subscribed, heard>>
loadVars == <<rpcs, mirror, actual>>
commandVars == <<command, handler>>
meshVars == <<leader, at, dev, bridgeVars, routeVars, loadVars, commandVars,
              wire, inputs, torn>>

NoHandler == [at |-> "idle", gen |-> 0, value |-> None]

Happens == inputs < MaxInputs /\ inputs' = inputs + 1

-----------------------------------------------------------------------------
\* A _PendingMeshWrite; a generation begins with each command, so that it and the
\* status stand for the identity of the object.
Rec(status, h) == [gen |-> h.gen, status |-> status, value |-> h.value]

Free(t) == \A i \in DOMAIN pubs : pubs[i].owner # t

Owns(r, g) == enabled /\ gen = g /\ feedback = r

\* The overlay of the feedback record on the observed value.
Project(v, r) ==
  IF r = None THEN [state |-> v, status |-> "idle", asked |-> 0]
  ELSE [state  |-> IF r.status \in {"pending", "unconfirmed"} THEN None ELSE v,
        status |-> r.status,
        asked  |-> IF r.status = "pending" THEN r.gen ELSE 0]

\* Faulty variant: a revoked publication leaves the cache alone.
CachedAfterRevokingKeeps(ps, c) == c

\* _set_mesh_feedback: the publications under way are cancelled, and with one
\* of them the knowledge of what the broker retains.
CachedAfterRevoking(ps, c) == IF ps = <<>> THEN c ELSE None

\* _publish_state by task t of value v under the feedback r, when ps is under
\* way and c is cached.
Published(t, v, r, ps, c, force) ==
  IF v = None \/ ~enabled \/ ~leader \/ (~force /\ c = Project(v, r)) THEN ps
  ELSE Append(ps, [owner |-> t, fields |-> Project(v, r), gen |-> gen, rec |-> r,
                   sent |-> FALSE])

\* Faulty variant: what expired unconfirmed is kept for the next command.
ClosedByAnswer(r) == r # None /\ r.status \notin {"superseded", "unconfirmed"}

\* A record that the next observation takes away.
Closed(r) == r # None /\ r.status # "superseded"

\* _observe_mesh_pending of an observed value: what it makes of the record.
Observed(v) ==
  LET kept(clock) == [pending |-> pending, fresh |-> clock, feedback |-> feedback,
                      pubs |-> pubs, cached |-> cached]
      revoked(r) == [pending |-> None, fresh |-> FALSE, feedback |-> r,
                     pubs |-> <<>>, cached |-> CachedAfterRevoking(pubs, cached)]
  IN IF pending = None
     THEN IF Closed(feedback) THEN revoked(None) ELSE kept(fresh)
     ELSE IF ~Owns(pending, pending.gen) THEN kept(fresh)
     ELSE IF v = pending.value THEN kept(TRUE)
     ELSE revoked(Rec("contradicted", pending))

Observe(o) ==
  /\ pending' = o.pending
  /\ fresh' = o.fresh
  /\ feedback' = o.feedback
  /\ cached' = o.cached

\* An observation that is published in the same slice of the event loop.
ObserveAndPublish(t, v) ==
  LET o == Observed(v)
  IN /\ snap' = v
     /\ Observe(o)
     /\ pubs' = Published(t, v, o.feedback, o.pubs, o.cached, FALSE)
     /\ UNCHANGED <<enabled, gen>>

-----------------------------------------------------------------------------
(* The tick loop and the reconcile after a reconnection                    *)

Goto(t, where) == at' = [at EXCEPT ![t] = where]
Idle(t) == at[t] = "idle" /\ Free(t)

elsewhere == <<loadVars, commandVars, wire, torn>>

\* A hot poll reads the bus, and uses the snapshot after the panel's own part.
PollRead ==
  /\ Idle("tick") /\ leader
  /\ Goto("tick", "poll")
  /\ dev' = [dev EXCEPT !["tick"] = mirror]
  /\ UNCHANGED <<leader, bridgeVars, routeVars, inputs, elsewhere>>

Polled ==
  /\ at["tick"] = "poll"
  /\ ObserveAndPublish("tick", dev["tick"])
  /\ Goto("tick", "idle")
  /\ dev' = [dev EXCEPT !["tick"] = None]
  /\ UNCHANGED <<leader, routeVars, inputs, elsewhere>>

\* reconcile() up to the return of get_all().
Read(t) ==
  /\ Idle(t)
  /\ dev' = [dev EXCEPT ![t] = mirror]
  /\ enabled' = TRUE
  /\ Goto(t, "announce")
  /\ UNCHANGED <<snap, gen, pending, fresh, feedback, pubs, cached, routeVars, elsewhere>>

\* on_acquire, or the periodic resync.
Reconcile == Read("tick") /\ leader' = TRUE /\ UNCHANGED inputs

Reconnect == leader /\ Read("reconnect") /\ Happens /\ UNCHANGED leader

\* The bridge's availability is published; the discovery configs follow.
Announced(t) ==
  /\ at[t] = "announce"
  /\ LET o == Observed(dev[t]) IN Observe(o) /\ pubs' = o.pubs
  /\ snap' = dev[t]
  /\ Goto(t, "configure")
  /\ UNCHANGED <<leader, dev, enabled, gen, routeVars, inputs, elsewhere>>

Configured(t) ==
  /\ at[t] = "configure"
  /\ pubs' = Published(t, dev[t], feedback, pubs, cached, TRUE)
  /\ Goto(t, "register")
  /\ dev' = [dev EXCEPT ![t] = None]
  /\ UNCHANGED <<leader, enabled, snap, gen, pending, fresh, feedback, cached,
                 routeVars, inputs, elsewhere>>

Register(t) ==
  /\ at[t] = "register" /\ Free(t)
  /\ route' = TRUE
  /\ heard' = (heard \/ ~subscribed)
  /\ Goto(t, IF subscribed THEN "idle" ELSE "subscribe")
  /\ UNCHANGED <<leader, dev, bridgeVars, subscribed, inputs, elsewhere>>

Subscribed(t) ==
  /\ at[t] = "subscribe"
  /\ subscribed' = TRUE
  /\ Goto(t, "idle")
  /\ UNCHANGED <<leader, dev, bridgeVars, route, heard, inputs, elsewhere>>

\* The election is lost: withdraw() up to its first await.  From now on the
\* new leader publishes the load.  A reconcile of a reconnection that is under way
\* goes on, and may register and subscribe the load's topic again.
LoseElection ==
  /\ Idle("tick") /\ leader
  /\ inputs <= MaxInputs /\ inputs' = inputs + 1
  /\ leader' = FALSE
  /\ route' = FALSE /\ subscribed' = FALSE
  /\ pending' = None /\ fresh' = FALSE
  /\ enabled' = FALSE /\ feedback' = None /\ pubs' = <<>>
  /\ gen' = gen + 1
  /\ wire' = None /\ torn' = FALSE
  /\ Goto("tick", IF route THEN "unsubscribe" ELSE "clear")
  /\ UNCHANGED <<dev, snap, cached, heard, loadVars, commandVars>>

Unsubscribe ==
  /\ at["tick"] = "unsubscribe"
  /\ heard' = FALSE
  /\ Goto("tick", "clear")
  /\ UNCHANGED <<leader, dev, bridgeVars, route, subscribed, inputs, elsewhere>>

WithdrawEnds ==
  /\ at["tick"] = "clear"
  /\ cached' = None /\ snap' = None
  /\ Goto("tick", "idle")
  /\ UNCHANGED <<leader, dev, enabled, gen, pending, fresh, feedback, pubs,
                 routeVars, inputs, elsewhere>>

\* _on_change, with the value the bus shows.
Push ==
  /\ leader /\ Free("push")
  /\ ObserveAndPublish("push", mirror)
  /\ UNCHANGED <<leader, at, dev, routeVars, inputs, elsewhere>>

-----------------------------------------------------------------------------
(* The command lane                                                        *)

CommandArrives(v) ==
  /\ heard /\ command = None
  /\ Happens
  /\ command' = v
  /\ UNCHANGED <<leader, at, dev, bridgeVars, routeVars, loadVars, handler, wire,
                 torn>>

NotRouted == ~route \/ snap = None

DropCommand ==
  /\ command # None /\ handler.at = "idle" /\ Free("handler") /\ NotRouted
  /\ command' = None
  /\ UNCHANGED <<leader, at, dev, bridgeVars, routeVars, loadVars, handler, wire,
                 inputs, torn>>

\* _write_mesh_primary up to its first await.
SupersedeWrite(v) ==
  LET h == [at |-> "writing", gen |-> gen + 1, value |-> v]
  IN /\ gen' = gen + 1
     /\ handler' = h
     /\ pending' = None /\ fresh' = FALSE
     /\ feedback' = IF feedback = None THEN None ELSE Rec("superseded", h)
     /\ pubs' = <<>> /\ cached' = CachedAfterRevoking(pubs, cached)
     /\ UNCHANGED <<enabled, snap>>

HandleCommand ==
  /\ command # None /\ handler.at = "idle" /\ Free("handler") /\ ~NotRouted
  /\ command' = None
  /\ SupersedeWrite(command)
  /\ rpcs' = Append(rpcs, [value |-> command, at |-> "waiting", held |-> TRUE])
  /\ UNCHANGED <<leader, at, dev, routeVars, mirror, actual, wire, inputs, torn>>

\* The write the handler awaits is the last one.
HandlerAwaits == Len(rpcs) > 0 /\ Last(rpcs).held

\* The lane folds the next command into the write that still waits; the
\* handler returns as superseded and is run again for the folded command.
FoldCommand ==
  /\ command # None /\ handler.at = "writing" /\ HandlerAwaits /\ Last(rpcs).at = "waiting"
  /\ handler.gen = gen /\ ~NotRouted
  /\ rpcs' = [rpcs EXCEPT ![Len(rpcs)].value = command]
  /\ handler' = [handler EXCEPT !.at = "folded", !.value = command]
  /\ command' = None
  /\ UNCHANGED <<leader, at, dev, bridgeVars, routeVars, mirror, actual, wire,
                 inputs, torn>>

HandleFolded ==
  /\ handler.at = "folded" /\ ~NotRouted
  /\ SupersedeWrite(handler.value)
  /\ UNCHANGED <<leader, at, dev, routeVars, loadVars, command, wire, inputs, torn>>

\* Without a route the folded write is cancelled if it still waits.
DropFolded ==
  /\ handler.at = "folded" /\ NotRouted
  /\ handler' = NoHandler
  /\ rpcs' = IF Last(rpcs).at = "waiting" THEN Front(rpcs)
             ELSE [rpcs EXCEPT ![Len(rpcs)].held = FALSE]
  /\ UNCHANGED <<leader, at, dev, bridgeVars, routeVars, mirror, actual, command,
                 wire, inputs, torn>>

-----------------------------------------------------------------------------
(* The native write                                                        *)

busOnly == <<leader, at, dev, routeVars, command, wire, torn>>

IssueWrite ==
  /\ rpcs # <<>> /\ Head(rpcs).at = "waiting"
  /\ rpcs' = [rpcs EXCEPT ![1].at = "issued"]
  /\ UNCHANGED <<busOnly, bridgeVars, mirror, actual, handler, inputs>>

\* The panel accepts the write: the bus shows it, the mesh may drop it.
Accept(v) ==
  /\ rpcs # <<>> /\ Head(rpcs).at = "issued"
  /\ v \in {actual, Head(rpcs).value}
  /\ rpcs' = [rpcs EXCEPT ![1].at = "accepted"]
  /\ mirror' = Head(rpcs).value
  /\ actual' = v
  /\ UNCHANGED <<busOnly, bridgeVars, handler, inputs>>

\* The handler arms the confirmation and publishes, unless a withdrawal
\* outran it.
Settle(status, force) ==
  /\ handler' = NoHandler
  /\ IF gen # handler.gen THEN UNCHANGED bridgeVars
     ELSE LET r == Rec(status, handler)
              c == CachedAfterRevoking(pubs, cached)
          IN /\ pending' = IF status = "pending" THEN r ELSE None
             /\ fresh' = FALSE
             /\ feedback' = r
             /\ cached' = c
             /\ pubs' = Published("handler", snap, r, <<>>, c, force)
             /\ UNCHANGED <<enabled, snap, gen>>

\* A write returns to the handler that awaits it, or to nobody.
Answerable == rpcs # <<>> /\ (Head(rpcs).held => handler.at = "writing")

Reply ==
  /\ Answerable /\ Head(rpcs).at = "accepted"
  /\ rpcs' = Tail(rpcs)
  /\ IF Head(rpcs).held THEN Settle("pending", FALSE) ELSE UNCHANGED <<bridgeVars, handler>>
  /\ UNCHANGED <<busOnly, mirror, actual, inputs>>

Fail ==
  /\ Answerable /\ Head(rpcs).at = "issued"
  /\ rpcs' = Tail(rpcs)
  /\ IF Head(rpcs).held THEN Settle("failed", TRUE) ELSE UNCHANGED <<bridgeVars, handler>>
  /\ UNCHANGED <<busOnly, mirror, actual, inputs>>

\* The deadline of the handler passes; the write goes on without it.
Timeout ==
  /\ Answerable /\ Head(rpcs).held /\ Head(rpcs).at \in {"issued", "accepted"}
  /\ rpcs' = [rpcs EXCEPT ![1].held = FALSE]
  /\ Settle("pending", FALSE)
  /\ UNCHANGED <<busOnly, mirror, actual, inputs>>

\* The backend reconciles the bus with the load.
Revert ==
  /\ mirror # actual
  /\ mirror' = actual
  /\ UNCHANGED <<busOnly, bridgeVars, rpcs, actual, handler, inputs>>

\* Somebody switches the load by hand.
ByHand(v) ==
  /\ v # actual
  /\ Happens
  /\ actual' = v /\ mirror' = v
  /\ UNCHANGED <<busOnly, bridgeVars, rpcs, handler>>

-----------------------------------------------------------------------------
(* Confirmation and publication                                            *)

timerOnly == <<leader, at, dev, enabled, gen, routeVars, elsewhere>>

\* No observation comes for longer than the confirmation accepts.
Stale ==
  /\ fresh
  /\ fresh' = FALSE
  /\ UNCHANGED <<timerOnly, snap, pending, feedback, pubs, cached, inputs>>

\* The timer of the pending record ends.
Due == pending # None /\ Owns(pending, pending.gen) /\ Free("resolver")

Confirm ==
  /\ Due /\ fresh
  /\ pending' = None /\ fresh' = FALSE /\ feedback' = None
  /\ snap' = IF snap = None THEN None ELSE pending.value
  /\ LET c == CachedAfterRevoking(pubs, cached)
     IN cached' = c /\ pubs' = Published("resolver", snap', None, <<>>, c, FALSE)
  /\ UNCHANGED <<timerOnly, inputs>>

\* Faulty variant: the expired record stays pending.
ExpireKeepsPending ==
  /\ Due /\ ~fresh
  /\ feedback' = Rec("unconfirmed", pending)
  /\ LET c == CachedAfterRevoking(pubs, cached)
     IN cached' = c /\ pubs' = Published("resolver", snap, feedback', <<>>, c, FALSE)
  /\ UNCHANGED <<timerOnly, fresh, snap, pending, inputs>>

Expire ==
  /\ Due /\ ~fresh
  /\ pending' = None
  /\ feedback' = Rec("unconfirmed", pending)
  /\ LET c == CachedAfterRevoking(pubs, cached)
     IN cached' = c /\ pubs' = Published("resolver", snap, feedback', <<>>, c, FALSE)
  /\ UNCHANGED <<timerOnly, fresh, snap, inputs>>

\* Tasks start in the order of their creation, and the client sends in order.
Sent == {i \in DOMAIN pubs : pubs[i].sent}
IsNext(i) == i \in DOMAIN pubs /\ Sent = 1 .. i - 1

pubOnly == <<leader, dev, enabled, snap, gen, pending, fresh, feedback, routeVars,
             loadVars, commandVars>>

Start ==
  \E i \in DOMAIN pubs :
    /\ IsNext(i)
    /\ IF Owns(pubs[i].rec, pubs[i].gen) /\ leader
       THEN /\ wire' = pubs[i].fields /\ torn' = FALSE
            /\ pubs' = [pubs EXCEPT ![i].sent = TRUE]
       ELSE pubs' = RemoveAt(pubs, i) /\ UNCHANGED <<wire, torn>>
    /\ UNCHANGED <<pubOnly, at, cached, inputs>>

Complete ==
  /\ 1 \in Sent
  /\ cached' = IF Owns(pubs[1].rec, pubs[1].gen) THEN pubs[1].fields ELSE cached
  /\ pubs' = Tail(pubs)
  /\ UNCHANGED <<pubOnly, at, wire, torn, inputs>>

\* A publication fails, before it is handed to the client or while it waits for
\* the socket; a reconcile ends with it.
PublishFails ==
  \E i \in DOMAIN pubs :
    /\ i = 1 \/ IsNext(i)
    /\ Happens
    /\ torn' = (torn \/ Sent = {i})
    /\ at' = [t \in Loops |-> IF t = pubs[i].owner THEN "idle" ELSE at[t]]
    /\ pubs' = RemoveAt(pubs, i)
    /\ UNCHANGED <<pubOnly, cached, wire>>

-----------------------------------------------------------------------------
MeshInit ==
  /\ leader = FALSE
  /\ at = [t \in Loops |-> "idle"] /\ dev = [t \in Loops |-> None]
  /\ enabled = TRUE
  /\ route = FALSE /\ subscribed = FALSE /\ heard = FALSE
  /\ snap = None /\ gen = 0
  /\ pending = None /\ fresh = FALSE /\ feedback = None
  /\ pubs = <<>> /\ cached = None /\ wire = None
  /\ command = None /\ handler = NoHandler
  /\ rpcs = <<>>
  /\ mirror = CHOOSE v \in Values : TRUE \* the values are interchangeable
  /\ actual = mirror
  /\ inputs = 0
  /\ torn = FALSE

Loop(t) == Announced(t) \/ Configured(t) \/ Register(t) \/ Subscribed(t)
Election == LoseElection \/ Unsubscribe \/ WithdrawEnds
Lane == DropCommand \/ HandleCommand \/ FoldCommand \/ HandleFolded \/ DropFolded
Bus == IssueWrite \/ (\E v \in Values : Accept(v)) \/ Reply

MeshNext ==
  \/ PollRead \/ Polled \/ Reconcile \/ Reconnect \/ Election \/ Push
  \/ \E t \in Loops : Loop(t)
  \/ \E v \in Values : CommandArrives(v) \/ ByHand(v)
  \/ Lane \/ Bus \/ Fail \/ Timeout \/ Revert
  \/ Stale \/ Confirm \/ Expire
  \/ Start \/ Complete \/ PublishFails

MeshSpec == MeshInit /\ [][MeshNext]_meshVars

\* Tasks that can run do, the tick loop polls and resyncs again and again,
\* writes return, the backend reconciles, and the confirmation timer ends.
MeshFairness ==
  /\ SF_meshVars(PollRead) /\ SF_meshVars(leader /\ Reconcile)
  /\ WF_meshVars(Polled \/ Loop("tick") \/ Unsubscribe \/ WithdrawEnds)
  /\ WF_meshVars(Loop("reconnect"))
  /\ WF_meshVars(Lane) /\ WF_meshVars(Bus) /\ WF_meshVars(Revert)
  /\ SF_meshVars(Confirm \/ Expire)
  /\ WF_meshVars(Start) /\ WF_meshVars(Complete)

MeshFairSpec == MeshSpec /\ MeshFairness

-----------------------------------------------------------------------------
Record == [gen: Nat, value: Values,
           status: {"superseded", "pending", "failed", "contradicted", "unconfirmed"}]
StateFields ==
  [state: Values, asked: {0}, status: {"idle", "superseded", "failed", "contradicted"}]
    \cup [state: {None}, asked: Nat, status: {"pending", "unconfirmed"}]
Publication == [owner: Tasks, fields: StateFields, gen: Nat, rec: Record \cup {None},
                sent: BOOLEAN]

Writes == [value: Values, at: {"waiting", "issued", "accepted"}, held: BOOLEAN]

BridgeTypes ==
  /\ enabled \in BOOLEAN /\ fresh \in BOOLEAN
  /\ snap \in Values \cup {None} /\ gen \in Nat
  /\ pending \in Record \cup {None} /\ feedback \in Record \cup {None}
  /\ pubs \in Seq(Publication) /\ cached \in StateFields \cup {None}

LaneTypes ==
  /\ command \in Values \cup {None} /\ mirror \in Values /\ actual \in Values
  /\ handler \in [at: {"idle", "writing", "folded"}, gen: Nat, value: Values \cup {None}]
  /\ handler.at # "idle" => handler.value \in Values
  /\ rpcs \in Seq(Writes)

LoopTypes ==
  /\ at["tick"] \in {"idle", "poll", "announce", "configure", "register",
                     "subscribe", "unsubscribe", "clear"}
  /\ at["reconnect"] \in {"idle", "announce", "configure", "register", "subscribe"}
  /\ at = [t \in Loops |-> at[t]]
  /\ dev \in [Loops -> Values \cup {None}]

ScopeTypes ==
  /\ leader \in BOOLEAN /\ torn \in BOOLEAN
  /\ route \in BOOLEAN /\ subscribed \in BOOLEAN /\ heard \in BOOLEAN
  /\ wire \in StateFields \cup {None}

\* Every variable holds what its place in the bridge can hold, and the handler knows
\* the value it has to write; a published state is withheld for a pending or an
\* unconfirmed write and for nothing else.
MeshTypeOK == BridgeTypes /\ LaneTypes /\ LoopTypes /\ ScopeTypes

\* On the leader, a pending record is the feedback in force, so that its timer can
\* close it: the state is not withheld for ever.
PendingCanSettle == leader /\ pending # None => Owns(pending, pending.gen)

\* While no publication is under way, what the bridge believes the broker
\* retains is what it retains, so that a change is never suppressed as already
\* published.  Excepted: a publication that timed out on its way (the next
\* resync repairs it), and a withdrawal that still runs.
CachedIsRetained ==
  cached = None \/ Sent # {} \/ torn \/ at["tick"] \in {"unsubscribe", "clear"}
    \/ cached = wire

\* When commands and faults cease, the leader publishes the state the load has.
EventuallyTrue == <>[](leader => wire # None /\ wire.state = actual)
=============================================================================
