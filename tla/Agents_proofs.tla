---------------------------- MODULE Agents_proofs ----------------------------
(***************************************************************************)
(* Safety of the agents' sessions and of the election among them, for      *)
(* every number of failures, pushes and reconnections and every fleet.     *)
(*                                                                         *)
(* OneLivePeer rests on an account: a peer of each kind is at work once    *)
(* for the adapter that owns it, once for each close that has not returned *)
(* and once for each close that raised, and no adapter owns anything while *)
(* a close is out.  The bounds of the election rest on what a panel waits  *)
(* for: the best panel for a ghost's claim to arrive and to go stale and   *)
(* for its own claim to be confirmed, a worse leader for the better one's  *)
(* next claim and for its own next tick.                                   *)
(***************************************************************************)
EXTENDS Supervisor, MeshLeader, WellFoundedInduction, TLAPS

\* Stages in which the adapter owns nothing.
Bare == {"idle", "unwinding", "closing", "closed"}

Owned(r) == IF r \in open THEN 1 ELSE 0

\* A peer at work is owned or being closed, and never both, or its close raised.
PeersAreAccounted ==
    /\ open \subseteq Resources
    /\ closers \in [Resources -> Nat] /\ ghosts \in [Resources -> Nat]
    /\ alive = [r \in Resources |-> closers[r] + Owned(r) + ghosts[r]]
    /\ \A r \in Resources : closers[r] <= 1
    /\ open # {} => ~Fenced
    /\ stage \in Bare => open = {}
    /\ at = "backoff" => stage = "closed"

-----------------------------------------------------------------------------
\* A fresh process owns nothing, and none of its peers is at work.
LEMMA InitAccounted == Init => PeersAreAccounted
BY DEF Init, BusInit, PeersAreAccounted, Nobody, Owned, Fenced, Bare

\* The adapter's own steps.
LEMMA StartAccounted ==
  ASSUME PeersAreAccounted, NEW S \in SUBSET Resources, Allocate(S), at' = at
  PROVE  PeersAreAccounted'
<1> USE DEF PeersAreAccounted, Allocate, Bare, Fenced
<1>1. /\ open = {} /\ open' = S /\ stage' = "starting"
      /\ closers' = closers /\ ghosts' = ghosts
  OBVIOUS
<1>2. \A r \in Resources : closers[r] = 0 /\ alive[r] = ghosts[r]
  BY <1>1 DEF Owned
<1>3. alive' = [r \in Resources |-> closers'[r] + Owned(r)' + ghosts'[r]]
  BY <1>1, <1>2 DEF Owned, Plus
<1> QED BY <1>1, <1>2, <1>3

\* What was owned is being closed from now on: it still counts once.
LEMMA CloseAccounted ==
  ASSUME PeersAreAccounted, NEW next, CloseOwned(next), next \in Bare, at' # "backoff"
  PROVE  PeersAreAccounted'
<1> USE DEF PeersAreAccounted, CloseOwned, Fenced
<1>1. open' = {} /\ alive' = alive /\ ghosts' = ghosts
  OBVIOUS
<1>2. \A r \in Resources : r \in open => closers[r] = 0
  OBVIOUS
<1>3. closers' = [r \in Resources |-> closers[r] + Owned(r)]
  BY DEF Plus, Owned
<1>4. closers' \in [Resources -> Nat] /\ \A r \in Resources : closers'[r] <= 1
  BY <1>2, <1>3 DEF Owned
<1>5. alive' = [r \in Resources |-> closers'[r] + Owned(r)' + ghosts'[r]]
  BY <1>1, <1>3, <1>4 DEF Owned
<1> QED BY <1>1, <1>4, <1>5

\* A close that returns is struck off both sides of the account; one that raised
\* is carried over to the peers that were given up.
LEMMA ClosedAccounted ==
  ASSUME PeersAreAccounted, NEW r \in Resources, Closed(r) \/ CloseFails(r), at' = at
  PROVE  PeersAreAccounted'
<1> USE DEF PeersAreAccounted, Fenced
<1>1. /\ open' = open /\ stage' = stage
      /\ closers' = [closers EXCEPT ![r] = @ - 1]
  BY DEF Closed, CloseFails
<1>2. open = {} /\ closers[r] > 0
  BY DEF Closed, CloseFails
<1>3. closers' \in [Resources -> Nat] /\ \A q \in Resources : closers'[q] <= 1
  BY <1>1, <1>2
<1>4. \A q \in Resources : alive[q] = closers[q] + ghosts[q]
  BY <1>2 DEF Owned
<1>5. \/ alive' = [alive EXCEPT ![r] = @ - 1] /\ ghosts' = ghosts
      \/ alive' = alive /\ ghosts' = [ghosts EXCEPT ![r] = @ + 1]
  BY DEF Closed, CloseFails
<1>6. ghosts' \in [Resources -> Nat] /\ DOMAIN alive' = Resources
  BY <1>5
<1>7. \A q \in Resources : alive'[q] = closers'[q] + ghosts'[q]
  BY <1>1, <1>4, <1>5
<1>8. \A q \in Resources : Owned(q)' = 0
  BY <1>1, <1>2 DEF Owned
<1>9. \A q \in Resources : alive'[q] = closers'[q] + Owned(q)' + ghosts'[q]
  BY <1>3, <1>6, <1>7, <1>8
<1>10. alive' = [q \in Resources |-> alive'[q]]
  BY <1>5
<1>11. alive' = [q \in Resources |-> closers'[q] + Owned(q)' + ghosts'[q]]
  BY <1>9, <1>10
<1> QED BY <1>1, <1>2, <1>3, <1>6, <1>11

\* Every step keeps the account (bus.py:577-618, 1519-1575).
LEMMA StepAccounted == PeersAreAccounted /\ [Next]_vars => PeersAreAccounted'
<1> SUFFICES ASSUME PeersAreAccounted, [Next]_vars PROVE PeersAreAccounted'
  OBVIOUS
<1> DEFINE same == UNCHANGED <<stage, open, alive, closers, ghosts>>
<1> USE DEF resources, busVars
<1>1. ASSUME same, at' = "backoff" => at = "backoff" PROVE PeersAreAccounted'
  BY <1>1 DEF PeersAreAccounted, Owned, Fenced
<1>2. CASE UNCHANGED vars
  BY <1>1, <1>2 DEF vars, control
<1>3. CASE StartBegins \/ ProcessorRaises
  <2>1. at' = at
    BY <1>3 DEF StartBegins, ProcessorRaises, control
  <2> QED BY <1>3, <2>1, StartAccounted DEF StartBegins, ProcessorRaises, Resources
<1>4. CASE StartRaises \/ BusSettled
  <2>1. CloseOwned("unwinding") \/ CloseOwned("closing")
    BY <1>4 DEF StartRaises, BusSettled, StartFails, Settled
  <2>2. at' # "backoff"
    BY <1>4 DEF StartRaises, BusSettled, control
  <2> QED BY <2>1, <2>2, CloseAccounted DEF Bare
<1>5. CASE StartSucceeds
  BY <1>5 DEF StartSucceeds, Commit, PeersAreAccounted, Owned, Fenced, Bare
<1>6. CASE StartUnwound \/ TornDown
  BY <1>6 DEF StartUnwound, TornDown, CloseAwaited, End, PeersAreAccounted, Owned, Fenced, Bare
<1>7. CASE TeardownBegins
  BY <1>7 DEF TeardownBegins, Shutdown, Goto, PeersAreAccounted, Owned, Fenced, Bare
<1>8. CASE NextSession
  BY <1>8 DEF NextSession, NewSession, NewAdapter, PeersAreAccounted, Owned, Fenced, Bare
<1>9. CASE Restart
  BY <1>9 DEF Restart, Nobody, PeersAreAccounted, Owned, Fenced, Bare
<1>10. CASE (BusStep \/ CloseRaises) /\ \E r \in Resources : Closed(r) \/ CloseFails(r)
  <2>1. at' = at
    BY <1>10 DEF BusStep, CloseRaises, control
  <2> QED BY <1>10, <2>1, ClosedAccounted
<1>11. CASE \/ Connected \/ ConnectFails \/ StartFenced \/ Reconciled \/ ReconcileFails
            \/ TickFails \/ StreamIsStale \/ TickRaises \/ Tick \/ Polled \/ PollTimesOut
            \/ PollRaises \/ Resynced \/ ResyncFails \/ Crash \/ Stall \/ Heal
            \/ \E f \in Latches : Latch(f)
  <2>1. same
    BY <1>11 DEF Connected, ConnectFails, StartFenced, Reconciled, ReconcileFails, TickFails,
       StreamIsStale, TickRaises, Tick, Polled, PollTimesOut, PollRaises, Resynced, ResyncFails,
       Crash, Stall, Heal, Latch, adapter
  <2>2. at' = "backoff" => at = "backoff"
    BY <1>11 DEF Connected, ConnectFails, StartFenced, Reconciled, ReconcileFails, TickFails,
       StreamIsStale, TickRaises, Tick, Polled, PollTimesOut, PollRaises, Resynced, ResyncFails,
       Crash, Stall, Heal, Latch, End, Goto, control
  <2> QED BY <1>1, <2>1, <2>2
<1>12. CASE \/ BusStep /\ (Push \/ ReconnectUnseen \/ Reconnect)
            \/ BusWorks \/ ResubscribeFails \/ RunFails
  <2>1. at' = at
    BY <1>12 DEF BusStep, BusWorks, ResubscribeFails, RunFails, control
  <2>2. same
    BY <1>12 DEF BusStep, BusWorks, ResubscribeFails, RunFails, Push, ReconnectUnseen, Reconnect,
       Drain, Resubscribed, RunEnds
  <2> QED BY <1>1, <2>1, <2>2
<1> QED BY <1>2, <1>3, <1>4, <1>5, <1>6, <1>7, <1>8, <1>9, <1>10, <1>11, <1>12
        DEF Next, Works, Fails, BusStep, CloseRaises

\* Two peers of one process are never at work at once, whatever became of earlier
\* starts and however long their closes take; only a close that raised leaves one
\* behind (_begin_session, _close_bus_resources, _shutdown_bus_resource).
THEOREM OnePeerAtATime == Spec => []OneLivePeer
<1>1. PeersAreAccounted => OneLivePeer
  BY DEF PeersAreAccounted, OneLivePeer, Owned, Fenced
<1> QED BY <1>1, InitAccounted, StepAccounted, PTL DEF Spec

-----------------------------------------------------------------------------
\* Before a session serves, no retry is pending and no resync has failed.  Then the
\* reads that timed out since one succeeded are the pending retry of the poll and
\* the resync that was forgiven, and there are none when a resync begins.
MissesAreExplained ==
    /\ at \in {"connect", "start", "first"} => misses = 0 /\ ~retry /\ fails = 0
    /\ at \in Serving =>
        /\ misses \in Nat /\ fails \in {0, 1}
        /\ misses <= fails + 1 /\ (~retry => misses <= fails)
        /\ at = "resync" => misses = 0 /\ ~retry

\* No step serves more unanswered reads than the pending retry and the forgiven
\* resync explain (__main__.py:427-497).
LEMMA StepExplained == MissesAreExplained /\ [Next]_vars => MissesAreExplained'
<1> SUFFICES ASSUME MissesAreExplained, [Next]_vars PROVE MissesAreExplained'
  OBVIOUS
<1> USE DEF MissesAreExplained, Serving
<1>1. ASSUME UNCHANGED <<at, retry, fails, misses>> PROVE MissesAreExplained'
  BY <1>1
<1>2. CASE \/ UNCHANGED vars \/ StartBegins \/ ProcessorRaises \/ StartRaises
           \/ BusSettled \/ Heal \/ Stall \/ BusStep \/ BusWorks \/ ResubscribeFails
           \/ RunFails \/ CloseRaises \/ \E f \in Latches : Latch(f)
  BY <1>1, <1>2 DEF vars, control, StartBegins, ProcessorRaises, StartRaises, BusSettled,
     Heal, Stall, BusStep, BusWorks, ResubscribeFails, RunFails, CloseRaises, Latch
<1>3. CASE \/ ConnectFails \/ StartFenced \/ StartUnwound \/ ReconcileFails \/ TickFails
           \/ StreamIsStale \/ TickRaises \/ PollRaises \/ TeardownBegins \/ TornDown \/ Crash
  BY <1>3 DEF ConnectFails, StartFenced, StartUnwound, ReconcileFails, TickFails, StreamIsStale,
     TickRaises, PollRaises, TeardownBegins, TornDown, Crash, End, Goto
<1>4. CASE Connected \/ StartSucceeds
  BY <1>4 DEF Connected, StartSucceeds, Goto
<1>5. CASE NextSession \/ Restart
  BY <1>5 DEF NextSession, NewSession, Restart
<1>6. CASE Reconciled \/ Tick
  <2>1. CASE Reconciled
    <3>1. misses' = 0 /\ ~retry' /\ fails' = 0 /\ at' = "loop"
      BY <2>1 DEF Reconciled
    <3> QED BY <3>1
  <2>2. CASE Tick
    BY <2>2 DEF Tick, Goto
  <2> QED BY <1>6, <2>1, <2>2
<1>7. CASE Polled \/ Resynced
  <2>1. /\ misses' = 0 /\ ~retry' /\ at' \in {"loop", "resync"}
        /\ fails' = 0 \/ fails' = 1
    BY <1>7 DEF Polled, Resynced
  <2>2. CASE fails' = 0
    BY <2>1, <2>2
  <2>3. CASE fails' = 1
    BY <2>1, <2>3
  <2> QED BY <2>1, <2>2, <2>3
<1>8. CASE PollTimesOut
  <2>1. CASE retry
    BY <1>8, <2>1 DEF PollTimesOut, End
  <2>2. CASE ~retry
    <3>1. /\ at = "poll" /\ at' = "loop" /\ retry' = TRUE
          /\ misses' = misses + 1 /\ fails' = fails
      BY <1>8, <2>2 DEF PollTimesOut
    <3>2. misses \in Nat /\ fails \in {0, 1} /\ misses <= fails
      BY <3>1, <2>2
    <3> QED BY <3>1, <3>2
  <2> QED BY <2>1, <2>2, <1>8
<1>9. CASE ResyncFails
  <2>1. CASE fails >= 1
    BY <1>9, <2>1 DEF ResyncFails, End
  <2>2. CASE ~(fails >= 1)
    <3>1. /\ at = "resync" /\ at' = "loop" /\ fails' = 1
          /\ misses' \in {misses, misses + 1} /\ retry' = retry
      BY <1>9, <2>2 DEF ResyncFails
    <3>2. misses = 0 /\ ~retry
      BY <3>1
    <3> QED BY <3>1, <3>2
  <2> QED BY <2>1, <2>2
<1> QED BY <1>2, <1>3, <1>4, <1>5, <1>6, <1>7, <1>8, <1>9 DEF Next, Works, Fails

\* However the polls and resyncs are mixed, a serving session has left at most two
\* reads in a row unanswered (_run_session).
THEOREM ThirdMissEnds == Spec => []StallsAreBounded
<1>1. Init => MissesAreExplained
  BY DEF Init, MissesAreExplained, Serving
<1>2. MissesAreExplained => StallsAreBounded
  BY DEF MissesAreExplained, StallsAreBounded, Serving
<1> QED BY <1>1, <1>2, StepExplained, PTL DEF Spec

-----------------------------------------------------------------------------
\* What a live session owes a callback: everything since the last snapshot, in
\* order, or the newest snapshot alone; and a task to hand it over.
Owes(c) ==
    /\ done[c] <= sent
    /\ pending[c] # <<>> => drain[c]
    /\ c \in Lossless =>
         /\ Len(pending[c]) = sent - done[c]
         /\ \A i \in 1 .. Len(pending[c]) : pending[c][i] = done[c] + i
    /\ c \notin Lossless =>
         \/ pending[c] = <<>> /\ done[c] = sent
         \/ pending[c] = <<sent>> /\ done[c] < sent

\* A session that is not live yet has been sent nothing.
PushesAreOwed ==
    /\ sent \in Nat
    /\ pending \in [Callbacks -> Seq(Nat)]
    /\ done \in [Callbacks -> Nat]
    /\ drain \in [Callbacks -> BOOLEAN]
    /\ stage \in {"idle", "starting"} =>
         sent = 0 /\ \A c \in Callbacks : done[c] = 0 /\ pending[c] = <<>>
    /\ stage = "live" => \A c \in Callbacks : Owes(c)

\* Each callback is owed the newest push, and Lossless ones all of them.
LEMMA OwedIsNotLost == PushesAreOwed => NoPushLost
<1> SUFFICES ASSUME PushesAreOwed, stage = "live", NEW c \in Callbacks
             PROVE  /\ done[c] < sent => drain[c] /\ pending[c] # <<>>
                    /\ pending[c] # <<>> => pending[c][Len(pending[c])] = sent
                    /\ \A i \in 1 .. Len(pending[c]) : pending[c][i] > done[c]
                    /\ c \in Lossless => Len(pending[c]) = sent - done[c]
  BY DEF NoPushLost
<1>1. /\ sent \in Nat /\ done[c] \in Nat /\ pending[c] \in Seq(Nat)
      /\ Owes(c)
  BY DEF PushesAreOwed
<1>2. CASE c \in Lossless
  <2>1. /\ Len(pending[c]) = sent - done[c] /\ done[c] <= sent
        /\ \A i \in 1 .. Len(pending[c]) : pending[c][i] = done[c] + i
        /\ pending[c] # <<>> => drain[c]
    BY <1>1, <1>2 DEF Owes
  <2>2. pending[c] = <<>> <=> Len(pending[c]) = 0
    BY <1>1
  <2>3. pending[c] # <<>> => Len(pending[c]) \in 1 .. Len(pending[c])
    BY <1>1, <2>2
  <2> QED BY <1>1, <2>1, <2>2, <2>3
<1>3. CASE c \notin Lossless
  BY <1>1, <1>3 DEF Owes
<1> QED BY <1>2, <1>3

\* A push is queued behind the others, or replaces them.
LEMMA PushOwed ==
  ASSUME PushesAreOwed, Push
  PROVE  PushesAreOwed'
<1>1. /\ sent \in Nat /\ sent' = sent + 1 /\ done' = done
      /\ done \in [Callbacks -> Nat] /\ pending \in [Callbacks -> Seq(Nat)]
      /\ stage = "live" /\ stage' = stage
  BY DEF Push, PushesAreOwed
<1>2. drain' \in [Callbacks -> BOOLEAN] /\ \A c \in Callbacks : drain'[c]
  BY DEF Push
<1>3. pending' \in [Callbacks -> Seq(Nat)]
  BY <1>1 DEF Push
<1>4. ASSUME NEW c \in Callbacks PROVE Owes(c)'
  <2>1. done[c] \in Nat /\ pending[c] \in Seq(Nat) /\ Owes(c)
    BY <1>1 DEF PushesAreOwed
  <2>2. done'[c] <= sent' /\ done'[c] < sent' /\ drain'[c]
    BY <1>1, <1>2, <2>1 DEF Owes
  <2>3. CASE c \in Lossless
    <3>1. pending'[c] = Append(pending[c], sent')
      BY <2>3 DEF Push
    <3>2. /\ Len(pending[c]) = sent - done[c]
          /\ \A i \in 1 .. Len(pending[c]) : pending[c][i] = done[c] + i
      BY <2>1, <2>3 DEF Owes
    <3>3. Len(pending'[c]) = Len(pending[c]) + 1
      BY <1>1, <2>1, <3>1
    <3>4. \A i \in 1 .. Len(pending'[c]) : pending'[c][i] = done[c] + i
      BY <1>1, <2>1, <3>1, <3>2, <3>3
    <3>5. Len(pending'[c]) = sent' - done[c]
      BY <1>1, <2>1, <3>2, <3>3
    <3> QED BY <1>1, <2>2, <2>3, <3>4, <3>5 DEF Owes
  <2>4. CASE c \notin Lossless
    <3>1. pending'[c] = <<sent'>>
      BY <2>4 DEF Push
    <3> QED BY <2>2, <2>4, <3>1 DEF Owes
  <2> QED BY <2>3, <2>4
<1> QED BY <1>1, <1>2, <1>3, <1>4 DEF PushesAreOwed

\* What is handed over is the next snapshot of the queue; a drain task that ends
\* in a live session had nothing left.
LEMMA DrainOwed ==
  ASSUME PushesAreOwed, NEW c \in Callbacks, Drain(c)
  PROVE  PushesAreOwed'
<1>1. /\ sent' = sent /\ stage' = stage /\ sent \in Nat
      /\ done \in [Callbacks -> Nat] /\ pending \in [Callbacks -> Seq(Nat)]
      /\ drain[c]
  BY DEF Drain, PushesAreOwed
<1>2. drain \in [Callbacks -> BOOLEAN]
  BY DEF PushesAreOwed
<1>3. CASE stage = "live" /\ pending[c] # <<>>
  <2>1. /\ done' = [done EXCEPT ![c] = Head(pending[c])]
        /\ pending' = [pending EXCEPT ![c] = Tail(@)]
        /\ drain' = drain
    BY <1>3 DEF Drain
  <2>2. /\ pending[c] \in Seq(Nat) /\ pending[c] # <<>> /\ done[c] \in Nat
        /\ Owes(c) /\ Len(pending[c]) \in Nat /\ Len(pending[c]) > 0
    BY <1>1, <1>3 DEF PushesAreOwed
  <2>3. /\ Head(pending[c]) \in Nat /\ Head(pending[c]) = pending[c][1]
        /\ Tail(pending[c]) \in Seq(Nat) /\ Len(Tail(pending[c])) = Len(pending[c]) - 1
        /\ \A i \in 1 .. Len(Tail(pending[c])) : Tail(pending[c])[i] = pending[c][i + 1]
    BY <2>2
  <2>4. /\ done' \in [Callbacks -> Nat] /\ pending' \in [Callbacks -> Seq(Nat)]
        /\ done'[c] = pending[c][1] /\ pending'[c] = Tail(pending[c])
    BY <1>1, <2>1, <2>3
  <2>5. Owes(c)'
    <3>1. CASE c \in Lossless
      <4>1. /\ Len(pending[c]) = sent - done[c]
            /\ \A i \in 1 .. Len(pending[c]) : pending[c][i] = done[c] + i
        BY <2>2, <3>1 DEF Owes
      <4>2. done'[c] = done[c] + 1
        BY <2>2, <2>4, <4>1
      <4>3. Len(pending'[c]) = sent' - done'[c] /\ done'[c] <= sent'
        BY <1>1, <2>2, <2>3, <2>4, <4>1, <4>2
      <4>4. \A i \in 1 .. Len(pending'[c]) : pending'[c][i] = done'[c] + i
        <5> TAKE i \in 1 .. Len(pending'[c])
        <5>1. i \in Nat /\ i + 1 \in 1 .. Len(pending[c])
          BY <2>2, <2>3, <2>4
        <5>2. pending'[c][i] = pending[c][i + 1]
          BY <2>3, <2>4
        <5>3. pending[c][i + 1] = done[c] + (i + 1)
          BY <4>1, <5>1
        <5>4. done[c] \in Nat
          BY <2>2
        <5>5. done[c] + (i + 1) = (done[c] + 1) + i
          BY <5>1, <5>4
        <5> QED BY <4>2, <5>2, <5>3, <5>5
      <4> QED BY <1>1, <2>1, <3>1, <4>3, <4>4 DEF Owes
    <3>2. CASE c \notin Lossless
      <4>1. pending[c] = <<sent>>
        BY <2>2, <3>2 DEF Owes
      <4>2. done'[c] = sent /\ pending'[c] = <<>>
        BY <1>1, <2>4, <4>1
      <4> QED BY <1>1, <3>2, <4>2 DEF Owes
    <3> QED BY <3>1, <3>2
  <2>6. ASSUME NEW d \in Callbacks, d # c PROVE Owes(d)'
    <3>1. done'[d] = done[d] /\ pending'[d] = pending[d] /\ drain'[d] = drain[d]
      BY <1>1, <2>1, <2>6
    <3>2. Owes(d)
      BY <1>3 DEF PushesAreOwed
    <3> QED BY <1>1, <3>1, <3>2 DEF Owes
  <2> QED BY <1>1, <1>2, <1>3, <2>1, <2>4, <2>5, <2>6 DEF PushesAreOwed
<1>4. CASE ~(stage = "live" /\ pending[c] # <<>>)
  <2>1. done' = done /\ pending' = pending /\ drain' = [drain EXCEPT ![c] = FALSE]
    BY <1>4 DEF Drain
  <2>2. drain' \in [Callbacks -> BOOLEAN]
    BY <1>2, <2>1
  <2>3. ASSUME stage = "live", NEW d \in Callbacks PROVE Owes(d)'
    <3>1. Owes(d)
      BY <2>3 DEF PushesAreOwed
    <3>2. pending[d] # <<>> => drain'[d] = drain[d]
      BY <1>2, <1>4, <2>1, <2>3
    <3> QED BY <1>1, <2>1, <3>1, <3>2 DEF Owes
  <2> QED BY <1>1, <2>1, <2>2, <2>3 DEF PushesAreOwed
<1> QED BY <1>3, <1>4

\* The other steps leave the pushes alone, or begin with none.
LEMMA StepOwed == PushesAreOwed /\ [Next]_vars => PushesAreOwed'
<1> SUFFICES ASSUME PushesAreOwed, [Next]_vars PROVE PushesAreOwed'
  OBVIOUS
<1> USE DEF busVars, pushes
<1>1. ASSUME UNCHANGED pushes,
             stage' \in {"idle", "starting"} => stage \in {"idle", "starting"},
             stage' = "live" => stage \in {"starting", "live"}
      PROVE  PushesAreOwed'
  <2>1. ASSUME stage' = "live", NEW c \in Callbacks PROVE Owes(c)'
    <3>1. CASE stage = "live"
      BY <1>1, <2>1, <3>1 DEF PushesAreOwed, Owes
    <3>2. CASE stage = "starting"
      <4>1. sent' = 0 /\ done'[c] = 0 /\ pending'[c] = <<>>
        BY <1>1, <3>2 DEF PushesAreOwed
      <4> QED BY <4>1 DEF Owes
    <3> QED BY <1>1, <2>1, <3>1, <3>2
  <2> QED BY <1>1, <2>1 DEF PushesAreOwed
<1>2. ASSUME NoWork, stage' # "live" PROVE PushesAreOwed'
  BY <1>2 DEF PushesAreOwed, NoWork
<1>3. CASE \/ StartBegins \/ ProcessorRaises \/ StartRaises \/ StartSucceeds \/ StartUnwound
           \/ TeardownBegins \/ TornDown
  BY <1>1, <1>3 DEF StartBegins, ProcessorRaises, StartRaises, StartSucceeds, StartUnwound,
     TeardownBegins, TornDown, Allocate, StartFails, CloseOwned, Commit, CloseAwaited, Shutdown
<1>4. CASE BusSettled \/ NextSession \/ Restart
  BY <1>2, <1>4 DEF BusSettled, NextSession, Restart, Settled, CloseOwned, NewSession, NewAdapter
<1>5. CASE \/ UNCHANGED vars \/ Connected \/ ConnectFails \/ StartFenced \/ Reconciled
           \/ ReconcileFails \/ TickFails \/ StreamIsStale \/ TickRaises \/ Tick \/ Polled
           \/ PollTimesOut \/ PollRaises \/ Resynced \/ ResyncFails \/ Crash \/ Stall \/ Heal
           \/ \E f \in Latches : Latch(f)
  BY <1>1, <1>5 DEF vars, Connected, ConnectFails, StartFenced, Reconciled, ReconcileFails,
     TickFails, StreamIsStale, TickRaises, Tick, Polled, PollTimesOut, PollRaises, Resynced,
     ResyncFails, Crash, Stall, Heal, Latch, adapter
<1>6. CASE BusStep \/ BusWorks \/ ResubscribeFails \/ RunFails \/ CloseRaises
  <2>1. CASE \/ ReconnectUnseen \/ Reconnect \/ RunEnds(TRUE) \/ RunEnds(FALSE)
             \/ Resubscribed(TRUE) \/ Resubscribed(FALSE)
             \/ \E r \in Resources : Closed(r) \/ CloseFails(r)
    BY <1>1, <2>1 DEF ReconnectUnseen, Reconnect, RunEnds, Resubscribed, Closed, CloseFails
  <2> QED BY <1>6, <2>1, PushOwed, DrainOwed
          DEF BusStep, BusWorks, ResubscribeFails, RunFails, CloseRaises
<1> QED BY <1>3, <1>4, <1>5, <1>6 DEF Next, Works, Fails

\* Neither coalescing, nor drain tasks that come and go, nor sessions that end
\* between two pushes lose what the callbacks are owed (_dispatch_raw_device,
\* _drain_pushes).
THEOREM PushesArriveOrWait == Spec => []NoPushLost
<1>1. Init => PushesAreOwed
  BY DEF Init, BusInit, PushesAreOwed
<1> QED BY <1>1, OwedIsNotLost, StepOwed, PTL DEF Spec

-----------------------------------------------------------------------------
\* The queues and the flags of an adapter, and what the supervisor counts.
PushesOK ==
    /\ sent \in 0 .. MaxPushes
    /\ pending \in [Callbacks -> Seq(1 .. MaxPushes)]
    /\ done \in [Callbacks -> 0 .. MaxPushes]
    /\ drain \in [Callbacks -> BOOLEAN]
ReconcilesOK ==
    /\ resub \in Nat /\ reconnects \in 0 .. MaxReconnects
    /\ running \in BOOLEAN /\ dirty \in BOOLEAN /\ gap \in BOOLEAN /\ deaf \in BOOLEAN
    /\ fresh \subseteq Readers
CountsOK ==
    /\ fenced \in Nat /\ fenced <= FencedStartLimit
    /\ at # "dead" => fenced < FencedStartLimit
    /\ fails \in {0, 1} /\ misses \in Nat /\ faults \in 0 .. MaxFaults
PlacesOK ==
    /\ stage \in {"idle", "starting", "unwinding", "live", "settling", "closing", "closed"}
    /\ at \in Places /\ why \in Reasons /\ latch \subseteq Latches
    /\ retry \in BOOLEAN /\ stalled \in BOOLEAN

\* What the reads of the tick loop do to the flags.
TickReads ==
    /\ UNCHANGED <<resub, running, dirty, deaf, reconnects>>
    /\ gap' = gap \/ ReadSucceeds("tick")
    /\ ReadBegins("tick") \/ fresh' = fresh \ {"tick"}

\* What a step does to the queues and the flags.
LEMMA WorkOfAStep ==
  ASSUME [Next]_vars
  PROVE  \/ UNCHANGED <<pushes, reconciles>>
         \/ NoWork
         \/ (Push \/ \E c \in Callbacks : Drain(c)) /\ UNCHANGED reconciles
         \/ /\ \/ ReconnectUnseen \/ Reconnect
               \/ \E ok \in BOOLEAN : RunEnds(ok) \/ Resubscribed(ok)
               \/ TickReads
            /\ UNCHANGED pushes
<1> USE DEF busVars
<1>1. CASE \/ StartBegins \/ ProcessorRaises \/ StartRaises \/ StartSucceeds \/ StartUnwound
           \/ TeardownBegins \/ TornDown
  BY <1>1 DEF StartBegins, ProcessorRaises, StartRaises, StartSucceeds, StartUnwound,
     TeardownBegins, TornDown, Allocate, StartFails, CloseOwned, Commit, CloseAwaited, Shutdown
<1>2. CASE BusSettled \/ NextSession \/ Restart
  BY <1>2 DEF BusSettled, NextSession, Restart, Settled, NewSession, NewAdapter
<1>3. CASE \/ UNCHANGED vars \/ Connected \/ ConnectFails \/ StartFenced \/ Reconciled
           \/ ReconcileFails \/ TickFails \/ StreamIsStale \/ TickRaises
           \/ PollTimesOut \/ PollRaises \/ ResyncFails \/ Crash \/ Stall \/ Heal
           \/ \E f \in Latches : Latch(f)
  BY <1>3 DEF vars, Connected, ConnectFails, StartFenced, Reconciled, ReconcileFails,
     TickFails, StreamIsStale, TickRaises, PollTimesOut, PollRaises,
     ResyncFails, Crash, Stall, Heal, Latch
<1>4. CASE BusStep \/ BusWorks \/ ResubscribeFails \/ RunFails \/ CloseRaises
  <2>1. CASE \/ ReconnectUnseen \/ Reconnect \/ RunEnds(TRUE) \/ RunEnds(FALSE)
             \/ Resubscribed(TRUE) \/ Resubscribed(FALSE)
    BY <2>1 DEF ReconnectUnseen, Reconnect, RunEnds, Resubscribed
  <2>2. CASE \/ Push \/ (\E c \in Callbacks : Drain(c))
             \/ (\E r \in Resources : Closed(r) \/ CloseFails(r))
    BY <2>2 DEF Push, Drain, Closed, CloseFails
  <2> QED BY <1>4, <2>1, <2>2 DEF BusStep, BusWorks, ResubscribeFails, RunFails, CloseRaises
<1>5. CASE Tick \/ Polled \/ Resynced
  BY <1>5 DEF Tick, Polled, Resynced, adapter, TickReads
<1> QED BY <1>1, <1>2, <1>3, <1>4, <1>5 DEF Next, Works, Fails

\* A queue keeps the type of its members.
LEMMA QueueTypes ==
  ASSUME NEW S, NEW queue \in Seq(S)
  PROVE  /\ \A x \in S : Append(queue, x) \in Seq(S) /\ <<x>> \in Seq(S)
         /\ queue # <<>> => Head(queue) \in S /\ Tail(queue) \in Seq(S)
OBVIOUS

\* A queue holds numbers of pushes.
LEMMA PushesTyped == PushesOK /\ [Next]_vars => PushesOK'
<1> SUFFICES ASSUME PushesOK, [Next]_vars PROVE PushesOK'
  OBVIOUS
<1>1. CASE UNCHANGED pushes
  BY <1>1 DEF pushes, PushesOK
<1>2. CASE NoWork
  BY <1>2, BusBoundsAssumption DEF NoWork, PushesOK
<1>3. CASE Push
  <2>1. sent' \in 1 .. MaxPushes /\ sent' \in 0 .. MaxPushes /\ done' = done
    BY <1>3, BusBoundsAssumption DEF Push, PushesOK
  <2>2. ASSUME NEW c \in Callbacks
        PROVE  (IF c \in Lossless THEN Append(pending[c], sent') ELSE <<sent'>>) \in Seq(1 .. MaxPushes)
    <3>1. pending[c] \in Seq(1 .. MaxPushes)
      BY DEF PushesOK
    <3> QED BY <3>1, <2>1, QueueTypes
  <2>3. pending' \in [Callbacks -> Seq(1 .. MaxPushes)] /\ drain' \in [Callbacks -> BOOLEAN]
    BY <1>3, <2>2 DEF Push
  <2> QED BY <2>1, <2>3 DEF PushesOK
<1>4. CASE \E c \in Callbacks : Drain(c)
  <2>1. PICK c \in Callbacks : Drain(c)
    BY <1>4
  <2>2. CASE stage = "live" /\ pending[c] # <<>>
    <3>1. /\ sent' = sent /\ drain' = drain
          /\ done' = [done EXCEPT ![c] = Head(pending[c])]
          /\ pending' = [pending EXCEPT ![c] = Tail(pending[c])]
      BY <2>1, <2>2 DEF Drain
    <3>2. pending[c] \in Seq(1 .. MaxPushes) /\ pending[c] # <<>>
      BY <2>2 DEF PushesOK
    <3>3. Head(pending[c]) \in 0 .. MaxPushes /\ Tail(pending[c]) \in Seq(1 .. MaxPushes)
      <4>1. Head(pending[c]) \in 1 .. MaxPushes /\ Tail(pending[c]) \in Seq(1 .. MaxPushes)
        BY <3>2, QueueTypes
      <4> QED BY <4>1, BusBoundsAssumption
    <3> QED BY <3>1, <3>3 DEF PushesOK
  <2>3. CASE ~(stage = "live" /\ pending[c] # <<>>)
    BY <2>1, <2>3 DEF Drain, PushesOK
  <2> QED BY <2>2, <2>3
<1> QED BY <1>1, <1>2, <1>3, <1>4, WorkOfAStep

\* A reconcile sets its flags to conditions.
LEMMA ReconcilesTyped == ReconcilesOK /\ [Next]_vars => ReconcilesOK'
<1> SUFFICES ASSUME ReconcilesOK, [Next]_vars PROVE ReconcilesOK'
  OBVIOUS
<1>1. CASE UNCHANGED reconciles
  BY <1>1 DEF reconciles, ReconcilesOK
<1>2. CASE NoWork
  BY <1>2 DEF NoWork, ReconcilesOK
<1>3. CASE ReconnectUnseen \/ Reconnect
  <2>1. /\ reconnects' \in 0 .. MaxReconnects /\ resub' \in Nat
    BY <1>3, BusBoundsAssumption DEF ReconnectUnseen, Reconnect, ReconcilesOK
  <2>2. /\ UNCHANGED <<running, dirty>> /\ gap' = TRUE /\ (deaf' = TRUE \/ deaf' = deaf)
        /\ fresh' = {}
    BY <1>3 DEF ReconnectUnseen, Reconnect
  <2> QED BY <2>1, <2>2 DEF ReconcilesOK
<1>4. ASSUME NEW r \in Readers, ReadBegins(r) PROVE fresh' \subseteq Readers
  BY <1>4 DEF ReadBegins, ReconcilesOK
<1>5. ASSUME RunBegins PROVE running' \in BOOLEAN /\ dirty' \in BOOLEAN /\ fresh' \subseteq Readers
  BY <1>4, <1>5 DEF RunBegins, Readers
<1>6. ASSUME NEW r, ReadSucceeds(r) \/ UNCHANGED gap PROVE gap' \in BOOLEAN
  BY <1>6 DEF ReadSucceeds, ReconcilesOK
<1>7. CASE \E ok \in BOOLEAN : RunEnds(ok)
  <2>1. UNCHANGED <<resub, deaf, reconnects>>
    BY <1>7 DEF RunEnds
  <2>2. gap' \in BOOLEAN
    BY <1>6, <1>7 DEF RunEnds
  <2>3. RunBegins \/ (running' = FALSE /\ UNCHANGED dirty /\ fresh' = fresh \ {"run"})
    BY <1>7 DEF RunEnds
  <2>4. running' \in BOOLEAN /\ dirty' \in BOOLEAN /\ fresh' \subseteq Readers
    BY <1>5, <2>3 DEF ReconcilesOK
  <2> QED BY <2>1, <2>2, <2>4 DEF ReconcilesOK
<1>8. CASE \E ok \in BOOLEAN : Resubscribed(ok)
  <2>1. PICK ok \in BOOLEAN : Resubscribed(ok)
    BY <1>8
  <2>2. resub' \in Nat /\ reconnects' = reconnects /\ gap' = gap
    BY <2>1 DEF Resubscribed, ReconcilesOK
  <2>3. \/ deaf' = ~ok /\ Coalesce
        \/ UNCHANGED <<running, dirty, fresh, deaf>>
    BY <2>1 DEF Resubscribed
  <2>4. Coalesce => RunBegins \/ (dirty' = TRUE /\ UNCHANGED <<running, fresh>>)
    BY DEF Coalesce
  <2> QED BY <1>5, <2>2, <2>3, <2>4 DEF ReconcilesOK
<1>9. CASE TickReads
  <2>1. UNCHANGED <<resub, running, dirty, deaf, reconnects>> /\ gap' \in BOOLEAN
    BY <1>6, <1>9 DEF TickReads
  <2>2. fresh' \subseteq Readers
    BY <1>4, <1>9 DEF TickReads, Readers, ReconcilesOK
  <2> QED BY <2>1, <2>2 DEF ReconcilesOK
<1> QED BY <1>1, <1>2, <1>3, <1>7, <1>8, <1>9, WorkOfAStep

\* A start that is fenced for the last time ends the process.
LEMMA CountsTyped == CountsOK /\ [Next]_vars => CountsOK'
<1> SUFFICES ASSUME CountsOK, [Next]_vars PROVE CountsOK'
  OBVIOUS
<1> USE SupervisorAssumption DEF CountsOK
<1>1. CASE TornDown
  <2>1. /\ at = "shutdown" /\ UNCHANGED <<fails, misses, faults>>
        /\ fenced' = IF why = "fenced" THEN fenced + 1 ELSE fenced
        /\ at' = IF fenced' >= FencedStartLimit THEN "dead" ELSE "backoff"
    BY <1>1 DEF TornDown
  <2>2. fenced < FencedStartLimit /\ fenced' \in {fenced, fenced + 1}
    BY <2>1
  <2> QED BY <2>1, <2>2
<1>2. CASE NextSession
  BY <1>2 DEF NextSession, NewSession
<1>3. CASE Restart
  BY <1>3 DEF Restart
<1>4. ASSUME at # "dead" \/ UNCHANGED at, fenced' = fenced \/ fenced' = 0,
             fails' = fails \/ fails' \in {0, 1}, misses' \in {0, misses, misses + 1},
             UNCHANGED faults \/ Fault
      PROVE  CountsOK'
  <2>1. faults' \in 0 .. MaxFaults
    BY <1>4 DEF Fault
  <2>2. fenced' \in Nat /\ fenced' <= FencedStartLimit
    BY <1>4
  <2>3. at' # "dead" => fenced' < FencedStartLimit
    BY <1>4
  <2> QED BY <1>4, <2>1, <2>2, <2>3
<1>5. CASE \/ UNCHANGED vars \/ Stall \/ Heal \/ BusStep \/ BusWorks \/ ResubscribeFails
           \/ RunFails \/ CloseRaises
  BY <1>4, <1>5 DEF vars, control, Stall, Heal, BusStep, BusWorks, ResubscribeFails,
     RunFails, CloseRaises
<1>6. CASE \/ Connected \/ StartBegins \/ ProcessorRaises \/ StartFenced \/ StartSucceeds
           \/ StartRaises \/ StartUnwound \/ ConnectFails \/ Reconciled \/ ReconcileFails
  <2>1. at # "dead" \/ UNCHANGED at
    BY <1>6 DEF Connected, StartBegins, ProcessorRaises, StartFenced, StartSucceeds, StartRaises,
       StartUnwound, ConnectFails, Reconciled, ReconcileFails
  <2>2. fenced' = fenced \/ fenced' = 0
    BY <1>6 DEF Connected, StartBegins, ProcessorRaises, StartFenced, StartSucceeds, StartRaises,
       StartUnwound, ConnectFails, Reconciled, ReconcileFails, Goto, control
  <2>3. fails' = fails /\ misses' \in {0, misses}
    BY <1>6 DEF Connected, StartBegins, ProcessorRaises, StartFenced, StartSucceeds, StartRaises,
       StartUnwound, ConnectFails, Reconciled, ReconcileFails, Goto, control
  <2>4. UNCHANGED faults \/ Fault
    BY <1>6 DEF Connected, StartBegins, ProcessorRaises, StartFenced, StartSucceeds, StartRaises,
       StartUnwound, ConnectFails, Reconciled, ReconcileFails
  <2> QED BY <1>4, <2>1, <2>2, <2>3, <2>4
<1>7. CASE \/ TickFails \/ StreamIsStale \/ TickRaises \/ Tick \/ Polled \/ PollTimesOut
           \/ PollRaises \/ Resynced \/ ResyncFails \/ TeardownBegins \/ BusSettled \/ Crash
           \/ \E f \in Latches : Latch(f)
  <2>1. at # "dead" \/ UNCHANGED at
    BY <1>7 DEF TickFails, StreamIsStale, TickRaises, Tick, Polled, PollTimesOut, PollRaises, Resynced,
       ResyncFails, TeardownBegins, BusSettled, Crash, Latch, control
  <2>2. fenced' = fenced
    BY <1>7 DEF TickFails, StreamIsStale, TickRaises, Tick, Polled, PollTimesOut, PollRaises, Resynced,
       ResyncFails, TeardownBegins, BusSettled, Crash, Latch, control, Goto
  <2>3. (fails' = fails \/ fails' \in {0, 1}) /\ misses' \in {0, misses, misses + 1}
    BY <1>7 DEF TickFails, StreamIsStale, TickRaises, Tick, Polled, PollTimesOut, PollRaises, Resynced,
       ResyncFails, TeardownBegins, BusSettled, Crash, Latch, control, Goto
  <2>4. UNCHANGED faults \/ Fault
    BY <1>7 DEF TickFails, StreamIsStale, TickRaises, Tick, Polled, PollTimesOut, PollRaises, Resynced,
       ResyncFails, TeardownBegins, BusSettled, Crash, Latch
  <2> QED BY <1>4, <2>1, <2>2, <2>3, <2>4
<1> QED BY <1>1, <1>2, <1>3, <1>5, <1>6, <1>7 DEF Next, Works, Fails

\* The session moves among its places.
LEMMA PlacesTyped == PlacesOK /\ [Next]_vars => PlacesOK'
<1> SUFFICES ASSUME PlacesOK, [Next]_vars PROVE PlacesOK'
  OBVIOUS
<1> USE DEF PlacesOK, Places, Serving, Reasons, Latches, busVars
<1>1. CASE \/ UNCHANGED vars \/ Stall \/ Heal
  BY <1>1 DEF vars, control, Stall, Heal
<1>2. CASE BusStep \/ BusWorks \/ ResubscribeFails \/ RunFails \/ CloseRaises
  <2>1. stage' = stage
    BY <1>2 DEF BusStep, BusWorks, ResubscribeFails, RunFails, CloseRaises, Push, ReconnectUnseen,
       Reconnect, Closed, CloseFails, Drain, Resubscribed, RunEnds
  <2>2. UNCHANGED <<at, why, latch, retry, stalled>>
    BY <1>2 DEF BusStep, BusWorks, ResubscribeFails, RunFails, CloseRaises, control
  <2> QED BY <2>1, <2>2
<1>3. CASE \/ StartBegins \/ ProcessorRaises \/ StartRaises \/ BusSettled
  <2>1. stage' \in {"starting", "unwinding", "closing"}
    BY <1>3 DEF StartBegins, ProcessorRaises, StartRaises, BusSettled, Allocate, StartFails, Settled, CloseOwned
  <2> QED BY <1>3, <2>1 DEF StartBegins, ProcessorRaises, StartRaises, BusSettled, control
<1>4. CASE StartSucceeds \/ StartUnwound \/ TeardownBegins
  BY <1>4 DEF StartSucceeds, StartUnwound, TeardownBegins, Commit, CloseAwaited, Shutdown, Goto, End
<1>5. CASE TornDown
  BY <1>5 DEF TornDown, CloseAwaited
<1>6. CASE NextSession \/ Restart
  BY <1>6 DEF NextSession, NewSession, NewAdapter, Restart
<1>7. CASE \/ Connected \/ ConnectFails \/ StartFenced \/ Reconciled \/ ReconcileFails \/ TickFails
           \/ StreamIsStale \/ TickRaises \/ Tick \/ Polled \/ PollRaises \/ Resynced \/ Crash
  BY <1>7 DEF Connected, ConnectFails, StartFenced, Reconciled, ReconcileFails, TickFails,
     StreamIsStale, TickRaises, Tick, Polled, PollRaises, Resynced, Crash, Goto, End, adapter
<1>8. CASE PollTimesOut \/ ResyncFails
  BY <1>8 DEF PollTimesOut, ResyncFails, End
<1>9. CASE \E f \in Latches : Latch(f)
  BY <1>9 DEF Latch
<1> QED BY <1>1, <1>2, <1>3, <1>4, <1>5, <1>6, <1>7, <1>8, <1>9 DEF Next, Works, Fails

\* The sessions keep their types; in particular the fenced starts in a row never exceed
\* their limit, at which the process has exited (run, _begin_session).
THEOREM SessionTypesHold == Spec => []TypeOK
<1> DEFINE Typing == PeersAreAccounted /\ PushesOK /\ ReconcilesOK /\ CountsOK /\ PlacesOK
<1>1. Init => Typing
  <2>1. Init => PushesOK /\ ReconcilesOK
    <3>1. 0 \in 0 .. MaxPushes /\ 0 \in 0 .. MaxReconnects /\ <<>> \in Seq(1 .. MaxPushes)
      BY BusBoundsAssumption
    <3>2. Init => PushesOK
      BY <3>1 DEF Init, BusInit, PushesOK
    <3>3. Init => ReconcilesOK
      <4>1. Init => running \in BOOLEAN /\ dirty \in BOOLEAN /\ gap \in BOOLEAN /\ deaf \in BOOLEAN
                    /\ fresh \subseteq Readers
        BY DEF Init, BusInit
      <4>2. Init => resub \in Nat /\ reconnects \in 0 .. MaxReconnects
        <5>1. Init => resub = 0 /\ reconnects = 0
          BY DEF Init, BusInit
        <5> QED BY <5>1, <3>1
      <4> QED BY <4>1, <4>2 DEF ReconcilesOK
    <3> QED BY <3>2, <3>3
  <2>2. Init => CountsOK
    BY SupervisorAssumption DEF Init, CountsOK
  <2>3. Init => PlacesOK
    BY DEF Init, BusInit, PlacesOK, Places, Reasons
  <2> QED BY <2>1, <2>2, <2>3, InitAccounted
<1>2. Typing /\ [Next]_vars => Typing'
  BY StepAccounted, PushesTyped, ReconcilesTyped, CountsTyped, PlacesTyped
<1>3. Typing => TypeOK
  <2> SUFFICES ASSUME Typing PROVE TypeOK
    OBVIOUS
  <2>1. /\ alive \in [Resources -> Nat] /\ closers \in [Resources -> Nat]
        /\ ghosts \in [Resources -> Nat] /\ open \subseteq Resources
    BY DEF PeersAreAccounted, Owned
  <2>2. BusTypeOK
    BY <2>1 DEF BusTypeOK, PushesOK, ReconcilesOK, PlacesOK
  <2>3. SupervisorTypeOK
    BY SupervisorAssumption DEF SupervisorTypeOK, CountsOK, PlacesOK
  <2> QED BY <2>2, <2>3 DEF TypeOK
<1> QED BY <1>1, <1>2, <1>3, PTL DEF Spec

-----------------------------------------------------------------------------
(* The election: types                                                     *)

\* A claim on its way.
Claims == [from : Panels, age : 0 .. Delay]

\* Who is not up hears nothing, nobody remembers a claim of its own, and a leader
\* waits for no confirmation.
Roles ==
  /\ \A p \in Panels \ up : inbox[p] = <<>>
  /\ \A p \in up : Participates(p)
  /\ \A p \in Panels : other[p].panel # p
  /\ \A p \in leader : pendingSince[p] = None

ElectionInv == ElectionTypeOK /\ Roles

\* The bounds of the ages are natural numbers.
LEMMA Bounds ==
  /\ Heartbeat \in Nat /\ TickGap \in Nat /\ Delay \in Nat
  /\ StaleAfter \in Nat /\ DualCap \in Nat /\ VacantCap \in Nat
BY TimingAssumption DEF StaleAfter, DualCap, DualBound, VacantCap, VacantBound

\* An age may begin, and an age that may not exist may be absent.
LEMMA Zeros ==
  /\ 0 \in 0 .. Heartbeat /\ 0 \in 0 .. TickGap /\ 0 \in 0 .. Delay /\ 0 \in 0 .. StaleAfter
  /\ 0 \in 0 .. DualCap /\ 0 \in 0 .. VacantCap
  /\ None \in -1 .. Heartbeat /\ 0 \in -1 .. Heartbeat
BY Bounds DEF None

\* An age grows up to its bound.
LEMMA UptoGrows ==
  ASSUME NEW b \in Nat, NEW n \in 0 .. b
  PROVE  Upto(b, n) \in 0 .. b /\ Upto(b, n) <= n + 1 /\ (n < b => Upto(b, n) = n + 1)
BY DEF Upto

\* The types of what a claim adds.
LEMMA PublishTypes ==
  ASSUME ElectionInv, NEW p \in Panels, Publish(p)
  PROVE  /\ retained' \in Panels
         /\ inbox' \in [Panels -> Seq(Claims)]
         /\ \A q \in Panels \ up : inbox'[q] = <<>>
<1>1. [from |-> p, age |-> 0] \in Claims
  BY Zeros DEF Claims
<1>2. \A q \in Panels : inbox[q] \in Seq(Claims)
  BY DEF ElectionInv, ElectionTypeOK, Claims
<1>3. QED
  BY <1>1, <1>2 DEF Publish, ElectionInv, Roles

\* The types of what one panel has, and of the history.
Typed(p) ==
  /\ other[p].panel \in Panels \cup {None} /\ other[p].age \in 0 .. StaleAfter
  /\ inbox[p] \in Seq(Claims)
  /\ \A i \in DOMAIN inbox[p] : inbox[p][i].from \in Panels /\ inbox[p][i].age \in 0 .. Delay
  /\ idle[p] \in 0 .. TickGap /\ pendingSince[p] \in -1 .. Heartbeat /\ beat[p] \in 0 .. Heartbeat
  /\ outranked[p] \in 0 .. DualCap /\ vacant \in 0 .. VacantCap
  /\ other[p].age \in Nat /\ idle[p] \in Nat /\ beat[p] \in Nat /\ vacant \in Nat /\ outranked[p] \in Nat

LEMMA TypesOfPanel == ASSUME ElectionInv, NEW p \in Panels PROVE Typed(p)
<1>1. /\ other[p] \in [panel : Panels \cup {None}, age : 0 .. StaleAfter]
      /\ inbox[p] \in Seq(Claims)
      /\ idle[p] \in 0 .. TickGap /\ pendingSince[p] \in -1 .. Heartbeat /\ beat[p] \in 0 .. Heartbeat
      /\ outranked[p] \in 0 .. DualCap /\ vacant \in 0 .. VacantCap
  BY DEF ElectionInv, ElectionTypeOK, Claims
<1>2. \A i \in DOMAIN inbox[p] : inbox[p][i].from \in Panels /\ inbox[p][i].age \in 0 .. Delay
  <2>1. \A i \in DOMAIN inbox[p] : inbox[p][i] \in Claims
    BY <1>1
  <2>2. QED
    BY <2>1 DEF Claims
<1>3. other[p].panel \in Panels \cup {None} /\ other[p].age \in 0 .. StaleAfter
  BY <1>1
<1>4. /\ other[p].age \in Nat /\ idle[p] \in Nat /\ beat[p] \in Nat
      /\ vacant \in Nat /\ outranked[p] \in Nat
  BY <1>1, <1>3, Bounds
<1>5. QED
  BY <1>1, <1>2, <1>3, <1>4 DEF Typed

\* The same after a step.
LEMMA TypesThen == ASSUME ElectionInv', NEW p \in Panels PROVE Typed(p)'
<1>1. /\ other'[p] \in [panel : Panels \cup {None}, age : 0 .. StaleAfter]
      /\ inbox'[p] \in Seq(Claims)
      /\ idle'[p] \in 0 .. TickGap /\ pendingSince'[p] \in -1 .. Heartbeat /\ beat'[p] \in 0 .. Heartbeat
      /\ outranked'[p] \in 0 .. DualCap /\ vacant' \in 0 .. VacantCap
  BY DEF ElectionInv, ElectionTypeOK, Claims
<1>2. \A i \in DOMAIN inbox'[p] : inbox'[p][i].from \in Panels /\ inbox'[p][i].age \in 0 .. Delay
  <2>1. \A i \in DOMAIN inbox'[p] : inbox'[p][i] \in Claims
    BY <1>1
  <2>2. QED
    BY <2>1 DEF Claims
<1>3. other'[p].panel \in Panels \cup {None} /\ other'[p].age \in 0 .. StaleAfter
  BY <1>1
<1>4. /\ other'[p].age \in Nat /\ idle'[p] \in Nat /\ beat'[p] \in Nat
      /\ vacant' \in Nat /\ outranked'[p] \in Nat
  BY <1>1, <1>3, Bounds
<1>5. QED
  BY <1>1, <1>2, <1>3, <1>4 DEF Typed

\* A session that starts or ends keeps the types.
LEMMA SessionTypes ==
  ASSUME ElectionInv, NEW p \in Panels, Start(p) \/ EndSession(p)
  PROVE  ElectionInv'
<1> DEFINE Slots == [panel : Panels \cup {None}, age : 0 .. StaleAfter]
<1>1. /\ up \subseteq Panels /\ leader \subseteq up /\ retained \in Panels \cup {None}
      /\ idle \in [Panels -> 0 .. TickGap] /\ beat \in [Panels -> 0 .. Heartbeat]
      /\ pendingSince \in [Panels -> -1 .. Heartbeat]
      /\ other \in [Panels -> Slots] /\ inbox \in [Panels -> Seq(Claims)] /\ crashes \in 0 .. MaxCrashes
  BY DEF ElectionInv, ElectionTypeOK, Claims
<1>2. PICK first \in Seq(Claims) : inbox' = [inbox EXCEPT ![p] = first] /\ (EndSession(p) => first = <<>>)
  <2>1. CASE EndSession(p) \/ retained = None
    <3>1. <<>> \in Seq(Claims)
      OBVIOUS
    <3>2. QED
      BY <2>1, <3>1 DEF Start, EndSession
  <2>2. CASE Start(p) /\ retained # None
    <3>1. [from |-> retained, age |-> 0] \in Claims
      BY <2>2, <1>1, Zeros DEF Claims
    <3>2. <<[from |-> retained, age |-> 0]>> \in Seq(Claims)
      BY <3>1
    <3>3. p \notin up /\ up' = up \cup {p} /\ inbox' = [inbox EXCEPT ![p] = <<[from |-> retained, age |-> 0]>>]
      BY <2>2 DEF Start
    <3>4. QED
      BY <3>2, <3>3 DEF EndSession
  <2>3. QED
    BY <2>1, <2>2
<1>3. \/ up' = up \cup {p} /\ Participates(p) /\ UNCHANGED crashes
      \/ up' = up \ {p} /\ inbox' = [inbox EXCEPT ![p] = <<>>] /\ crashes < MaxCrashes /\ crashes' = crashes + 1
  BY Zenon DEF Start, EndSession
<1>4. /\ leader' = leader \ {p} /\ UNCHANGED retained
      /\ pendingSince' = [pendingSince EXCEPT ![p] = None]
      /\ beat' = [beat EXCEPT ![p] = 0]
      /\ other' = [other EXCEPT ![p] = [panel |-> None, age |-> 0]]
      /\ idle' = [idle EXCEPT ![p] = 0]
      /\ vacant' = 0 /\ outranked' = [q \in Panels |-> 0]
  BY DEF Start, EndSession, FleetChanges
<1>5. up' \subseteq Panels /\ leader' \subseteq up' /\ retained' \in Panels \cup {None}
  BY <1>1, <1>3, <1>4
<1>6. inbox' \in [Panels -> Seq(Claims)]
  BY <1>1, <1>2
<1>7. /\ idle' \in [Panels -> 0 .. TickGap] /\ beat' \in [Panels -> 0 .. Heartbeat]
      /\ pendingSince' \in [Panels -> -1 .. Heartbeat]
      /\ outranked' \in [Panels -> 0 .. DualCap] /\ vacant' \in 0 .. VacantCap
  BY <1>1, <1>4, Zeros
<1>8. crashes' \in 0 .. MaxCrashes
  BY <1>1, <1>3, TimingAssumption
<1>9. other' \in [Panels -> Slots]
  <2>1. [panel |-> None, age |-> 0] \in Slots
    BY Zeros
  <2>2. QED
    BY <2>1, <1>1, <1>4
<1>10. Roles'
  <2>1. \A q \in Panels : None # q
    BY PanelsAssumption DEF None
  <2>2. \A q \in Panels : other'[q].panel # q
    BY <1>1, <1>4, <2>1 DEF ElectionInv, Roles
  <2>3. \A q \in Panels \ up' : inbox'[q] = <<>>
    BY <1>1, <1>2, <1>3 DEF ElectionInv, Roles
  <2>4. \A q \in up' : Participates(q)
    BY <1>3 DEF ElectionInv, Roles, Participates
  <2>5. \A q \in leader' : pendingSince'[q] = None
    BY <1>1, <1>4 DEF ElectionInv, Roles
  <2>6. QED
    BY <2>2, <2>3, <2>4, <2>5 DEF Roles, Participates
<1>11. QED
  BY <1>5, <1>6, <1>7, <1>8, <1>9, <1>10 DEF ElectionInv, ElectionTypeOK, Claims

\* The arrival of a claim keeps the types.
LEMMA MessageTypes ==
  ASSUME ElectionInv, NEW p \in Panels, OnMessage(p)
  PROVE  ElectionInv'
<1>1. inbox[p] \in Seq(Claims) /\ inbox[p] # <<>>
  BY DEF ElectionInv, ElectionTypeOK, OnMessage, Claims
<1>2. Head(inbox[p]) \in Claims /\ Tail(inbox[p]) \in Seq(Claims)
  BY <1>1
<1>3. inbox' \in [Panels -> Seq(Claims)]
  BY <1>2 DEF ElectionInv, ElectionTypeOK, OnMessage, Claims
<1>4. other' \in [Panels -> [panel : Panels \cup {None}, age : 0 .. StaleAfter]]
  BY <1>2, Zeros DEF ElectionInv, ElectionTypeOK, OnMessage, Claims
<1>5. outranked' \in [Panels -> 0 .. DualCap]
  BY Zeros DEF ElectionInv, ElectionTypeOK, OnMessage
<1>6. Roles'
  BY DEF ElectionInv, ElectionTypeOK, Roles, OnMessage, Participates
<1>7. QED
  BY <1>3, <1>4, <1>5, <1>6 DEF ElectionInv, ElectionTypeOK, Claims, OnMessage

\* A tick keeps the types.
LEMMA TickTypes ==
  ASSUME ElectionInv, NEW p \in Panels, LeaderTick(p)
  PROVE  ElectionInv'
<1>1. /\ retained' \in Panels \cup {None}
      /\ inbox' \in [Panels -> Seq(Claims)]
      /\ \A q \in Panels \ up : inbox'[q] = <<>>
  BY PublishTypes DEF LeaderTick, StepDown, Beat, Yield, Acquire, Claim, Wait, ElectionInv, ElectionTypeOK,
     Roles, Claims
<1>2. leader' \subseteq up /\ pendingSince' \in [Panels -> -1 .. Heartbeat]
      /\ beat' \in [Panels -> 0 .. Heartbeat] /\ idle' \in [Panels -> 0 .. TickGap]
  BY Zeros DEF LeaderTick, StepDown, Beat, Yield, Acquire, Claim, Wait, ElectionInv, ElectionTypeOK
<1>3. \A q \in leader' : pendingSince'[q] = None
  BY DEF LeaderTick, StepDown, Beat, Yield, Acquire, Claim, Wait, ElectionInv, ElectionTypeOK, Roles
<1>4. QED
  BY <1>1, <1>2, <1>3 DEF LeaderTick, ElectionInv, ElectionTypeOK, Roles, Participates, Claims, historyVars

\* Time keeps the types.
LEMMA PassTypes == ASSUME ElectionInv, Pass PROVE ElectionInv'
<1>1. ASSUME NEW q \in Panels
      PROVE  /\ inbox'[q] \in Seq(Claims)
             /\ q \notin up => inbox'[q] = <<>>
  <2>1. inbox[q] \in Seq(Claims)
    BY DEF ElectionInv, ElectionTypeOK, Claims
  <2>2. \A i \in DOMAIN inbox[q] : inbox[q][i] \in Claims /\ inbox[q][i].age < Delay
    BY <2>1, <1>1 DEF Pass, ElectionInv, Roles
  <2>3. inbox'[q] = [i \in DOMAIN inbox[q] |-> [inbox[q][i] EXCEPT !.age = @ + 1]]
    BY DEF Pass
  <2>4. \A i \in DOMAIN inbox[q] : [inbox[q][i] EXCEPT !.age = @ + 1] \in Claims
    BY <2>2, TimingAssumption DEF Claims
  <2>5. DOMAIN inbox[q] = 1 .. Len(inbox[q]) /\ Len(inbox[q]) \in Nat
    BY <2>1
  <2>6. inbox'[q] \in Seq(Claims)
    BY <2>3, <2>4, <2>5
  <2>7. ASSUME q \notin up PROVE inbox'[q] = <<>>
    BY <2>7, <2>3, <1>1 DEF ElectionInv, Roles
  <2>8. QED
    BY <2>6, <2>7
<1>2. inbox' \in [Panels -> Seq(Claims)]
  BY <1>1 DEF Pass
<1>3. idle' \in [Panels -> 0 .. TickGap]
  <2>1. idle \in [Panels -> 0 .. TickGap]
    BY DEF ElectionInv, ElectionTypeOK
  <2>2. idle' = [q \in Panels |-> IF q \in up THEN idle[q] + 1 ELSE 0] /\ \A q \in up : idle[q] < TickGap
    BY DEF Pass
  <2>3. QED
    BY <2>1, <2>2, Bounds
<1>4. ASSUME NEW q \in Panels
      PROVE  /\ pendingSince'[q] \in -1 .. Heartbeat
             /\ beat'[q] \in 0 .. Heartbeat
             /\ other'[q] \in [panel : Panels \cup {None}, age : 0 .. StaleAfter]
             /\ outranked'[q] \in 0 .. DualCap
  <2>1. /\ pendingSince[q] \in -1 .. Heartbeat /\ beat[q] \in 0 .. Heartbeat
        /\ outranked[q] \in 0 .. DualCap
        /\ other[q] \in [panel : Panels \cup {None}, age : 0 .. StaleAfter]
    BY DEF ElectionInv, ElectionTypeOK
  <2>2. pendingSince'[q] \in -1 .. Heartbeat
    BY <2>1, Bounds DEF Pass, None, Upto
  <2>3. beat'[q] \in 0 .. Heartbeat
    BY <2>1, Bounds DEF Pass, Upto
  <2>4. outranked'[q] \in 0 .. DualCap
    BY <2>1, Bounds DEF Pass, Upto
  <2>5. Upto(StaleAfter, other[q].age) \in 0 .. StaleAfter
    BY <2>1, Bounds, UptoGrows
  <2>6. QED
    BY <2>1, <2>2, <2>3, <2>4, <2>5 DEF Pass
<1>5. /\ pendingSince' \in [Panels -> -1 .. Heartbeat]
      /\ beat' \in [Panels -> 0 .. Heartbeat]
      /\ other' \in [Panels -> [panel : Panels \cup {None}, age : 0 .. StaleAfter]]
      /\ outranked' \in [Panels -> 0 .. DualCap]
  BY <1>4 DEF Pass
<1>8. vacant' \in 0 .. VacantCap
  <2>1. vacant \in 0 .. VacantCap
    BY DEF ElectionInv, ElectionTypeOK
  <2>2. vacant' = IF up # {} /\ leader = {} THEN Upto(VacantCap, vacant) ELSE 0
    BY DEF Pass
  <2>3. QED
    BY <2>1, <2>2, Bounds, UptoGrows, Zeros
<1>6. Roles'
  BY <1>1 DEF Pass, ElectionInv, ElectionTypeOK, Roles, Participates
<1>7. QED
  BY <1>2, <1>3, <1>5, <1>6, <1>8 DEF Pass, ElectionInv, ElectionTypeOK, Claims

\* The initial state has the types.
LEMMA InitialTypes == ElectionInit => ElectionInv
<1>1. [panel |-> None, age |-> 0] \in [panel : Panels \cup {None}, age : 0 .. StaleAfter]
  BY Zeros
<1>2. \A q \in Panels : None # q
  BY PanelsAssumption DEF None
<1>3. 0 \in 0 .. MaxCrashes
  BY TimingAssumption
<1>4. QED
  BY <1>1, <1>2, <1>3, Zeros DEF ElectionInit, ElectionInv, ElectionTypeOK, Roles

\* Every step keeps the types.
LEMMA StepTypes == ElectionInv /\ [ElectionNext]_electionVars => ElectionInv'
<1> SUFFICES ASSUME ElectionInv, [ElectionNext]_electionVars PROVE ElectionInv'
  OBVIOUS
<1>1. CASE UNCHANGED electionVars
  BY <1>1 DEF electionVars, panelVars, historyVars, ElectionInv, ElectionTypeOK, Roles, Participates
<1>2. CASE ElectionNext
  BY <1>2, SessionTypes, MessageTypes, TickTypes, PassTypes DEF ElectionNext
<1>3. QED
  BY <1>1, <1>2

\* The election keeps its types: a claim takes no longer than Delay, no running panel
\* misses a tick, and only a running session leads.
THEOREM ElectionTypesHold == ElectionSpec => []ElectionTypeOK
<1>1. ElectionInv => ElectionTypeOK
  BY DEF ElectionInv
<1>2. QED
  BY <1>1, InitialTypes, StepTypes, PTL DEF ElectionSpec

-----------------------------------------------------------------------------
(* The order of the panels                                                 *)

\* Of two panels one outranks the other, and none outranks itself.
LEMMA OutranksOrders ==
  ASSUME NEW p \in Panels, NEW q \in Panels
  PROVE  /\ Outranks(p, q) => ~Outranks(q, p) /\ p # q
         /\ p # q => Outranks(p, q) \/ Outranks(q, p)
BY PanelsAssumption, PriorityAssumption DEF Outranks

\* A set of natural numbers that is not empty has a least one.
LEMMA LeastExists ==
  ASSUME NEW N \in SUBSET Nat, N # {}
  PROVE  \E n \in N : \A k \in N : n <= k
<1>1. \E n \in N : \A k \in N : ~(<<k, n>> \in OpToRel(<, Nat))
  BY NatLessThanWellFounded, WFMin
<1>2. PICK n \in N : \A k \in N : ~(<<k, n>> \in OpToRel(<, Nat))
  BY <1>1
<1>3. \A k \in N : ~(k < n)
  BY <1>2 DEF OpToRel
<1>4. QED
  BY <1>3

\* No running panel outranks the best one.
Best(p) == p \in up /\ \A q \in up : ~Outranks(q, p)

\* A fleet has a best panel.
LEMMA BestExists == ASSUME ElectionInv, up # {} PROVE \E p \in up : Best(p)
<1> DEFINE Top == {p \in up : \A q \in up : Priority[p] <= Priority[q]}
<1>1. up \subseteq Panels /\ \A p \in up : Priority[p] \in Nat
  <2>1. up \subseteq Panels /\ \A p \in up : Priority[p] >= 1
    BY DEF ElectionInv, ElectionTypeOK, Roles, Participates
  <2>2. QED
    BY <2>1, PriorityAssumption
<1>2. PICK r \in {Priority[p] : p \in up} : \A k \in {Priority[p] : p \in up} : r <= k
  <2>1. {Priority[p] : p \in up} \in SUBSET Nat /\ {Priority[p] : p \in up} # {}
    BY <1>1
  <2>2. QED
    BY <2>1, LeastExists
<1>3. Top # {}
  BY <1>2
<1>4. PICK n \in Top : \A k \in Top : n <= k
  <2>1. Top \in SUBSET Nat
    BY <1>1, PanelsAssumption
  <2>2. QED
    BY <2>1, <1>3, LeastExists
<1>5. ASSUME NEW q \in up, Outranks(q, n) PROVE FALSE
  <2>1. Priority[n] <= Priority[q] /\ Priority[n] \in Nat /\ Priority[q] \in Nat /\ n \in Nat /\ q \in Nat
    BY <1>1, PanelsAssumption
  <2>2. Priority[q] = Priority[n] /\ q < n
    BY <2>1, <1>5 DEF Outranks
  <2>3. q \in Top
    BY <2>2
  <2>4. QED
    BY <2>1, <2>2, <2>3, <1>4
<1>6. QED
  BY <1>5 DEF Best

-----------------------------------------------------------------------------
(* The vacancy                                                             *)

\* The claim of a panel that is gone reaches the best panel within a delay, and
\* keeps it silent until it is stale.
GhostHeard(p) == BetterIsLive(p) => vacant <= Delay + other[p].age
GhostComes(p) ==
  \A i \in DOMAIN inbox[p] : inbox[p][i].from \notin up => vacant <= inbox[p][i].age

\* From then on it claims at its next tick, and takes over a heartbeat and a tick later.
Silence(p) ==
  p \notin leader /\ ~BetterIsLive(p) =>
    vacant <= Delay + StaleAfter + (IF pendingSince[p] = None THEN idle[p] - 1
                                    ELSE IF pendingSince[p] < Heartbeat
                                    THEN TickGap - 1 + pendingSince[p]
                                    ELSE TickGap - 1 + Heartbeat + idle[p] - 1)

Waits(p) ==
  /\ GhostHeard(p) /\ GhostComes(p) /\ Silence(p)
  /\ p \in leader => vacant <= VacantBound

VacancyInv ==
  /\ up = {} => vacant = 0
  /\ \A p \in up : Best(p) => Waits(p)

\* Nothing has changed for panel p but the claims that come to it from panels that are up.
LEMMA WaitsOn ==
  ASSUME ElectionInv, NEW p \in up, Waits(p), vacant' = vacant, up' = up, other'[p] = other[p],
         pendingSince'[p] = pendingSince[p], idle'[p] = idle[p], p \in leader' <=> p \in leader,
         \A i \in DOMAIN inbox'[p] :
           inbox'[p][i].from \notin up => i \in DOMAIN inbox[p] /\ inbox'[p][i] = inbox[p][i]
  PROVE  Waits(p)'
<1>1. BetterIsLive(p)' <=> BetterIsLive(p)
  BY DEF BetterIsLive, LiveOther
<1>2. GhostHeard(p)' /\ Silence(p)'
  BY <1>1 DEF Waits, GhostHeard, Silence
<1>3. GhostComes(p)'
  BY DEF Waits, GhostComes
<1>4. QED
  BY <1>2, <1>3 DEF Waits

\* A change of the fleet sets the clock of the vacancy to zero.
LEMMA SessionWaits ==
  ASSUME ElectionInv, NEW p \in Panels, Start(p) \/ EndSession(p)
  PROVE  VacancyInv'
<1>1. vacant' = 0 /\ ElectionInv'
  BY SessionTypes DEF Start, EndSession, FleetChanges
<1>2. ASSUME NEW q \in up' PROVE Waits(q)'
  <2>1. Typed(q)' /\ q \in Panels
    BY <1>1, TypesThen DEF ElectionInv, ElectionTypeOK
  <2>2. GhostHeard(q)'
    BY <1>1, <2>1, Bounds DEF GhostHeard, Typed
  <2>3. GhostComes(q)'
    BY <1>1, <2>1, Bounds DEF GhostComes, Typed
  <2>4. Silence(q)'
    <3>1. vacant' = 0 /\ idle'[q] \in Nat /\ pendingSince'[q] \in -1 .. Heartbeat
      BY <1>1, <2>1 DEF Typed
    <3>2. Delay + StaleAfter - 1 \in Nat /\ TickGap - 1 \in Nat /\ Heartbeat \in Nat /\ StaleAfter \in Nat
      BY TimingAssumption DEF StaleAfter
    <3>3. pendingSince'[q] # None => pendingSince'[q] \in Nat
      BY <3>1, <3>2 DEF None
    <3>4. QED
      BY <3>1, <3>2, <3>3, Bounds DEF Silence
  <2>5. 0 <= VacantBound
    BY TimingAssumption DEF VacantBound
  <2>6. QED
    BY <1>1, <2>2, <2>3, <2>4, <2>5 DEF Waits
<1>3. QED
  BY <1>1, <1>2 DEF VacancyInv

\* A claim that the best panel hears from a better one was sent before the vacancy.
LEMMA MessageWaits ==
  ASSUME ElectionInv, VacancyInv, NEW q \in Panels, OnMessage(q)
  PROVE  VacancyInv'
<1>1. /\ q \in up /\ vacant' = vacant /\ up' = up /\ leader' = leader
      /\ pendingSince' = pendingSince /\ idle' = idle
      /\ inbox' = [inbox EXCEPT ![q] = Tail(inbox[q])] /\ inbox[q] # <<>>
  BY DEF OnMessage
<1>2. up \subseteq Panels /\ inbox \in [Panels -> Seq(Claims)]
  BY DEF ElectionInv, ElectionTypeOK, Claims
<1>3. ASSUME NEW p \in up, Best(p)' PROVE Waits(p)'
  <2>1. Waits(p) /\ Best(p)
    BY <1>1, <1>3 DEF VacancyInv, Best, Outranks
  <2>2. CASE p # q
    <3>1. other'[p] = other[p] /\ inbox'[p] = inbox[p]
      BY <1>1, <1>2, <2>2 DEF OnMessage, ElectionInv, ElectionTypeOK
    <3>2. QED
      BY <3>1, <2>1, <1>1, WaitsOn
  <2>3. CASE p = q
    <3> DEFINE m == Head(inbox[p])
    <3>1. m \in Claims /\ m = inbox[p][1] /\ 1 \in DOMAIN inbox[p]
      <4>1. inbox[p] \in Seq(Claims) /\ inbox[p] # <<>>
        BY <1>1, <1>2, <2>3
      <4>2. QED
        BY <4>1
    <3>2. \A i \in DOMAIN inbox'[p] : i + 1 \in DOMAIN inbox[p] /\ inbox'[p][i] = inbox[p][i + 1]
      BY <1>1, <1>2, <2>3
    <3>3. GhostComes(p)'
      BY <3>2, <2>1, <1>1 DEF Waits, GhostComes
    <3>4. CASE m.from = p
      <4>1. other'[p] = other[p]
        BY <2>3, <3>4 DEF OnMessage
      <4>2. BetterIsLive(p)' <=> BetterIsLive(p)
        BY <4>1 DEF BetterIsLive, LiveOther
      <4>3. QED
        BY <4>1, <4>2, <3>3, <2>1, <1>1 DEF Waits, GhostHeard, Silence
    <3>5. CASE m.from # p
      <4>1. other'[p] = [panel |-> m.from, age |-> 0]
        BY <1>2, <2>3, <3>5 DEF OnMessage, ElectionInv, ElectionTypeOK
      <4>2. BetterIsLive(p)' => Outranks(m.from, p)
        BY <4>1 DEF BetterIsLive, LiveOther, Outranks
      <4>3. Outranks(m.from, p) => vacant <= m.age /\ m.age <= Delay
        BY <2>1, <3>1 DEF Waits, GhostComes, Best, Claims
      <4>4. GhostHeard(p)'
        <5>1. vacant \in Nat /\ m.age \in Nat
          BY <3>1, <1>2, TypesOfPanel DEF Claims, Typed
        <5>2. QED
          BY <5>1, <4>1, <4>2, <4>3, <1>1, Bounds DEF GhostHeard
      <4>5. Silence(p)'
        <5>1. CASE BetterIsLive(p)
          <6>1. vacant <= Delay + other[p].age /\ other[p].age < StaleAfter /\ other[p].age \in Nat
            <7>1. other[p].age \in Nat /\ StaleAfter \in Nat
              BY <1>2, TypesOfPanel, Bounds DEF Typed
            <7>2. other[p].age < StaleAfter
              BY <7>1, <5>1 DEF BetterIsLive, LiveOther
            <7>3. QED
              BY <7>1, <7>2, <5>1, <2>1 DEF Waits, GhostHeard
          <6>2. idle[p] \in Nat /\ pendingSince[p] \in -1 .. Heartbeat /\ vacant \in Nat
            BY <1>2, TypesOfPanel DEF Typed
          <6>3. vacant <= Delay + StaleAfter - 1
            BY <6>1, <6>2, Bounds
          <6>4. QED
            BY <6>2, <6>3, <1>1, TimingAssumption, Bounds DEF Silence, None
        <5>2. CASE ~BetterIsLive(p)
          BY <5>2, <2>1, <1>1 DEF Waits, Silence
        <5>3. QED
          BY <5>1, <5>2
      <4>6. QED
        BY <4>4, <4>5, <3>3, <2>1, <1>1 DEF Waits
    <3>6. QED
      BY <3>4, <3>5
  <2>4. QED
    BY <2>2, <2>3
<1>4. QED
  BY <1>1, <1>3 DEF VacancyInv

\* What a tick leaves alone, and what it adds to the claims under way.
LEMMA TickMail ==
  ASSUME ElectionInv, NEW q \in Panels, LeaderTick(q), NEW p \in Panels
  PROVE  /\ up' = up /\ other' = other /\ vacant' = vacant /\ outranked' = outranked
         /\ idle'[q] = 0 /\ (p # q => idle'[p] = idle[p] /\ pendingSince'[p] = pendingSince[p]
                                      /\ beat'[p] = beat[p] /\ (p \in leader' <=> p \in leader))
         /\ \A i \in DOMAIN inbox[p] : i \in DOMAIN inbox'[p] /\ inbox'[p][i] = inbox[p][i]
         /\ \A i \in DOMAIN inbox'[p] :
              \/ i \in DOMAIN inbox[p] /\ inbox'[p][i] = inbox[p][i]
              \/ inbox'[p][i] = [from |-> q, age |-> 0]
         /\ Publish(q) /\ p \in up =>
              \E i \in DOMAIN inbox'[p] : inbox'[p][i] = [from |-> q, age |-> 0]
<1>1. /\ up' = up /\ other' = other /\ vacant' = vacant /\ outranked' = outranked
      /\ idle' = [idle EXCEPT ![q] = 0]
  BY DEF LeaderTick, historyVars
<1>2. p # q => pendingSince'[p] = pendingSince[p] /\ beat'[p] = beat[p] /\ (p \in leader' <=> p \in leader)
  BY DEF LeaderTick, StepDown, Beat, Yield, Acquire, Claim, Wait, ElectionInv, ElectionTypeOK
<1>3. idle'[q] = 0 /\ (p # q => idle'[p] = idle[p])
  BY <1>1, TypesOfPanel DEF ElectionInv, ElectionTypeOK
<1>4. inbox[p] \in Seq(Claims)
  BY TypesOfPanel DEF Typed
<1>5. Publish(q) \/ inbox' = inbox
  BY DEF LeaderTick, StepDown, Beat, Yield, Acquire, Claim, Wait
<1>6. CASE inbox'[p] = inbox[p] /\ ~(Publish(q) /\ p \in up)
  BY <1>1, <1>2, <1>3, <1>6
<1>7. CASE Publish(q) /\ p \in up
  <2> DEFINE m == [from |-> q, age |-> 0]
  <2>1. inbox'[p] = Append(inbox[p], m)
    BY <1>7 DEF Publish
  <2>2. m \in Claims
    BY Zeros DEF Claims
  <2>3. /\ \A i \in DOMAIN inbox[p] : i \in DOMAIN inbox'[p] /\ inbox'[p][i] = inbox[p][i]
        /\ \A i \in DOMAIN inbox'[p] : (i \in DOMAIN inbox[p] /\ inbox'[p][i] = inbox[p][i]) \/ inbox'[p][i] = m
        /\ \E i \in DOMAIN inbox'[p] : inbox'[p][i] = m
    <3> HIDE DEF m
    <3>1. /\ Len(Append(inbox[p], m)) = Len(inbox[p]) + 1
          /\ Append(inbox[p], m)[Len(inbox[p]) + 1] = m
          /\ \A i \in 1 .. Len(inbox[p]) : Append(inbox[p], m)[i] = inbox[p][i]
          /\ DOMAIN Append(inbox[p], m) = 1 .. Len(inbox[p]) + 1 /\ DOMAIN inbox[p] = 1 .. Len(inbox[p])
          /\ Len(inbox[p]) \in Nat
      BY <1>4, <2>2
    <3>2. QED
      BY <2>1, <3>1
  <2>4. QED
    BY <1>1, <1>2, <1>3, <2>3
<1>8. CASE Publish(q) /\ p \notin up
  <2>1. inbox'[p] = inbox[p]
    BY <1>8 DEF Publish
  <2>2. QED
    BY <2>1, <1>8, <1>6
<1>9. QED
  BY <1>5, <1>6, <1>7, <1>8

\* The best panel claims when it hears of no better one, and takes over a heartbeat later.
LEMMA TickWaits ==
  ASSUME ElectionInv, VacancyInv, NEW q \in Panels, LeaderTick(q)
  PROVE  VacancyInv'
<1>1. up' = up /\ other' = other /\ vacant' = vacant /\ q \in up /\ up \subseteq Panels
  BY TickMail DEF LeaderTick, ElectionInv, ElectionTypeOK
<1>2. ASSUME NEW p \in up, Best(p)' PROVE Waits(p)'
  <2>1. Waits(p) /\ Best(p) /\ p \in Panels
    BY <1>1, <1>2 DEF VacancyInv, Best, Outranks
  <2>2. \A i \in DOMAIN inbox'[p] :
           inbox'[p][i].from \notin up => i \in DOMAIN inbox[p] /\ inbox'[p][i] = inbox[p][i]
    <3>1. ASSUME NEW i \in DOMAIN inbox'[p], inbox'[p][i] = [from |-> q, age |-> 0]
          PROVE  inbox'[p][i].from \in up
      BY <3>1, <1>1
    <3>2. QED
      BY <3>1, <2>1, TickMail
  <2>3. CASE p # q
    BY <2>1, <2>2, <2>3, <1>1, TickMail, WaitsOn
  <2>4. CASE p = q
    <3>1. BetterIsLive(p)' <=> BetterIsLive(p)
      BY <1>1 DEF BetterIsLive, LiveOther
    <3>2. GhostHeard(p)' /\ GhostComes(p)'
      BY <1>1, <3>1, <2>1, <2>2 DEF Waits, GhostHeard, GhostComes
    <3>3. /\ vacant \in Nat /\ idle[p] \in 0 .. TickGap /\ pendingSince[p] \in -1 .. Heartbeat
          /\ idle'[p] = 0 /\ (pendingSince[p] # None => pendingSince[p] \in Nat)
      <4>1. vacant \in Nat /\ idle[p] \in 0 .. TickGap /\ pendingSince[p] \in -1 .. Heartbeat
        BY <2>1, TypesOfPanel DEF Typed
      <4>2. idle'[p] = 0
        BY <2>1, <2>4, TickMail
      <4>3. QED
        BY <4>1, <4>2, Bounds DEF None
    <3>4. Delay \in Nat /\ StaleAfter \in Nat /\ TickGap \in Nat \ {0} /\ Heartbeat \in Nat \ {0}
          /\ StaleAfter = 3 * Heartbeat /\ VacantBound = 4 * Heartbeat + Delay + 2 * (TickGap - 1)
      BY TimingAssumption DEF StaleAfter, VacantBound
    <3>5. pendingSince \in [Panels -> -1 .. Heartbeat]
      BY DEF ElectionInv, ElectionTypeOK
    <3>6. p \in leader' => vacant <= VacantBound
      <4>1. CASE p \in leader
        BY <4>1, <2>1 DEF Waits
      <4>2. CASE p \notin leader /\ p \in leader'
        <5>1. pendingSince[p] >= Heartbeat /\ ~BetterIsLive(p)
          BY <2>4, <4>2 DEF LeaderTick, StepDown, Beat, Yield, Acquire, Claim, Wait
        <5>2. pendingSince[p] # None /\ ~(pendingSince[p] < Heartbeat)
          BY <5>1, <3>3, <3>4 DEF None
        <5>3. vacant <= Delay + StaleAfter + (TickGap - 1 + Heartbeat + idle[p] - 1)
          BY <5>1, <5>2, <4>2, <2>1 DEF Waits, Silence
        <5>4. QED
          BY <5>3, <3>3, <3>4
      <4>3. QED
        BY <4>1, <4>2
    <3>7. Silence(p)'
      <4>1. SUFFICES ASSUME p \notin leader', ~BetterIsLive(p)
                     PROVE  vacant <= Delay + StaleAfter
                       + (IF pendingSince'[p] = None THEN idle'[p] - 1
                          ELSE IF pendingSince'[p] < Heartbeat THEN TickGap - 1 + pendingSince'[p]
                          ELSE TickGap - 1 + Heartbeat + idle'[p] - 1)
        BY <1>1, <3>1 DEF Silence
      <4>2. p \notin leader
        BY <4>1, <2>4 DEF LeaderTick, StepDown, Beat, Yield, Acquire, Claim, Wait
      <4>3. CASE Claim(q)
        <5>1. pendingSince[p] = None /\ pendingSince'[p] = 0
          BY <4>3, <2>4, <3>5, <2>1 DEF Claim
        <5>2. vacant <= Delay + StaleAfter + (idle[p] - 1)
          BY <5>1, <4>1, <4>2, <2>1 DEF Waits, Silence
        <5>3. 0 # None /\ 0 < Heartbeat
          BY <3>4 DEF None
        <5>4. QED
          BY <5>1, <5>2, <5>3, <3>3, <3>4
      <4>4. CASE Wait(q)
        <5>1. pendingSince'[p] = pendingSince[p] /\ pendingSince[p] # None /\ pendingSince[p] < Heartbeat
          <6>1. CASE pendingSince[p] = None
            <7>1. LiveOther(p) # None /\ ~Outranks(p, LiveOther(p))
              BY <4>4, <2>4, <4>2, <6>1 DEF Wait
            <7>2. LiveOther(p) \in Panels /\ LiveOther(p) # p
              BY <7>1, <2>1, TypesOfPanel DEF LiveOther, Typed, ElectionInv, Roles
            <7>3. QED
              BY <7>1, <7>2, <4>1, <2>1, OutranksOrders DEF BetterIsLive
          <6>2. QED
            BY <6>1, <4>4, <2>4, <4>2 DEF Wait
        <5>2. vacant <= Delay + StaleAfter + (TickGap - 1 + pendingSince[p])
          BY <5>1, <4>1, <4>2, <2>1 DEF Waits, Silence
        <5>3. QED
          BY <5>1, <5>2
      <4>5. QED
        BY <4>1, <4>2, <4>3, <4>4, <2>4 DEF LeaderTick, StepDown, Beat, Yield, Acquire
    <3>8. QED
      BY <3>2, <3>6, <3>7, <1>1 DEF Waits, VacantBound
  <2>5. QED
    BY <2>3, <2>4
<1>3. QED
  BY <1>1, <1>2 DEF VacancyInv

\* Time passes: the best panel ticks, its claim grows old, and so does the ghost's.
LEMMA PassWaits ==
  ASSUME ElectionInv, VacancyInv, Pass
  PROVE  VacancyInv'
<1>1. /\ up' = up /\ leader' = leader /\ up \subseteq Panels
      /\ vacant' = IF up # {} /\ leader = {} THEN Upto(VacantCap, vacant) ELSE 0
  BY DEF Pass, ElectionInv, ElectionTypeOK
<1>2. up = {} => vacant' = 0
  BY <1>1
<1>3. ASSUME NEW p \in up, Best(p)' PROVE Waits(p)'
  <2>1. Waits(p) /\ Best(p) /\ p \in Panels
    BY <1>1, <1>3 DEF VacancyInv, Best, Outranks
  <2>2. ElectionInv' /\ Typed(p) /\ Typed(p)'
    BY <2>1, PassTypes, TypesOfPanel, TypesThen
  <2>3. Delay \in Nat /\ StaleAfter \in Nat /\ TickGap \in Nat \ {0} /\ Heartbeat \in Nat \ {0}
        /\ StaleAfter = 3 * Heartbeat /\ VacantBound = 4 * Heartbeat + Delay + 2 * (TickGap - 1)
        /\ VacantBound \in Nat
    BY TimingAssumption DEF StaleAfter, VacantBound
  <2>15. /\ vacant \in 0 .. VacantCap /\ vacant \in Nat /\ vacant' \in Nat
         /\ idle[p] \in Nat /\ pendingSince[p] \in -1 .. Heartbeat
         /\ other[p].age \in 0 .. StaleAfter /\ other[p].age \in Nat
         /\ other'[p].age \in 0 .. StaleAfter /\ other'[p].age \in Nat
         /\ other[p].panel \in Panels \cup {None}
    BY <2>2 DEF Typed
  <2>4. vacant' = 0 \/ (vacant' <= vacant + 1 /\ leader = {})
    <3>1. Upto(VacantCap, vacant) <= vacant + 1
      BY <2>15, Bounds DEF Upto
    <3>2. CASE up # {} /\ leader = {}
      BY <1>1, <3>1, <3>2
    <3>3. CASE ~(up # {} /\ leader = {})
      BY <1>1, <3>3
    <3>4. QED
      BY <3>2, <3>3
  <2>5. idle[p] < TickGap /\ idle'[p] = idle[p] + 1
    BY <2>1 DEF Pass
  <2>6. pendingSince'[p] = IF pendingSince[p] = None THEN None ELSE Upto(Heartbeat, pendingSince[p])
    BY <2>1 DEF Pass
  <2>7. other'[p] = IF other[p].panel = None THEN other[p]
                    ELSE [other[p] EXCEPT !.age = Upto(StaleAfter, @)]
    BY <2>1 DEF Pass
  <2>8. other'[p].panel = other[p].panel
        /\ (other[p].panel # None => other'[p].age = Upto(StaleAfter, other[p].age))
    <3>1. other[p] \in [panel : Panels \cup {None}, age : 0 .. StaleAfter]
      BY <2>1 DEF ElectionInv, ElectionTypeOK
    <3>2. QED
      BY <3>1, <2>7
  <2>9. BetterIsLive(p)' => BetterIsLive(p) /\ other'[p].age = other[p].age + 1
    <3>1. SUFFICES ASSUME BetterIsLive(p)'
                   PROVE  BetterIsLive(p) /\ other'[p].age = other[p].age + 1
      OBVIOUS
    <3>2. other'[p].age < StaleAfter /\ other'[p].panel # None /\ Outranks(other'[p].panel, p)
      <4>1. ~(other'[p].age >= StaleAfter) /\ other'[p].panel # None
            /\ Outranks(other'[p].panel, p)
        BY <3>1, Zenon DEF BetterIsLive, LiveOther, Outranks
      <4>2. QED
        BY <4>1, <2>15, <2>3
    <3>3. other'[p].age = other[p].age + 1 /\ other[p].age < StaleAfter
      BY <3>2, <2>15, <2>3, <2>8 DEF Upto
    <3>4. ~(other[p].age >= StaleAfter)
      BY <3>3, <2>15, <2>3
    <3>5. QED
      BY <3>2, <3>3, <3>4, <2>8 DEF BetterIsLive, LiveOther
  <2>10. GhostHeard(p)'
    <3>1. BetterIsLive(p)' => vacant <= Delay + other[p].age /\ other'[p].age = other[p].age + 1
      BY <2>9, <2>1 DEF Waits, GhostHeard
    <3>2. QED
      BY <3>1, <2>15, <2>3, <2>4 DEF GhostHeard
  <2>11. GhostComes(p)'
    <3>1. inbox'[p] = [i \in DOMAIN inbox[p] |-> [inbox[p][i] EXCEPT !.age = @ + 1]]
      BY <2>1 DEF Pass
    <3>2. ASSUME NEW i \in DOMAIN inbox'[p], inbox'[p][i].from \notin up PROVE vacant' <= inbox'[p][i].age
      <4>1. i \in DOMAIN inbox[p] /\ inbox'[p][i] = [inbox[p][i] EXCEPT !.age = @ + 1]
        BY <3>1, <3>2
      <4>2. inbox[p][i] \in Claims
        BY <4>1, <2>2 DEF Typed
      <4>3. inbox'[p][i].from = inbox[p][i].from /\ inbox'[p][i].age = inbox[p][i].age + 1
        BY <4>1, <4>2 DEF Claims
      <4>4. vacant <= inbox[p][i].age /\ inbox[p][i].age \in Nat
        <5>1. inbox[p][i].age \in Nat
          BY <4>2, Bounds DEF Claims
        <5>2. QED
          BY <5>1, <4>1, <4>3, <3>2, <2>1 DEF Waits, GhostComes
      <4>5. QED
        BY <4>3, <4>4, <2>4, <2>15
    <3>3. QED
      BY <3>2, <1>1 DEF GhostComes
  <2>12. Silence(p)'
    <3>1. SUFFICES ASSUME p \notin leader, ~BetterIsLive(p)'
                   PROVE  vacant' <= Delay + StaleAfter
                       + (IF pendingSince'[p] = None THEN idle'[p] - 1
                          ELSE IF pendingSince'[p] < Heartbeat THEN TickGap - 1 + pendingSince'[p]
                          ELSE TickGap - 1 + Heartbeat + idle'[p] - 1)
      BY <1>1 DEF Silence
    <3>2. /\ vacant \in Nat /\ vacant' \in Nat /\ idle[p] \in Nat /\ pendingSince[p] \in -1 .. Heartbeat
          /\ (pendingSince[p] # None => pendingSince[p] \in Nat) /\ other[p].age \in Nat
          /\ (pendingSince[p] # None => pendingSince'[p] \in Nat /\ pendingSince'[p] # None)
      BY <2>15, <2>3, <2>6 DEF None, Upto
    <3>3. CASE BetterIsLive(p)
      <4>1. vacant <= Delay + other[p].age /\ other[p].age < StaleAfter
        <5>1. ~(other[p].age >= StaleAfter)
          BY <3>3 DEF BetterIsLive, LiveOther
        <5>2. QED
          BY <5>1, <3>3, <2>1, <2>3, <2>15 DEF Waits, GhostHeard
      <4>2. vacant' <= Delay + StaleAfter
        BY <4>1, <3>2, <2>3, <2>4
      <4>3. QED
        BY <4>2, <3>2, <2>3, <2>5, <2>6
    <3>4. CASE ~BetterIsLive(p)
      <4>1. CASE pendingSince[p] = None
        <5>1. vacant <= Delay + StaleAfter + (idle[p] - 1)
          BY <3>1, <3>4, <4>1, <2>1 DEF Waits, Silence
        <5>2. QED
          BY <5>1, <4>1, <3>2, <2>3, <2>4, <2>5, <2>6
      <4>2. CASE pendingSince[p] # None /\ pendingSince[p] < Heartbeat
        <5>1. vacant <= Delay + StaleAfter + (TickGap - 1 + pendingSince[p])
          BY <3>1, <3>4, <4>2, <2>1 DEF Waits, Silence
        <5>2. pendingSince'[p] = pendingSince[p] + 1
          BY <4>2, <2>6 DEF Upto
        <5>3. QED
          BY <5>1, <5>2, <4>2, <3>2, <2>3, <2>4, <2>5
      <4>3. CASE pendingSince[p] # None /\ ~(pendingSince[p] < Heartbeat)
        <5>1. vacant <= Delay + StaleAfter + (TickGap - 1 + Heartbeat + idle[p] - 1)
          BY <3>1, <3>4, <4>3, <2>1 DEF Waits, Silence
        <5>2. pendingSince'[p] = Heartbeat
          BY <4>3, <2>6 DEF Upto
        <5>3. QED
          BY <5>1, <5>2, <4>3, <3>2, <2>3, <2>4, <2>5
      <4>4. QED
        BY <4>1, <4>2, <4>3
    <3>5. QED
      BY <3>3, <3>4
  <2>13. p \in leader' => vacant' <= VacantBound
    BY <1>1, <2>3, <2>4
  <2>14. QED
    BY <2>10, <2>11, <2>12, <2>13 DEF Waits, VacantBound
<1>4. QED
  BY <1>1, <1>2, <1>3 DEF VacancyInv

\* Every step keeps the clock of the vacancy within what the best panel waits for.
LEMMA StepWaits == ElectionInv /\ VacancyInv /\ [ElectionNext]_electionVars => VacancyInv'
<1> SUFFICES ASSUME ElectionInv, VacancyInv, [ElectionNext]_electionVars PROVE VacancyInv'
  OBVIOUS
<1>1. CASE UNCHANGED electionVars
  BY <1>1 DEF electionVars, panelVars, historyVars, VacancyInv, Best, Outranks, Waits, GhostHeard, GhostComes,
     Silence, BetterIsLive, LiveOther, VacantBound
<1>2. CASE ElectionNext
  BY <1>2, SessionWaits, MessageWaits, TickWaits, PassWaits DEF ElectionNext
<1>3. QED
  BY <1>1, <1>2

\* What the best panel waits for is bounded.
LEMMA WaitIsBounded == ElectionInv /\ VacancyInv => VacancyIsBounded
<1> SUFFICES ASSUME ElectionInv, VacancyInv PROVE vacant <= VacantBound
  BY DEF VacancyIsBounded
<1>1. Delay \in Nat /\ StaleAfter = 3 * Heartbeat /\ TickGap \in Nat \ {0} /\ Heartbeat \in Nat \ {0}
      /\ VacantBound = 4 * Heartbeat + Delay + 2 * (TickGap - 1)
  BY TimingAssumption DEF StaleAfter, VacantBound
<1>2. CASE up = {}
  BY <1>1, <1>2 DEF VacancyInv
<1>3. CASE up # {}
  <2>1. PICK p \in up : Best(p)
    BY <1>3, BestExists
  <2>2. Waits(p) /\ Typed(p)
    BY <2>1, TypesOfPanel DEF VacancyInv, ElectionInv, ElectionTypeOK
  <2>3. vacant \in Nat /\ idle[p] \in 0 .. TickGap /\ pendingSince[p] \in -1 .. Heartbeat
    BY <2>2 DEF Typed
  <2>4. CASE BetterIsLive(p)
    <3>1. vacant <= Delay + other[p].age /\ other[p].age \in 0 .. StaleAfter
      BY <2>2, <2>4 DEF Waits, GhostHeard, Typed
    <3>2. QED
      BY <3>1, <2>3, <1>1
  <2>5. CASE p \in leader
    BY <2>2, <2>5 DEF Waits
  <2>6. CASE p \notin leader /\ ~BetterIsLive(p)
    <3>1. vacant <= Delay + StaleAfter
                       + (IF pendingSince[p] = None THEN idle[p] - 1
                          ELSE IF pendingSince[p] < Heartbeat THEN TickGap - 1 + pendingSince[p]
                          ELSE TickGap - 1 + Heartbeat + idle[p] - 1)
      BY <2>2, <2>6 DEF Waits, Silence
    <3>2. QED
      BY <3>1, <2>3, <1>1
  <2>7. QED
    BY <2>4, <2>5, <2>6
<1>4. QED
  BY <1>2, <1>3

\* However many panels, whatever their priorities and delays: once the fleet stops
\* changing, a vacancy ends within VacantBound (MeshLeader.tick, claiming and acquiring).
THEOREM VacancyStaysBounded == ElectionSpec => []VacancyIsBounded
<1>1. ElectionInit => VacancyInv
  BY DEF ElectionInit, VacancyInv
<1>2. ElectionInit => ElectionInv /\ VacancyInv
  BY <1>1, InitialTypes
<1>3. ElectionInv /\ VacancyInv /\ [ElectionNext]_electionVars => ElectionInv' /\ VacancyInv'
  BY StepTypes, StepWaits
<1>4. QED
  BY <1>2, <1>3, WaitIsBounded, PTL DEF ElectionSpec

-----------------------------------------------------------------------------
(* Two leaders                                                             *)

\* The longest time between two claims of a leader, and the time since its last one.
Gap == Heartbeat + TickGap - 1
SinceBeat(q) == IF beat[q] < Heartbeat THEN beat[q] ELSE Heartbeat + idle[q] - 1

\* A worse leader p waits for the next claim of every better one ...
Unheard(p) ==
  outranked[p] <= Gap /\ \A q \in leader : Outranks(q, p) => outranked[p] <= SinceBeat(q)

\* ... or a better claim is on its way ...
Coming(p) ==
  \E i \in DOMAIN inbox[p] :
    Outranks(inbox[p][i].from, p) /\ outranked[p] <= Gap + inbox[p][i].age

\* ... or has arrived since its last tick, and it steps down at the next one.
Heard(p) ==
  BetterIsLive(p) /\ other[p].age <= idle[p] /\ outranked[p] <= Gap + Delay + idle[p]

StepsDown(p) ==
  /\ p \notin leader => outranked[p] <= DualBound
  /\ p \notin leader /\ pendingSince[p] > 0 => outranked[p] = 0
  /\ p \in leader => Unheard(p) \/ Coming(p) \/ Heard(p)

DualInv == \A p \in Panels : StepsDown(p)

\* The bounds are positive.
LEMMA DualBounds ==
  /\ Heartbeat \in Nat \ {0} /\ TickGap \in Nat \ {0} /\ Delay \in Nat
  /\ Gap = Heartbeat + TickGap - 1 /\ Gap \in Nat
  /\ DualBound = Gap + Delay + TickGap
  /\ TickGap < StaleAfter /\ StaleAfter \in Nat
BY TimingAssumption, CadenceAssumption DEF Gap, DualBound, StaleAfter

\* A leader claims again within the gap.
LEMMA SinceBeatTypes ==
  ASSUME ElectionInv, NEW q \in Panels
  PROVE  SinceBeat(q) \in Nat /\ SinceBeat(q) <= Gap
<1>1. beat[q] \in 0 .. Heartbeat /\ idle[q] \in 0 .. TickGap
  BY TypesOfPanel DEF Typed
<1>2. QED
  BY <1>1, DualBounds DEF SinceBeat

\* The same after a step.
LEMMA SinceBeatThen ==
  ASSUME ElectionInv', NEW q \in Panels
  PROVE  SinceBeat(q)' \in Nat /\ SinceBeat(q)' <= Gap
<1>1. beat'[q] \in 0 .. Heartbeat /\ idle'[q] \in 0 .. TickGap
  BY TypesThen DEF Typed
<1>2. QED
  BY <1>1, DualBounds DEF SinceBeat

\* A clock at zero satisfies everything.
LEMMA ZeroStepsDown ==
  ASSUME ElectionInv', NEW p \in Panels, outranked'[p] = 0
  PROVE  StepsDown(p)'
<1>1. \A q \in leader' : SinceBeat(q)' \in Nat
  BY SinceBeatThen DEF ElectionInv, ElectionTypeOK
<1>2. 0 <= Gap /\ 0 <= DualBound
  BY DualBounds
<1>3. Unheard(p)'
  <2>1. \A q \in leader' : 0 <= SinceBeat(q)'
    BY <1>1
  <2>2. QED
    BY <2>1, <1>2 DEF Unheard, Outranks
<1>4. QED
  BY <1>2, <1>3 DEF StepsDown

\* In each case the bound holds.
LEMMA StepsDownInTime ==
  ASSUME ElectionInv, NEW p \in Panels, StepsDown(p)
  PROVE  outranked[p] <= DualBound
<1>1. outranked[p] \in Nat /\ idle[p] \in 0 .. TickGap /\ DualBound = Gap + Delay + TickGap
      /\ Gap \in Nat /\ Delay \in Nat /\ TickGap \in Nat
  BY TypesOfPanel, DualBounds DEF Typed
<1>2. CASE Coming(p)
  <2>1. PICK i \in DOMAIN inbox[p] : outranked[p] <= Gap + inbox[p][i].age
    BY <1>2 DEF Coming
  <2>2. inbox[p][i].age \in 0 .. Delay
    BY TypesOfPanel DEF Typed
  <2>3. QED
    BY <2>1, <2>2, <1>1
<1>3. CASE Heard(p)
  BY <1>1, <1>3 DEF Heard
<1>4. CASE Unheard(p)
  BY <1>1, <1>4 DEF Unheard
<1>5. QED
  BY <1>2, <1>3, <1>4 DEF StepsDown

\* A change of the fleet sets the clocks to zero.
LEMMA SessionSteps ==
  ASSUME ElectionInv, NEW p \in Panels, Start(p) \/ EndSession(p)
  PROVE  DualInv'
<1>1. ElectionInv' /\ outranked' = [q \in Panels |-> 0]
  BY SessionTypes DEF Start, EndSession, FleetChanges
<1>2. QED
  BY <1>1, ZeroStepsDown DEF DualInv

\* A better claim that arrives is heard; a worse one that takes its place sets the clock to zero.
LEMMA MessageSteps ==
  ASSUME ElectionInv, DualInv, NEW q \in Panels, OnMessage(q)
  PROVE  DualInv'
<1> DEFINE m == Head(inbox[q])
<1>1. /\ q \in up /\ leader' = leader /\ pendingSince' = pendingSince /\ idle' = idle /\ beat' = beat
      /\ inbox' = [inbox EXCEPT ![q] = Tail(inbox[q])] /\ inbox[q] # <<>>
      /\ other' = (IF m.from = q THEN other ELSE [other EXCEPT ![q] = [panel |-> m.from, age |-> 0]])
      /\ outranked' = IF Hides(q, m.from) THEN [outranked EXCEPT ![q] = 0] ELSE outranked
  BY DEF OnMessage
<1>2. ElectionInv'
  BY MessageTypes
<1>3. /\ inbox \in [Panels -> Seq(Claims)] /\ outranked \in [Panels -> 0 .. DualCap]
      /\ other \in [Panels -> [panel : Panels \cup {None}, age : 0 .. StaleAfter]]
      /\ leader \subseteq Panels
  BY DEF ElectionInv, ElectionTypeOK, Claims
<1>4. ASSUME NEW p \in Panels PROVE StepsDown(p)'
  <2>1. StepsDown(p)
    BY DEF DualInv
  <2>2. \A r \in Panels : SinceBeat(r)' = SinceBeat(r)
    BY <1>1 DEF SinceBeat
  <2>3. outranked'[p] = outranked[p] /\ Unheard(p) => Unheard(p)'
    BY <1>1, <1>3, <2>2 DEF Unheard, Outranks
  <2>4. CASE p # q
    <3>1. inbox'[p] = inbox[p] /\ other'[p] = other[p] /\ outranked'[p] = outranked[p]
      BY <1>1, <1>3, <2>4
    <3>2. Coming(p) => Coming(p)'
      BY <3>1 DEF Coming, Outranks
    <3>3. Heard(p) => Heard(p)'
      BY <3>1, <1>1 DEF Heard, BetterIsLive, LiveOther, Outranks
    <3>4. QED
      BY <3>1, <3>2, <3>3, <2>1, <2>3, <1>1 DEF StepsDown, DualBound
  <2>5. CASE p = q /\ outranked'[p] = 0
    BY <2>5, <1>2, ZeroStepsDown
  <2>6. CASE p = q /\ outranked'[p] # 0
    <3>1. outranked'[p] = outranked[p] /\ ~Hides(p, m.from)
      BY <2>6, <1>1, <1>3
    <3>2. m \in Claims /\ m = inbox[p][1]
      BY <2>6, <1>1, <1>3
    <3>3. /\ \A i \in DOMAIN inbox[p] : i = 1 \/ (i - 1 \in DOMAIN inbox'[p] /\ inbox'[p][i - 1] = inbox[p][i])
      BY <2>6, <1>1, <1>3
    <3>4. Outranks(m.from, p) /\ outranked[p] <= Gap + Delay => Heard(p)'
      <4>1. SUFFICES ASSUME Outranks(m.from, p), outranked[p] <= Gap + Delay PROVE Heard(p)'
        OBVIOUS
      <4>2. m.from \in Panels /\ m.from # p /\ m.from # None
        BY <3>2, <4>1, OutranksOrders, PanelsAssumption DEF Claims, None
      <4>3. other'[p] = [panel |-> m.from, age |-> 0]
        BY <4>2, <2>6, <1>1, <1>3
      <4>4. BetterIsLive(p)'
        <5>1. ~(0 >= StaleAfter)
          BY DualBounds
        <5>2. other'[p].panel = m.from /\ other'[p].age = 0
          BY <4>3
        <5>3. QED
          BY <4>1, <4>2, <5>1, <5>2 DEF BetterIsLive, LiveOther, Outranks
      <4>5. idle'[p] \in Nat /\ outranked[p] \in Nat /\ idle'[p] = idle[p] /\ other'[p].age = 0
        BY <4>3, <1>1, TypesOfPanel DEF Typed
      <4>6. QED
        BY <4>1, <4>4, <4>5, <3>1, DualBounds DEF Heard
    <3>5. Coming(p) => Coming(p)' \/ Heard(p)'
      <4>1. SUFFICES ASSUME Coming(p) PROVE Coming(p)' \/ Heard(p)'
        OBVIOUS
      <4>2. PICK i \in DOMAIN inbox[p] :
              Outranks(inbox[p][i].from, p) /\ outranked[p] <= Gap + inbox[p][i].age
        BY <4>1 DEF Coming
      <4>3. CASE i = 1
        <5>1. outranked[p] <= Gap + m.age /\ m.age \in 0 .. Delay /\ outranked[p] \in Nat
          BY <4>2, <4>3, <3>2, TypesOfPanel DEF Claims, Typed
        <5>2. QED
          BY <5>1, <4>2, <4>3, <3>2, <3>4, DualBounds
      <4>4. CASE i # 1
        BY <4>2, <4>4, <3>1, <3>3 DEF Coming, Outranks
      <4>5. QED
        BY <4>3, <4>4
    <3>6. Heard(p) => Heard(p)'
      <4>1. SUFFICES ASSUME Heard(p) PROVE Heard(p)'
        OBVIOUS
      <4>2. CASE m.from = p
        BY <4>1, <4>2, <3>1, <2>6, <1>1 DEF Heard, BetterIsLive, LiveOther, Outranks
      <4>3. CASE m.from # p
        <5>1. Outranks(m.from, p)
          BY <4>1, <4>3, <3>1, <3>2, OutranksOrders DEF Heard, Hides, Claims
        <5>2. other'[p] = [panel |-> m.from, age |-> 0] /\ m.from \in Panels
          BY <4>3, <3>2, <2>6, <1>1, <1>3 DEF Claims
        <5>3. ~(0 >= StaleAfter) /\ m.from # None
          BY <5>2, DualBounds, PanelsAssumption DEF None
        <5>4. other'[p].panel = m.from /\ other'[p].age = 0
          BY <5>2
        <5>5. BetterIsLive(p)'
          BY <5>1, <5>3, <5>4 DEF BetterIsLive, LiveOther, Outranks
        <5>6. idle'[p] = idle[p] /\ idle[p] \in Nat
          BY <1>1, TypesOfPanel DEF Typed
        <5>7. QED
          BY <4>1, <5>4, <5>5, <5>6, <3>1 DEF Heard
      <4>4. QED
        BY <4>2, <4>3
    <3>7. QED
      BY <3>1, <3>5, <3>6, <2>1, <2>3, <1>1 DEF StepsDown, DualBound
  <2>7. QED
    BY <2>4, <2>5, <2>6
<1>5. QED
  BY <1>4 DEF DualInv

\* A tick of a leader that heard of a better one ends its leadership; a claim is on its
\* way to all others.
LEMMA TickSteps ==
  ASSUME ElectionInv, DualInv, NEW q \in Panels, LeaderTick(q)
  PROVE  DualInv'
<1>1. /\ up' = up /\ other' = other /\ outranked' = outranked /\ q \in up
      /\ leader \subseteq up /\ up \subseteq Panels /\ leader' \subseteq up
  BY TickMail, TickTypes DEF LeaderTick, ElectionInv, ElectionTypeOK
<1>2. pendingSince \in [Panels -> -1 .. Heartbeat] /\ beat \in [Panels -> 0 .. Heartbeat]
  BY DEF ElectionInv, ElectionTypeOK
<1>3. ASSUME NEW p \in Panels PROVE StepsDown(p)'
  <2>1. StepsDown(p) /\ outranked[p] \in Nat /\ outranked[p] <= DualBound
    BY StepsDownInTime, TypesOfPanel DEF DualInv, Typed
  <2>2. BetterIsLive(p)' <=> BetterIsLive(p)
    BY <1>1 DEF BetterIsLive, LiveOther
  <2>3. Coming(p) => Coming(p)'
    <3>1. \A i \in DOMAIN inbox[p] : i \in DOMAIN inbox'[p] /\ inbox'[p][i] = inbox[p][i]
      BY TickMail
    <3>2. QED
      BY <3>1, <1>1 DEF Coming, Outranks
  <2>4. ASSUME Publish(q), p \in up, Outranks(q, p), outranked[p] <= Gap PROVE Coming(p)'
    <3>1. PICK i \in DOMAIN inbox'[p] : inbox'[p][i] = [from |-> q, age |-> 0]
      BY <2>4, TickMail
    <3>2. inbox'[p][i].from = q /\ inbox'[p][i].age = 0
      BY <3>1
    <3>3. outranked'[p] <= Gap + 0
      BY <2>4, <1>1, <2>1, DualBounds
    <3>4. QED
      BY <2>4, <3>2, <3>3 DEF Coming, Outranks
  <2>5. ASSUME p \in leader, Unheard(p), ~(Publish(q) /\ Outranks(q, p)) PROVE Unheard(p)'
    <3>1. ASSUME NEW r \in leader', Outranks(r, p) PROVE r \in leader /\ SinceBeat(r)' = SinceBeat(r)
      <4>1. CASE r # q
        BY <4>1, <3>1, <1>1, TickMail DEF SinceBeat
      <4>2. CASE r = q
        <5>1. Wait(q) /\ q \in leader
          BY <2>5, <3>1, <4>2 DEF LeaderTick, StepDown, Beat, Yield, Acquire, Claim, Wait
        <5>2. beat' = beat /\ beat[q] < Heartbeat
          BY <5>1 DEF Wait
        <5>3. QED
          BY <5>1, <5>2, <4>2 DEF SinceBeat
      <4>3. QED
        BY <4>1, <4>2
    <3>2. QED
      BY <3>1, <2>5, <1>1 DEF Unheard, Outranks
  <2>6. CASE p # q
    <3>1. /\ idle'[p] = idle[p] /\ pendingSince'[p] = pendingSince[p] /\ (p \in leader' <=> p \in leader)
      BY <2>6, TickMail
    <3>2. Heard(p) => Heard(p)'
      BY <3>1, <2>2, <1>1 DEF Heard
    <3>3. p \in leader /\ Unheard(p) => Unheard(p)' \/ Coming(p)'
      BY <2>4, <2>5, <1>1 DEF Unheard
    <3>4. QED
      BY <3>1, <3>2, <3>3, <2>1, <2>3, <1>1 DEF StepsDown, DualBound
  <2>7. CASE p = q /\ p \in leader
    <3>1. ~Outranks(q, p)
      BY <2>7, OutranksOrders
    <3>2. CASE BetterIsLive(p)
      <4>1. StepDown(q)
        BY <2>7, <3>2 DEF LeaderTick, StepDown, Beat, Yield, Acquire, Claim, Wait
      <4>2. pendingSince[p] = None /\ pendingSince' = pendingSince /\ p \notin leader'
        BY <4>1, <2>7 DEF StepDown, ElectionInv, Roles
      <4>3. ~(pendingSince'[p] > 0)
        BY <4>2 DEF None
      <4>4. QED
        BY <4>2, <4>3, <2>1, <1>1 DEF StepsDown, DualBound
    <3>3. CASE ~BetterIsLive(p)
      <4>1. leader' = leader
        BY <2>7, <3>3 DEF LeaderTick, StepDown, Beat, Yield, Acquire, Claim, Wait
      <4>2. QED
        BY <4>1, <3>1, <3>3, <2>1, <2>3, <2>5, <2>7 DEF StepsDown, Heard
    <3>4. QED
      BY <3>2, <3>3
  <2>8. CASE p = q /\ p \notin leader
    <3>1. CASE Acquire(q)
      <4>1. pendingSince[p] >= Heartbeat /\ pendingSince[p] \in -1 .. Heartbeat
        BY <3>1, <2>8, <1>2 DEF Acquire
      <4>2. pendingSince[p] > 0
        BY <4>1, DualBounds
      <4>3. outranked'[p] = 0
        BY <4>2, <2>1, <2>8, <1>1 DEF StepsDown
      <4>4. QED
        BY <4>3, TickTypes, ZeroStepsDown
    <3>2. CASE Yield(q) \/ Claim(q) \/ Wait(q)
      <4>1. p \notin leader' /\ (pendingSince'[p] = pendingSince[p] \/ ~(pendingSince'[p] > 0))
        BY <3>2, <2>8, <1>2 DEF Yield, Claim, Wait, None
      <4>2. QED
        BY <4>1, <2>1, <2>8, <1>1 DEF StepsDown, DualBound
    <3>3. QED
      BY <3>1, <3>2, <2>8 DEF LeaderTick, StepDown, Beat
  <2>9. QED
    BY <2>6, <2>7, <2>8
<1>4. QED
  BY <1>3 DEF DualInv

\* Time passes: the clock of a worse leader runs with the time since the others' claims.
LEMMA PassSteps ==
  ASSUME ElectionInv, DualInv, Pass
  PROVE  DualInv'
<1>1. /\ up' = up /\ leader' = leader /\ leader \subseteq up /\ up \subseteq Panels
  BY DEF Pass, ElectionInv, ElectionTypeOK
<1>2. ElectionInv'
  BY PassTypes
<1>3. ASSUME NEW p \in Panels PROVE StepsDown(p)'
  <2>1. outranked'[p] = IF p \in leader /\ \E q \in leader : Outranks(q, p)
                        THEN Upto(DualCap, outranked[p]) ELSE 0
    BY DEF Pass
  <2>2. CASE ~(p \in leader /\ \E q \in leader : Outranks(q, p))
    <3>1. outranked'[p] = 0
      BY <2>1, <2>2
    <3>2. QED
      BY <3>1, <1>2, ZeroStepsDown
  <2>3. CASE p \in leader /\ \E q \in leader : Outranks(q, p)
    <3>1. /\ outranked[p] \in 0 .. DualCap /\ outranked[p] \in Nat /\ outranked'[p] \in Nat
          /\ idle[p] \in Nat /\ other[p].age \in 0 .. StaleAfter /\ other[p].age \in Nat
          /\ other[p].panel \in Panels \cup {None} /\ inbox[p] \in Seq(Claims)
      BY <1>2, TypesOfPanel, TypesThen DEF Typed
    <3>2. outranked'[p] <= outranked[p] + 1
      <4>1. Upto(DualCap, outranked[p]) <= outranked[p] + 1
        BY <3>1, Bounds DEF Upto
      <4>2. QED
        BY <4>1, <2>1, <2>3
    <3>3. idle'[p] = idle[p] + 1 /\ idle[p] < TickGap
      BY <2>3, <1>1 DEF Pass
    <3>4. Unheard(p) => Unheard(p)'
      <4>1. SUFFICES ASSUME Unheard(p) PROVE Unheard(p)'
        OBVIOUS
      <4>2. ASSUME NEW q \in leader, Outranks(q, p) PROVE outranked'[p] <= SinceBeat(q)'
        <5>1. /\ beat[q] \in 0 .. Heartbeat /\ idle[q] \in Nat
              /\ beat'[q] = Upto(Heartbeat, beat[q]) /\ idle'[q] = idle[q] + 1
          BY <1>1, TypesOfPanel DEF Typed, Pass
        <5>2. outranked[p] <= SinceBeat(q)
          BY <4>1, <4>2 DEF Unheard
        <5>3. SinceBeat(q)' >= SinceBeat(q) + 1
          <6>1. CASE beat[q] < Heartbeat
            BY <5>1, <6>1, DualBounds DEF SinceBeat, Upto
          <6>2. CASE ~(beat[q] < Heartbeat)
            BY <5>1, <6>2, DualBounds DEF SinceBeat, Upto
          <6>3. QED
            BY <6>1, <6>2
        <5>4. SinceBeat(q) \in Nat /\ SinceBeat(q)' \in Nat
          BY <1>1, <1>2, SinceBeatTypes, SinceBeatThen
        <5>5. QED
          BY <5>2, <5>3, <5>4, <3>1, <3>2
      <4>3. outranked'[p] <= Gap
        <5>1. PICK q \in leader : Outranks(q, p)
          BY <2>3
        <5>2. outranked'[p] <= SinceBeat(q)' /\ SinceBeat(q)' <= Gap /\ SinceBeat(q)' \in Nat
          BY <5>1, <4>2, <1>1, <1>2, SinceBeatThen
        <5>3. QED
          BY <5>2, <3>1, DualBounds
      <4>4. QED
        BY <4>2, <4>3, <1>1 DEF Unheard, Outranks
    <3>5. Coming(p) => Coming(p)'
      <4>1. SUFFICES ASSUME Coming(p) PROVE Coming(p)'
        OBVIOUS
      <4>2. PICK i \in DOMAIN inbox[p] :
              Outranks(inbox[p][i].from, p) /\ outranked[p] <= Gap + inbox[p][i].age
        BY <4>1 DEF Coming
      <4>3. inbox'[p] = [k \in DOMAIN inbox[p] |-> [inbox[p][k] EXCEPT !.age = @ + 1]]
        BY DEF Pass
      <4>4. i \in DOMAIN inbox'[p] /\ inbox'[p][i] = [inbox[p][i] EXCEPT !.age = @ + 1]
        BY <4>3
      <4>5. inbox[p][i] \in Claims
        BY <3>1
      <4>6. inbox'[p][i].from = inbox[p][i].from /\ inbox'[p][i].age = inbox[p][i].age + 1
            /\ inbox[p][i].age \in Nat
        BY <4>4, <4>5, Bounds DEF Claims
      <4>7. outranked'[p] <= Gap + inbox'[p][i].age
        <5>1. Gap \in Nat /\ outranked[p] \in Nat /\ outranked'[p] \in Nat
          BY <3>1, DualBounds
        <5>2. outranked[p] <= Gap + inbox[p][i].age
          BY <4>2
        <5>3. QED
          BY <5>1, <5>2, <4>6, <3>2
      <4>8. QED
        BY <4>2, <4>4, <4>6, <4>7 DEF Coming, Outranks
    <3>6. Heard(p) => Heard(p)'
      <4>1. SUFFICES ASSUME Heard(p) PROVE Heard(p)'
        OBVIOUS
      <4>2. other[p].panel # None /\ Outranks(other[p].panel, p)
        BY <4>1 DEF Heard, BetterIsLive, LiveOther
      <4>3. other[p].age <= idle[p] /\ outranked[p] <= Gap + Delay + idle[p]
        BY <4>1 DEF Heard
      <4>4. other'[p] = [other[p] EXCEPT !.age = Upto(StaleAfter, @)]
        BY <4>2 DEF Pass
      <4>5. other'[p].panel = other[p].panel /\ other'[p].age = Upto(StaleAfter, other[p].age)
        <5>1. other[p] \in [panel : Panels \cup {None}, age : 0 .. StaleAfter]
          BY DEF ElectionInv, ElectionTypeOK
        <5>2. QED
          BY <5>1, <4>4
      <4>6. other'[p].age = other[p].age + 1 /\ ~(other'[p].age >= StaleAfter)
        BY <4>3, <4>5, <3>1, <3>3, DualBounds DEF Upto
      <4>7. BetterIsLive(p)'
        BY <4>2, <4>5, <4>6 DEF BetterIsLive, LiveOther, Outranks
      <4>8. other'[p].age <= idle'[p]
        BY <4>3, <4>6, <3>1, <3>3
      <4>9. outranked'[p] <= Gap + Delay + idle'[p]
        <5>1. Gap \in Nat /\ Delay \in Nat /\ idle[p] \in Nat
              /\ outranked[p] \in Nat /\ outranked'[p] \in Nat
          BY <3>1, DualBounds
        <5>2. QED
          BY <5>1, <4>3, <3>2, <3>3
      <4>10. QED
        BY <4>7, <4>8, <4>9 DEF Heard
    <3>7. QED
      BY <3>4, <3>5, <3>6, <2>3, <1>1 DEF StepsDown, DualInv
  <2>4. QED
    BY <2>2, <2>3
<1>4. QED
  BY <1>3 DEF DualInv

\* Every step keeps the clock of a worse leader within what it waits for.
LEMMA StepSteps == ElectionInv /\ DualInv /\ [ElectionNext]_electionVars => DualInv'
<1> SUFFICES ASSUME ElectionInv, DualInv, [ElectionNext]_electionVars PROVE DualInv'
  OBVIOUS
<1>1. CASE UNCHANGED electionVars
  BY <1>1 DEF electionVars, panelVars, historyVars, DualInv, StepsDown, Unheard, Coming, Heard, SinceBeat,
     Outranks, BetterIsLive, LiveOther, DualBound
<1>2. CASE ElectionNext
  BY <1>2, SessionSteps, MessageSteps, TickSteps, PassSteps DEF ElectionNext
<1>3. QED
  BY <1>1, <1>2

\* At the beginning nobody leads.
LEMMA InitialSteps == ElectionInit => DualInv
<1> SUFFICES ASSUME ElectionInit, NEW p \in Panels PROVE StepsDown(p)
  BY DEF DualInv
<1>1. p \notin leader /\ outranked[p] = 0
  BY DEF ElectionInit
<1>2. 0 <= DualBound
  BY DualBounds
<1>3. QED
  BY <1>1, <1>2 DEF StepsDown

\* However many panels, whatever their priorities and delays: a worse leader whose slot
\* keeps the better claims steps down within DualBound (MeshLeader.tick, stepping down).
THEOREM DualityStaysBrief == ElectionSpec => []DualLeadershipIsBrief
<1>1. ElectionInit => ElectionInv /\ DualInv
  BY InitialTypes, InitialSteps
<1>2. ElectionInv /\ DualInv /\ [ElectionNext]_electionVars => ElectionInv' /\ DualInv'
  BY StepTypes, StepSteps
<1>3. ElectionInv /\ DualInv => DualLeadershipIsBrief
  BY StepsDownInTime DEF DualInv, DualLeadershipIsBrief
<1>4. QED
  BY <1>1, <1>2, <1>3, PTL DEF ElectionSpec
=============================================================================
