---------------------------- MODULE CommandLane ----------------------------
(***************************************************************************)
(* The way of commands to one peripheral: the bounded transport queue and  *)
(* its reader, the lane of the peripheral and its worker                   *)
(* (src/brilliant_mqtt/mqttio.py), the handler of the bridge               *)
(* (bridge.py, _write_command) and the writes it admits to the bus.        *)
(*                                                                         *)
(* A newer command replaces an older one in three places: in the transport *)
(* queue, in the lane, and in the write that waits for its device.  The    *)
(* bus is taken by its promise, see NativeWrites: it serves the writes of  *)
(* a peripheral in order, one at a time, and never a withdrawn one.        *)
(***************************************************************************)
EXTENDS Naturals, Sequences, SequencesExt

CONSTANTS
  Kinds,        \* commands Home Assistant sends, see Kind
  MaxCommands,  \* bound on the commands that arrive
  InboxSize,    \* _TRANSPORT_QUEUE_MAXSIZE; beyond it the session is rebuilt
  LaneSize,     \* _TOPIC_QUEUE_MAXSIZE
  MaxFailures,  \* _LANE_RESTART_MAX_FAILURES
  MaxRetypes    \* bound on the changes of the load's dimming range

Fields == {"on", "level", "number", "switch"}
Topics == {"set", "set_number", "set_switch"}

\* The topic that sets a field.
TopicOf(f) ==
  CASE f = "number" -> "set_number" [] f = "switch" -> "set_switch" [] OTHER -> "set"

\* A kind of command: its topic, the fields of its payload, whether it turns the load
\* off, and whether it is no barrier: its topic is of the kind of which the latest
\* wins, and _coalesce_payload understands it.
Kind ==
  {k \in [topic : Topics, names : (SUBSET Fields) \ {{}}, off : BOOLEAN, plain : BOOLEAN] :
     /\ \A f \in k.names : TopicOf(f) = k.topic
     /\ k.off => "on" \in k.names
     /\ k.topic = "set_switch" => ~k.plain}

ASSUME LaneAssumption ==
  /\ Kinds \subseteq Kind
  /\ MaxCommands \in Nat /\ MaxRetypes \in Nat
  /\ InboxSize \in Nat \ {0} /\ LaneSize \in Nat \ {0} /\ MaxFailures \in Nat \ {0}

VARIABLES
  arrived,  \* commands that arrived so far; each has its number
  inbox,    \* transport queue
  held,     \* command whose put waits for room in the lane, at most one
  lane,     \* pending commands of the lane
  active,   \* command the worker handles, at most one
  stage,    \* of the worker, see Stage
  failures, \* consecutive deaths of the worker
  epoch,    \* translation of the load: its _command_generation
  hook,     \* epoch try_supersede was installed in, at most one
  ticket,   \* write admitted with the ticket of the worker, at most one
  queue,    \* writes of the peripheral that wait for the device
  running,  \* write the device executes, at most one
  sent,     \* history: number of the last value of each field sent
  due       \* history: last value of each field that has to be sent, 0 if lost

inVars   == <<inbox, held>>
laneVars == <<lane, failures>>
busVars  == <<ticket, queue, running>>
vars == <<arrived, inVars, laneVars, active, stage, epoch, hook, busVars, sent, due>>

Stage == {"idle", "ticket", "own", "superseded", "finishing",
          "recovering", "closing", "closed", "expired"}
Busy  == {"ticket", "own", "superseded", "finishing"}

-----------------------------------------------------------------------------
Latest(m) == m.topic # "set_switch"

\* f, and g where f says nothing.
Over(f, g) == [x \in DOMAIN f \cup DOMAIN g |-> IF x \in DOMAIN f THEN f[x] ELSE g[x]]

\* translate_command: OFF ignores the brightness that comes with it.
Sets(m) == [f \in IF m.off THEN {"on"} ELSE DOMAIN m.fields |-> m.fields[f]]

\* _coalesce_payload finds a payload that stands for both.
Mergeable(a, b) ==
  /\ a.plain /\ b.plain
  /\ a.off \/ b.off => a.off /\ b.off /\ DOMAIN a.fields = {"on"}
                                      /\ DOMAIN b.fields = {"on"}

Merged(a, b) == [b EXCEPT !.fields = Over(b.fields, a.fields)]

\* Faulty variant: the scan for an older command passes a barrier.
TwinPastBarrier(q, m) ==
  {i \in DOMAIN q :
     /\ q[i].topic = m.topic /\ Mergeable(q[i], m)
     /\ \A j \in (i + 1) .. Len(q) : q[j].topic # m.topic}

\* Where m replaces a pending command: the last one of its topic, unless a
\* command that cannot be coalesced is behind it.
Twin(q, m) ==
  {i \in DOMAIN q :
     /\ q[i].topic = m.topic /\ Mergeable(q[i], m)
     /\ \A j \in (i + 1) .. Len(q) : q[j].topic # m.topic /\ q[j].plain}

Replaced(q, m) ==
  LET i == CHOOSE k \in Twin(q, m) : TRUE IN [q EXCEPT ![i] = Merged(q[i], m)]

Room(q, m, size) == Twin(q, m) # {} \/ Len(q) < size

Put(q, m) == IF Twin(q, m) # {} THEN Replaced(q, m) ELSE Append(q, m)

\* The values of a command that were neither sent nor superseded are lost.
Lose(lost) ==
  due' = [f \in Fields |->
            IF \E m \in lost : f \in DOMAIN Sets(m) /\ Sets(m)[f] = due[f] /\ sent[f] # due[f]
            THEN 0 ELSE due[f]]

-----------------------------------------------------------------------------
\* A write of the bus: its values, the translation they were made in, and who
\* awaits it: "ticket" or "own" for the worker, "nobody" after it gave up.
WriteOf(m, owner) == [sets |-> Sets(m), epoch |-> epoch, owner |-> owner]

\* Values of a translation differ only in the brightness.
SameValues(v, w) ==
  v.sets = w.sets /\ (v.epoch = w.epoch \/ "level" \notin DOMAIN v.sets)

\* The write of the worker that waits is the last of its peripheral.
WithdrawnFrom(q, owners) == IF q # <<>> /\ Last(q).owner \in owners THEN Front(q) ELSE q

\* _write_command and set_variables up to its first await.  A command handled
\* again after it was folded adopts the ticket its values are on; when they
\* are not (the load was re-typed since), it withdraws them and starts afresh.
Handle(m) ==
  IF ~Latest(m)
  THEN /\ queue' = Append(queue, WriteOf(m, "own"))
       /\ stage' = "own"
       /\ UNCHANGED <<hook, ticket>>
  ELSE IF hook = <<>>
  THEN /\ hook' = <<epoch>>
       /\ ticket' = <<WriteOf(m, "ticket")>>
       /\ queue' = Append(queue, WriteOf(m, "ticket"))
       /\ stage' = "ticket"
  ELSE IF SameValues(ticket[1], WriteOf(m, "ticket"))
  THEN /\ stage' = "ticket"
       /\ UNCHANGED <<hook, ticket, queue>>
  ELSE /\ queue' = Append(WithdrawnFrom(queue, {"ticket"}), WriteOf(m, "own"))
       /\ ticket' = <<>>
       /\ stage' = "own"
       /\ UNCHANGED hook

-----------------------------------------------------------------------------
\* A command arrives: _BoundedTransportQueue.put_nowait.
Arrive(k) ==
  LET n == arrived + 1
      m == [topic |-> k.topic, off |-> k.off, plain |-> k.plain,
            fields |-> [f \in k.names |-> n]]
  IN /\ arrived < MaxCommands /\ Room(inbox, m, InboxSize)
     /\ arrived' = n
     /\ inbox' = Put(inbox, m)
     /\ due' = [f \in Fields |-> IF f \in DOMAIN Sets(m) THEN n ELSE due[f]]
     /\ UNCHANGED <<held, laneVars, active, stage, epoch, hook, busVars, sent>>

\* What the worker would wait for when m is folded into its command.
Replacement(m) == IF Mergeable(active[1], m) THEN Merged(active[1], m) ELSE m

\* Faulty variant: a fold does not look at the fields it replaces.
MayFoldAnyKeys(m) ==
  /\ Latest(m) /\ active # <<>> /\ lane = <<>>
  /\ active[1].topic = m.topic
  /\ hook = <<epoch>>
  /\ \E i \in DOMAIN queue : queue[i].owner = "ticket" /\ i = Len(queue)

\* The lane is empty, the worker's write still waits, last of its peripheral,
\* in the translation it was made in, and no field of it would be dropped.
MayFold(m) ==
  /\ Latest(m) /\ active # <<>> /\ lane = <<>>
  /\ active[1].topic = m.topic
  /\ hook = <<epoch>>
  /\ \E i \in DOMAIN queue :
       /\ queue[i].owner = "ticket" /\ i = Len(queue)
       /\ DOMAIN queue[i].sets \subseteq DOMAIN Sets(Replacement(m))

\* The reader takes a command; the write of the worker takes its values.
Fold ==
  /\ held = <<>> /\ inbox # <<>> /\ stage \in {"ticket", "superseded"}
  /\ LET m == Head(inbox)
         w == WriteOf(Replacement(m), "ticket")
     IN /\ MayFold(m)
        /\ active' = <<Replacement(m)>>
        /\ ticket' = <<w>>
        /\ queue' = [queue EXCEPT ![Len(queue)] = w]
  /\ stage' = "superseded"
  /\ inbox' = Tail(inbox)
  /\ UNCHANGED <<arrived, held, laneVars, epoch, hook, running, sent, due>>

\* The reader takes a command and puts it into the lane, or waits for room.
Dispatch ==
  /\ held = <<>> /\ inbox # <<>> /\ stage \notin {"closed", "expired"}
  /\ ~MayFold(Head(inbox))
  /\ inbox' = Tail(inbox)
  /\ IF Room(lane, Head(inbox), LaneSize)
     THEN lane' = Put(lane, Head(inbox)) /\ held' = <<>>
     ELSE held' = <<Head(inbox)>> /\ UNCHANGED lane
  /\ UNCHANGED <<arrived, failures, active, stage, epoch, hook, busVars, sent, due>>

\* The put that waited finds room.
Unblock ==
  /\ held # <<>> /\ Len(lane) < LaneSize
  /\ stage \notin {"closed", "expired"}
  /\ lane' = Append(lane, held[1])
  /\ held' = <<>>
  /\ UNCHANGED <<arrived, inbox, failures, active, stage, epoch, hook, busVars, sent, due>>

\* A closed lane refuses commands...
Reject ==
  /\ stage = "closed" /\ held = <<>> /\ inbox # <<>>
  /\ inbox' = Tail(inbox)
  /\ Lose({Head(inbox)})
  /\ UNCHANGED <<arrived, held, laneVars, active, stage, epoch, hook, busVars, sent>>

\* ... until _LANE_REOPEN_COOLDOWN_S have passed...
CoolDown ==
  /\ stage = "closed"
  /\ stage' = "expired"
  /\ UNCHANGED <<arrived, inVars, laneVars, active, epoch, hook, busVars, sent, due>>

\* ... and the next command opens it again.
Reopen ==
  /\ stage = "expired" /\ held = <<>> /\ inbox # <<>>
  /\ stage' = "idle"
  /\ failures' = 0
  /\ lane' = <<Head(inbox)>>
  /\ inbox' = Tail(inbox)
  /\ UNCHANGED <<arrived, held, active, epoch, hook, busVars, sent, due>>

-----------------------------------------------------------------------------
\* The worker takes a command and handles it.
Take ==
  /\ stage = "idle" /\ lane # <<>>
  /\ active' = <<Head(lane)>>
  /\ lane' = Tail(lane)
  /\ Handle(Head(lane))
  /\ UNCHANGED <<arrived, inVars, failures, epoch, running, sent, due>>

\* The handler was told Superseded; the worker handles the replacement.
Adopt ==
  /\ stage = "superseded"
  /\ Handle(active[1])
  /\ failures' = 0
  /\ UNCHANGED <<arrived, inVars, lane, active, epoch, running, sent, due>>

\* The next write of the peripheral gets the device.
Issue ==
  /\ running = <<>> /\ queue # <<>>
  /\ running' = <<Head(queue)>>
  /\ queue' = Tail(queue)
  /\ sent' = Over(Head(queue).sets, sent)
  /\ UNCHANGED <<arrived, inVars, laneVars, active, stage, epoch, hook, ticket, due>>

\* The RPC ends.
Return ==
  /\ running # <<>>
  /\ running' = <<>>
  /\ UNCHANGED <<arrived, inVars, laneVars, active, stage, epoch, hook, ticket, queue,
                 sent, due>>

\* The write the worker awaits ended, or _WRITE_DEADLINE_S after it was issued
\* the worker gives up.
Awaited ==
  /\ stage \in {"ticket", "own"} /\ \A i \in DOMAIN queue : queue[i].owner # stage
  /\ stage' = "finishing"
  /\ ticket' = <<>>
  /\ running' = [i \in DOMAIN running |-> [running[i] EXCEPT !.owner = "nobody"]]
  /\ UNCHANGED <<arrived, inVars, laneVars, active, epoch, hook, queue, sent, due>>

\* The state was published, the handler ends and the worker goes on.
Finish ==
  /\ stage = "finishing"
  /\ stage' = "idle"
  /\ active' = <<>>
  /\ hook' = <<>>
  /\ failures' = 0
  /\ UNCHANGED <<arrived, inVars, lane, epoch, busVars, sent, due>>

\* A push or a poll shows another dimming range (_remember_device).
Retype ==
  /\ epoch < MaxRetypes
  /\ epoch' = epoch + 1
  /\ UNCHANGED <<arrived, inVars, laneVars, active, stage, hook, busVars, sent, due>>

\* What the end of the worker leaves: its waiting write is withdrawn, its
\* running one goes on without it.
Abandon ==
  /\ active' = <<>>
  /\ hook' = <<>>
  /\ ticket' = <<>>
  /\ queue' = WithdrawnFrom(queue, {"ticket", "own"})
  /\ running' = [i \in DOMAIN running |-> [running[i] EXCEPT !.owner = "nobody"]]
  /\ Lose(IF queue = queue' THEN {} ELSE ToSet(active))

\* The worker is cancelled from inside a callback: its lane is closed.
WorkerCancelled ==
  /\ stage \in Busy
  /\ Abandon
  /\ stage' = "closing"
  /\ UNCHANGED <<arrived, inVars, laneVars, epoch, sent>>

\* The worker dies: it is started again after a delay.
WorkerDies ==
  /\ stage \in Busy
  /\ Abandon
  /\ stage' = "recovering"
  /\ failures' = failures + 1
  /\ UNCHANGED <<arrived, inVars, lane, epoch, sent>>

Restart ==
  /\ stage = "recovering" /\ failures < MaxFailures
  /\ stage' = "idle"
  /\ UNCHANGED <<arrived, inVars, laneVars, active, epoch, hook, busVars, sent, due>>

\* _close_lane: pending commands are discarded, a put that waits is refused.
Close ==
  /\ \/ stage = "closing"
     \/ stage = "recovering" /\ failures >= MaxFailures
  /\ stage' = "closed"
  /\ lane' = <<>>
  /\ held' = <<>>
  /\ Lose(ToSet(lane) \cup ToSet(held))
  /\ UNCHANGED <<arrived, inbox, failures, active, epoch, hook, busVars, sent>>

-----------------------------------------------------------------------------
Init ==
  /\ arrived = 0 /\ epoch = 0 /\ failures = 0
  /\ inbox = <<>> /\ held = <<>> /\ lane = <<>> /\ active = <<>>
  /\ hook = <<>> /\ ticket = <<>> /\ queue = <<>> /\ running = <<>>
  /\ stage = "idle"
  /\ sent = [f \in Fields |-> 0]
  /\ due = [f \in Fields |-> 0]

Reader == Fold \/ Dispatch \/ Unblock \/ Reject \/ Reopen
Worker == Take \/ Adopt \/ Awaited \/ Finish \/ Restart \/ Close

Next ==
  \/ \E k \in Kinds : Arrive(k)
  \/ Reader \/ Worker \/ CoolDown
  \/ Issue \/ Return \/ Retype
  \/ WorkerCancelled \/ WorkerDies

Spec == Init /\ [][Next]_vars

\* The event loop runs reader and worker, and an RPC returns: one that does
\* not ends the session, see WriteAdmission.
FairSpec ==
  Spec /\ WF_vars(Reader) /\ WF_vars(Worker) /\ WF_vars(Issue) /\ WF_vars(Return)

-----------------------------------------------------------------------------
Command ==
  {[topic |-> k.topic, off |-> k.off, plain |-> k.plain, fields |-> g] :
     k \in Kinds, g \in UNION {[s -> 1 .. MaxCommands] : s \in SUBSET Fields}}

\* Type invariant.
TypeOK ==
  /\ arrived \in 0 .. MaxCommands /\ epoch \in 0 .. MaxRetypes
  /\ failures \in 0 .. MaxFailures /\ stage \in Stage
  /\ Len(inbox) <= InboxSize /\ Len(lane) <= LaneSize
  /\ Len(held) <= 1 /\ Len(active) <= 1 /\ Len(running) <= 1
  /\ ToSet(inbox \o held \o lane \o active) \subseteq Command
  /\ (active # <<>>) = (stage \in Busy)
  /\ stage \in {"superseded", "ticket"} => ticket # <<>> /\ hook # <<>>
  /\ sent \in [Fields -> 0 .. MaxCommands] /\ due \in [Fields -> 0 .. MaxCommands]

\* Every value on its way to the device, the next to be sent first.
OnTheWay ==
  [i \in DOMAIN queue |-> queue[i].sets] \o
  [i \in DOMAIN (lane \o held \o inbox) |-> Sets((lane \o held \o inbox)[i])]

\* Nothing is reordered, in whatever queue or write commands meet: the values
\* of a field are sent in the order of their commands, and a switch command acts
\* after all commands before it and before all after it.
InOrder ==
  /\ \A i \in DOMAIN OnTheWay : \A f \in DOMAIN OnTheWay[i] : sent[f] <= OnTheWay[i][f]
  /\ \A i, j \in DOMAIN OnTheWay :
       i < j => \A f \in DOMAIN OnTheWay[i], g \in DOMAIN OnTheWay[j] :
                  f = g \/ "switch" \in {f, g} => OnTheWay[i][f] < OnTheWay[j][g]

\* When commands stop, every field commanded and not lost with a worker ends
\* with its last value on the device.
Settles == <>[](\A f \in Fields : due[f] \in {0, sent[f]})
=============================================================================
