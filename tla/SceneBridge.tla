------------------------------ MODULE SceneBridge ------------------------------
(***************************************************************************)
(* The durable scene transport of one panel (scene_bridge.py and           *)
(* scene_state.py), for the commands of one scene.  A command is recorded  *)
(* on disk before the bus is written; an execution seen on the bus         *)
(* confirms the commands it is later than; events and results are kept in  *)
(* an outbox until the broker acknowledges them.  Snapshots of the state   *)
(* are written by one thread in the order they were taken, while the       *)
(* bridge goes on.                                                         *)
(*                                                                         *)
(* Executions are numbered in the order of their time stamps.  The code    *)
(* gates publication with version numbers; here durable is the set of      *)
(* items a written snapshot holds as they are.                             *)
(***************************************************************************)
EXTENDS Naturals, Sequences, FiniteSets, Functions

CONSTANTS
    Commands,
    MaxRuns,        \* bound: executions of the scene
    MaxMessages,    \* bound: commands delivered, duplicates included
    MaxRestarts,    \* bound: sessions or processes that end
    MaxFaults       \* bound: writes and publications that fail, and commands refused

ASSUME SceneAssumption == {MaxRuns, MaxMessages, MaxRestarts, MaxFaults} \subseteq Nat

Runs == 1 .. MaxRuns
Outcomes == {"accepted", "timeout", "write_failed", "unknown_scene"}
NoRun == 0

\* A dict with the keys K and the values V.
Dict(K, V) == UNION {[S -> V] : S \in SUBSET K}

\* A SceneState: mark is the watermark, pending gives the baseline of a command,
\* and events tells whether the event of an execution is delivered.
Results == [outcome : Outcomes, delivered : BOOLEAN, event : Runs \cup {NoRun}]
States == [mark : 0 .. MaxRuns, pending : Dict(Commands, 0 .. MaxRuns),
           events : Dict(Runs, BOOLEAN), results : Dict(Commands, Results)]
Empty == [mark |-> 0, pending |-> <<>>, events |-> <<>>, results |-> <<>>]

Items == ({"event"} \X Runs) \cup ({"result"} \X Commands)
HeldIn(s) == ({"event"} \X DOMAIN s.events) \cup ({"result"} \X DOMAIN s.results)

\* What the task that took a snapshot does once it is written.
Waiters == {<<"deliver">>, <<"loop">>, <<"nobody">>} \cup ({"write"} \X Commands)

VARIABLES
    phase,              \* "down", "loaded", "starting" or "up" (_started)
    state,              \* the state in memory
    trusted, seeded,    \* _state_trusted and _seed_captured
    durable,            \* items whose version is at most _persisted_version
    timed, writing,     \* commands with a timeout task, with a write task
    courier,            \* the delivery loop: what it publishes, or what it does
    queue, disk,        \* the executor's snapshots, and the state file
    ran, floor,         \* executions so far, and those before this session
    asked, writes,      \* history: runs when a command was first accepted, and its bus writes
    heard, answers,     \* history: the events and the outcomes the broker received
    messages, restarts, faults

memory == <<state, trusted, seeded, durable, timed, writing, courier>>
world == <<ran, asked, writes, heard, answers, messages>>
vars == <<phase, state, trusted, seeded, durable, timed, writing, courier, queue, disk,
          ran, floor, asked, writes, heard, answers, messages, restarts, faults>>

\* The type invariant.
TypeOK ==
    /\ phase \in {"down", "loaded", "starting", "up"}
    /\ {state, disk} \subseteq States
    /\ {trusted, seeded} \subseteq BOOLEAN
    /\ durable \subseteq Items /\ timed \subseteq Commands /\ writing \subseteq timed
    /\ courier \in {<<"idle">>, <<"looking">>, <<"saving">>} \cup Items
    /\ \A i \in DOMAIN queue : queue[i].doc \in States /\ queue[i].holds \subseteq Items
                               /\ queue[i].waiter \in Waiters
    /\ ran \in 0 .. MaxRuns /\ floor \in 0 .. ran
    /\ asked \in Dict(Commands, 0 .. MaxRuns) /\ writes \in [Commands -> Nat]
    /\ heard \subseteq Runs /\ answers \in [Commands -> SUBSET Outcomes]
    /\ messages \in 0 .. MaxMessages
    /\ restarts \in 0 .. MaxRestarts /\ faults \in 0 .. MaxFaults

\* Nothing of the bridge's memory is left.
Forgotten ==
    /\ phase' = "down" /\ state' = Empty /\ trusted' = TRUE /\ seeded' = FALSE
    /\ durable' = {} /\ timed' = {} /\ writing' = {} /\ courier' = <<"idle">>

Init ==
    /\ phase = "down" /\ state = Empty /\ trusted = TRUE /\ seeded = FALSE
    /\ durable = {} /\ timed = {} /\ writing = {} /\ courier = <<"idle">>
    /\ queue = <<>> /\ disk = Empty /\ ran = 0 /\ floor = 0
    /\ asked = <<>> /\ writes = [c \in Commands |-> 0]
    /\ heard = {} /\ answers = [c \in Commands |-> {}]
    /\ messages = 0 /\ restarts = 0 /\ faults = 0

-----------------------------------------------------------------------------
(* The state and its snapshots *)

Put(f, k, v) == [x \in DOMAIN f \cup {k} |-> IF x = k THEN v ELSE f[x]]
Without(f, S) == Restrict(f, DOMAIN f \ S)

\* A snapshot of s is queued for the writer; touched are the items s changes.
Capture(s, touched, waiter) ==
    /\ state' = s
    /\ durable' = durable \ touched
    /\ queue' = Append([i \in DOMAIN queue |-> [queue[i] EXCEPT !.holds = @ \ touched]],
                       [doc |-> s, holds |-> HeldIn(s), waiter |-> waiter])

\* _prune_events: delivered results no longer need their events.
Pruned(s) ==
    LET free == [c \in DOMAIN s.results |->
                    IF s.results[c].delivered THEN [s.results[c] EXCEPT !.event = NoRun]
                    ELSE s.results[c]]
        needed == {free[c].event : c \in DOMAIN free}
    IN [s EXCEPT !.results = free,
                 !.events = Without(@, {e \in DOMAIN @ : @[e] /\ e \notin needed})]

\* _store_result, for commands that are no longer pending.
Answered(s, C, outcome, e) ==
    [s EXCEPT !.pending = Without(@, C),
              !.results = [c \in DOMAIN @ \cup C |->
                              IF c \in C
                              THEN [outcome |-> outcome, delivered |-> FALSE, event |-> e]
                              ELSE @[c]]]

-----------------------------------------------------------------------------
(* Executions seen on the bus *)

\* Faulty variant: any execution of the scene confirms.
ConfirmedByAny(s, e) == DOMAIN s.pending

\* Commands the execution e confirms: those requested before it.
Confirmed(s, e) == {c \in DOMAIN s.pending : e > s.pending[c]}

\* _async_process_execution for a snapshot of the bus that shows the execution e.
Process(e, emit) ==
    LET seedOnly == ~trusted /\ ~seeded
        new == e > state.mark
        matching == Confirmed(state, e)
        publish == (emit /\ ~seedOnly) \/ matching # {}
        marked == [state EXCEPT !.mark = e]
        applied == IF publish
                   THEN [Answered(marked, matching, "accepted", e)
                             EXCEPT !.events = Put(@, e, FALSE)]
                   ELSE marked
    IN /\ new \/ seedOnly \/ ~emit
       /\ seeded' = (seeded \/ seedOnly)
       /\ IF new
          THEN /\ Capture(applied, IF publish
                                   THEN {<<"event", e>>} \cup ({"result"} \X matching)
                                   ELSE {}, <<"deliver">>)
               /\ timed' = timed \ matching /\ writing' = writing \ matching
          ELSE Capture(state, {}, <<"deliver">>) /\ UNCHANGED <<timed, writing>>

\* A push, a poll or a reconnect shows an execution, the newest or a late one, or
\* that there was none yet.
See(e) ==
    /\ phase = "up" /\ e \in floor .. ran
    /\ Process(e, TRUE)
    /\ UNCHANGED <<phase, trusted, courier, disk, ran, floor, asked, writes, heard, answers,
                   messages, restarts, faults>>

\* The scene is executed: by a command's write, however late, or natively.
Run ==
    /\ ran < MaxRuns
    /\ ran' = ran + 1
    /\ UNCHANGED <<phase, memory, queue, disk, floor, asked, writes, heard, answers, messages,
                   restarts, faults>>

-----------------------------------------------------------------------------
(* Commands *)

\* A command that is complete: its result is published again.
Replay(c) ==
    /\ c \in DOMAIN state.results
    /\ LET r == state.results[c]
       IN Capture([state EXCEPT !.results[c] =
                       [r EXCEPT !.delivered = FALSE,
                                 !.event = IF r.delivered THEN NoRun ELSE @]],
                  {<<"result", c>>}, <<"deliver">>)
    /\ UNCHANGED <<asked, faults>>

\* An unknown scene, or no execution peripheral.
Refuse(c) ==
    /\ c \notin DOMAIN state.results \cup DOMAIN state.pending
    /\ faults < MaxFaults /\ faults' = faults + 1
    /\ Capture(Answered(state, {c}, "unknown_scene", NoRun), {<<"result", c>>}, <<"deliver">>)
    /\ UNCHANGED asked

\* The command is recorded; the bus is written once the record is on disk.
Accept(c) ==
    /\ c \notin DOMAIN state.results \cup DOMAIN state.pending
    /\ Capture([state EXCEPT !.pending = Put(@, c, ran)], {}, <<"write", c>>)
    /\ asked' = IF c \in DOMAIN asked THEN asked ELSE Put(asked, c, ran)
    /\ UNCHANGED faults

\* _async_command: a message is dropped while the state is untrusted, or when
\* its command is pending.
Deliver(c) ==
    /\ phase = "up" /\ trusted /\ messages < MaxMessages
    /\ messages' = messages + 1
    /\ Replay(c) \/ Refuse(c) \/ Accept(c)
    /\ UNCHANGED <<phase, trusted, seeded, timed, writing, courier, disk, ran, floor, writes,
                   heard, answers, restarts>>

\* _async_settle_pending
Settle(c, outcome) ==
    /\ phase = "up" /\ c \in DOMAIN state.pending
    /\ Capture(Answered(state, {c}, outcome, NoRun), {<<"result", c>>}, <<"deliver">>)
    /\ timed' = timed \ {c} /\ writing' = writing \ {c}
    /\ UNCHANGED <<phase, trusted, seeded, courier, disk, ran, floor, asked, writes, heard,
                   answers, messages, restarts>>

\* Nothing confirmed the command in fifteen seconds.
Timeout(c) == c \in timed /\ Settle(c, "timeout") /\ UNCHANGED faults

\* The write of the bus raised; the scene may run all the same.
WriteFails(c) ==
    /\ c \in writing /\ faults < MaxFaults /\ faults' = faults + 1
    /\ Settle(c, "write_failed")

-----------------------------------------------------------------------------
(* The writer of snapshots, and the tasks that wait for it *)

\* _schedule_delivery
Scheduled == IF phase = "up" /\ courier = <<"idle">> THEN <<"looking">> ELSE courier

\* _async_persist_state returns TRUE.
Persisted(q) ==
    /\ durable' = durable \cup q.holds
    /\ trusted' = TRUE /\ seeded' = FALSE
    /\ UNCHANGED state
    /\ \/ /\ q.waiter[1] = "write" /\ q.waiter[2] \in DOMAIN state.pending
          /\ LET c == q.waiter[2]
             IN /\ timed' = timed \cup {c} /\ writing' = writing \cup {c}
                /\ writes' = [writes EXCEPT ![c] = @ + 1]
          /\ UNCHANGED courier
       \/ /\ q.waiter[1] = "write" /\ q.waiter[2] \notin DOMAIN state.pending
          /\ UNCHANGED <<timed, writing, writes, courier>>
       \/ /\ q.waiter = <<"deliver">>
          /\ courier' = Scheduled /\ UNCHANGED <<timed, writing, writes>>
       \/ /\ q.waiter = <<"loop">>
          /\ courier' = <<"looking">> /\ UNCHANGED <<timed, writing, writes>>

\* Faulty variant: the bus is written although the record is not on disk.
NotPersistedWritten(q) ==
    /\ trusted' = FALSE
    /\ courier' = IF q.waiter = <<"loop">> THEN <<"idle">> ELSE courier
    /\ IF q.waiter[1] = "write"
       THEN /\ timed' = timed \cup {q.waiter[2]} /\ writing' = writing \cup {q.waiter[2]}
            /\ writes' = [writes EXCEPT ![q.waiter[2]] = @ + 1]
       ELSE UNCHANGED <<timed, writing, writes>>
    /\ UNCHANGED <<state, seeded, durable>>

\* It returns FALSE: a command that is not on disk is forgotten, unwritten.
NotPersisted(q) ==
    /\ trusted' = FALSE
    /\ state' = IF q.waiter[1] = "write"
                THEN [state EXCEPT !.pending = Without(@, {q.waiter[2]})] ELSE state
    /\ courier' = IF q.waiter = <<"loop">> THEN <<"idle">> ELSE courier
    /\ UNCHANGED <<seeded, durable, timed, writing, writes>>

\* The next snapshot is written, and the task of this session goes on.
Written ==
    /\ queue # <<>> /\ queue' = Tail(queue)
    /\ disk' = Head(queue).doc
    /\ IF Head(queue).waiter = <<"nobody">>
       THEN UNCHANGED <<memory, writes>>
       ELSE Persisted(Head(queue))
    /\ UNCHANGED <<phase, ran, floor, asked, heard, answers, messages, restarts, faults>>

\* It is not, or the file is replaced and its synchronisation fails.
WriterFails ==
    /\ queue # <<>> /\ queue' = Tail(queue)
    /\ faults < MaxFaults /\ faults' = faults + 1
    /\ disk' \in {disk, Head(queue).doc}
    /\ IF Head(queue).waiter = <<"nobody">>
       THEN UNCHANGED <<memory, writes>>
       ELSE NotPersisted(Head(queue))
    /\ UNCHANGED <<phase, ran, floor, asked, heard, answers, messages, restarts>>

-----------------------------------------------------------------------------
(* The delivery loop *)

\* Faulty variant: whatever is in memory is published.
ReadyInMemory ==
    LET due == {e \in DOMAIN state.events : ~state.events[e]}
    IN IF due # {}
       THEN {<<"event", CHOOSE e \in due : \A f \in due : e <= f>>}
       ELSE {<<"result", c>> : c \in {d \in DOMAIN state.results : ~state.results[d].delivered}}

\* _next_delivery: events first, and a result only after its event.
Ready ==
    LET due == {e \in DOMAIN state.events : ~state.events[e] /\ <<"event", e>> \in durable}
    IN IF due # {}
       THEN {<<"event", CHOOSE e \in due : \A f \in due : e <= f>>}
       ELSE {<<"result", c>> : c \in
               {d \in DOMAIN state.results :
                   /\ ~state.results[d].delivered
                   /\ <<"result", d>> \in durable
                   /\ LET e == state.results[d].event
                      IN e # NoRun => e \in DOMAIN state.events /\ state.events[e]}}

PickItem ==
    /\ courier = <<"looking">>
    /\ IF Ready = {} THEN courier' = <<"idle">> ELSE courier' \in Ready
    /\ UNCHANGED <<phase, state, trusted, seeded, durable, timed, writing, queue, disk, world,
                   floor, restarts, faults>>

\* The broker received what is being published.
Received ==
    IF courier[1] = "event"
    THEN heard' = heard \cup {courier[2]} /\ UNCHANGED answers
    ELSE /\ answers' = [answers EXCEPT ![courier[2]] = @ \cup {state.results[courier[2]].outcome}]
         /\ UNCHANGED heard

\* The broker acknowledged: the item is delivered once that is on disk.
Publish ==
    /\ courier \in Items
    /\ Received
    /\ Capture(Pruned(IF courier[1] = "event"
                      THEN [state EXCEPT !.events[courier[2]] = TRUE]
                      ELSE [state EXCEPT !.results[courier[2]].delivered = TRUE]),
               {}, <<"loop">>)
    /\ courier' = <<"saving">>
    /\ UNCHANGED <<phase, trusted, seeded, timed, writing, disk, ran, floor, asked, writes,
                   messages, restarts, faults>>

\* The publication raises, whether or not the broker received it.
PublishFails ==
    /\ courier \in Items
    /\ faults < MaxFaults /\ faults' = faults + 1
    /\ Received \/ UNCHANGED <<heard, answers>>
    /\ courier' = <<"looking">>
    /\ UNCHANGED <<phase, state, trusted, seeded, durable, timed, writing, queue, disk, ran,
                   floor, asked, writes, messages, restarts>>

-----------------------------------------------------------------------------
(* Sessions *)

\* _async_load_state: behind the snapshots an earlier bridge left to the writer.
Load ==
    /\ phase = "down" /\ queue = <<>>
    /\ phase' = "loaded"
    /\ state' = Pruned(disk) /\ durable' = HeldIn(Pruned(disk))
    /\ UNCHANGED <<trusted, seeded, timed, writing, courier, queue, disk, world, floor,
                   restarts, faults>>

\* _async_reconcile_work at the start: what ran before is no news.
ReadHistory ==
    /\ phase = "loaded"
    /\ phase' = "starting" /\ floor' = ran
    /\ Process(ran, FALSE)
    /\ UNCHANGED <<trusted, courier, disk, world, restarts, faults>>

\* Faulty variant: restored commands have no deadline.
UpWithoutDeadlines ==
    /\ phase = "starting" /\ queue = <<>>
    /\ phase' = "up"
    /\ timed' = {}
    /\ courier' = <<"looking">>
    /\ UNCHANGED <<state, trusted, seeded, durable, writing, queue, disk, world, floor,
                   restarts, faults>>

\* Commands are taken, restored ones get their deadline again.
Up ==
    /\ phase = "starting" /\ queue = <<>>
    /\ phase' = "up"
    /\ timed' = DOMAIN state.pending
    /\ courier' = <<"looking">>
    /\ UNCHANGED <<state, trusted, seeded, durable, writing, queue, disk, world, floor,
                   restarts, faults>>

\* async_shutdown: snapshots that were queued are written all the same.
SessionEnds ==
    /\ phase # "down" /\ restarts < MaxRestarts
    /\ restarts' = restarts + 1
    /\ Forgotten
    /\ queue' = [i \in DOMAIN queue |-> [queue[i] EXCEPT !.waiter = <<"nobody">>]]
    /\ UNCHANGED <<disk, world, floor, faults>>

\* The process ends, and what was queued with it.
Crash ==
    /\ phase # "down" /\ restarts < MaxRestarts
    /\ restarts' = restarts + 1
    /\ Forgotten
    /\ queue' = <<>>
    /\ UNCHANGED <<disk, world, floor, faults>>

-----------------------------------------------------------------------------
Commanded == \E c \in Commands : Deliver(c) \/ Timeout(c) \/ WriteFails(c)
Next ==
    \/ Run \/ \E e \in 0 .. MaxRuns : See(e)
    \/ Commanded
    \/ Written \/ WriterFails
    \/ PickItem \/ Publish \/ PublishFails
    \/ Load \/ ReadHistory \/ Up \/ SessionEnds \/ Crash

\* The executor runs what is queued, timers expire, the broker acknowledges, and
\* a session that ended is followed by another.
Progress == Written \/ PickItem \/ Publish \/ Load \/ ReadHistory \/ Up
Fairness == WF_vars(Progress) /\ \A c \in Commands : WF_vars(Timeout(c))
Spec == Init /\ [][Next]_vars /\ Fairness

-----------------------------------------------------------------------------
(* Properties *)

\* The bus is written at most once for a command, whatever is delivered twice
\* and whenever the process ends, since the file remembers the command.
WritesOnce ==
    \A c \in Commands : writes[c] > 0 =>
        writes[c] = 1 /\ c \in DOMAIN disk.pending \cup DOMAIN disk.results

\* The broker never receives two outcomes for one command.
AnswersAgree == \A c \in Commands : \A o, p \in answers[c] : o = p

\* A command is reported as accepted only after the broker received the event of
\* an execution later than the request.
AcceptedIsProven ==
    \A c \in Commands : "accepted" \in answers[c] =>
        c \in DOMAIN asked /\ \E e \in heard : e > asked[c]

\* If storage works in the end, a command that was written to the bus is answered and
\* an event that is on disk is published, whatever failed or was restarted between.
OutboxDrains ==
    <>[]trusted =>
        /\ \A c \in Commands : writes[c] > 0 ~> answers[c] # {}
        /\ \A e \in Runs : (e \in DOMAIN disk.events /\ ~disk.events[e]) ~> e \in heard
=============================================================================
