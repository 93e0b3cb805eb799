---------------------------- MODULE RetainedLedger ----------------------------
(***************************************************************************)
(* The durable ledger of the retained topics a panel owns                  *)
(* (RetainedTopicLedger, src/brilliant_mqtt/retained_topics.py).           *)
(*                                                                         *)
(* Publishing a new topic first records it in a file, then in the          *)
(* ownership manifest on the broker, then publishes its value; clearing it *)
(* goes the other way round.  Calls are serialized by a lock, except that  *)
(* values of topics already owned go past a claim that waits for the disk. *)
(* The MQTT client puts messages on one connection in the order of the     *)
(* calls; what is on it when the session or the process ends is lost.      *)
(***************************************************************************)
EXTENDS Naturals, Sequences, FiniteSets

CONSTANTS
  Callers,    \* tasks that publish or clear
  Topics,     \* topics of this panel
  Kinds,      \* "publish" and "clear": calls the environment makes
  MaxCalls,   \* bound on calls
  MaxEnds,    \* bound on crashes and ends of sessions
  None        \* nobody

ASSUME ConstantsAssumption ==
  /\ Kinds \subseteq {"publish", "clear"}
  /\ MaxCalls \in Nat /\ MaxEnds \in Nat /\ None \notin Callers

VARIABLES
  file,        \* topics in the ledger file
  write,       \* topics of the write under way, see NoWrite
  unsynced,    \* history: topics dropped from the file by a write that failed, because
               \* the directory did not sync, until file and manifest name them again
  stalled,     \* that write outlived PERSIST_DEADLINE_S
  staleDisk,   \* disk_stale: the file may not match topics
  topics,      \* topics of the path state
  loaded,      \* the ledger was loaded
  manifestAck, \* _manifest_acknowledged
  ackTopics,   \* _acknowledged_topics
  lock,        \* holder of the path lock
  pc,          \* what each caller does, see Awaits
  job,         \* the call of each caller
  doomed,      \* callers cancelled while they wait for the disk
  calls,       \* calls so far, numbers them
  ends,        \* crashes and ends of sessions so far
  wire,        \* messages under way to the broker
  value,       \* retained value of each topic: the call it came from, or 0
  newest,      \* history: the last publish of each topic that reached the broker
  manifest     \* retained ownership manifest

memVars == <<topics, loaded, manifestAck, ackTopics>>
diskVars == <<file, unsynced, write, stalled, staleDisk>>
brokerVars == <<value, newest, manifest>>
vars == <<diskVars, memVars, lock, pc, job, doomed, calls, ends, wire, brokerVars>>

NoWrite == {None}    \* no set of topics
NoJob == [kind |-> "none", topic |-> None, number |-> 0]

\* claim and shrink: the file is written; the others await a publication, but
\* drain awaits the fast publications of the topic to clear.
OnDisk == {"claim", "shrink"}
OnWire == {"fast", "owning", "value", "tombstone", "smaller"}
Awaits == OnDisk \cup OnWire \cup {"idle", "queued", "drain"}

Message(c, kind, topic, owned) ==
  [from |-> c, kind |-> kind, topic |-> topic, number |-> job[c].number, owned |-> owned]
Send(m) == wire' = Append(wire, m)
Landed(c) == \A i \in DOMAIN wire : wire[i].from # c
SendValue(c) == Send(Message(c, "value", job[c].topic, {}))
SendManifest(c, S) == Send(Message(c, "manifest", None, S))

Goes(c, where) == pc' = [pc EXCEPT ![c] = where]
\* The call of c ends, well or not: a lock it held is released.
Returns(c) ==
  /\ pc' = [pc EXCEPT ![c] = "idle"]
  /\ job' = [job EXCEPT ![c] = NoJob]
  /\ lock' = IF lock = c THEN None ELSE lock
  /\ doomed' = doomed \ {c}

-----------------------------------------------------------------------------
\* Calls.

\* A claim holds the lock only to wait for the disk.
ClaimPending == \E c \in Callers : lock = c /\ pc[c] = "claim"
QueuedFor(t) == \E c \in Callers :
                  /\ pc[c] = "queued" \/ lock = c
                  /\ job[c].kind = "publish" /\ job[c].topic = t

\* The lock-free path of _async_publish.
MayGoPast(t) ==
  /\ ClaimPending /\ ~staleDisk
  /\ t \in topics /\ t \in ackTopics /\ ~QueuedFor(t)

Call(c, kind, t) ==
  /\ pc[c] = "idle" /\ calls < MaxCalls
  /\ calls' = calls + 1
  /\ job' = [job EXCEPT ![c] = [kind |-> kind, topic |-> t, number |-> calls']]

PublishPast(c, t) ==
  /\ MayGoPast(t) /\ loaded
  /\ Call(c, "publish", t)
  /\ Goes(c, "fast")
  /\ Send([from |-> c, kind |-> "value", topic |-> t, number |-> calls', owned |-> {}])
  /\ UNCHANGED <<diskVars, memVars, lock, doomed, ends, brokerVars>>

Enqueue(c, kind, t) ==
  /\ kind = "publish" => ~MayGoPast(t)
  /\ Call(c, kind, t)
  /\ Goes(c, "queued")
  /\ UNCHANGED <<diskVars, memVars, lock, doomed, ends, wire, brokerVars>>

\* The caller is cancelled while it waits for the lock.
Abandon(c) ==
  /\ pc[c] = "queued"
  /\ Returns(c)
  /\ UNCHANGED <<diskVars, memVars, calls, ends, wire, brokerVars>>

\* Faulty variant: whoever waits may have the lock next.
NextAny(c) == pc[c] = "queued" /\ lock = None

\* The lock is first come, first served.
Next1st(c) ==
  /\ pc[c] = "queued" /\ lock = None
  /\ \A d \in Callers : pc[d] = "queued" => job[c].number <= job[d].number

\* The file must be written: the topic is new, or the file may be stale.
NeedsClaim(c) == job[c].topic \notin topics \/ staleDisk

\* The lock is acquired, and the call is refused.
Refuse(c) ==
  /\ Next1st(c)
  /\ \/ ~loaded /\ UNCHANGED <<manifestAck>>
     \/ /\ loaded /\ job[c].kind = "clear" /\ job[c].topic \notin topics
        /\ UNCHANGED <<manifestAck>>
     \/ /\ loaded /\ job[c].kind = "publish" /\ NeedsClaim(c) /\ stalled
        /\ manifestAck' = FALSE
  /\ Returns(c)
  /\ UNCHANGED <<diskVars, topics, loaded, ackTopics, calls, ends, wire, brokerVars>>

Take(c, where) ==
  /\ Next1st(c) /\ loaded
  /\ lock' = c
  /\ Goes(c, where)
  /\ UNCHANGED <<job, doomed, calls, ends, brokerVars>>

\* _async_publish_locked, up to its first await.
Claim(c) ==
  /\ job[c].kind = "publish" /\ NeedsClaim(c) /\ ~stalled
  /\ Take(c, "claim")
  /\ write' = topics \cup {job[c].topic}
  /\ manifestAck' = FALSE
  /\ UNCHANGED <<file, unsynced, stalled, staleDisk, topics, loaded, ackTopics, wire>>

Own(c) ==
  /\ job[c].kind = "publish" /\ ~NeedsClaim(c) /\ ~manifestAck
  /\ Take(c, "owning")
  /\ SendManifest(c, topics)
  /\ UNCHANGED <<diskVars, memVars>>

\* Faulty variant: a topic in the file is taken to be in the manifest.
PublishRecorded(c) ==
  /\ job[c].kind = "publish" /\ ~NeedsClaim(c)
  /\ Take(c, "value")
  /\ SendValue(c)
  /\ UNCHANGED <<diskVars, memVars>>

Publish(c) ==
  /\ job[c].kind = "publish" /\ ~NeedsClaim(c) /\ manifestAck
  /\ Take(c, "value")
  /\ SendValue(c)
  /\ UNCHANGED <<diskVars, memVars>>

\* The manifest is acknowledged: the value follows.
Owned(c) ==
  /\ pc[c] = "owning" /\ Landed(c)
  /\ manifestAck' = TRUE
  /\ ackTopics' = topics
  /\ Goes(c, "value")
  /\ SendValue(c)
  /\ UNCHANGED <<diskVars, topics, loaded, lock, job, doomed, calls, ends, brokerVars>>

\* A value (QoS 0) is published when it is handed to the connection.
Published(c) ==
  /\ pc[c] \in {"fast", "value"}
  /\ Returns(c)
  /\ UNCHANGED <<diskVars, memVars, calls, ends, wire, brokerVars>>

\* The publication fails, times out (its message may still land) or is cancelled.
PublicationFails(c) ==
  /\ pc[c] \in OnWire
  /\ Returns(c)
  /\ UNCHANGED <<diskVars, memVars, calls, ends, wire, brokerVars>>

-----------------------------------------------------------------------------
\* _async_clear_locked; clear_all repeats it under one lock.

BeginClear(c) ==
  /\ job[c].kind = "clear" /\ job[c].topic \in topics
  /\ Take(c, "drain")
  /\ ackTopics' = ackTopics \ {job[c].topic}
  /\ UNCHANGED <<diskVars, topics, loaded, manifestAck, wire>>

\* Faulty variant: it also waits for calls that wait for its lock.
DrainedOfQueued(c) ==
  /\ pc[c] = "drain"
  /\ \A d \in Callers : pc[d] \in {"fast", "queued"} => job[d].topic # job[c].topic
  /\ Goes(c, "tombstone")
  /\ Send(Message(c, "tombstone", job[c].topic, {}))
  /\ UNCHANGED <<diskVars, memVars, lock, job, doomed, calls, ends, brokerVars>>

\* No value of the topic is under way past the lock: its tombstone follows.
Drained(c) ==
  /\ pc[c] = "drain"
  /\ \A d \in Callers : ~(pc[d] = "fast" /\ job[d].topic = job[c].topic)
  /\ Goes(c, "tombstone")
  /\ Send(Message(c, "tombstone", job[c].topic, {}))
  /\ UNCHANGED <<diskVars, memVars, lock, job, doomed, calls, ends, brokerVars>>

\* Cancelled while it waits for them.
DrainCancelled(c) ==
  /\ pc[c] = "drain"
  /\ Returns(c)
  /\ UNCHANGED <<diskVars, memVars, calls, ends, wire, brokerVars>>

\* The tombstone is acknowledged: the topic leaves the file.
Buried(c) ==
  /\ pc[c] = "tombstone" /\ Landed(c)
  /\ manifestAck' = FALSE
  /\ IF stalled
     THEN Returns(c) /\ UNCHANGED write
     ELSE /\ Goes(c, "shrink") /\ write' = topics \ {job[c].topic}
          /\ UNCHANGED <<lock, job, doomed>>
  /\ UNCHANGED <<file, unsynced, stalled, staleDisk, topics, loaded, ackTopics, calls,
                 ends, wire, brokerVars>>

\* The smaller manifest is acknowledged.
Disowned(c) ==
  /\ pc[c] = "smaller" /\ Landed(c)
  /\ manifestAck' = TRUE
  /\ Returns(c)
  /\ UNCHANGED <<diskVars, topics, loaded, ackTopics, calls, ends, wire, brokerVars>>

-----------------------------------------------------------------------------
\* The disk.

\* _write_payload replaces the file, and fails if the directory does not sync.
FileAfterError(c) == {file, write}

\* What a caller does when its write is in the file.
Persisted(c) ==
  /\ topics' = write
  /\ staleDisk' = FALSE
  /\ IF c \in doomed
     THEN Returns(c) /\ UNCHANGED wire
     ELSE /\ Goes(c, IF pc[c] = "claim" THEN "owning" ELSE "smaller")
          /\ SendManifest(c, write)
          /\ UNCHANGED <<job, lock, doomed>>

\* The write ends while its caller waits for it, which goes on or fails.
WriteLands(c) ==
  /\ pc[c] \in OnDisk
  /\ file' = write /\ write' = NoWrite
  /\ Persisted(c)
  /\ UNCHANGED <<unsynced, stalled, loaded, manifestAck, ackTopics, calls, ends, brokerVars>>

\* Disk full, or the directory does not sync.
WriteFails(c) ==
  /\ pc[c] \in OnDisk
  /\ file' \in FileAfterError(c) /\ write' = NoWrite
  /\ unsynced' = unsynced \cup (file \ file')
  /\ Returns(c)
  /\ UNCHANGED <<stalled, staleDisk, memVars, calls, ends, wire, brokerVars>>

\* Task.cancel() is deferred until the write settles.
CancelWriter(c) ==
  /\ pc[c] \in OnDisk
  /\ doomed' = doomed \cup {c}
  /\ UNCHANGED <<diskVars, memVars, lock, pc, job, calls, ends, wire, brokerVars>>

\* The write outlives PERSIST_DEADLINE_S: its caller fails, it goes on.
Stall(c) ==
  /\ pc[c] \in OnDisk
  /\ stalled' = TRUE /\ staleDisk' = TRUE
  /\ Returns(c)
  /\ UNCHANGED <<file, unsynced, write, memVars, calls, ends, wire, brokerVars>>

\* The stalled write ends in its thread, in the file or not.
LateWrite ==
  /\ stalled
  /\ file' \in {write, file}
  /\ write' = NoWrite /\ stalled' = FALSE
  /\ UNCHANGED <<unsynced, staleDisk, memVars, lock, pc, job, doomed, calls, ends,
                 wire, brokerVars>>

-----------------------------------------------------------------------------
\* The broker takes the next message of the connection.
Land ==
  /\ wire # <<>>
  /\ wire' = Tail(wire)
  /\ LET m == Head(wire) IN
       /\ value' = IF m.kind = "manifest" THEN value
                   ELSE [value EXCEPT ![m.topic] =
                           IF m.kind = "value" THEN m.number ELSE 0]
       /\ newest' = IF m.kind = "value"
                    THEN [newest EXCEPT ![m.topic] = m.number] ELSE newest
       /\ manifest' = IF m.kind = "manifest" THEN m.owned ELSE manifest
       /\ unsynced' = IF m.kind = "manifest" THEN unsynced \ (file \cap m.owned) ELSE unsynced
  /\ UNCHANGED <<file, write, stalled, staleDisk, memVars, lock, pc, job, doomed,
                 calls, ends>>

\* A new session: the connection and every call end, but a caller that waits
\* for the disk keeps the lock until its write settles.
Reconnect ==
  /\ loaded /\ ends < MaxEnds
  /\ ends' = ends + 1
  /\ wire' = <<>>
  /\ pc' = [c \in Callers |-> IF pc[c] \in OnDisk THEN pc[c] ELSE "idle"]
  /\ job' = [c \in Callers |-> IF pc[c] \in OnDisk THEN job[c] ELSE NoJob]
  /\ lock' = IF lock # None /\ pc[lock] \in OnDisk THEN lock ELSE None
  /\ doomed' = {c \in Callers : pc[c] \in OnDisk}
  /\ loaded' = FALSE /\ manifestAck' = FALSE /\ ackTopics' = {}
  /\ UNCHANGED <<diskVars, topics, calls, brokerVars>>

\* async_load of the new session's ledger; it is tried again when it fails.
Load ==
  /\ ~loaded /\ lock = None
  /\ IF stalled
     THEN topics' = {} /\ UNCHANGED <<loaded, staleDisk>>
     ELSE topics' = file /\ loaded' = TRUE /\ staleDisk' = FALSE
  /\ UNCHANGED <<file, unsynced, write, stalled, manifestAck, ackTopics, lock, pc, job,
                 doomed, calls, ends, wire, brokerVars>>

\* The process ends; a write that has not replaced the file is lost.
Crash ==
  /\ ends < MaxEnds
  /\ ends' = ends + 1
  /\ write' = NoWrite /\ stalled' = FALSE /\ staleDisk' = FALSE
  /\ topics' = {} /\ loaded' = FALSE /\ manifestAck' = FALSE /\ ackTopics' = {}
  /\ lock' = None /\ doomed' = {} /\ wire' = <<>>
  /\ pc' = [c \in Callers |-> "idle"]
  /\ job' = [c \in Callers |-> NoJob]
  /\ UNCHANGED <<file, unsynced, calls, brokerVars>>

-----------------------------------------------------------------------------
Init ==
  /\ file = {} /\ unsynced = {} /\ write = NoWrite /\ stalled = FALSE /\ staleDisk = FALSE
  /\ topics = {} /\ loaded = FALSE /\ manifestAck = FALSE /\ ackTopics = {}
  /\ lock = None /\ doomed = {}
  /\ pc = [c \in Callers |-> "idle"]
  /\ job = [c \in Callers |-> NoJob]
  /\ calls = 0 /\ ends = 0 /\ wire = <<>>
  /\ value = [t \in Topics |-> 0] /\ newest = [t \in Topics |-> 0]
  /\ manifest = {}

\* The steps of a call that has begun.
Proceed(c) ==
  \/ Refuse(c) \/ Claim(c) \/ Own(c) \/ Publish(c) \/ Owned(c) \/ Published(c)
  \/ BeginClear(c) \/ Drained(c) \/ Buried(c) \/ Disowned(c)

Next ==
  \/ \E c \in Callers :
       \/ \E t \in Topics : \/ PublishPast(c, t)
                            \/ \E kind \in Kinds : Enqueue(c, kind, t)
       \/ Proceed(c) \/ Abandon(c) \/ PublicationFails(c) \/ DrainCancelled(c)
       \/ WriteLands(c) \/ WriteFails(c) \/ CancelWriter(c) \/ Stall(c)
  \/ LateWrite \/ Land \/ Reconnect \/ Load \/ Crash

Spec == Init /\ [][Next]_vars

\* The loop runs what is ready; a publication that is not acknowledged and a
\* write that does not end run into their deadlines; the disk may hang for ever.
FairSpec ==
  /\ Spec
  /\ \A c \in Callers :
       WF_vars(Proceed(c)) /\ WF_vars(PublicationFails(c)) /\ WF_vars(Stall(c))

-----------------------------------------------------------------------------
\* Type invariant.
TypeOK ==
  /\ file \subseteq Topics /\ unsynced \subseteq Topics /\ topics \subseteq Topics
  /\ ackTopics \subseteq Topics /\ manifest \subseteq Topics
  /\ write = NoWrite \/ write \subseteq Topics
  /\ {stalled, staleDisk, loaded, manifestAck} \subseteq BOOLEAN
  /\ lock \in Callers \cup {None}
  /\ doomed \subseteq Callers
  /\ pc \in [Callers -> Awaits]
  /\ value \in [Topics -> Nat] /\ newest \in [Topics -> Nat]

\* A value retained on the broker is recorded in the file and in the manifest:
\* a crash at any point leaves nothing that a later clean-up cannot find.  Excepted
\* are unsynced topics: memory keeps them unmarked after a clear that failed, and the
\* next publish of one retains a value that the file does not record.
RetainedIsOwned ==
  \A t \in Topics \ unsynced : value[t] # 0 => t \in file /\ t \in manifest

\* The values of a topic reach the broker in the order of their calls, past a
\* claim or not.
PublishedInOrder == [][\A t \in Topics : newest'[t] >= newest[t]]_vars

\* Every call returns, even when the disk hangs.
CallsReturn == \A c \in Callers : pc[c] # "idle" ~> pc[c] = "idle"
=============================================================================
