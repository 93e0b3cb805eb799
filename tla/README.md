# A TLA+ model of brilliant-mqtt

brilliant-mqtt runs an agent on every Brilliant wall panel. The agent reads the
panel's message bus (a closed-source Thrift RPC library) and mirrors loads,
sensors and scenes to Home Assistant over MQTT, and carries commands back. This
directory holds TLA+ modules of the parts of it whose behaviour depends on
interleavings, timeouts, cancellations and crashes, TLC configurations that check
them on small instances, and TLAPS proofs for every instance.

Paths below are relative to the repository; `agent/` stands for
`src/brilliant_mqtt/`, `ha/` for `custom_components/brilliant_mqtt/`. Line numbers
are in `PROJECT.json` ("map"), definition by definition.

Run a configuration with `tlc -workers 2 -config <X>.cfg <M>.tla` (`PROJECT.json`, "runs",
names the pairs), the proofs with `tlapm <M>.tla` for `WriteAdmission_proofs`,
`RetainedLedger_proofs`, `WiredFeedback_proofs`, `Commands_proofs`, `Agents_proofs`, `Watchdogs_proofs`,
`SceneBridge_proofs` and `HomeAssistant_proofs`.

## 1. The system

### One process per panel: the agent

An asyncio process. One event loop, so code between two `await`s is atomic;
everything interesting happens at `await`s, in done-callbacks and in timers.
Blocking calls (file writes) run in threads.

| Component | Code | State it keeps | Operations | Talks to |
|---|---|---|---|---|
| Session supervisor | `agent/__main__.py` | one session's adapter, bridge, ledger; fault latches; back-off | `run`, `_run_session`, tick loop, teardown | everything below |
| MQTT adapter and command lanes | `agent/mqttio.py` | bounded transport queue, a lane per peripheral with worker, restart and close tasks | message received, dispatch, coalesce, publish, connect, disconnect | broker, bridge handlers |
| Bus adapter, writes | `agent/bus.py` 1090-1488, `agent/write_admission.py` | per-device queue, serving slot and lock; tickets; session number; time-out latch | `set_variables`, `try_supersede`, `cancel_waiting`, hard cap, `shutdown`, `start` | bus library, supervisor |
| Bus adapter, observations | `agent/bus.py` 577-1077, 1532-1595 | latest raw device per id, push drains, field eras, reconnect tasks | push, poll, reconnect, start, close | bus library, bridge |
| Bridge: wired feedback | `agent/wired_feedback.py`, `agent/bridge.py` 300-400, 868-1015, 1092-1240 | one record per wired load: native value, attempt, provisional projection, debt | capture, begin, issue, outcome, expire, publish | bus, MQTT |
| Bridge: mesh confirmation | `agent/bridge.py` 803-866, 990-1045, 1326-1579 | per mesh load: command generation, pending value, feedback record, confirm task, diff caches | command, observe, confirm after 80 s, revoke | bus, MQTT |
| Desired state | `agent/desired_state.py`, `agent/bridge.py` 672-800 | last commanded configuration value, in memory and on disk | record, load, enforce at reconcile | disk, bus |
| Mesh leader election | `agent/mesh_leader.py` | leader flag, pending since, last beat, one remembered claim | start, message, tick | broker (retained topic) |
| Retained ownership ledger | `agent/retained_topics.py` | owned topics in memory, in a file and in a retained manifest | load, publish, clear | disk, broker |
| Scene bridge | `agent/scene_bridge.py`, `agent/scene_state.py` | catalog, command watermark, executed ids, latest execution | commands, execution events, publish | bus, MQTT, disk |
| Heartbeat | `agent/heartbeat.py` | phase file with a lease | write, revoke | bus watchdog |
| Translation | `agent/mapping.py`, `discovery.py`, `commands.py` ... | none | pure functions | |

### Other programs on a panel

The bus watchdog (`src/brilliant_bus_watchdog`) reboots a panel whose bus is dead,
bounded by a persistent reboot guard; the Wi-Fi watchdog (`src/brilliant_wifi_watchdog`)
climbs a ladder of recoveries under a guard of its own; the Hue CA reconciler
(`src/brilliant_hue_ca`), the Home Assistant mirror (`src/brilliant_ha_mirror`) and the
voice satellite (`src/brilliant_voice`) are optional.

### In Home Assistant

`ha/manager.py` watches one panel (offline, grace, auto-repair, escalation),
`ha/fleet_manager.py` with `ha/panel_provisioner.py` and `ha/provisioning_journal.py`
installs and rolls back releases durably, `ha/scene_control.py` sends scene commands
and matches results, `ha/ha_control.py` answers the panels' requests. The agent's
packages are also shipped inside the integration as a byte copy.

### How they interact

    Home Assistant --MQTT--> transport queue --reader--> lane --worker--> bridge
        bridge --set_variables--> admission queue --lock--> bus RPC
        bus pushes, polls --> bridge --publish--> ledger --> broker --> Home Assistant
    panels <--retained brilliant/mesh/leader--> panels
    agent --phase file--> bus watchdog --> reboot

### What is hard, and what must be true of it

* **Election.** No shared clock, claims that are delayed and retained after their
  author's death, one slot for the claims of all others. *Two leaders only briefly once each is heard,
  no leader only for a bounded time, the best panel in the end.*
* **Writes.** A caller may be cancelled at any `await`, also between the moment
  its write gets the lock and the moment it runs; an RPC may outlive its caller
  and its session; a payload is replaced while its ticket waits. *One native write
  per device, in order, the last payload, never a withdrawn one; every caller
  answered.*
* **Lanes.** Commands are merged in three places, by three different rules, around
  barriers; workers die, are restarted, closed and reopened. *No field of a command
  is lost, none goes backwards, the reader never stops.*
* **Ledger.** File, memory, manifest and value are four places written one after
  the other; a write may stall, fail or land late; a publication may go past a
  claim that waits for the disk. *Nothing is retained that the file and the manifest
  do not name.*
* **Feedback.** Optimistic state is shown before the panel confirms, under deadlines,
  against observations from older eras. *Published state is never a revoked
  command's, and every provisional state is resolved.*
* **Sessions.** Start, faults, ticks and teardown interleave with late callbacks
  and with closes of the bus library that raise or never return. *No two peers of the bus unless a close raised, no
  push and no reconnection forgotten, and a session that serves in the end.*
* **Watchdogs.** Evidence is two files whose every write may fail, read under clocks that are
  set and processes that die; the guard of the reboots is a file, too. *No reboot for a bus
  that was read, bounded reboots, and a dead bus or network is recovered for all that.*
* **Scenes.** A command is delivered twice, its effect is seen late, and the process ends between
  any two writes. *One write of the bus, one answer, and one that is true.*
* **Panels in Home Assistant.** Grace, recovery and retry timers, SSH jobs, operators and
  broker outages overlap. *An offline panel has a path to recovery, whichever of them ends last, and a verdict rests
  on what is the case when it is given.*
* **Provisioning.** Journal, retained baseline, panel and configuration entry are four durable
  places; any step may fail with its effect or without it, and Home Assistant may end between any
  two. *What is journalled can be undone; a new release has an owner or is undone; every
  transaction is settled.*

`PROJECT.json` ("hazards") names each hazard at the line where it bites, with the
properties that cover it.

## 2. The modules and how they fit

| Component | Modules | Run | Proofs |
|---|---|---|---|
| Mesh election | `MeshLeader` | `mesh_fleet` | both safety properties |
| Bus writes | `WriteAdmission`, its promise `NativeWrites` | `admission_sessions` | refinement and safety |
| Retained ledger | `RetainedLedger` | `ledger_owned` | both safety properties |
| Command lanes | `CommandLane` | `lane_load` | the safety property |
| Mesh confirmation | `MeshConfirm` | `mesh_load` | both safety properties |
| Wired feedback | `WiredFeedback` | `wired_load` | all three safety properties |
| Sessions of the agent | `Supervisor` over `BusSession` | `session_faults` | all three safety properties |
| Evidence of a dead bus | `BusWatchdog` over `BusPhase` | `bus_evidence` | both safety properties |
| Guarded reboots | `WifiWatchdog` over `RebootGuard` | `wifi_clocks` | both safety properties |
| Scene transport | `SceneBridge` | `scene_outbox` | all three safety properties |
| Panel manager | `PanelManager` | `panel_outages` | all three safety properties |
| Provisioning | `FleetProvisioning` over `PanelProvisioner` over `ProvisioningJournal` | `provision_crashes` | all three safety properties |

Four of them are compositions: the supervisor drives the adapter's bus session, the watchdog reads
the records the agent writes, the Wi-Fi ladder asks the guard, and the fleet manager, the
provisioner and the journal share two stores. `CommandLane` uses the bus through
`NativeWrites`, which `WriteAdmission` implements; `MeshConfirm` and `WiredFeedback` rest
on the same promise for one load.

Every component has a type invariant (`TypeOK`, or a name of its own such as `BusTypeOK` or `MeshTypeOK` where two modules are
used together), which documents its variables. It is proved for all of them, and no run lists it.

What could follow: the desired state of configuration variables with its enforcement; scene control
and the control plane of Home Assistant, which would close the loop with `SceneBridge`
over an MQTT channel that duplicates and retains.

## 3. The modules in detail

### MeshLeader - `agent/mesh_leader.py`

A panel's `MeshLeader` object is `leader`, `pendingSince`, `beat`, `other`; each time stamp of the
code is kept as an age on the panel's own clock, capped where the comparisons no longer tell
values apart. `retained` and `inbox` are the broker: a claim arrives within
`Delay`. `LeaderTick` is `tick()`; each of its branches is an action of its own
(`StepDown`, `Beat`, `Yield`, `Acquire`, `Claim`, `Wait`). `Start` and `EndSession` are a
session's beginning and any end of it. `Pass` lets time go by, but
not past an overdue tick or claim: that is how the cadence of the supervisor's
loop enters. `outranked` and `vacant` are history: the first counts how long a panel leads beside a better one, and
starts again when the fleet changes and when a worse claim overwrites a better one in the panel's slot (`Hides`).

* `mesh_fleet`: three panels, heartbeat 2, ticks 1 apart, at most one end of a session. Two
  leaders are possible, but a worse leader whose slot keeps the better claims steps down within a heartbeat,
  two ticks and a delay (`DualLeadershipIsBrief`); a vacancy is bounded by four heartbeats,
  two ticks and a delay (`VacancyIsBounded`), counted from the last panel that started or ended:
  three until a claim is stale, one more in the pending state. `docs/CONFIGURATION.md:359` has
  "~30 s" for the window, which is the first three of them. When panels stop
  changing, the best one leads (`BestLeads`, with weak fairness of ticks, deliveries
  and time: the loop ticks, the broker delivers).

Three panels are the least that can overwrite a better claim with a worse one. How long that may go on has no bound of
its own: counted from the last change of the fleet alone, TLC found the time of two leaders exceeded with four panels of
priorities 1 to 4, heartbeats of two units and ticks one apart, and with three panels whose heartbeat is no longer than the gap
between ticks - each pending or leading panel of the middle publishes at the wrong moment once more. Hence `Hides`: the property
says what the code does ensure, that a better claim which is still in the slot at the next tick ends the worse leadership.

`CadenceAssumption` says that a running panel ticks before a claim goes stale. With the defaults it has 2 s against 30 s. With
the hot poll disabled the loop ticks every 30 s (`agent/__main__.py:44`), the assumption asks for a heartbeat above 10 s, and without it
TLC finds two panels that lead side by side: each hears the other's claim after its tick, and has it stale at the
next. The bound on the vacancy does not need it.

### NativeWrites and WriteAdmission - `agent/bus.py`, `agent/write_admission.py`

`NativeWrites` is the promise: a write is accepted, revised, withdrawn or run; a
device runs one at a time; writes to one peripheral start in order, at most once,
with the last payload, and not after they were withdrawn.

`WriteAdmission` is the code. A write (ticket) has the phase of its task (`phase`),
its result future (`result`), the coroutine that awaits it (`caller`), and its place in the
scheduler (`waiters`, `arrival`, `slot`, `lock`). The four are separate because the code's
difficulty is that they end at different moments: `RpcReturns` ends the RPC, `Finish` is the
done-callback one turn of the loop later, `CallerReturns` the awaiting coroutine later still.
`CancelCaller` and `CancelDelivered` are the two halves of a task cancellation:
asyncio cancels the awaited future at once and runs the `except` block later.
`Detach` is the response deadline, `Cap` the hard cap, a timer each issued write arms once (`timers`) and that may fire
at any time until the RPC ends, `Shutdown` the part of `shutdown()` before
its first await, `Open` the next `start()` of the same adapter object.
`Supersede`, `Adopt` and `LaneCancels` are the fold of a payload by the command lane. The class
of a write and the ageing of maintenance writes are in `Deferred` and `Preferred`. Waiting lists
are sets ordered by `arrival`: the code's list is only appended to and removed from, so the
position of a waiter and its time of arrival order it the same way.

* `admission_sessions`: a foldable write and a maintenance write to one peripheral, over three
  sessions, so that an RPC may outlive two. The writes keep the promise of `NativeWrites`
  (`KeepsWritePromise`, the refinement), no wake-up is lost (`NoLostWakeup`), and every caller is
  answered although an RPC may hang for ever (`CallersAnswered`). The exception is a caller who waits behind an RPC
  of an earlier session whose timer has fired (`BehindStraggler`): nothing bounds that wait on an adapter that is started
  again, see section 5.
  Fairness: the loop runs ready work, timers fire, the lane of a folded payload goes
  on, and the supervisor acts on the latch at its next tick. Nothing obliges an RPC
  to return. Two writes are one that holds the device and one that waits; two revisions are a
  fold of a fold.

`OneNativeWrite`, `WithdrawnNeverSent`, `LatestPayloadSent` and `MaintenanceOvertaking` state single parts of
this; they are proved for every instance (section 4), and the run's refinement implies the first three.

Left out: receipts and field eras (data of `WiredFeedback`), and the closing of bus objects.

### RetainedLedger - `agent/retained_topics.py`

Callers make numbered calls (`publish`, `clear`); `pc` says what each awaits: the lock
(`queued`; the lowest number is first, since the lock is first come, first served), the disk (`claim`, `shrink`), an acknowledgement (`owning`,
`value`, `fast`, `tombstone`, `smaller`) or the lock-free publications of its topic (`drain`).
`file`, `topics` (memory), `manifest` and `value` (broker) are the four places. `Claim` writes
the file, `WriteLands` commits memory and sends the manifest, `Owned` sends the
value. `Stall`, `LateWrite` and `WriteFails` are the disk's faults; `staleDisk` is the mark of
the code that the file may not match. `PublishPast` is the publication of an owned topic
past a claim that waits for the disk. `Reconnect` ends a session, whose disk waiters keep
the lock; `Crash` ends the process at any point; `Load` is the load of the next
session. `Land`: the connection hands messages to the broker in order, since aiomqtt passes them
to the client synchronously; a message under way is lost with its connection, and a
publication that failed to its caller may still land.

* `ledger_owned`: two tasks publish and clear two topics, four calls, with one crash or
  reconnection. What is retained is recorded in the file and in the manifest (`RetainedIsOwned`), the
  values of a topic arrive in the order of the calls, past a claim or not (`PublishedInOrder`), and every call
  returns, even when the disk hangs (`CallsReturn`). Fairness: ready work runs and deadlines pass;
  `LateWrite` has none. Two tasks are one that claims or clears and one that goes past it; a third
  call after the end of a session meets what the first two left.

`RetainedIsOwned` excepts the topics in `unsynced` (history): those a write that failed dropped from the file, until
file and manifest name them again, see section 5. The exception has to last that long: a topic whose clear failed may be published
again, lost from memory by a crash, dropped from the manifest by the claim of another topic, and be back in the file before it is
back in the manifest. That takes five calls and a crash, more than the run has; the proof (section 4) has no bounds.

Left out: `async_clear_all` (the same clear repeated under one lock), size limits and
validation of topics, a load that stalls, and two live ledgers of one path.

### CommandLane - `agent/mqttio.py`, `agent/bridge.py`, `agent/commands.py`

Every field of an arriving command carries its number. `inbox` is the bounded transport
queue, `held` the put of the reader that waits for room, `lane` the pending commands of one
peripheral, `active` and `stage` its worker, `hook` and `ticket` what the handler gave the lane
to fold into, `queue` and `running` the bus by its promise (at most one write waits there). `Twin`, `Mergeable` and `Put`
are the coalescing of `_coalesce_payload` and `put_nowait`; `MayFold` is
`_try_supersede` of lane and bridge; `Handle` is `_write_command` up to its first await, so that
taking a command from the lane and admitting its write is one step. `Retype` is a
push that shows another dimming range: it changes what a level means and with it
the translation of a command (`epoch`). `WorkerCancelled`, `WorkerDies`, `Restart`, `Close`,
`CoolDown` and `Reopen` are the supervision of workers.

`due` is the last value commanded for each field, or 0 when a fault lost it: a lane
that closes, a worker that ends with its write still waiting. It is what lets the
properties demand everything else.

* `lane_load`: four kinds of commands for a dimmable load, four commands, a queue of two and a
  lane of one place, two failures of the worker, one retype. In whatever queue or write they meet, writes
  reach the bus in the order of the commands and none passes a barrier (`InOrder`); at rest the last
  value of every field that was not lost with its worker has been sent, so that no field is lost and
  the reader never waits for ever (`Settles`). Fairness: reader and worker are tasks of the loop, and
  RPCs return. One that does not ends the session, which is `CallersAnswered` of `WriteAdmission`.
  The four kinds are a level, an off (a barrier to all but another off), an on with a level, and the switch
  of another topic. With four commands a fold, a coalescing in the lane and one in the queue can all
  happen to one field.

Left out: other lanes (independent but for the shared transport queue), the byte budget and
overload latch, retained and unknown messages, the drain of a closing session.

### MeshConfirm - `agent/bridge.py`

The bus accepts writes to a mesh load that the mesh may drop, and shows the accepted value
until the backend reconciles. The bridge therefore withholds the state of a load
(`pending`, `feedback`) until a fresh observation backs the command when its timer ends, or
an observation contradicts it. `SupersedeWrite`, `Settle`, `Observed`, `Confirm` and `Expire` are the
steps of one command. Around them run the tasks that publish the load: the tick loop
(`PollRead` and `Polled`, whose snapshot is read before an `await` and used after it; `Reconcile`),
the reconcile after a bus reconnection, the drain of pushes, the handler and the
timer. `at` and `dev` are where the two loops stand and what they carry; a task is busy while its
publication is in `pubs`. A publication is started, completed, revoked (cancelled, perhaps
after its bytes left) or fails; `cached` is the diff cache that suppresses
repetitions and `wire` what the broker got. `LoseElection`, `Unsubscribe` and `WithdrawEnds` are
`withdraw()`; `leader` is the election, by its outcome, and may be lost while a reconnection's
reconcile is under way. `rpcs` is the bus by its promise, with writes
that outlive the deadline of the handler (`Timeout`), and folds (`FoldCommand`, `HandleFolded`, `DropFolded`).

* `mesh_load`: a binary load; two commands, changes by hand, failed publications, reconnections or
  losses of the election in any combination, and a loss of the election after them. Every pending
  record can be closed by its timer (`PendingCanSettle`, which also shows that the early return of the timer
  is never taken); the diff cache never believes what the broker does not retain
  (`CachedIsRetained`); and in the end the published state is the state of the load (`EventuallyTrue`), which
  no older command can confirm, expire or contradict away.
  Two commands are a supersession or a fold; the loss of the election is the third event that meets
  either. Fairness: the tick loop polls and resyncs again and again, tasks that can run
  do, writes return (one that does not ends the session: `CallersAnswered`), the
  backend reconciles, and the timer ends.

`CachedIsRetained` has two exceptions, both in the code: a publication that times out after it
was handed to the client leaves the cache behind the broker until the next resync, which
publishes without asking the cache; and a withdrawal clears its cache at its end.

Left out: the auxiliary variables of a load and further loads (independent but for the
loops), the end of the session, the time between the failure of a publication of the tick loop and
the new session it causes, and what the new leader publishes (`wire` is forgotten at `LoseElection`).

### WiredFeedback - `agent/wired_feedback.py`, `agent/bridge.py`

A wired load's own variables can be read back, but a read or push may be older than the write it
seems to refute. Every issue of a write therefore raises an era per variable, and every capture says
in which era it was made. The first half of the module is the reducer (`rec` and the operators
`Captured`, `Retired`, `Begun`, `Issued`, `Failed`, `Succeeded`, `Expired`, `Paid`, `Unpaid`, `Rendered`); the
second half is what drives it: the tick loop (`Reconcile`, `PollRead`, `Polled`), the
reconcile after a reconnection (`Reconnect` to `Announced`), pushes that coalesce (`Notify`, `Push`), the
handler of the lane with its folds and outcomes (`Handle` to `Settle`), the timer (`Expire`) and the
one publisher, which renders, awaits the broker and asks whether the record moved meanwhile (`Publish`,
`Complete`, `PublishFails`). A read pins the generation of the bus before its answer and takes the
eras after it, as `get_all` does. Revision and debt epoch are counters of which the publisher only asks whether
they changed since it rendered: they are the flags `moved` and `owes`. Deadlines are named by the number of
commands so far: only their identity matters. `window` is history: since when requested values have been on
the wire.

* `wired_load`: a dimmable load gets a command for both variables and one for the brightness, which may fold into
  the first; up to one fault: a failed or late write, a failed publication, a new session. A reconnection or a
  change by hand takes the place of the fault and of a command, which keeps the run small: they start as much
  work as one. Requested values stay under one
  deadline, whatever succeeds meanwhile (`WindowIsNotRenewed`); a field is projected only until a capture of its
  era or a later one was seen (`ProjectionYields`); the cache tells what the broker retains (`CacheIsHonest`); and
  in the end the wire shows the load (`EventuallyNative`). Fairness: tasks that can run do, writes
  return, the mirror catches up, the timer ends, and the tick loop polls again and again; a failing
  broker and commands are bounded. No resync is assumed: the polls suffice.

`ProjectionYields` speaks of requests issued in the record's own generation. There is a gap beside
it: when the bus reconnects after a command was folded and issued and before the handler runs again, the
reused ticket tells the new attempt the eras of the old generation
(`agent/write_admission.py`, `set_issue_callback`), and genuine captures are fenced until the
window ends. It takes a reconnection within a few turns of the event loop; the window bounds its effect.

Left out: the periodic resync, rebinding (a load changes its kind or scale, or a full read omits what made it
dimmable), auxiliary variables, other loads, and a second reconnection during the reconcile of the first.
The publisher's first round is part of the step that creates it: it is the event loop's next turn.

### BusSession and Supervisor - `agent/bus.py`, `agent/__main__.py`

`BusSession` is the connection of one `RpcBusAdapter`: what `start()` allocates at the bus library (`Allocate`,
`Commit`, `StartFails`), pushes and the drain task of each callback (`Push`, `Drain`), reconnections and the coalesced
reconcile they ask for (`Reconnect`, `Resubscribed`, `Coalesce`, `RunEnds`), and the shutdown (`Shutdown`,
`Settled`, `CloseAwaited`). `alive` counts the peers that were started and are not shut down and `closers` the closes that
have not returned, of any adapter: `Closed` may come after its session, or never. A close that raises is only logged
(`CloseFails`): it fences no start any more, its peer may be at work still, and the history `ghosts` counts it. A push is
a number; the bridge keeps the newest, the scene bridge all. `gap` is history: changes may have been missed and not been
read since. Only a read that ends well closes it, if it began with all subscriptions in place and no reconnection
came between (`fresh`, `ReadBegins`, `ReadSucceeds`).

`Supervisor` is `run()` and `_run_session`. `at` is what the session awaits, `why` how it ended, `fenced` the
starts in a row that an unfinished close refused, `latch` the faults a tick finds, `retry`
and `fails` the forgiveness of a hot poll and of a resync. Every failure comes out of one budget, `MaxFaults`;
`stalled` is a bus that leaves reads unanswered, until `Heal`. The reconcile after a reconnection fails when the
bus is stalled, or by a fault (`RunFails`); nobody but the log hears of it, and it is the hot poll or the resync that
reads what was missed (`Tick`, `Polled`, `Resynced`).

* `session_faults`: three failures, two reconnections, two pushes in a session, and a process that gives up after two
  fenced starts. Two peers of the process are at work only after a close that raised, one more for each such close
  (`OneLivePeer`); every callback has the newest
  push or a task that will give it, and the scene bridge misses none (`NoPushLost`); a silent bus ends the
  session at the third read in a row, however polls and resyncs are mixed (`StallsAreBounded`); and the agent ends
  up serving a session that hears pushes and has read what it missed (`ComesBack`), whichever of its reads failed. Two pushes are one being handled
  and one that is coalesced; three failures are enough for a fenced start after a failed start after a failed
  session. Fairness: ready tasks run, timers fire, the service manager restarts a dead process, a
  stalled bus heals. The stale-stream watchdog is strongly fair: a bus that lost its
  subscriptions stays silent, and every tick compares its silence with the limit. No close need return.

Left out: a reconnection between the two subscriptions of `start()`, tasks of a dead session that ignore their
cancellation, device scopes of callbacks, the back-off between sessions (a delay), a disabled hot poll and the
diagnostic publication after a ledger failure. Field eras are in `WiredFeedback`.

### BusPhase and BusWatchdog - `agent/heartbeat.py`, `src/brilliant_bus_watchdog`

`BusPhase` is how an agent testifies: the heartbeat it stamps after successful reads, and the phase marker with the
age of the failure (`fail`), of the last attempt (`upd`) and the lease, a lock on the marker's inode. Writing the
marker is several file operations: `WritePreBus` and `WriteBus` say what each of their failures leaves,
`Invalidated` what `_invalidate_failed_write` can still do. `read` and `wrong` are history: the last successful read
and which of the two records misstate it.

`BusWatchdog` samples both (`Observe`, in `Watch` and `Reboot`): `Revoked` is the observer that takes a lease let
go of as the agent's own word, `Evidence` is `bus_failure_age`, `Should` is `should_reboot`. `away` and `quiet` are history:
time off the bus, and since the last long absence. Times are ages capped at `StaleAfter`.

* `bus_evidence`: stale after 3, a dead writer's evidence is kept for 1, three failures of any kind (a file operation,
  a crash, a restart of the watchdog, a clock that is set, a bus that dies or recovers, a broker that does). A record that would be
  trusted blames the bus for no more than the time since the last read and since the last long wait, unless it
  lost that read (`EvidenceIsHonest`); the panel is not rebooted for a bus that was read within `StaleAfter` unless both
  records of that read were lost, nor for time the agent waited for the broker or was dead
  (`RebootIsAttributed`); and a bus that stays dead while the broker answers is recovered (`DeadBusReboots`).
  Both bounds on time are relations: `0 < Retention < StaleAfter`. Fairness: sessions turn, processes
  are restarted, time passes; strong fairness of `Reboot` says that the watchdog polls again and again whatever phase
  the agent is in, that the gateway answers some of these times and that the guard does not refuse for ever.

`SessionsTurn` keeps time from passing while a session that could fail does not: the handshake, a poll and the
back-off are bounded by less than `Retention`. An attempt may also hang (a subscription has no time-out): if
its marker was lost as well, nothing attributes the failure, which `DeadBusReboots` excepts and the code logs.

Left out: reuse of process ids, an operator who stops the agent, and the branch that keeps an
older lease, which no caller reaches.

### RebootGuard and WifiWatchdog - `src/brilliant_bus_watchdog`, `src/brilliant_wifi_watchdog`

`RebootGuard` is the guard both watchdogs share (the code has it twice, with other names). A stamp in its file is kept as
its age by the wall clock, negative in the future; the file, which never exceeds the cap, is that many slots with the newest
stamp first. `Reading` is `can_reboot` - what it
answers and what it leaves in memory - and `Record` writes the file; `Allowed` is what `handle()` makes of both.
Clocks are set (`WallClockSet`, `ClockLost`), files become unreadable, storage unwritable, requests of reboots are lost, and
every reboot or restart clears the memory (`Forgotten`). `log` is history: reboots by the fastest reading of the clock.

`WifiWatchdog` is the ladder: `Choice` picks the rung of a failed probe, `Climb`, `WifiReboot` and
`RebootRefused` take it; `held` is `_last_observed_at - _down_since`, so an inconclusive probe stops the clock of the outage.

* `wifi_clocks`: cool-down 3, at most two reboots in a window of 6, two failures, clocks set by at most two units; rungs after
  1, 2 and 2. Reboots are a cool-down apart and under the cap (`RebootsAreBounded`); a recovery runs only for an outage that
  was seen to last, and a cheap one once in an outage (`RecoveriesAreEarned`); and a lasting outage reboots the panel
  again and again, although stamps may lie in the future and each reboot puts the ladder at its foot
  (`NeverWedged`). Two failures are a stamp in the future and the loss of the memory that clamps it. The
  cool-down exceeds the rungs, so that the guard refuses a reboot that is due, as in the defaults. Fairness: the watchdog
  polls and time passes.

Left out: an operator who deletes the file (the reboots it held are then forgotten), probes and recovery
commands (their outcome is an input). A reboot the guard refuses because storage is unwritable stays due.

### SceneBridge - `agent/scene_bridge.py`, `agent/scene_state.py`

Commands of one scene. `state` is the `SceneState` in memory - watermark, pending commands with their
baseline, the outbox of events and results - and `disk` the file. `queue` holds the snapshots one executor thread
writes in the order they were taken, each with what its task does afterwards. The code gates publication with
version numbers; `durable` is what they say: the items a written snapshot holds as they are. Executions are numbered in
the order of their time stamps. `Process` is `_async_process_execution`, `Accept`, `Replay`, `Refuse` are
`_async_command`, `Settle` its time-out or failure, `PickItem` to `PublishFails` the delivery loop, `Load` to `Up` a start,
`SessionEnds` and `Crash` its two ends. Code under the bridge's lock that does not await is one step.

* `scene_outbox`: one command delivered twice, two executions that may be native or the command's, two failures (a
  snapshot, a publication, a refusal), one session or process that ends. The bus is written at most once for a
  command and only if the file remembers it (`WritesOnce`); the broker never receives two outcomes for one command
  (`AnswersAgree`); an `accepted` is preceded by the event of an execution later than the request
  (`AcceptedIsProven`); and if storage works in the end, what was written is answered and what is on disk is published
  (`OutboxDrains`, whose premise is `<>[]trusted`: the code refuses commands while it cannot store them). Two
  executions are one before and one after the request, or two after it; a second delivery meets the command pending,
  answered, or loaded by the next process. Fairness: the executor, the loop and timers run; the
  broker acknowledges what did not fail; a session that ended is followed by another.

Left out: modes (the same code; a request for the current mode is confirmed by its write), the limits of the collections
and the expiry of results after ten minutes, unreadable files, catalogs and health.

### PanelManager - `ha/manager.py`

One panel as Home Assistant sees it. `grace` and `recovery` are its timers, `deferred` a verdict suspended by a broker
outage, `judge` the verdict that waits for SSH and then reads the panel's journal, `job` the repair or update that holds
`_repairing`, with its connects and its two looks at whether it is still wanted (`Gate`). `Online` to `Meta` are the reports,
`BrokerLost` and `BrokerBack` the broker, `GraceExpires`, `RecoveryExpires` and `CooldownEnds` the timers, `Order` an
operator, `Shutdown` the teardown of the entry, which does not stop what waits for SSH. `missed` is history: the code
refused or dropped a path to recovery because a repair or an update was under way, or because an error that no handler
names ended the repair, the update or the verdict (`JobEscapes`, `JudgeDies`): a `PanelIdentityError` of the shell, a
`PanelProcessError` of its close, a cancellation. The next report, repair or update begins anew. Such an error may strike
at each step between the order and the end of the work on the panel, and nothing obliges it to.

* `panel_outages`: four reports, two outages of the broker, one order, one cool-down that ends, updates that connect at most
  twice (five times in the code: a third connect is the second again), with automatic repair. An offline panel keeps a timer, a
  verdict, a repair or a shown problem (`OfflineHasPath`); a panel that stays offline is brought to the operator's attention
  (`EventuallyFlagged`); a panel is declared lost only on what is the case then, not on what was the case before the journal
  was read (`VerdictsAreSeen`); nothing fires after the teardown (`QuietAfterShutdown`). Four
  reports are offline, online, offline and one that clears or sets the ledger's problem; two outages suspend a
  suspended verdict. Fairness: timers fire, SSH sessions end one way or another, the lock is granted.

A timer that is armed may fire at any later time. A recovery time-out whose window was replaced does nothing any more, so only the
current one is kept. What a repair writes on the panel is one step. `OfflineHasPath` and `EventuallyFlagged` except
`missed`, see section 5: they speak of a panel that lost no path to such an error or refusal since its last report or window.

Left out: automatic repair switched off is a constant no run sets; components, voice and Wi-Fi diagnostics.

### Provisioning - `ha/provisioning_journal.py`, `ha/panel_provisioner.py`, `ha/fleet_manager.py`, `ha/flow`

Three modules, one panel. `ProvisioningJournal` has the two stores - `journal`, the transaction in progress, and
`retained`, what the panel ran before it - and what may be written to them: the phases
(`Transitions`), the states of a baseline (`Allowed`), and who may restore or give it up (`Compensates`, `Restorable`,
`Forgettable`, `Recoverable`). Every operation of the code reads its store again under one lock, so there is no
copy in memory.

`PanelProvisioner` is the holder of Home Assistant's SSH lock (`work`): an installation, an update, a recovery, a
settlement or an operator's order, at a step. A step is the code up to its next durable effect. `SaveJournal`,
`SaveRetained` and `OnPanel` say how steps fail: a store or the panel may have taken the write or not.
`ErrorSteps` is where the code's handlers send a failure; `Compensate` to `Failed` are what they do, `Scan` and
`Triage` what a recovery finds. A panel whose files are being replaced runs `Mixed`; its restore is three steps.

`FleetProvisioning` adds the flow, the configuration entry - in memory (`entry`) and on disk (`saved`) - and
`FleetManager`, which looks at the stores whenever its entry is set up (`Prepare`) and hands an installed panel over
(`Unmark`, `Persisted`, `HandSoak`, `HandCommit`, `HandRemove`). `Crash` ends Home Assistant anywhere: stores, panel and the
saved entry stay.

* `provision_crashes`: two transactions, two failing steps, two crashes. What is journalled has a baseline that is retained, is not
  being given up and is on the panel, and a half-replaced panel is journalled (`CanBeUndone`); without a journal a new
  release has an owner on disk, and no owner carries the mark of a committed transaction (`OwnedOrUndone`); what is recorded as
  restored runs (`RestoredIsRestored`); and every transaction is settled (`TransactionsSettle`). Two transactions are an
  onboarding and the update after it, or a second attempt; two crashes interrupt the recovery of the first.
  Fairness: tasks go on, entries get to the disk, and - about people - somebody finishes or closes a flow and loads the entry
  again while a journal is left. The recovery is strongly fair, since the SSH lock is first come, first served.

`TransactionsSettle` excepts `Wedged`, and `OwnedOrUndone` allows a mark whose baseline is neither armed nor soaking: both are
section 5.

Assumptions: an entry is on disk before an operator gives an order for it (`Managed`; it takes seconds). The entry is not
reloaded in the middle of a handoff. The deadline of a recovery may cancel a restore without a record, as in the code.

Left out: entries that are removed, another panel behind the same address (rebind), repair issues and `last_error`, the admission of a
release, details of the health observer, other entries of the domain. Upload and preflight are one step.

## 4. Proofs

Every theorem holds for all values of the constants under the named assumptions of the modules (constants have their types;
`None` is no write, no task, no number and no request; `0 < Retention < StaleAfter`).

**`WriteAdmission_proofs`**, for all sets of writes and devices, all classes and all bounds:

* `TypeCorrect`: `Spec => []TypeOK`. `InvariantHolds`: `Spec => []IInv`.
* `NeverTwoNativeWrites`, `WithdrawnStaysUnsent`, `SupersededNeverSent`, `WakeupsDelivered`:
  `OneNativeWrite`, `WithdrawnNeverSent`, `LatestPayloadSent` and `NoLostWakeup` always hold.
* `ImplementsNativeWrites`: `Spec => KeepsWritePromise`, by the refinement mapping
  `Abstract` (a write's standing is computed from its phase, its withdrawal and what it sent).

`OneNativeWrite` is not inductive: that two writes are not
issued at once rests on the lock, which rests on the slot. `QueuesAreConsistent` ties phase,
waiters, slot and lock together: an issued write holds the lock of its device, the
holder of the lock is in the slot, a queued write waits or is served, and the write in the slot is
older than every waiter of its peripheral. The last part is what the order of
`NativeWrites!Run` needs. `HistoryIsConsistent` says what was sent and what
still can be: a withdrawn write that is still queued is being cancelled or its caller
is, so `Issue`, whose guard excludes both, cannot send it. `IInv` is
the conjunction of these with the properties themselves.

The argument goes by action. `Admit` and `Finish` are the only actions that serve the queue and
have lemmas of their own over `ServeNextEffect`; the other actions leave
queue and slot alone. The refinement has one lemma per group of actions: `Issue`
is `Run`, `RpcReturns` is `End`, `Supersede` is `Revise`, cancellation and the
end of a session are `Withdraw`, all others stutter.

`MaintenanceIsNotStarved`, in the second half of the module, is `Spec => []MaintenanceOvertaking`: at most `MaxBypasses`
interactive writes that arrived after a waiting maintenance write are issued before it. The count the scheduler keeps is
of bypasses of a waiter, and it is consulted for the oldest maintenance write of a peripheral only, so a younger one
behind it could seem unprotected. `BypassInv` strengthens `IInv` by three facts: a write that is being served before an
older maintenance write had the right to (`ServedByRight`: that one had bypasses left when it was chosen and has them still,
for only an issue uses one up); of two maintenance writes of one peripheral the older was bypassed at least
as often (`BypassesAge`); and the set of overtakers is finite and no larger than the count
(`BypassesCount`, where `FS_AddElement` and `FS_Subset` do the counting). `OldestExists`, by well-founded induction, gives the
choice of the scheduler its witness.

**`Commands_proofs`**, first of the command lane, for every set of kinds, all sizes of the queues and every number of commands, failures and
retypes: `TypeCorrect` (`Spec => []TypeOK`) and `CommandsKeepTheirOrder` (`Spec => []InOrder`).

* `InOrder` looks at the writes of the bus and at the commands behind them, but not at the command the worker handles. That one may
  have no write yet, and gets one that goes before everything that waits; or it may be merged with the next command of the
  lane, which puts that one's fields into a write that was admitted long before. `LineInv` therefore states the order of one line - the command
  that is handled, the lane, the put that waits, the transport queue - and that none of it is older than what was sent.
* `WorkerInv` ties the bus to the head of that line: at most one write waits there, and it has the values of the command the
  worker handles. A worker that was cancelled leaves a write behind only if it was issued before.
* The merges are shown once to keep a line (`Put` in a queue, a fold into the head): a command overtakes only
  commands it may pass, those between which and its twin no barrier stands.

The second half is about the mesh load: `MeshTypeCorrect` (`MeshSpec => []MeshTypeOK`), `PendingSettles` (`[]PendingCanSettle`),
`CachedHolds` (`[]CachedIsRetained`) and `HandlerGetsItsAnswer` (`[]HandlerIsAnswered`: a write that returns to its handler finds it
waiting, so that `Answerable` refuses no answer), for any values and any number of inputs.

* `Linked`: a pending record is the feedback of the write generation in force. Whoever replaces the feedback
  or raises the generation ends the pending record in the same step; therefore the timer's early return is dead code.
* `PublishedInv`: the publications under way are about the feedback in force (`InForce`, since whoever changes it revokes them); the last one
  that was handed over is what the broker retains, unless it failed on its way (`LastIsRetained`); and only a leader that does not
  withdraw publishes (`Leading`). From these the cache, which is written when a publication completes, follows what is retained.
* Almost every step is a slice of the event loop that revokes all publications or none and adds at most one (`Slice`);
  the rest are those that change the term or what the client holds.

**`WiredFeedback_proofs`**, for every sequence of commands, number of captures and faults: `TypeCorrect` (`Spec => []TypeOK`),
`WindowHolds` (`[]WindowIsNotRenewed`), `ProjectionHolds` (`[]ProjectionYields`) and `CacheHolds` (`[]CacheIsHonest`), all from
`IInvHolds`. The publisher renders the record, awaits the broker, and the record moves meanwhile: what the wire shows and what the
record says are of different moments. The invariant has three parts.

* `PublisherInv`: a record is `Consistent` - fields are projected only while their request is pending, under a deadline, and from an
  era before their issue; a deadline outlives its request only when native values are owed. `OneWindow` ties what the
  publisher carries, and what the wire was given, to that deadline or to a debt of native values: a later command gets a
  deadline of its own only once the debt of the earlier one was recorded. `Follows` says what an event of the reducer may do to the
  record while no native publication comes between, and every operator of the reducer is shown once to obey it.
* `LaneInv`: the writes of a lane are at most two, the one a handler awaits is the last and only the first is on its way; an
  attempt whose write was issued has an era for each field it set. Without it an outcome could open a request whose eras are unknown.
* `CaptureInv`: what loops and pushes carry is a capture wherever their next step applies it.

**`Agents_proofs`**, first of the sessions of an agent, for every number of pushes, reconnections and failures and every limit of fenced starts:

* `OnePeerAtATime`: `Spec => []OneLivePeer`. `PeersAreAccounted` keeps the account: a resource is at work once for
  the adapter that owns it, once for each close of it that has not returned and once for each that raised (`ghosts`), and
  nothing is owned while any close is out. The last
  part needs the fence of the next start, and that nothing is owned outside a start and a live session; hence the clause
  on stages and the one on the back-off, where a new adapter takes the old one's place.
* `PushesArriveOrWait`: `Spec => []NoPushLost`. `PushesAreOwed` says what the queue of each callback holds: for the scene bridge
  the snapshots after the last one given, one by one, and for the bridge the newest alone, with a drain task whenever
  it is not empty; and that a session that is not live yet was sent nothing.
* `ThirdMissEnds`: `Spec => []StallsAreBounded`. `MissesAreExplained` charges every unanswered read to the pending retry or the
  forgiven resync; that a resync begins with neither a retry pending nor a read missed is what keeps the two from adding up.
* `SessionTypesHold`: `Spec => []TypeOK`, with the account of the peers for the resources and, for the limit of fenced
  starts, that only a process about to exit has reached it (`CountsOK`).

The second half is about the election, for every finite or infinite set of panels, all priorities, and every heartbeat, tick gap
and delay: `ElectionTypesHold` (`ElectionSpec => []ElectionTypeOK`), `VacancyStaysBounded` (`[]VacancyIsBounded`) and
`DualityStaysBrief` (`[]DualLeadershipIsBrief`). Each bound is a sum of ages; the invariants say which ages, by what a panel still waits for.

* `VacancyInv` is about the best running panel, which exists because the order of the claims is well founded on those with priority at
  least 1 (`BestExists`). A better claim can only be a ghost's: it was sent before the vacancy began, so it
  arrives within a delay (`GhostComes`) and its age measures the vacancy from then on (`GhostHeard`). Once it is stale
  the panel claims at its next tick, nobody better can make it yield, and it leads a heartbeat and a tick later (`Silence`).
* `DualInv` is about a worse leader. Its clock runs no longer than the time since the last claim of any better leader (`Unheard`, with
  `SinceBeat` at most a heartbeat and a tick), or than the age of a claim on its way beyond that (`Coming`), or the claim has arrived
  after the last tick and the next one ends the leadership (`Heard`); `CadenceAssumption` is used here, so that the claim is not
  stale by then. A claim that takes its place is no worse, or the clock starts again.

**`Watchdogs_proofs`**, first of the Wi-Fi watchdog and the guard both watchdogs share, for every policy, threshold and number of failures: `TypeCorrect` (`WifiSpec => []WifiTypeOK`),
`RebootsStayBounded` (`WifiSpec => RebootsAreBounded`) and `LadderIsEarned` (`WifiSpec => RecoveriesAreEarned`).

* `GuardInv` relates the history of reboots, whose ages only grow, to what the guard has of it. `StampsCover`: a reboot is no newer
  than some stamp, or the file cannot be read. `Holds`: the reboots the file kept have stamps of their own, no older than they are, so
  that one free slot means fewer than the cap of them. `MemoryIsEarned`: the wait and the clamp in memory are no older than any reboot, and a
  clamp exists only a cool-down after the last. A setting back of the clock makes stamps younger, never a reboot. A reboot that
  could not be recorded happened while the file was unreadable or held a stamp in the future, and that stamp covers it.
* `LadderInv`: the ladder's clock of an outage is the time the probes confirmed, and what has fired is what ran.

The second half is about `BusWatchdog`: `EvidenceStaysHonest`, `Spec => [](TypeOK /\ EvidenceIsHonest)`, and `RebootsAreAttributed`,
`Spec => RebootIsAttributed`, for every threshold, retention and number of failures. `EvidenceIsHonest` is
the inductive invariant, given the types: a lease is held by a living agent on the record it armed, a success counts
from itself, an agent off the bus ages its last attempt, and what would be trusted blames the bus for no more than the history
shows. `AgentHonest` follows the record through each file operation that may fail, `PassHonest` through the growth of
the ages; the reboot then follows from the guard.

**`SceneBridge_proofs`**, for every set of commands and every number of executions, messages, failures, crashes and sessions:
`TypesAreRight` (`Spec => []TypeOK`), `OneWritePerCommand` (`WritesOnce`), `OneOutcomePerCommand` (`AnswersAgree`) and
`AcceptanceIsProven` (`AcceptedIsProven`). What the bridge knows exists in many copies: the state in memory, the snapshots in
the queue of the writer, and the file, which any of the queued snapshots may become when the process ends. None of the three
properties is inductive, since the file lags behind; each invariant therefore speaks of all copies at once.

* `WriteInv`: every copy knows a command that was written; of a command that waits for its record one task waits, and
  no snapshot from its own on lacks it. So the write comes when the file has the record, and a redelivery finds it.
* `AgreeInv`: what was published, is being published or is durable in memory is said alike by every copy, and what a queued
  snapshot will make durable is said alike by all snapshots behind it. Here it matters that one thread writes them in order.
* `ProofInv`: in every copy, the baseline of a pending command is no earlier than its first request, an accepted result
  names an event later than that or was proven before, and an event marked as delivered was received.

The steps that queue a snapshot have one shape (`Records`): the new state takes nothing back (`Grows`). Lemmas on the
operations of a state (`AnsweredFacts` to `ResultDeliveredFacts`) show that, and the three invariants use it alike.

**`RetainedLedger_proofs`**, for every set of callers and topics and every number of calls, crashes and sessions:
`TypeCorrect`, `NothingIsOrphaned` (`Spec => []RetainedIsOwned`) and `ValuesKeepTheirOrder` (`Spec => PublishedInOrder`).

* `OwnedInv`: a topic is alive while its value is retained or under way; what is alive is named by everything that may become the record -
  the file, the write that may replace it, memory, the manifest and every manifest under way. A topic that may be published past a
  claim is named alike.
* `ManifestInv`: the manifests under way grow, and the last one names what memory holds. That is why a topic may leave the
  exception when a manifest lands.
* `ClearInv`: behind the tombstone of a topic there is neither a value of it nor any manifest. So when the tombstone was acknowledged
  the file may shrink.
* `OrderInv`: values under way are in the order of their calls and older than those still to be sent. `NumberInv` has the
  reason for callers that wait: the lock is first come, first served.

What is under way is a sequence, so the facts about its end, its head and its tail (`AppendOther` to `HeadFacts`) are stated for any sequence
of messages; the steps then never look at an index.

**`HomeAssistant_proofs`**, first of the panel manager: `PanelTypesHold` (`PanelSpec => []PanelTypeOK`), `OfflineKeepsAPath`,
`NoTimerOutlivesItsEntry` and `LostIsJudgedOnEvidence`, for every number of reports, outages, orders and connects. A job that ends must leave something
behind: `PathInv` says that a suspended verdict exists only while the broker is away, and that a job that has
only its shell to close no longer counts as the panel's path; `PanelJobInv` types the job for it. `OfflineKeepsAPath` has
the exception of the property: an error that escapes every handler takes the path with it.

The second half is about provisioning, for every number of transactions, failing steps and crashes: `TypeCorrect` (`Spec => []TypeOK`),
`AlwaysUndoable` (`[]CanBeUndone`), `NeverOrphaned` (`[]OwnedOrUndone`) and `RestoredIsTrue` (`[]RestoredIsRestored`).
Each of the durable places is written by a step of its own, which may fail with its effect, and a crash may come
between any two: a property of the stores is inductive only together with what the job under way relies on.

* `RecordInv` relates journal, baseline, panel and entry, and so outlives a crash: a staged transaction has changed nothing yet,
  a half-replaced panel has a journal in one of two phases, an update and a soak have a saved owner (`StoresInv`, `OwnerInv`).
* `EntryInv` follows the handoff through memory and disk: a handoff under way has looked at the stores, has an entry and no flow
  beside it, and the mark is off the disk before the baseline soaks and the journal is committed.
* `JobInv` says which jobs are at which steps, and `StepInv` what each step finds - for instance that the files are the
  baseline's from the verification of a restore to the removal of its journal. The flow, the entry's handoff, other orders and the
  deadline run beside the job, and each of them is shown to leave it so; a failed step leads to handlers that assume less.

Only model-checked: all liveness properties, for which this prover has neither fairness nor `ENABLED`.

## 5. Known divergences between code and documentation

Modelling met these disagreements of the code with a comment or document. The models follow the code; where
a property has an exception for one of them, it is named.

* *Mesh election.* "PENDING: claimed, waiting one heartbeat for a better claimant to
  object" (`agent/mesh_leader.py:45`). The remembered claim is a single slot (`:133`); a worse
  panel's claim overwrites the better one before the next tick, and the pending panel
  takes over although it heard the objection. `DualLeadershipIsBrief` bounds what follows, from the last such
  claim on.
* *Cadence of the election.* "indifferent to tick cadence" (`agent/mesh_leader.py:53`): so the decisions are, but not the result. Ticks
  further apart than three heartbeats leave every claim stale when it is looked at (`CadenceAssumption`, section 3).
* *Ledger.* "A new topic is durably recorded before either the broker-side
  ownership manifest or the retained value is published" (`agent/retained_topics.py:4`). When the directory sync after
  the replacement of the file fails (`:318`), the error is taken for a write that changed nothing: a
  clear has shrunk the file while memory still holds the topic, and its next
  publication retains a value the file does not name (`unsynced`). The agent itself only publishes, where the failure is harmless.
* *Mesh confirmation.* "A value CONTRADICTING the commanded target proves the write did not
  take" (`agent/bridge.py:1496`). A write that outlives its handler's deadline is armed as
  pending before the panel has run it; an observation of the old value then counts as a
  contradiction, the record is dropped, and the write takes. The state is right in the end (`EventuallyTrue`).
* *Withdrawal.* "it must stop consuming command topics immediately (the new leader owns
  them)" (`agent/bridge.py:579`). A reconnection's reconcile that awaits a publication
  while `withdraw()` runs goes on afterwards, and registers and subscribes the command topic
  again (`agent/bridge.py:520`) on a panel that has stepped down.
* *A straggler on a reused adapter.* The lock of a write that outlives its session is held "up to the #73 hard cap"
  (`agent/bus.py:594`). The cap is one timer for each issued write (`:1334`). When it fired in the earlier session, its latch went
  with that session, and nothing bounds how long the next session's writes to the device wait for the RPC.
  `CallersAnswered` excepts them (`BehindStraggler`). The supervisor makes a new adapter for each session, so the
  agent does not meet this; `start()` of the same object does.
* *Closes that raise.* A `shutdown()` of the bus library that raises counts as finished (`agent/bus.py:1519`) and lifts the fence of
  the next start, although the peer may be registered still, a ghost as `:153` describes. `OneLivePeer` counts them.
* *A reconcile that fails after a reconnection.* "re-reconcile to republish the truth" (`agent/__main__.py:324`): the error of that
  reconcile is logged (`agent/bus.py:1028`) and it is not tried again. The next hot poll or resync reads what was
  missed, and `ComesBack` says that one does; the model has the hot poll enabled.
* *Wired feedback.* "`wired_write_deadline`: the wall-clock deadline while active"
  (`docs/reference/wired-write-feedback.md:67`). A request is observed, its native values are accepted and
  its deadline is cleared; then a publication fails and native values are owed again. A capture that
  differs should drop the old request, but the branch that does so asks that nothing be owed
  (`agent/wired_feedback.py:280`): the request is reopened as `ambiguous` without a deadline, and
  stays so until another command or a matching value. `EventuallyNative` asks only that a deadline ends.
* *Panel manager.* "an offline panel retains exactly one path to recovery" (`ha/manager.py:1133`). A path asked for
  during a repair or update is refused, and when that job ends without a window of its own none is left until the
  next report (`missed`). So it is when an error escapes: "surface it loudly instead of letting the exception escape (silent + entry
  shows GREEN)" (`ha/manager.py:1678`) names three classes of errors, and a `PanelIdentityError` of the connect (`:748`, which
  neither `async_repair` nor `async_update_agent` catches) or a `PanelProcessError` of the raw `shell.close()` in
  `_recovery_timeout` (`:2420`) is none of them. The grace timer was cancelled before, no problem is set, and an offline panel waits
  for its next report (`JobEscapes`, `JudgeDies`). "one panel never runs grace + recovery at once" (`ha/manager.py:1783`): an order given within the
  recovery window that cannot connect schedules its retry beside it. An `online` report while the verdict reads the journal ends
  the verdict, and no event tells that the repair succeeded.
* *Provisioning: a cleaned-up installation.* A candidate that failed before its activation is removed and its journal with
  it, but the `armed` baseline stays without an owner, and adding the panel again is refused
  (`ha/provisioning_journal.py:1201`); `docs/ha-integration.md` and the translations say to retry after the cleanup.
* *Provisioning: a rollback that fails late.* When the journal says `rolled_back` and its removal fails or the deadline
  strikes, the baseline is recorded as `rollback_failed`; a recovery then asks for `restored` and does nothing, for
  ever (`Wedged`). Only the owner's rollback order helps; "fix the cause and repeat" (`docs/canary-rollback.md:246`) does not.
* *Provisioning: an unsure removal.* If the journal's removal fails but took effect, the same record is left
  as `rollback_failed` without journal or owner.
* *Provisioning: an unfinishable finalization.* A baseline in `finalizing` that cannot be finished makes the recovery raise
  before it looks at the journals of other panels.
* *Provisioning: an archive without a record.* Home Assistant that ends between the capture of a baseline and its record
  leaves the archive on the panel.
* *Provisioning: an order during a handoff.* When the owner orders a rollback while the entry is being handed over, and the
  handoff fails or Home Assistant restarts, the entry may keep its mark when the journal is gone, and
  `_assert_no_orphaned_handoff` (`ha/fleet_manager.py:1058`) refuses to load it from then on. `OwnedOrUndone`
  allows the mark in this case: the baseline is neither `armed` nor in `soak`.

## 6. Not modelled

`PROJECT.json` ("components") lists every part with its status.

* *Desired state and its enforcement* (`agent/desired_state.py`, `agent/bridge.py` 674-800), *scene control* and *the
  control plane* in Home Assistant (`ha/scene_control.py`, `ha/ha_control.py`): state that schedules can break, not
  modelled yet; the hazards of each are listed.
* *The MQTT adapter's lifecycle*: a one-shot connection whose every failure ends the session, which
  `Supervisor` has as a fault.
* *The Home Assistant mirror on the panel*, *the Hue CA reconciler*, *the voice satellite*: optional programs. The mirror
  reuses the modelled election; the reconciler is a sequential pass over a few files; the satellite is process
  supervision around audio pipelines.
* *Translation tables, validation, configuration forms, entities, command-line tools*: no state that a
  schedule could break. `panel_ops` and `shell` are remote commands, which `PanelManager` and `PanelProvisioner` have as steps
  that may fail.
* *The payload inside the integration* is a byte copy of the agent's packages, and the vendored libraries are external.
