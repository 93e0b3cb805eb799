--------------------------- MODULE WiredFeedback ---------------------------
(***************************************************************************)
(* Feedback for one wired load (src/brilliant_mqtt/wired_feedback.py and   *)
(* its driver in bridge.py): the requested values are shown for a bounded  *)
(* time while the captures of the bus catch up, or differ.                 *)
(*                                                                         *)
(* The reducer is the operators on a record in the first half.  The second *)
(* half is the tasks that drive it: the tick loop, the reconcile after a   *)
(* bus reconnection, the drain of pushes, the handler of the load's lane,  *)
(* the timer, and the publisher.  The bus is its promise (NativeWrites).   *)
(***************************************************************************)
EXTENDS Integers, Sequences, SequencesExt

CONSTANTS
  Fields,       \* the variables of the load a command sets
  Values,       \* their values
  Reports,      \* what somebody can make a variable of the load be
  Commands,     \* the targets of the commands that may arrive, in order
  None,         \* nothing; as the value of a variable: it has none
  MaxFaults     \* bound on the changes by hand, reconnections of the bus, failed
                \* publications and new sessions, together

ASSUME DataAssumption ==
  /\ None \notin Values /\ None \notin Nat /\ Values # {}
  /\ Reports \subseteq Values \cup {None}
  /\ Fields \subseteq {"on", "intensity"}
  /\ Commands \in Seq(UNION {[F -> Values] : F \in SUBSET Fields})
ASSUME BoundsAssumption == MaxFaults \in Nat

Loops == {"tick", "reconnect"}
Tasks == Loops \cup {"push", "handler", "timer"}

VARIABLES
  source,  \* capture_generation of the adapter
  eras,    \* _field_eras: how often each field was issued in this generation
  rec,     \* the slot's record
  at, cap, \* what each loop awaits, and the capture it carries
  push,    \* the coalesced push that waits for its delivery, or None
  handler, \* the command being handled
  rpcs,    \* native writes to the load in order, the first one running
  pub,     \* the publisher, or None
  dirty, force, \* the slot's flags
  cached,  \* _last_state_fields, or None
  wire,    \* what the broker retains, or None
  mirror,  \* what the observer's mirror shows
  actual,  \* what the load reports
  commands, faults, \* how many there were
  window   \* history: deadline under which requested values have been on the
           \* wire since native ones were, or None

publisher == <<pub, dirty, force, cached, wire, window>>
lane == <<handler, rpcs>>
loops == <<at, cap>>
vars == <<source, eras, rec, loops, push, lane, publisher, mirror, actual, commands, faults>>

bounds == <<commands, faults>>
Asked == Commands[commands + 1]
Arrives == commands < Len(Commands) /\ commands' = commands + 1 /\ UNCHANGED faults
Fault == faults < MaxFaults /\ faults' = faults + 1 /\ UNCHANGED commands
\* A change that starts work of its own also takes the place of a command.
Upheaval == /\ commands < Len(Commands) /\ commands' = commands + 1
            /\ faults < MaxFaults /\ faults' = faults + 1

-----------------------------------------------------------------------------
(* The reducer                                                             *)

NoEra == [f \in Fields |-> -1]
NewRecord(s) == [source |-> s, native |-> None, era |-> NoEra, attempt |-> None,
                 feedback |-> None, deadline |-> None, debt |-> FALSE,
                 moved |-> FALSE, owes |-> FALSE]

UnderWay == pub # None

\* A step of the reducer that takes a new revision, and one that takes a new
\* debt epoch: all the publisher asks is whether they changed since it rendered.
Moved(r) == [r EXCEPT !.moved = UnderWay]
Owing(r) == [r EXCEPT !.debt = TRUE, !.moved = UnderWay, !.owes = UnderWay]

\* Whether the capture c of field f is not known to predate the issue.
NotPreissue(c, f, fb) == f \in DOMAIN fb.eras => c.era[f] >= fb.eras[f]

Status(unresolved, ambiguous) ==
  IF unresolved = {} THEN "observed"
  ELSE IF ambiguous # {} THEN "ambiguous" ELSE "provisional"

\* Faulty: only captures that follow another issue count.
AcceptedLater(r, c) == {f \in Fields : c.era[f] > r.era[f]}

\* The fields of capture c that are not older than what the record has.
Accepted(r, c) == {f \in Fields : c.era[f] >= r.era[f]}

\* The request after the capture has answered some of its fields.
Answered(fb, seen, right) ==
  LET unresolved == (fb.unresolved \cup seen) \ right
      ambiguous  == (fb.ambiguous \cup seen) \ right
  IN [fb EXCEPT !.unresolved = unresolved, !.ambiguous = ambiguous,
                !.projected = IF unresolved = {} THEN {} ELSE fb.projected \ seen,
                !.status = Status(unresolved, ambiguous)]

\* _capture, for a capture of the record's source generation.
Captured(r, c) ==
  LET took   == Accepted(r, c)
      r1     == Moved([r EXCEPT
                  !.native = [f \in Fields |-> IF f \in took THEN c.val[f]
                                               ELSE IF r.native = None THEN None
                                               ELSE r.native[f]],
                  !.era    = [f \in Fields |-> IF f \in took THEN c.era[f] ELSE r.era[f]]])
      fb     == r.feedback
      seen   == {f \in took \cap DOMAIN fb.target : NotPreissue(c, f, fb)}
      right  == {f \in seen : r1.native[f] = fb.target[f]}
      after  == Answered(fb, seen, right)
      resolves == IF after.unresolved = {} THEN fb.unresolved # {} \/ fb.projected # {}
                  ELSE fb.projected # {} /\ after.projected = {}
  IN IF fb = None THEN r1
     ELSE IF fb.status \in {"observed", "unconfirmed"} /\ ~r.debt /\ seen # {}
     THEN [r1 EXCEPT !.feedback = None]
     ELSE IF fb.status = "unconfirmed" THEN r1
     ELSE LET r2 == [r1 EXCEPT !.feedback = after] IN IF resolves THEN Owing(r2) ELSE r2

\* SourceGeneration(s): the request of an older generation is retired.
Retired(r, s) ==
  IF s <= r.source THEN r
  ELSE LET r1 == Moved([r EXCEPT !.source = s, !.era = NoEra, !.attempt = None,
                                 !.feedback = None, !.deadline = None])
       IN IF r.feedback = None THEN r1 ELSE Owing(r1)

Begun(r, target) == [r EXCEPT !.attempt = [target |-> target, eras |-> <<>>, source |-> 0]]

\* Issue: what was issued replaces what was asked, for a fold may have come.
Issued(r, p) ==
  IF r.attempt = None THEN r
  ELSE [r EXCEPT !.attempt = [target |-> p.target, eras |-> p.eras, source |-> p.source]]

Failed(r) ==
  IF r.attempt = None THEN r
  ELSE Owing([r EXCEPT !.attempt = None, !.feedback = None, !.deadline = None])

\* Faulty: each success begins a window, and shows all of its targets.
SucceededRenews(r, deadline) ==
  LET a == r.attempt
  IN IF a = None THEN r
     ELSE Moved([r EXCEPT !.attempt = None, !.deadline = deadline,
            !.feedback = [target |-> a.target, eras |-> a.eras, source |-> a.source,
                          projected |-> DOMAIN a.target, unresolved |-> DOMAIN a.target,
                          ambiguous |-> {}, status |-> "provisional"]])

\* A successful outcome; deadline is one that this request would begin.
Succeeded(r, deadline) ==
  LET a == r.attempt
      late == {f \in DOMAIN a.target : f \in DOMAIN a.eras /\ r.era[f] >= a.eras[f]}
      right == {f \in late : r.native # None /\ r.native[f] = a.target[f]}
      unresolved == DOMAIN a.target \ right
      r1 == Moved([r EXCEPT
              !.attempt = None,
              !.deadline = IF r.deadline = None THEN deadline ELSE r.deadline,
              !.feedback = [target |-> a.target, eras |-> a.eras, source |-> a.source,
                            projected |-> DOMAIN a.target \ late,
                            unresolved |-> unresolved, ambiguous |-> late \ right,
                            status |-> Status(unresolved, late \ right)]])
  IN IF a = None THEN r
     ELSE IF unresolved = {} /\ ~r.debt THEN Owing(r1) ELSE r1

Expired(r) ==
  Owing([r EXCEPT !.deadline = None,
                  !.feedback = IF r.feedback = None THEN None
                               ELSE [r.feedback EXCEPT !.projected = {},
                                                       !.status = "unconfirmed"]])

Projects(r) == r.feedback # None /\ r.feedback.projected # {}
IsNative(r) == ~Projects(r) \/ r.debt

\* render(): projected targets over native values.  While the intensity is
\* unknown there is no brightness, projected or not.
Shown(r, f) ==
  IF Projects(r) /\ ~r.debt /\ f \in r.feedback.projected
     /\ (f = "intensity" => r.native[f] # None)
  THEN r.feedback.target[f] ELSE r.native[f]

Rendered(r) ==
  LET state == [f \in Fields |-> Shown(r, f)]
      plain(status) == [state |-> state, status |-> status, asked |-> None, deadline |-> None]
  IN IF r.debt /\ (Projects(r) \/ r.feedback = None) THEN plain("unconfirmed")
     ELSE IF r.feedback = None THEN plain("idle")
     ELSE IF r.feedback.status \in {"provisional", "ambiguous"}
     THEN [state |-> state, status |-> r.feedback.status, asked |-> r.feedback.target,
           deadline |-> r.deadline]
     ELSE plain(r.feedback.status)

\* PublishAccepted for the rendering the publisher has under way.
Paid(r, native) ==
  IF ~native \/ r.owes THEN r
  ELSE [r EXCEPT !.debt = FALSE,
                 !.deadline = IF r.feedback # None /\ r.feedback.status \in {"observed", "unconfirmed"}
                              THEN None ELSE r.deadline,
                 !.moved = r.moved \/ (r.debt /\ Projects(r))]

\* PublishFailed.
Unpaid(r, native) == IF native /\ ~r.moved THEN [r EXCEPT !.debt = TRUE] ELSE r

-----------------------------------------------------------------------------
(* The publisher                                                           *)

Free(t) == pub # None => pub.owner # t

\* One round of the publisher for record r: it renders, and publishes unless
\* the wire has that already.
Round(t, r, c, forced) ==
  IF r.native = None \/ (~forced /\ ~r.debt /\ c = Rendered(r)) THEN None
  ELSE [owner |-> t, fields |-> Rendered(r), native |-> IsNative(r)]
Clean(r) == [r EXCEPT !.moved = FALSE, !.owes = FALSE]

\* The record becomes r, and task t asks for its publication
\* (_publish_wired_slot): of the publisher that runs, or of a new one, whose
\* first round is the event loop's next step.
Publish(t, r, forced) ==
  /\ IF UnderWay
     THEN rec' = r /\ dirty' = TRUE /\ force' = (force \/ forced) /\ UNCHANGED pub
     ELSE rec' = Clean(r) /\ pub' = Round(t, r, cached, force \/ forced)
          /\ dirty' = FALSE /\ force' = FALSE
  /\ UNCHANGED <<cached, wire, window>>

\* _wired_event: the source generation first, then the event.
Current(r) == Retired(r, source)

busOnly == <<source, eras, mirror, actual>>
pubOnly == <<busOnly, loops, push, lane>>

\* The publisher goes on with its next round, or ends.
GoOn(r, c, again) ==
  IF again
  THEN /\ pub' = Round(None, r, c, force)
       /\ dirty' = FALSE /\ force' = FALSE
       /\ rec' = Clean(r)
  ELSE pub' = None /\ dirty' = FALSE /\ rec' = Clean(r) /\ UNCHANGED force

\* What is under way is with the broker, at the latest when the client says so.
Lands(p) ==
  /\ wire' = p.fields
  /\ window' = IF p.native THEN None ELSE IF window = None THEN p.fields.deadline ELSE window

Complete ==
  /\ UnderWay
  /\ Lands(pub)
  /\ cached' = pub.fields
  /\ UNCHANGED <<pubOnly, bounds>>
  /\ LET r == Paid(rec, pub.native) IN GoOn(r, pub.fields, dirty \/ r.moved)

\* Faulty: the diff cache outlives a failed publication.
PublishFailsCached ==
  /\ UnderWay
  /\ Fault
  /\ Lands(pub) \/ UNCHANGED <<wire, window>>
  /\ UNCHANGED <<pubOnly, cached>>
  /\ GoOn(Unpaid(rec, pub.native), cached, dirty)

\* The publication fails, before or after its bytes reached the broker.
PublishFails ==
  /\ UnderWay
  /\ Fault
  /\ Lands(pub) \/ UNCHANGED <<wire, window>>
  /\ cached' = None
  /\ UNCHANGED pubOnly
  /\ GoOn(Unpaid(rec, pub.native), None, dirty)

-----------------------------------------------------------------------------
(* Captures: the tick loop, the reconcile and the pushes                   *)

Goto(t, where, c) == at' = [at EXCEPT ![t] = where] /\ cap' = [cap EXCEPT ![t] = c]
Idle(t) == at[t] = "idle" /\ Free(t)

\* A read pins the source generation before the panel answers and takes the
\* eras when the answer is there.
Snapshot == [source |-> source, val |-> mirror, era |-> NoEra]
Stamped(c) == [c EXCEPT !.era = eras]

\* _wired_event(Capture): a capture of an older generation is dropped.
Capture(c) ==
  LET r == Current(rec) IN IF c.source < r.source THEN r ELSE Captured(r, c)

PollRead ==
  /\ Idle("tick")
  /\ Goto("tick", "poll", Snapshot)
  /\ UNCHANGED <<busOnly, rec, push, lane, publisher, bounds>>

Polled ==
  /\ at["tick"] = "poll"
  /\ Goto("tick", "idle", None)
  /\ UNCHANGED <<busOnly, push, lane, bounds>>
  /\ Publish("tick", Capture(Stamped(cap["tick"])), FALSE)

\* The reconcile of the session's start or of the periodic resync.
Reconcile ==
  /\ at["tick"] = "start"
  /\ Goto("tick", "read", Snapshot)
  /\ UNCHANGED <<busOnly, rec, push, lane, publisher, bounds>>

\* The processor reconnects: a new source generation, and a reconcile.
Reconnect ==
  /\ Idle("reconnect")
  /\ Upheaval
  /\ source' = source + 1
  /\ eras' = [f \in Fields |-> 0]
  /\ Goto("reconnect", "retire", None)
  /\ UNCHANGED <<mirror, actual, rec, push, lane, publisher>>

Retire ==
  /\ at["reconnect"] = "retire"
  /\ Goto("reconnect", "retired", None)
  /\ UNCHANGED <<busOnly, push, lane, bounds>>
  /\ Publish("reconnect", Current(rec), TRUE)

ReconnectRead ==
  /\ at["reconnect"] = "retired" /\ Free("reconnect")
  /\ Goto("reconnect", "read", Snapshot)
  /\ UNCHANGED <<busOnly, rec, push, lane, publisher, bounds>>

\* reconcile() reduces what it read at once and publishes later.
Returned(t) ==
  /\ at[t] = "read"
  /\ Goto(t, "announce", None)
  /\ UNCHANGED <<busOnly, push, lane, publisher, bounds>>
  /\ rec' = Capture(Stamped(cap[t]))

Announced(t) ==
  /\ at[t] = "announce"
  /\ Goto(t, IF t = "tick" THEN "register" ELSE "idle", None)
  /\ UNCHANGED <<busOnly, push, lane, bounds>>
  /\ Publish(t, rec, TRUE)

Registered ==
  /\ at["tick"] = "register" /\ Free("tick")
  /\ Goto("tick", "idle", None)
  /\ UNCHANGED <<busOnly, rec, push, lane, publisher, bounds>>

\* The mirror catches up with the load.  The push that tells it carries the
\* whole load and replaces one that still waits.
Notify ==
  /\ mirror # actual
  /\ mirror' = actual
  /\ UNCHANGED <<source, eras, actual, rec, loops, lane, publisher, bounds>>
  /\ push' = [source |-> source, val |-> actual, era |-> eras]

Push ==
  /\ push # None /\ Free("push")
  /\ push' = None
  /\ UNCHANGED <<busOnly, loops, lane, bounds>>
  /\ Publish("push", Capture(push), FALSE)

\* Somebody operates the load, or a variable loses its value.
ByHand(f, v) ==
  /\ actual[f] # v
  /\ Upheaval
  /\ actual' = [actual EXCEPT ![f] = v]
  /\ UNCHANGED <<source, eras, mirror, rec, loops, push, lane, publisher>>

-----------------------------------------------------------------------------
(* Commands and their writes                                               *)

NoHandler == [at |-> "idle", target |-> None]
laneOnly == <<source, eras, mirror, actual, loops, push>>

\* The first reconcile subscribes the command topic when it has published.
Subscribed == at["tick"] \in {"idle", "poll"}

\* A command comes to the head of the lane.
Handle ==
  /\ Subscribed /\ handler.at = "idle" /\ Free("handler")
  /\ Arrives
  /\ handler' = [at |-> "writing", target |-> Asked]
  /\ rec' = Begun(Current(rec), Asked)
  /\ rpcs' = Append(rpcs, [target |-> Asked, at |-> "waiting", held |-> TRUE,
                           eras |-> <<>>, source |-> 0])
  /\ UNCHANGED <<laneOnly, publisher>>

\* The lane folds a command into the write that still waits.
Fold ==
  /\ handler.at = "writing" /\ Last(rpcs).held /\ Last(rpcs).at = "waiting"
  /\ Arrives
  /\ rpcs' = [rpcs EXCEPT ![Len(rpcs)].target = Asked]
  /\ handler' = [at |-> "folded", target |-> Asked]
  /\ UNCHANGED <<laneOnly, rec, publisher>>

\* The handler returns as superseded and runs again for the folded command;
\* the ticket tells it at once of an issue that has happened meanwhile.
HandleFolded ==
  /\ handler.at = "folded"
  /\ handler' = [handler EXCEPT !.at = "writing"]
  /\ UNCHANGED <<laneOnly, rpcs, publisher, bounds>>
  /\ LET w == Last(rpcs)
         r == Begun(Current(rec), handler.target)
     IN rec' = IF w.at = "waiting" THEN r ELSE Issued(r, w)

\* The write gets the device: its fields enter a new era.
Issue ==
  /\ rpcs # <<>> /\ Head(rpcs).at = "waiting"
  /\ UNCHANGED <<source, mirror, actual, loops, push, handler, publisher, bounds>>
  /\ LET t == Head(rpcs).target
         w == [Head(rpcs) EXCEPT !.at = "issued", !.source = source,
                                 !.eras = [f \in DOMAIN t |-> eras[f] + 1]]
     IN /\ rpcs' = [rpcs EXCEPT ![1] = w]
        /\ eras' = [f \in Fields |-> IF f \in DOMAIN t THEN eras[f] + 1 ELSE eras[f]]
        /\ rec' = Issued(Current(rec), w)

\* The load follows a write the panel took, or it does not.
Take ==
  /\ rpcs # <<>> /\ Head(rpcs).at = "issued"
  /\ rpcs' = [rpcs EXCEPT ![1].at = "taken"]
  /\ actual' = [f \in Fields |-> IF f \in DOMAIN Head(rpcs).target
                                 THEN Head(rpcs).target[f] ELSE actual[f]]
  /\ UNCHANGED <<source, eras, mirror, loops, push, rec, handler, publisher, bounds>>

\* The write returns to the handler that awaits it.
Answers == rpcs # <<>> /\ Head(rpcs).held /\ handler.at = "writing"

Succeed ==
  /\ Answers /\ Head(rpcs).at \in {"issued", "taken"}
  /\ rpcs' = Tail(rpcs)
  /\ handler' = NoHandler
  /\ UNCHANGED <<laneOnly, bounds>>
  /\ Publish("handler", Succeeded(Current(rec), commands), FALSE)

Fail ==
  /\ Answers /\ Head(rpcs).at = "issued"
  /\ rpcs' = Tail(rpcs)
  /\ handler' = NoHandler
  /\ UNCHANGED <<laneOnly, bounds>>
  /\ Publish("handler", Failed(Current(rec)), TRUE)

\* The deadline of the handler passes; the write goes on without it.
Timeout ==
  /\ Answers /\ Head(rpcs).at \in {"issued", "taken"}
  /\ rpcs' = [rpcs EXCEPT ![1].held = FALSE]
  /\ handler' = NoHandler
  /\ UNCHANGED <<laneOnly, bounds>>
  /\ Publish("handler", Failed(Current(rec)), TRUE)

\* The answer to a write nobody awaits.
Settle ==
  /\ rpcs # <<>> /\ ~Head(rpcs).held /\ Head(rpcs).at \in {"issued", "taken"}
  /\ rpcs' = Tail(rpcs)
  /\ UNCHANGED <<laneOnly, rec, handler, publisher, bounds>>

\* The slot's one timer ends.
Expire ==
  /\ rec.deadline # None
  /\ UNCHANGED <<laneOnly, lane, bounds>>
  /\ LET r == Current(rec)
     IN Publish("timer", IF r.deadline = None THEN r ELSE Expired(r), TRUE)

-----------------------------------------------------------------------------
\* The session ends (shutdown_wired_feedback), and the next one begins with a
\* bridge of its own.  A write that was issued may still take.
NewSession ==
  /\ at["tick"] # "start"
  /\ Fault
  /\ source' = source + 1 /\ eras' = [f \in Fields |-> 0]
  /\ rec' = NewRecord(source')
  /\ at' = [t \in Loops |-> IF t = "tick" THEN "start" ELSE "idle"] /\ cap' = [t \in Loops |-> None]
  /\ push' = None /\ handler' = NoHandler
  /\ rpcs' = IF rpcs # <<>> /\ Head(rpcs).at # "waiting"
             THEN <<[Head(rpcs) EXCEPT !.held = FALSE]>> ELSE <<>>
  /\ pub' = None /\ dirty' = FALSE /\ force' = FALSE /\ cached' = None
  /\ window' = None
  /\ UNCHANGED <<wire, mirror, actual>>

Init ==
  /\ source = 0 /\ eras = [f \in Fields |-> 0]
  /\ rec = NewRecord(0)
  /\ at = [t \in Loops |-> IF t = "tick" THEN "start" ELSE "idle"] /\ cap = [t \in Loops |-> None]
  /\ push = None /\ handler = NoHandler /\ rpcs = <<>>
  /\ pub = None /\ dirty = FALSE /\ force = FALSE /\ cached = None
  /\ wire = None /\ window = None
  /\ actual = [f \in Fields |-> CHOOSE v \in Values : TRUE]
  /\ mirror = actual
  /\ commands = 0 /\ faults = 0

Loop(t) == Returned(t) \/ Announced(t)
Bus == Issue \/ Take \/ Succeed \/ Settle

\* Tasks that can run do, writes return, the mirror catches up and the timer
\* ends: one of these things happens when one can, and apart from them the tick
\* loop polls.  A fairness for each is implied: none of them happens for ever.
Works ==
  \/ Reconcile \/ Registered \/ \E t \in Loops : Loop(t)
  \/ Retire \/ ReconnectRead \/ Notify \/ Push
  \/ HandleFolded \/ Bus \/ Expire \/ Complete

Next ==
  \/ Works \/ PollRead \/ Polled
  \/ Reconnect \/ \E f \in Fields, v \in Reports : ByHand(f, v)
  \/ Handle \/ Fold \/ Fail \/ Timeout \/ PublishFails \/ NewSession

Spec == Init /\ [][Next]_vars

Fairness == WF_vars(Works) /\ WF_vars(PollRead \/ Polled)

FairSpec == Spec /\ Fairness

-----------------------------------------------------------------------------
Known == [Fields -> Values \cup {None}]
Targets == UNION {[F -> Values] : F \in SUBSET Fields}
Eras == UNION {[F -> 0 .. Len(Commands)] : F \in SUBSET Fields}
Attempts == [target: Targets, eras: Eras, source: Nat]
Requests == [target: Targets, eras: Eras, source: Nat, projected: SUBSET Fields,
             unresolved: SUBSET Fields, ambiguous: SUBSET Fields,
             status: {"provisional", "ambiguous", "observed", "unconfirmed"}]
ASSUME NoneAssumption == None \notin Requests
Documents ==
  [state: Known, status: {"idle", "observed", "unconfirmed"}, asked: {None}, deadline: {None}]
    \cup [state: Known, status: {"provisional", "ambiguous"}, asked: Targets, deadline: Nat \cup {None}]

\* Every variable holds what its place in the program can hold; a document that
\* tells of no pending request carries neither its targets nor its deadline.
TypeOK ==
  /\ source \in Nat /\ eras \in [Fields -> Nat] /\ commands \in Nat /\ faults \in Nat
  /\ rec \in [source: Nat, native: Known \cup {None}, era: [Fields -> Nat \cup {-1}],
              attempt: Attempts \cup {None}, feedback: Requests \cup {None},
              deadline: Nat \cup {None}, debt: BOOLEAN, moved: BOOLEAN, owes: BOOLEAN]
  /\ at["tick"] \in {"start", "read", "announce", "register", "idle", "poll"}
  /\ at["reconnect"] \in {"idle", "retire", "retired", "read", "announce", "register"}
  /\ handler \in [at: {"idle", "writing", "folded"}, target: Range(Commands) \cup {None}]
  /\ rpcs \in Seq([target: Targets, at: {"waiting", "issued", "taken"}, held: BOOLEAN,
                   eras: Eras, source: Nat])
  /\ pub \in [owner: Tasks \cup {None}, fields: Documents, native: BOOLEAN] \cup {None}
  /\ dirty \in BOOLEAN /\ force \in BOOLEAN
  /\ cached \in Documents \cup {None} /\ wire \in Documents \cup {None}
  /\ mirror \in Known /\ actual \in Known /\ window \in Nat \cup {None}

\* Requested values are shown under one deadline until native ones have been
\* shown again: no success extends the time for which they can hide the load.
WindowIsNotRenewed ==
  pub # None /\ ~pub.native =>
    pub.fields.deadline # None /\ window \in {None, pub.fields.deadline}

\* A field is projected only until a capture made after its write was issued in
\* the same generation of the bus is seen, whatever the order captures arrive in.
ProjectionYields ==
  rec.feedback # None =>
    \A f \in rec.feedback.projected :
      rec.source = rec.feedback.source => rec.era[f] < rec.feedback.eras[f]

\* The diff cache claims only what the broker retains, or nothing after a
\* publication that may not have got there; else the repair would be suppressed.
CacheIsHonest == cached # None /\ pub = None => cached = wire

\* When commands and faults cease, the wire shows what the load reports, and no
\* request that has a deadline is pending any more.
EventuallyNative ==
  <>[](/\ wire # None /\ wire.state = actual
       /\ wire.status # "provisional" /\ wire.deadline = None)
=============================================================================
