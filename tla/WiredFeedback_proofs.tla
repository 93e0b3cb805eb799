------------------------ MODULE WiredFeedback_proofs ------------------------
(***************************************************************************)
(* Proofs about the feedback of a wired load: the types, and the three     *)
(* promises the publications rest on, for any commands, values and faults. *)
(***************************************************************************)
EXTENDS WiredFeedback, SequenceTheorems, TLAPS

-----------------------------------------------------------------------------
(* The inductive invariant                                                 *)

Records ==
  [source: Nat, native: Known \cup {None}, era: [Fields -> Nat \cup {-1}],
   attempt: Attempts \cup {None}, feedback: Requests \cup {None},
   deadline: Nat \cup {None}, debt: BOOLEAN, moved: BOOLEAN, owes: BOOLEAN]
Captures == [source: Nat, val: Known, era: [Fields -> Nat \cup {-1}]]
Publishers == [owner: Tasks \cup {None}, fields: Documents, native: BOOLEAN]
Writes == [target: Targets, at: {"waiting", "issued", "taken"}, held: BOOLEAN,
           eras: Eras, source: Nat]
Pending == {"provisional", "ambiguous"}

\* What every event of the reducer keeps of a record.  A field is projected for a
\* pending request only, under a deadline, until a capture of its issue; a status
\* tells whether fields are unresolved; and a deadline outlives the request it was
\* begun for only together with a debt.
Consistent(r) ==
  /\ r.feedback # None =>
       /\ r.feedback.projected # {} => r.feedback.status \in Pending /\ r.deadline # None
       /\ r.feedback.projected \subseteq DOMAIN r.feedback.target
       /\ r.feedback.status \in Pending => r.feedback.unresolved # {}
       /\ r.feedback.status = "observed" => r.feedback.unresolved = {}
       /\ \A f \in r.feedback.projected :
            f \in DOMAIN r.feedback.eras /\ r.era[f] < r.feedback.eras[f]
  /\ r.deadline # None =>
       r.feedback # None /\ (r.debt \/ r.feedback.status \in Pending)

\* Record s comes after r without a native publication between them: the
\* deadline is the same or native values are owed; no attempt has begun.
Follows(r, s) ==
  /\ \A d \in Nat : d = r.deadline \/ r.debt => d = s.deadline \/ s.debt
  /\ s.attempt \in {r.attempt, None}

\* Requested values that are on the wire since w are there under the record's
\* deadline, or native ones are owed; and those that publisher p carries too.
OneWindow(r, p, w) ==
  /\ w # None => w = r.deadline \/ r.debt
  /\ p # None /\ ~p.native =>
       /\ p.fields.deadline # None
       /\ w \in {None, p.fields.deadline}
       /\ p.fields.deadline = r.deadline \/ r.debt

\* An attempt that knows its issue has an era for each field it set.
AttemptIssued(r) == r.attempt # None => DOMAIN r.attempt.target \subseteq DOMAIN r.attempt.eras

\* What the publisher relies on.
PublisherInv ==
  /\ rec \in Records /\ Consistent(rec)
  /\ pub \in Publishers \cup {None} /\ dirty \in BOOLEAN /\ force \in BOOLEAN
  /\ cached \in Documents \cup {None} /\ wire \in Documents \cup {None}
  /\ window \in Nat \cup {None}
  /\ OneWindow(rec, pub, window)
  /\ cached # None => cached = wire

\* What write w may be at place i of n: one that its handler awaits is the last, one
\* that nobody awaits is on its way, and only the first can be on its way.
InPlace(w, i, n) ==
  /\ w.held => i = n
  /\ ~w.held => i = 1 /\ w.at # "waiting"
  /\ i > 1 => w.at = "waiting"
  /\ w.at # "waiting" => DOMAIN w.target \subseteq DOMAIN w.eras

\* The writes of the load are one or two, each in its place.
Lined(s) == /\ s \in Seq(Writes) /\ Len(s) <= 2
            /\ \A i \in 1 .. Len(s) : InPlace(s[i], i, Len(s))
Held(s) == s # <<>> /\ s[Len(s)].held
Waits(s) == s # <<>> /\ s[Len(s)].at = "waiting"

\* The handler that is not idle holds the last write, and knows of its issue; every
\* issue, the one to come included, has a command of its own.
LaneInv ==
  /\ commands \in 0 .. Len(Commands) /\ faults \in Nat
  /\ eras \in [Fields -> Nat]
  /\ handler \in [at: {"idle", "writing", "folded"}, target: Range(Commands) \cup {None}]
  /\ handler.at # "idle" => handler.target \in Range(Commands)
  /\ Lined(rpcs)
  /\ handler.at # "idle" <=> Held(rpcs)
  /\ handler.at = "writing" /\ ~Waits(rpcs) => AttemptIssued(rec)
  /\ \A f \in Fields : eras[f] + (IF Waits(rpcs) THEN 1 ELSE 0) <= commands

\* The captures in flight, and the load.
CaptureInv ==
  /\ source \in Nat /\ mirror \in Known /\ actual \in Known
  /\ at \in [Loops -> {"start", "read", "announce", "register", "idle", "poll",
                       "retire", "retired"}]
  /\ at["tick"] \notin {"retire", "retired"} /\ at["reconnect"] \notin {"start", "poll"}
  /\ cap \in [Loops -> Captures \cup {None}]
  /\ \A t \in Loops : at[t] \in {"poll", "read"} => cap[t] \in Captures
  /\ push \in Captures \cup {None}

IInv == PublisherInv /\ LaneInv /\ CaptureInv

-----------------------------------------------------------------------------
(* The events of the reducer                                               *)

\* A new source generation retires the request together with what it owes.
LEMMA RetiredKeeps ==
  ASSUME NEW r \in Records, NEW s \in Nat, Consistent(r)
  PROVE  Retired(r, s) \in Records /\ Consistent(Retired(r, s)) /\ Follows(r, Retired(r, s))
<1>1. CASE s <= r.source
  BY <1>1 DEF Retired, Follows, Records
<1>2. CASE ~(s <= r.source)
  <2> DEFINE r1 == [r EXCEPT !.source = s, !.era = NoEra, !.attempt = None,
                             !.feedback = None, !.deadline = None]
  <2>1. NoEra \in [Fields -> Nat \cup {-1}]
    BY DEF NoEra
  <2>2. UnderWay \in BOOLEAN
    BY DEF UnderWay
  <2>3. r1 \in Records /\ Moved(r1) \in Records /\ Owing(Moved(r1)) \in Records
    BY <2>1, <2>2 DEF Records, Moved, Owing
  <2>4. /\ Moved(r1).feedback = None /\ Moved(r1).deadline = None /\ Moved(r1).attempt = None
        /\ Moved(r1).debt = r.debt
        /\ Owing(Moved(r1)).feedback = None /\ Owing(Moved(r1)).deadline = None
        /\ Owing(Moved(r1)).attempt = None /\ Owing(Moved(r1)).debt
    BY <2>3 DEF Records, Moved, Owing
  <2>5. Retired(r, s) = IF r.feedback = None THEN Moved(r1) ELSE Owing(Moved(r1))
    BY <1>2 DEF Retired
  <2>6. r.feedback = None => r.deadline = None
    BY DEF Consistent
  <2> HIDE DEF r1
  <2> QED
    BY <2>3, <2>4, <2>5, <2>6, DataAssumption DEF Consistent, Follows
<1> QED
  BY <1>1, <1>2

\* The record an event finds is a good one.
LEMMA CurrentKeeps ==
  ASSUME PublisherInv, CaptureInv
  PROVE  Current(rec) \in Records /\ Consistent(Current(rec)) /\ Follows(rec, Current(rec))
BY RetiredKeeps DEF Current, PublisherInv, CaptureInv

\* What follows a record that follows another follows that one.
LEMMA FollowsTwice ==
  ASSUME NEW r, NEW s, NEW u, Follows(r, s), Follows(s, u)
  PROVE  Follows(r, u)
BY DEF Follows

\* A request that failed leaves its debt.
LEMMA FailedKeeps ==
  ASSUME NEW r \in Records, Consistent(r)
  PROVE  /\ Failed(r) \in Records /\ Consistent(Failed(r)) /\ Follows(r, Failed(r))
<1> DEFINE r1 == [r EXCEPT !.attempt = None, !.feedback = None, !.deadline = None]
<1>1. UnderWay \in BOOLEAN
  BY DEF UnderWay
<1>2. r1 \in Records /\ Owing(r1) \in Records
  BY <1>1 DEF Records, Owing
<1>3. /\ Owing(r1).feedback = None /\ Owing(r1).deadline = None
      /\ Owing(r1).attempt = None /\ Owing(r1).debt
  BY <1>2 DEF Records, Owing
<1>4. Failed(r) = IF r.attempt = None THEN r ELSE Owing(r1)
  BY DEF Failed
<1> HIDE DEF r1
<1> QED
  BY <1>2, <1>3, <1>4 DEF Consistent, Follows

\* The end of the timer leaves its debt, and projects nothing.
LEMMA ExpiredKeeps ==
  ASSUME NEW r \in Records, Consistent(r)
  PROVE  Expired(r) \in Records /\ Consistent(Expired(r)) /\ Follows(r, Expired(r))
<1> DEFINE fb == IF r.feedback = None THEN None
                 ELSE [r.feedback EXCEPT !.projected = {}, !.status = "unconfirmed"]
           r1 == [r EXCEPT !.deadline = None, !.feedback = fb]
<1>1. UnderWay \in BOOLEAN
  BY DEF UnderWay
<1>2. fb \in Requests \cup {None}
  BY DEF Records, Requests
<1>3. fb # None => fb.projected = {} /\ fb.status = "unconfirmed"
  BY DEF Records, Requests
<1> HIDE DEF fb
<1>4. r1 \in Records /\ Owing(r1) \in Records
  BY <1>1, <1>2 DEF Records, Owing
<1>5. /\ Owing(r1).feedback = fb /\ Owing(r1).deadline = None
      /\ Owing(r1).attempt = r.attempt /\ Owing(r1).debt
  BY <1>4 DEF Records, Owing
<1>6. Expired(r) = Owing(r1)
  BY DEF Expired, fb
<1> HIDE DEF r1
<1> QED
  BY <1>3, <1>4, <1>5, <1>6 DEF Consistent, Follows, Pending

\* A success shows the fields that no later capture has answered, under the
\* deadline that runs or else a new one.
LEMMA SucceededKeeps ==
  ASSUME NEW r \in Records, NEW d \in Nat, Consistent(r), AttemptIssued(r)
  PROVE  /\ Succeeded(r, d) \in Records /\ Consistent(Succeeded(r, d))
         /\ Follows(r, Succeeded(r, d))
<1>1. CASE r.attempt = None
  BY <1>1 DEF Succeeded, Follows
<1>2. CASE r.attempt # None
  <2> DEFINE a == r.attempt
             late == {f \in DOMAIN a.target : f \in DOMAIN a.eras /\ r.era[f] >= a.eras[f]}
             right == {f \in late : r.native # None /\ r.native[f] = a.target[f]}
             unresolved == DOMAIN a.target \ right
             ends == IF r.deadline = None THEN d ELSE r.deadline
             fb == [target |-> a.target, eras |-> a.eras, source |-> a.source,
                    projected |-> DOMAIN a.target \ late, unresolved |-> unresolved,
                    ambiguous |-> late \ right, status |-> Status(unresolved, late \ right)]
             r1 == [r EXCEPT !.attempt = None, !.deadline = ends, !.feedback = fb]
  <2>1. UnderWay \in BOOLEAN
    BY DEF UnderWay
  <2>2. a \in Attempts
    BY <1>2 DEF Records
  <2>3. DOMAIN a.target \subseteq Fields /\ DOMAIN a.target \subseteq DOMAIN a.eras
    BY <1>2, <2>2 DEF Attempts, Targets, AttemptIssued
  <2>4. \A f \in DOMAIN a.eras : a.eras[f] \in Int
    BY <2>2 DEF Attempts, Eras
  <2>5. /\ Status(unresolved, late \ right) \in {"provisional", "ambiguous", "observed"}
        /\ Status(unresolved, late \ right) = "observed" <=> unresolved = {}
    BY DEF Status
  <2>6. \A f \in DOMAIN a.target \ late : f \in DOMAIN a.eras /\ r.era[f] < a.eras[f]
    BY <2>3, <2>4 DEF Records
  <2>7. DOMAIN a.target \ late \subseteq unresolved
    OBVIOUS
  <2>8. late \ right \subseteq Fields /\ unresolved \subseteq Fields
    BY <2>3
  <2> HIDE DEF late, right, unresolved
  <2>9. fb \in Requests
    BY <2>2, <2>3, <2>5, <2>8 DEF Attempts, Requests
  <2>10. /\ fb.target = a.target /\ fb.eras = a.eras /\ fb.projected = DOMAIN a.target \ late
         /\ fb.unresolved = unresolved /\ fb.status = Status(unresolved, late \ right)
    OBVIOUS
  <2>11. fb # None
    BY <2>9, NoneAssumption
  <2>12. ends \in Nat /\ ends # None /\ (r.deadline # None => ends = r.deadline)
    BY DataAssumption DEF Records
  <2> HIDE DEF fb, ends
  <2>13. r1 \in Records /\ Moved(r1) \in Records /\ Owing(Moved(r1)) \in Records
    BY <2>1, <2>9, <2>12 DEF Records, Moved, Owing
  <2>14. /\ Moved(r1).feedback = fb /\ Moved(r1).deadline = ends /\ Moved(r1).attempt = None
         /\ Moved(r1).debt = r.debt /\ Moved(r1).era = r.era
         /\ Owing(Moved(r1)).feedback = fb /\ Owing(Moved(r1)).deadline = ends
         /\ Owing(Moved(r1)).attempt = None /\ Owing(Moved(r1)).debt
         /\ Owing(Moved(r1)).era = r.era
    BY <2>13 DEF Records, Moved, Owing
  <2>15. Succeeded(r, d) = IF unresolved = {} /\ ~r.debt THEN Owing(Moved(r1)) ELSE Moved(r1)
    BY <1>2 DEF Succeeded, late, right, unresolved, ends, fb
  <2> HIDE DEF r1
  <2>16. ASSUME NEW s, s \in {Moved(r1), Owing(Moved(r1))},
                unresolved = {} => s.debt, r.debt => s.debt
         PROVE  Consistent(s) /\ Follows(r, s)
    <3>1. s.feedback = fb /\ s.deadline = ends /\ s.attempt = None /\ s.era = r.era
      BY <2>14, <2>16
    <3>2. unresolved # {} => fb.status \in Pending
      BY <2>5, <2>10 DEF Pending
    <3>3. fb.status \in Pending => unresolved # {}
      BY <2>5, <2>10 DEF Pending
    <3>4. fb.projected # {} => unresolved # {}
      BY <2>7, <2>10
    <3>5. Consistent(s)
      BY <2>5, <2>6, <2>10, <2>11, <2>12, <2>16, <3>1, <3>2, <3>3, <3>4 DEF Consistent, late
    <3>6. Follows(r, s)
      BY <2>12, <2>16, <3>1, DataAssumption DEF Follows, Consistent
    <3> QED BY <3>5, <3>6
  <2>17. r.debt \in BOOLEAN
    BY DEF Records
  <2> QED
    BY <2>13, <2>14, <2>15, <2>16, <2>17
<1> QED
  BY <1>1, <1>2

\* Request next is what a capture that shows the fields seen leaves of request fb:
\* they are not projected any more, and the status tells whether some are unresolved.
LeftOf(fb, seen, next) ==
  /\ next \in Requests /\ next.target = fb.target /\ next.eras = fb.eras
  /\ next.projected \subseteq fb.projected \ seen
  /\ next.projected # {} => next.unresolved # {}
  /\ next.unresolved # {} <=> next.status \in Pending
  /\ next.unresolved = {} <=> next.status = "observed"

\* Answered leaves that.
LEMMA AnsweredKeeps ==
  ASSUME NEW fb \in Requests, NEW seen \in SUBSET Fields, NEW right \in SUBSET Fields
  PROVE  LeftOf(fb, seen, Answered(fb, seen, right))
<1> DEFINE unresolved == (fb.unresolved \cup seen) \ right
           ambiguous == (fb.ambiguous \cup seen) \ right
           projected == IF unresolved = {} THEN {} ELSE fb.projected \ seen
           status == Status(unresolved, ambiguous)
           after == [fb EXCEPT !.unresolved = unresolved, !.ambiguous = ambiguous,
                               !.projected = projected, !.status = status]
<1>1. /\ unresolved \subseteq Fields /\ ambiguous \subseteq Fields
      /\ projected \subseteq Fields /\ projected \subseteq fb.projected \ seen
      /\ projected # {} => unresolved # {}
  BY DEF Requests
<1>2. /\ status \in {"provisional", "ambiguous", "observed", "unconfirmed"}
      /\ unresolved # {} <=> status \in Pending
      /\ unresolved = {} <=> status = "observed"
  BY DEF Status, Pending
<1>3. Answered(fb, seen, right) = after
  BY DEF Answered
<1> HIDE DEF unresolved, ambiguous, projected, status
<1>4. /\ after \in Requests
      /\ after.target = fb.target /\ after.eras = fb.eras
      /\ after.projected = projected /\ after.unresolved = unresolved /\ after.status = status
  BY <1>1, <1>2 DEF Requests
<1> QED
  BY <1>1, <1>2, <1>3, <1>4 DEF LeftOf

\* A capture moves the eras on, so a field stays projected only if it predates the
\* issue; one that settles the request leaves the debt of native values.
LEMMA CapturedKeeps ==
  ASSUME NEW r \in Records, NEW c \in Captures, Consistent(r)
  PROVE  Captured(r, c) \in Records /\ Consistent(Captured(r, c)) /\ Follows(r, Captured(r, c))
<1> DEFINE took == Accepted(r, c)
           native == [f \in Fields |-> IF f \in took THEN c.val[f]
                                       ELSE IF r.native = None THEN None ELSE r.native[f]]
           era == [f \in Fields |-> IF f \in took THEN c.era[f] ELSE r.era[f]]
           r1 == Moved([r EXCEPT !.native = native, !.era = era])
           fb == r.feedback
           seen == {f \in took \cap DOMAIN fb.target : NotPreissue(c, f, fb)}
           right == {f \in seen : r1.native[f] = fb.target[f]}
           after == Answered(fb, seen, right)
           resolves == IF after.unresolved = {} THEN fb.unresolved # {} \/ fb.projected # {}
                       ELSE fb.projected # {} /\ after.projected = {}
           dropped == [r1 EXCEPT !.feedback = None]
           r2 == [r1 EXCEPT !.feedback = after]
<1>1. UnderWay \in BOOLEAN
  BY DEF UnderWay
<1>2. native \in Known /\ era \in [Fields -> Nat \cup {-1}]
  BY DEF Records, Captures, Known
<1>3. \A f \in Fields : era[f] = IF f \in took THEN c.era[f] ELSE r.era[f]
  OBVIOUS
<1>4. took \subseteq Fields
  BY DEF Accepted
<1> HIDE DEF took, native, era
<1>5. /\ r1 \in Records /\ r1.era = era /\ r1.feedback = fb /\ r1.deadline = r.deadline
      /\ r1.debt = r.debt /\ r1.attempt = r.attempt
  BY <1>1, <1>2 DEF Records, Moved
<1> HIDE DEF r1
<1>6. CASE fb = None
  <2>1. Captured(r, c) = r1
    BY <1>6 DEF Captured, took, native, era, r1
  <2> QED
    BY <1>5, <1>6, <2>1 DEF Consistent, Follows
<1>7. CASE fb # None
  <2>1. fb \in Requests
    BY <1>7 DEF Records
  <2>2. seen \in SUBSET Fields /\ right \in SUBSET Fields
    BY <1>4
  <2>3. \A f \in fb.projected \ seen : f \in DOMAIN fb.eras /\ era[f] < fb.eras[f]
    <3> SUFFICES ASSUME NEW f \in fb.projected \ seen
                 PROVE  f \in DOMAIN fb.eras /\ era[f] < fb.eras[f]
      OBVIOUS
    <3>1. f \in Fields /\ f \in DOMAIN fb.target /\ f \in DOMAIN fb.eras /\ r.era[f] < fb.eras[f]
      BY <1>7, <2>1 DEF Consistent, Requests
    <3>2. CASE f \in took
      <4>1. ~NotPreissue(c, f, fb)
        BY <3>1, <3>2
      <4>2. c.era[f] \in Int /\ fb.eras[f] \in Int
        BY <2>1, <3>1 DEF Captures, Requests, Eras
      <4> QED
        BY <1>3, <3>1, <3>2, <4>1, <4>2 DEF NotPreissue
    <3>3. CASE f \notin took
      BY <1>3, <3>1, <3>3
    <3> QED
      BY <3>2, <3>3
  <2> HIDE DEF seen, right
  <2>4. LeftOf(fb, seen, after)
    BY <2>1, <2>2, AnsweredKeeps
  <2>5. Captured(r, c) = IF fb.status \in {"observed", "unconfirmed"} /\ ~r.debt /\ seen # {}
                         THEN dropped
                         ELSE IF fb.status = "unconfirmed" THEN r1
                         ELSE IF resolves THEN Owing(r2) ELSE r2
    BY <1>7 DEF Captured, took, native, era, r1, seen, right
  <2> HIDE DEF after
  <2>6. /\ fb.projected # {} => fb.status \in Pending /\ r.deadline # None
        /\ fb.projected \subseteq DOMAIN fb.target
        /\ fb.status \in Pending => fb.unresolved # {}
        /\ fb.status = "observed" => fb.unresolved = {}
        /\ r.deadline # None => r.debt \/ fb.status \in Pending
    BY <1>7 DEF Consistent
  <2>7. CASE fb.status \in {"observed", "unconfirmed"} /\ ~r.debt /\ seen # {}
    <3>1. /\ dropped \in Records /\ dropped.feedback = None /\ dropped.deadline = r.deadline
          /\ dropped.debt = r.debt /\ dropped.attempt = r.attempt
      BY <1>5 DEF Records
    <3>2. r.deadline = None
      BY <2>6, <2>7 DEF Pending
    <3> QED
      BY <2>5, <2>7, <3>1, <3>2 DEF Consistent, Follows
  <2>8. CASE fb.status = "unconfirmed" /\ (r.debt \/ seen = {})
    <3>1. Captured(r, c) = r1
      BY <2>5, <2>8
    <3>2. fb.projected = {}
      BY <2>6, <2>8 DEF Pending
    <3> QED
      BY <1>5, <1>7, <2>6, <2>8, <3>1, <3>2 DEF Consistent, Follows
  <2>9. CASE fb.status # "unconfirmed" /\ ~(fb.status = "observed" /\ ~r.debt /\ seen # {})
    <3>1. /\ r2 \in Records /\ r2.feedback = after /\ r2.deadline = r.deadline
          /\ r2.debt = r.debt /\ r2.attempt = r.attempt /\ r2.era = era
      BY <1>5, <2>4 DEF Records, LeftOf
    <3> HIDE DEF r2
    <3>2. /\ Owing(r2) \in Records /\ Owing(r2).feedback = after
          /\ Owing(r2).deadline = r.deadline /\ Owing(r2).debt
          /\ Owing(r2).attempt = r.attempt /\ Owing(r2).era = era
      BY <1>1, <3>1 DEF Records, Owing
    <3>3. Captured(r, c) = IF resolves THEN Owing(r2) ELSE r2
      BY <2>5, <2>9
    <3>4. r.debt \in BOOLEAN /\ fb.status \in Pending \cup {"observed"}
      BY <2>1, <2>9 DEF Records, Requests, Pending
    <3>5. after.unresolved = {} /\ fb.status \in Pending => resolves
      BY <2>6
    <3> HIDE DEF resolves
    <3>6. ASSUME NEW s, s \in {r2, Owing(r2)}, resolves => s.debt, r.debt => s.debt
          PROVE  Consistent(s) /\ Follows(r, s)
      <4>1. s.feedback = after /\ s.deadline = r.deadline /\ s.attempt = r.attempt /\ s.era = era
        BY <3>1, <3>2, <3>6
      <4>2. after.projected # {} => after.status \in Pending /\ r.deadline # None
        BY <2>4, <2>6 DEF LeftOf
      <4>3. \A f \in after.projected : f \in DOMAIN after.eras /\ era[f] < after.eras[f]
        BY <2>3, <2>4 DEF LeftOf
      <4>4. r.deadline # None => after # None /\ (s.debt \/ after.status \in Pending)
        BY <2>4, <2>6, <3>4, <3>5, <3>6, NoneAssumption DEF LeftOf
      <4>5. Consistent(s)
        BY <2>4, <2>6, <4>1, <4>2, <4>3, <4>4 DEF Consistent, LeftOf, Pending
      <4>6. Follows(r, s)
        BY <3>6, <4>1 DEF Follows
      <4> QED
        BY <4>5, <4>6
    <3> QED
      BY <3>1, <3>2, <3>3, <3>4, <3>6
  <2> QED
    BY <2>7, <2>8, <2>9
<1> QED
  BY <1>6, <1>7

\* A capture of an older generation is dropped, any other is taken.
LEMMA CaptureKeeps ==
  ASSUME PublisherInv, CaptureInv, NEW c \in Captures
  PROVE  Capture(c) \in Records /\ Consistent(Capture(c)) /\ Follows(rec, Capture(c))
<1>1. Current(rec) \in Records /\ Consistent(Current(rec)) /\ Follows(rec, Current(rec))
  BY CurrentKeeps
<1> QED
  BY <1>1, CapturedKeeps, FollowsTwice DEF Capture

-----------------------------------------------------------------------------
(* The publisher                                                           *)

\* A record without a publication of its own still explains what is on the wire.
LEMMA FollowsKeepsWindow ==
  ASSUME NEW r, NEW s, NEW p \in Publishers \cup {None}, NEW w \in Nat \cup {None},
         Follows(r, s), OneWindow(r, p, w)
  PROVE  OneWindow(s, p, w)
<1>1. p # None /\ p.fields.deadline # None => p.fields.deadline \in Nat
  BY DEF Publishers, Documents
<1> QED
  BY <1>1 DEF Follows, OneWindow

\* A rendering has the form of a document, and one that shows requested values
\* carries the record's deadline.
LEMMA RoundRenders ==
  ASSUME NEW t \in Tasks \cup {None}, NEW r \in Records, NEW c \in Documents \cup {None},
         NEW forced \in BOOLEAN, NEW w \in Nat \cup {None},
         Consistent(r), w # None => w = r.deadline \/ r.debt
  PROVE  /\ Round(t, r, c, forced) \in Publishers \cup {None}
         /\ OneWindow(r, Round(t, r, c, forced), w)
<1>1. CASE Round(t, r, c, forced) = None
  BY <1>1 DEF OneWindow
<1>2. CASE Round(t, r, c, forced) # None
  <2>1. r.native # None /\ Round(t, r, c, forced)
          = [owner |-> t, fields |-> Rendered(r), native |-> IsNative(r)]
    BY <1>2 DEF Round
  <2>2. r.native \in Known
    BY <2>1 DEF Records
  <2> DEFINE state == [f \in Fields |-> Shown(r, f)]
  <2>3. state \in Known
    <3> SUFFICES ASSUME NEW f \in Fields
                 PROVE  Shown(r, f) \in Values \cup {None}
      BY DEF Known
    <3>1. CASE Projects(r) /\ f \in r.feedback.projected
      <4>1. r.feedback \in Requests /\ f \in DOMAIN r.feedback.target
        BY <3>1 DEF Projects, Records, Consistent
      <4>2. r.feedback.target[f] \in Values
        BY <4>1 DEF Requests, Targets
      <4> QED
        BY <2>2, <4>2 DEF Shown, Known
    <3>2. CASE ~(Projects(r) /\ f \in r.feedback.projected)
      BY <2>2, <3>2 DEF Shown, Known
    <3> QED
      BY <3>1, <3>2
  <2> HIDE DEF state
  <2>4. /\ Rendered(r) \in Documents
        /\ Projects(r) /\ ~r.debt => Rendered(r).deadline = r.deadline
    <3>1. r.feedback # None => r.feedback \in Requests
      BY DEF Records
    <3>2. r.feedback # None => /\ r.feedback.target \in Targets
                               /\ r.feedback.status \in
                                    {"provisional", "ambiguous", "observed", "unconfirmed"}
      BY <3>1 DEF Requests
    <3>3. r.deadline \in Nat \cup {None}
      BY DEF Records
    <3>4. Projects(r) => r.feedback # None /\ r.feedback.status \in {"provisional", "ambiguous"}
      BY DEF Projects, Consistent, Pending
    <3>5. Rendered(r) =
            IF r.debt /\ (Projects(r) \/ r.feedback = None)
            THEN [state |-> state, status |-> "unconfirmed", asked |-> None, deadline |-> None]
            ELSE IF r.feedback = None
            THEN [state |-> state, status |-> "idle", asked |-> None, deadline |-> None]
            ELSE IF r.feedback.status \in {"provisional", "ambiguous"}
            THEN [state |-> state, status |-> r.feedback.status,
                  asked |-> r.feedback.target, deadline |-> r.deadline]
            ELSE [state |-> state, status |-> r.feedback.status, asked |-> None,
                  deadline |-> None]
      BY DEF Rendered, state
    <3> QED
      BY <2>3, <3>2, <3>3, <3>4, <3>5 DEF Documents
  <2>5. IsNative(r) \in BOOLEAN /\ (~IsNative(r) <=> Projects(r) /\ ~r.debt)
    BY DEF IsNative, Projects, Records
  <2>6. ~IsNative(r) => r.deadline # None
    BY <2>5 DEF Projects, Consistent
  <2> QED
    BY <2>1, <2>4, <2>5, <2>6 DEF Publishers, OneWindow
<1> QED
  BY <1>1, <1>2

\* Forgetting what changed since the rendering leaves the record what it was.
LEMMA CleanKeeps ==
  ASSUME NEW r \in Records, Consistent(r)
  PROVE  /\ Clean(r) \in Records /\ Consistent(Clean(r)) /\ Follows(r, Clean(r))
         /\ Clean(r).attempt = r.attempt
<1>1. /\ Clean(r) \in Records
      /\ Clean(r).feedback = r.feedback /\ Clean(r).deadline = r.deadline
      /\ Clean(r).debt = r.debt /\ Clean(r).era = r.era /\ Clean(r).attempt = r.attempt
  BY DEF Clean, Records
<1> QED
  BY <1>1 DEF Consistent, Follows

\* A native publication pays the debt, and ends the deadline of a request that is
\* not pending; one of requested values does not.
LEMMA PaidKeeps ==
  ASSUME NEW r \in Records, NEW native \in BOOLEAN, Consistent(r)
  PROVE  /\ Paid(r, native) \in Records /\ Consistent(Paid(r, native))
         /\ Paid(r, native).attempt = r.attempt
         /\ Paid(r, native).moved \in BOOLEAN
         /\ ~native => Paid(r, native) = r
<1>1. CASE ~native \/ r.owes
  BY <1>1 DEF Paid, Records
<1>2. CASE native /\ ~r.owes
  <2> DEFINE ends == IF r.feedback # None /\ r.feedback.status \in {"observed", "unconfirmed"}
                     THEN None ELSE r.deadline
             moved == r.moved \/ (r.debt /\ Projects(r))
             r1 == [r EXCEPT !.debt = FALSE, !.deadline = ends, !.moved = moved]
  <2>1. ends \in Nat \cup {None} /\ moved \in BOOLEAN
    BY DEF Records
  <2>2. r.feedback # None => r.feedback.status \in Pending \cup {"observed", "unconfirmed"}
    BY DEF Records, Requests, Pending
  <2>3. /\ r.feedback # None /\ r.feedback.status \in Pending => ends = r.deadline
        /\ ends # None => /\ ends = r.deadline
                          /\ r.feedback # None => r.feedback.status \in Pending
    BY <2>2 DEF Pending
  <2>4. Paid(r, native) = r1
    BY <1>2 DEF Paid
  <2> HIDE DEF ends, moved
  <2>5. /\ r1 \in Records /\ r1.feedback = r.feedback /\ r1.deadline = ends
        /\ r1.attempt = r.attempt /\ r1.era = r.era /\ r1.moved = moved
    BY <2>1 DEF Records
  <2> HIDE DEF r1
  <2>6. Consistent(r1)
    BY <2>3, <2>5 DEF Consistent
  <2> QED
    BY <1>2, <2>1, <2>4, <2>5, <2>6
<1> QED
  BY <1>1, <1>2 DEF Records

\* A failed native publication leaves the debt of another.
LEMMA UnpaidKeeps ==
  ASSUME NEW r \in Records, NEW native \in BOOLEAN, Consistent(r)
  PROVE  /\ Unpaid(r, native) \in Records /\ Consistent(Unpaid(r, native))
         /\ Follows(r, Unpaid(r, native)) /\ Unpaid(r, native).attempt = r.attempt
<1> DEFINE r1 == [r EXCEPT !.debt = TRUE]
<1>1. /\ r1 \in Records /\ r1.feedback = r.feedback /\ r1.deadline = r.deadline
      /\ r1.attempt = r.attempt /\ r1.era = r.era /\ r1.debt
  BY DEF Records
<1>2. Unpaid(r, native) \in {r, r1}
  BY DEF Unpaid
<1> HIDE DEF r1
<1> QED
  BY <1>1, <1>2 DEF Consistent, Follows

\* An event whose record is r and whose publication is asked for.
LEMMA PublishKeeps ==
  ASSUME PublisherInv, NEW t \in Tasks, NEW r \in Records, NEW forced \in BOOLEAN,
         Consistent(r), OneWindow(r, pub, window), Publish(t, r, forced)
  PROVE  PublisherInv' /\ rec'.attempt = r.attempt
<1>1. /\ UNCHANGED <<cached, wire, window>>
      /\ pub \in Publishers \cup {None} /\ force \in BOOLEAN
      /\ cached \in Documents \cup {None} /\ wire \in Documents \cup {None}
      /\ window \in Nat \cup {None} /\ (cached # None => cached = wire)
  BY DEF Publish, PublisherInv
<1>2. CASE UnderWay
  <2>1. /\ rec' = r /\ dirty' = TRUE /\ force' = (force \/ forced) /\ pub' = pub
    BY <1>2 DEF Publish
  <2> QED
    BY <1>1, <2>1 DEF PublisherInv
<1>3. CASE ~UnderWay
  <2>1. /\ rec' = Clean(r) /\ pub' = Round(t, r, cached, force \/ forced)
        /\ dirty' = FALSE /\ force' = FALSE
    BY <1>3 DEF Publish
  <2>2. window # None => window = r.deadline \/ r.debt
    BY DEF OneWindow
  <2>3. (force \/ forced) \in BOOLEAN /\ t \in Tasks \cup {None}
    BY <1>1
  <2>4. pub' \in Publishers \cup {None} /\ OneWindow(r, pub', window)
    BY <1>1, <2>1, <2>2, <2>3, RoundRenders
  <2>5. /\ rec' \in Records /\ Consistent(rec') /\ Follows(r, rec')
        /\ rec'.attempt = r.attempt
    BY <2>1, CleanKeeps
  <2>6. OneWindow(rec', pub', window)
    BY <1>1, <2>4, <2>5, FollowsKeepsWindow
  <2> QED
    BY <1>1, <2>1, <2>4, <2>5, <2>6 DEF PublisherInv
<1> QED
  BY <1>2, <1>3

\* The publisher's next round, or its end.
LEMMA GoOnKeeps ==
  ASSUME NEW r \in Records, NEW c \in Documents \cup {None}, NEW again \in BOOLEAN,
         Consistent(r), force \in BOOLEAN, window' \in Nat \cup {None},
         window' # None => window' = r.deadline \/ r.debt, GoOn(r, c, again)
  PROVE  /\ rec' \in Records /\ Consistent(rec') /\ rec'.attempt = r.attempt
         /\ pub' \in Publishers \cup {None} /\ dirty' \in BOOLEAN /\ force' \in BOOLEAN
         /\ OneWindow(rec', pub', window')
<1>1. rec' = Clean(r) /\ dirty' \in BOOLEAN /\ force' \in BOOLEAN
  BY DEF GoOn
<1>2. pub' = IF again THEN Round(None, r, c, force) ELSE None
  BY DEF GoOn
<1>3. None \in Tasks \cup {None}
  OBVIOUS
<1>4. Round(None, r, c, force) \in Publishers \cup {None}
      /\ OneWindow(r, Round(None, r, c, force), window')
  BY <1>3, RoundRenders
<1>5. pub' \in Publishers \cup {None} /\ OneWindow(r, pub', window')
  BY <1>2, <1>4 DEF OneWindow
<1>6. /\ rec' \in Records /\ Consistent(rec') /\ Follows(r, rec') /\ rec'.attempt = r.attempt
  BY <1>1, CleanKeeps
<1>7. OneWindow(rec', pub', window')
  BY <1>5, <1>6, FollowsKeepsWindow
<1> QED
  BY <1>1, <1>5, <1>6, <1>7

\* A publication that succeeded.
LEMMA CompleteKeeps ==
  ASSUME PublisherInv, Complete
  PROVE  PublisherInv' /\ rec'.attempt = rec.attempt
<1> DEFINE r == Paid(rec, pub.native)
<1>1. /\ pub \in Publishers /\ wire' = pub.fields /\ cached' = pub.fields
      /\ window' = IF pub.native THEN None
                   ELSE IF window = None THEN pub.fields.deadline ELSE window
      /\ GoOn(r, pub.fields, dirty \/ r.moved)
  BY DEF Complete, Lands, UnderWay, PublisherInv
<1>2. pub.native \in BOOLEAN /\ pub.fields \in Documents
  BY <1>1 DEF Publishers
<1>3. /\ r \in Records /\ Consistent(r) /\ r.attempt = rec.attempt /\ r.moved \in BOOLEAN
      /\ ~pub.native => r = rec
  BY <1>2, PaidKeeps DEF PublisherInv
<1>4. /\ window' \in Nat \cup {None}
      /\ window' # None => window' = r.deadline \/ r.debt
  <2>1. CASE pub.native
    BY <1>1, <2>1
  <2>2. CASE ~pub.native
    <3>1. pub # None /\ OneWindow(rec, pub, window) /\ window \in Nat \cup {None}
      BY DEF Complete, UnderWay, PublisherInv
    <3>2. pub.fields.deadline # None => pub.fields.deadline \in Nat
      BY <1>2 DEF Documents
    <3> QED
      BY <1>1, <1>3, <2>2, <3>1, <3>2 DEF OneWindow
  <2> QED
    BY <1>2, <2>1, <2>2
<1> HIDE DEF r
<1>5. (dirty \/ r.moved) \in BOOLEAN /\ force \in BOOLEAN /\ pub.fields \in Documents \cup {None}
  BY <1>2, <1>3 DEF PublisherInv
<1>6. /\ rec' \in Records /\ Consistent(rec') /\ rec'.attempt = r.attempt
      /\ pub' \in Publishers \cup {None} /\ dirty' \in BOOLEAN /\ force' \in BOOLEAN
      /\ OneWindow(rec', pub', window')
  BY <1>1, <1>3, <1>4, <1>5, GoOnKeeps
<1> QED
  BY <1>1, <1>2, <1>3, <1>4, <1>6 DEF PublisherInv

\* A publication that failed, whether its bytes arrived or not.
LEMMA PublishFailsKeeps ==
  ASSUME PublisherInv, PublishFails
  PROVE  PublisherInv' /\ rec'.attempt = rec.attempt
<1> DEFINE r == Unpaid(rec, pub.native)
<1>1. /\ pub \in Publishers /\ pub # None /\ cached' = None
      /\ \/ /\ wire' = pub.fields
            /\ window' = IF pub.native THEN None
                         ELSE IF window = None THEN pub.fields.deadline ELSE window
         \/ wire' = wire /\ window' = window
      /\ GoOn(r, None, dirty)
  BY DEF PublishFails, Lands, UnderWay, PublisherInv
<1>2. pub.native \in BOOLEAN /\ pub.fields \in Documents
  BY <1>1 DEF Publishers
<1>3. r \in Records /\ Consistent(r) /\ Follows(rec, r) /\ r.attempt = rec.attempt
  BY <1>2, UnpaidKeeps DEF PublisherInv
<1>4. OneWindow(rec, pub, window) /\ window \in Nat \cup {None} /\ dirty \in BOOLEAN
      /\ force \in BOOLEAN /\ wire \in Documents \cup {None} /\ pub \in Publishers \cup {None}
  BY DEF PublisherInv
<1>5. OneWindow(r, pub, window)
  BY <1>3, <1>4, FollowsKeepsWindow
<1>6. /\ window' \in Nat \cup {None}
      /\ window' # None => window' = r.deadline \/ r.debt
  <2>1. pub.fields.deadline # None => pub.fields.deadline \in Nat
    BY <1>2 DEF Documents
  <2> QED
    BY <1>1, <1>2, <1>4, <1>5, <2>1 DEF OneWindow
<1> HIDE DEF r
<1>7. None \in Documents \cup {None}
  OBVIOUS
<1>8. /\ rec' \in Records /\ Consistent(rec') /\ rec'.attempt = r.attempt
      /\ pub' \in Publishers \cup {None} /\ dirty' \in BOOLEAN /\ force' \in BOOLEAN
      /\ OneWindow(rec', pub', window')
  BY <1>1, <1>3, <1>4, <1>6, <1>7, GoOnKeeps
<1> QED
  BY <1>1, <1>2, <1>3, <1>4, <1>6, <1>8 DEF PublisherInv

-----------------------------------------------------------------------------
(* What the other variables hold                                           *)

\* The commands that arrive are targets, and the next of them is one.
LEMMA CommandsAreTargets ==
  ASSUME LaneInv
  PROVE  /\ Range(Commands) \subseteq Targets
         /\ commands < Len(Commands) =>
              Asked \in Range(Commands) /\ commands + 1 \in 0 .. Len(Commands)
<1>1. Commands \in Seq(Targets)
  BY DataAssumption DEF Targets
<1>2. Range(Commands) \subseteq Targets
  BY <1>1 DEF Range
<1>3. commands < Len(Commands) => commands + 1 \in DOMAIN Commands
  BY <1>1 DEF LaneInv
<1> QED
  BY <1>1, <1>2, <1>3 DEF Range, Asked, LaneInv

\* A capture carries the generation, the values and the eras of what it read.
LEMMA CapturesAreCaptures ==
  ASSUME CaptureInv, LaneInv
  PROVE  /\ Snapshot \in Captures
         /\ \A c \in Captures : Stamped(c) \in Captures
         /\ [source |-> source, val |-> actual, era |-> eras] \in Captures
<1>1. NoEra \in [Fields -> Nat \cup {-1}] /\ eras \in [Fields -> Nat \cup {-1}]
  BY DEF NoEra, LaneInv
<1> QED
  BY <1>1 DEF CaptureInv, Captures, Snapshot, Stamped

\* The start of an attempt.
LEMMA BegunKeeps ==
  ASSUME NEW r \in Records, NEW target \in Targets, Consistent(r)
  PROVE  /\ Begun(r, target) \in Records /\ Consistent(Begun(r, target))
         /\ Begun(r, target).deadline = r.deadline /\ Begun(r, target).debt = r.debt
<1> DEFINE a == [target |-> target, eras |-> <<>>, source |-> 0]
           r1 == [r EXCEPT !.attempt = a]
<1>1. <<>> \in [{} -> 0 .. Len(Commands)]
  OBVIOUS
<1>2. <<>> \in Eras
  BY <1>1 DEF Eras
<1>3. a \in Attempts
  BY <1>2 DEF Attempts
<1> HIDE DEF a
<1>4. /\ r1 \in Records /\ r1.feedback = r.feedback /\ r1.deadline = r.deadline
      /\ r1.debt = r.debt /\ r1.era = r.era
  BY <1>3 DEF Records
<1>5. Begun(r, target) = r1
  BY DEF Begun, a
<1> HIDE DEF r1
<1> QED
  BY <1>4, <1>5 DEF Consistent

\* The issue of an attempt tells it the eras of its fields.
LEMMA IssuedKeeps ==
  ASSUME NEW r \in Records, NEW p \in Writes, Consistent(r)
  PROVE  /\ Issued(r, p) \in Records /\ Consistent(Issued(r, p))
         /\ Issued(r, p).deadline = r.deadline /\ Issued(r, p).debt = r.debt
         /\ DOMAIN p.target \subseteq DOMAIN p.eras => AttemptIssued(Issued(r, p))
<1>1. CASE r.attempt = None
  BY <1>1 DEF Issued, AttemptIssued
<1>2. CASE r.attempt # None
  <2> DEFINE a == [target |-> p.target, eras |-> p.eras, source |-> p.source]
             r1 == [r EXCEPT !.attempt = a]
  <2>1. a \in Attempts /\ a.target = p.target /\ a.eras = p.eras
    BY DEF Attempts, Writes
  <2> HIDE DEF a
  <2>2. /\ r1 \in Records /\ r1.feedback = r.feedback /\ r1.deadline = r.deadline
        /\ r1.debt = r.debt /\ r1.era = r.era /\ r1.attempt = a
    BY <2>1 DEF Records
  <2>3. Issued(r, p) = r1
    BY <1>2 DEF Issued, a
  <2> HIDE DEF r1
  <2> QED
    BY <2>1, <2>2, <2>3 DEF Consistent, AttemptIssued
<1> QED
  BY <1>1, <1>2

-----------------------------------------------------------------------------
(* The writes of the load                                                  *)

\* A load with writes has one or two; the one its handler awaits is the last, and
\* when it is the first too, or the first still waits, it is the only one.
LEMMA HeldIsLast ==
  ASSUME NEW s, Lined(s), s # <<>>
  PROVE  /\ Head(s) = s[1] /\ Last(s) = s[Len(s)]
         /\ Len(s) = 1 \/ Len(s) = 2
         /\ 1 \in 1 .. Len(s) /\ Len(s) \in 1 .. Len(s)
         /\ \A i \in 1 .. Len(s) : s[i] \in Writes /\ InPlace(s[i], i, Len(s))
         /\ s[1].held \/ s[1].at = "waiting" => Len(s) = 1
<1>1. s \in Seq(Writes) /\ Len(s) <= 2
  BY DEF Lined
<1>2. Len(s) = 1 \/ Len(s) = 2
  <2> DEFINE n == Len(s)
  <2>1. n \in Nat /\ n # 0 /\ n <= 2
    BY <1>1, EmptySeq, LenProperties
  <2> HIDE DEF n
  <2>2. n = 1 \/ n = 2
    BY <2>1
  <2> QED
    BY <2>2 DEF n
<1>3. 1 \in 1 .. Len(s) /\ Len(s) \in 1 .. Len(s)
  BY <1>2
<1>4. InPlace(s[1], 1, Len(s))
  BY <1>3, Zenon DEF Lined
<1>5. s[1].held \/ s[1].at = "waiting" => Len(s) = 1
  BY <1>4, Zenon DEF InPlace
<1>6. /\ Head(s) = s[1] /\ Last(s) = s[Len(s)]
      /\ \A i \in 1 .. Len(s) : s[i] \in Writes
  BY <1>1 DEF Last
<1> QED
  BY <1>2, <1>3, <1>5, <1>6, Zenon DEF Lined

\* Nothing is in order, held or waiting when there is no write.
LEMMA NoWrites == Lined(<<>>) /\ ~Held(<<>>) /\ ~Waits(<<>>)
<1>1. <<>> \in Seq(Writes) /\ Len(<<>>) = 0
  BY EmptySeq
<1> QED
  BY <1>1 DEF Lined, Held, Waits

\* One write that is on its way, or that its handler awaits, is in order.
LEMMA OneWrite ==
  ASSUME NEW w \in Writes, InPlace(w, 1, 1)
  PROVE  /\ Lined(<<w>>)
         /\ Held(<<w>>) <=> w.held
         /\ Waits(<<w>>) <=> w.at = "waiting"
<1>1. /\ <<w>> \in Seq(Writes) /\ Len(<<w>>) = 1 /\ <<w>>[1] = w
      /\ <<w>> # <<>> /\ \A i \in 1 .. 1 : i = 1
  OBVIOUS
<1> QED
  BY <1>1 DEF Lined, Held, Waits

\* A write that joins one that nobody awaits, or none, is in order.
LEMMA JoinedWrites ==
  ASSUME NEW s, Lined(s), ~Held(s), NEW w \in Writes, w.held, w.at = "waiting"
  PROVE  /\ Lined(Append(s, w)) /\ Held(Append(s, w)) /\ Waits(Append(s, w))
         /\ ~Waits(s)
<1>1. CASE s = <<>>
  <2>1. Append(s, w) = <<w>>
    BY <1>1
  <2>2. InPlace(w, 1, 1)
    BY DEF InPlace
  <2> QED
    BY <1>1, <2>1, <2>2, OneWrite, NoWrites
<1>2. CASE s # <<>>
  <2>1. s \in Seq(Writes) /\ Len(s) \in 1 .. Len(s) /\ (Len(s) = 1 \/ Len(s) = 2)
        /\ InPlace(s[Len(s)], Len(s), Len(s))
    BY <1>2, HeldIsLast DEF Lined
  <2>2. Len(s) = 1 /\ ~s[1].held /\ s[1].at # "waiting"
    BY <1>2, <2>1 DEF Held, InPlace
  <2>3. /\ Append(s, w) \in Seq(Writes) /\ Len(Append(s, w)) = 2
        /\ Append(s, w)[1] = s[1] /\ Append(s, w)[2] = w /\ Append(s, w) # <<>>
    <3>1. /\ Append(s, w) \in Seq(Writes) /\ Append(s, w) # <<>>
          /\ Len(Append(s, w)) = Len(s) + 1 /\ Append(s, w)[Len(s) + 1] = w
          /\ \A i \in 1 .. Len(s) : Append(s, w)[i] = s[i]
      BY <2>1, AppendProperties
    <3>2. Len(s) + 1 = 2 /\ 1 \in 1 .. Len(s)
      BY <2>2
    <3> QED
      BY <3>1, <3>2, Zenon
  <2>4. InPlace(s[1], 1, 2) /\ InPlace(w, 2, 2)
    BY <2>1, <2>2 DEF InPlace
  <2>5. \A i \in 1 .. 2 : i = 1 \/ i = 2
    OBVIOUS
  <2>6. Lined(Append(s, w))
    BY <2>3, <2>4, <2>5 DEF Lined
  <2> QED
    BY <2>2, <2>3, <2>6 DEF Held, Waits
<1> QED
  BY <1>1, <1>2

\* Sequence e is s with w at place i.
Replaces(e, s, i, w) == e = [s EXCEPT ![i] = w]

\* A write that takes the place of another is in order if it fits there.
LEMMA ReplacedWrite ==
  ASSUME NEW s, Lined(s), NEW i \in 1 .. Len(s), NEW w \in Writes, InPlace(w, i, Len(s)),
         NEW e, Replaces(e, s, i, w)
  PROVE  /\ Lined(e) /\ e # <<>> /\ Len(e) = Len(s)
         /\ e[Len(s)] = IF i = Len(s) THEN w ELSE s[Len(s)]
<1>1. s \in Seq(Writes) /\ Len(s) <= 2 /\ \A j \in 1 .. Len(s) : InPlace(s[j], j, Len(s))
  BY DEF Lined
<1>2. /\ e \in Seq(Writes) /\ Len(e) = Len(s)
      /\ \A j \in 1 .. Len(s) : e[j] = IF j = i THEN w ELSE s[j]
  BY <1>1, ExceptSeq DEF Replaces
<1>3. s # <<>>
  BY EmptySeq, i \in 1 .. Len(s)
<1>4. Len(s) # 0 /\ Len(s) \in 1 .. Len(s)
  BY <1>3, HeldIsLast
<1>5. e # <<>>
  BY <1>2, <1>4, EmptySeq
<1>6. Lined(e)
  BY <1>1, <1>2 DEF Lined
<1>7. e[Len(s)] = IF i = Len(s) THEN w ELSE s[Len(s)]
  BY <1>2, <1>4, Zenon
<1> QED
  BY <1>2, <1>5, <1>6, <1>7

\* A write that takes the place of the only one is the only one.
LEMMA OnlyWriteReplaced ==
  ASSUME NEW s, Lined(s), Len(s) = 1, NEW w \in Writes, InPlace(w, 1, 1),
         NEW e, Replaces(e, s, 1, w)
  PROVE  /\ Lined(e)
         /\ Held(e) <=> w.held
         /\ Waits(e) <=> w.at = "waiting"
<1>1. e = <<w>>
  <2>1. s \in Seq(Writes) /\ 1 \in 1 .. Len(s)
    BY DEF Lined
  <2>2. e \in Seq(Writes) /\ Len(e) = 1 /\ e[1] = w
    <3>1. /\ e \in Seq(Writes) /\ Len(e) = Len(s)
          /\ \A j \in 1 .. Len(s) : e[j] = IF j = 1 THEN w ELSE s[j]
      <4> DEFINE i == 1
      <4>1. i \in 1 .. Len(s) /\ e = [s EXCEPT ![i] = w]
        BY <2>1 DEF Replaces
      <4> HIDE DEF i
      <4>2. /\ e \in Seq(Writes) /\ Len(e) = Len(s)
            /\ \A j \in 1 .. Len(s) : e[j] = IF j = i THEN w ELSE s[j]
        BY <2>1, <4>1, ExceptSeq
      <4> QED
        BY <4>2 DEF i
    <3> QED
      BY <2>1, <3>1
  <2>3. /\ <<w>> \in Seq(Writes) /\ Len(<<w>>) = 1 /\ <<w>>[1] = w
        /\ \A i \in 1 .. 1 : i = 1
    OBVIOUS
  <2> QED
    BY <2>2, <2>3, SeqEqual
<1> QED
  BY <1>1, OneWrite

\* The write that waited behind another is the only one when that has settled.
LEMMA SettledWrites ==
  ASSUME NEW s, Lined(s), s # <<>>
  PROVE  /\ Lined(Tail(s))
         /\ Len(s) = 1 => Tail(s) = <<>>
         /\ Len(s) = 2 => Held(Tail(s)) /\ Waits(Tail(s)) /\ Held(s) /\ Waits(s)
<1>1. s \in Seq(Writes) /\ (Len(s) = 1 \/ Len(s) = 2)
  BY HeldIsLast DEF Lined
<1>2. CASE Len(s) = 1
  <2>1. Tail(s) = <<>>
    <3>1. Tail(s) \in Seq(Writes) /\ Len(Tail(s)) = Len(s) - 1
      BY <1>1, HeadTailProperties
    <3>2. Len(s) - 1 = 0 /\ 0 \notin Nat \ {0}
      BY <1>2
    <3> QED
      BY <3>1, <3>2, EmptySeq, Zenon
  <2>2. Len(s) # 2
    BY <1>2
  <2> QED
    BY <2>1, <2>2, NoWrites, Zenon
<1>3. CASE Len(s) = 2
  <2>1. 2 \in 1 .. Len(s)
    BY <1>3
  <2>2. s[2] \in Writes /\ InPlace(s[2], 2, 2)
    BY <1>3, <2>1, HeldIsLast
  <2>3. s[2].held /\ s[2].at = "waiting"
    BY <2>2 DEF InPlace
  <2>4. InPlace(s[2], 1, 1)
    BY <2>3 DEF InPlace
  <2>5. Tail(s) = <<s[2]>>
    <3>1. /\ Tail(s) \in Seq(Writes) /\ Len(Tail(s)) = Len(s) - 1
          /\ \A i \in 1 .. Len(Tail(s)) : Tail(s)[i] = s[i + 1]
      BY <1>1, HeadTailProperties
    <3>2. Len(s) - 1 = 1 /\ 1 \in 1 .. 1 /\ 1 + 1 = 2
      BY <1>3
    <3>3. Len(Tail(s)) = 1 /\ Tail(s)[1] = s[2]
      BY <3>1, <3>2, Zenon
    <3>4. /\ <<s[2]>> \in Seq(Writes) /\ Len(<<s[2]>>) = 1 /\ <<s[2]>>[1] = s[2]
          /\ \A i \in 1 .. 1 : i = 1
      BY <2>2
    <3> QED
      BY <3>1, <3>3, <3>4, SeqEqual
  <2>6. Held(s) /\ Waits(s)
    BY <1>3, <2>3 DEF Held, Waits
  <2>7. Len(s) # 1
    BY <1>3
  <2> QED
    BY <2>2, <2>3, <2>4, <2>5, <2>6, <2>7, OneWrite, Zenon
<1> QED
  BY <1>1, <1>2, <1>3

\* What the first write becomes when it is issued.
IssuedHead ==
  [Head(rpcs) EXCEPT !.at = "issued", !.source = source,
                     !.eras = [f \in DOMAIN Head(rpcs).target |-> eras[f] + 1]]

\* A write that is issued is the only one, and each of its eras has its command.
LEMMA IssuedWrite ==
  ASSUME LaneInv, CaptureInv, rpcs # <<>>, rpcs[1].at = "waiting"
  PROVE  /\ IssuedHead \in Writes /\ IssuedHead.at = "issued" /\ IssuedHead.held
         /\ DOMAIN IssuedHead.target \subseteq DOMAIN IssuedHead.eras
         /\ Len(rpcs) = 1 /\ Waits(rpcs)
<1>1. /\ Head(rpcs) = rpcs[1] /\ rpcs[1] \in Writes /\ InPlace(rpcs[1], 1, Len(rpcs))
      /\ Len(rpcs) = 1
  BY HeldIsLast DEF LaneInv
<1>2. Waits(rpcs) /\ rpcs[1].held
  BY <1>1 DEF Waits, InPlace
<1> DEFINE t == rpcs[1].target
           e == [f \in DOMAIN t |-> eras[f] + 1]
<1>3. t \in Targets /\ DOMAIN t \subseteq Fields /\ source \in Nat
  BY <1>1 DEF Writes, Targets, CaptureInv
<1>4. \A f \in Fields : eras[f] + 1 \in 0 .. Len(Commands)
  <2> SUFFICES ASSUME NEW f \in Fields PROVE eras[f] + 1 \in 0 .. Len(Commands)
    OBVIOUS
  <2> DEFINE n == Len(Commands)
  <2>1. /\ commands \in 0 .. n /\ eras[f] \in Nat
        /\ eras[f] + (IF Waits(rpcs) THEN 1 ELSE 0) <= commands
    BY DEF LaneInv
  <2>2. n \in Nat
    BY DataAssumption, LenProperties
  <2> HIDE DEF n
  <2>3. eras[f] + 1 \in 0 .. n
    BY <1>2, <2>1, <2>2
  <2> QED
    BY <2>3 DEF n
<1>5. e \in Eras /\ DOMAIN e = DOMAIN t
  BY <1>3, <1>4 DEF Eras
<1>6. IssuedHead = [rpcs[1] EXCEPT !.at = "issued", !.source = source, !.eras = e]
  BY <1>1 DEF IssuedHead
<1> HIDE DEF e
<1>7. /\ IssuedHead \in Writes /\ IssuedHead.at = "issued" /\ IssuedHead.held = rpcs[1].held
      /\ IssuedHead.target = t /\ IssuedHead.eras = e
  BY <1>1, <1>3, <1>5, <1>6 DEF Writes
<1> QED
  BY <1>1, <1>2, <1>5, <1>7

-----------------------------------------------------------------------------
(* Every step keeps what the publisher relies on                           *)

\* An event that makes the record r, which follows it, and asks for publication.
LEMMA FollowedKeeps ==
  ASSUME PublisherInv, NEW t \in Tasks, NEW r \in Records, NEW forced \in BOOLEAN,
         Consistent(r), Follows(rec, r), Publish(t, r, forced)
  PROVE  PublisherInv' /\ rec'.attempt \in {rec.attempt, None}
<1>1. OneWindow(r, pub, window)
  BY FollowsKeepsWindow DEF PublisherInv
<1>2. PublisherInv' /\ rec'.attempt = r.attempt
  BY <1>1, PublishKeeps
<1> QED
  BY <1>2 DEF Follows

\* An event that changes the record, and nothing of the publisher.
LEMMA UnpublishedKeeps ==
  ASSUME PublisherInv, rec' \in Records, Consistent(rec'), OneWindow(rec', pub, window),
         UNCHANGED publisher
  PROVE  PublisherInv'
BY DEF PublisherInv, publisher

\* The steps of the publisher, of the loops, of the push and of the timer.
TaskStep ==
  \/ Complete \/ PublishFails \/ Polled \/ Retire \/ (\E t \in Loops : Loop(t))
  \/ Push \/ Expire

\* These steps keep it, and begin no attempt.
LEMMA TasksKeepPublisher ==
  ASSUME IInv, TaskStep
  PROVE  PublisherInv' /\ rec'.attempt \in {rec.attempt, None}
<1>1. /\ PublisherInv /\ LaneInv /\ CaptureInv /\ rec \in Records /\ Consistent(rec)
      /\ OneWindow(rec, pub, window)
  BY DEF IInv, PublisherInv
<1>2. FALSE \in BOOLEAN /\ TRUE \in BOOLEAN /\ Follows(rec, rec)
  BY DEF Follows
<1>3. {"tick", "reconnect", "push", "handler", "timer"} \subseteq Tasks
  BY DEF Tasks, Loops
<1>4. \A c \in Captures : Stamped(c) \in Captures
  BY <1>1, CapturesAreCaptures
<1>5. CASE Complete
  BY <1>1, <1>5, CompleteKeeps
<1>6. CASE PublishFails
  BY <1>1, <1>6, PublishFailsKeeps
<1>7. CASE Polled
  <2>1. cap["tick"] \in Captures /\ Publish("tick", Capture(Stamped(cap["tick"])), FALSE)
    BY <1>1, <1>7 DEF Polled, CaptureInv, Loops
  <2>2. /\ Capture(Stamped(cap["tick"])) \in Records
        /\ Consistent(Capture(Stamped(cap["tick"])))
        /\ Follows(rec, Capture(Stamped(cap["tick"])))
    BY <1>1, <1>4, <2>1, CaptureKeeps
  <2> QED
    BY <1>1, <1>2, <1>3, <2>1, <2>2, FollowedKeeps
<1>8. CASE Retire
  <2>1. Current(rec) \in Records /\ Consistent(Current(rec)) /\ Follows(rec, Current(rec))
    BY <1>1, CurrentKeeps
  <2> QED
    BY <1>1, <1>2, <1>3, <1>8, <2>1, FollowedKeeps DEF Retire
<1>9. ASSUME NEW t \in Loops, Returned(t)
      PROVE  PublisherInv' /\ rec'.attempt \in {rec.attempt, None}
  <2>1. cap[t] \in Captures /\ rec' = Capture(Stamped(cap[t])) /\ UNCHANGED publisher
    BY <1>1, <1>9 DEF Returned, CaptureInv
  <2>2. rec' \in Records /\ Consistent(rec') /\ Follows(rec, rec')
    BY <1>1, <1>4, <2>1, CaptureKeeps
  <2>3. OneWindow(rec', pub, window)
    BY <1>1, <2>2, FollowsKeepsWindow DEF PublisherInv
  <2> QED
    BY <1>1, <2>1, <2>2, <2>3, UnpublishedKeeps DEF Follows
<1>10. ASSUME NEW t \in Loops, Announced(t)
       PROVE  PublisherInv' /\ rec'.attempt \in {rec.attempt, None}
  <2>1. t \in Tasks /\ Publish(t, rec, TRUE)
    BY <1>10 DEF Announced, Tasks
  <2> QED
    BY <1>1, <1>2, <2>1, FollowedKeeps
<1>11. CASE Push
  <2>1. push \in Captures /\ Publish("push", Capture(push), FALSE)
    BY <1>1, <1>11 DEF Push, CaptureInv
  <2>2. Capture(push) \in Records /\ Consistent(Capture(push)) /\ Follows(rec, Capture(push))
    BY <1>1, <2>1, CaptureKeeps
  <2> QED
    BY <1>1, <1>2, <1>3, <2>1, <2>2, FollowedKeeps
<1>12. CASE Expire
  <2> DEFINE r == Current(rec)
             e == IF r.deadline = None THEN r ELSE Expired(r)
  <2>1. r \in Records /\ Consistent(r) /\ Follows(rec, r)
    BY <1>1, CurrentKeeps
  <2>2. Expired(r) \in Records /\ Consistent(Expired(r)) /\ Follows(rec, Expired(r))
    BY <2>1, ExpiredKeeps, FollowsTwice
  <2>3. e \in Records /\ Consistent(e) /\ Follows(rec, e)
    BY <2>1, <2>2
  <2>4. Publish("timer", e, TRUE)
    BY <1>12 DEF Expire
  <2> HIDE DEF e
  <2> QED
    BY <1>1, <1>2, <1>3, <2>3, <2>4, FollowedKeeps
<1> QED
  BY <1>5, <1>6, <1>7, <1>8, <1>9, <1>10, <1>11, <1>12 DEF TaskStep, Loop

\* The steps of the lane that touch the record.
LaneStep ==
  \/ Handle \/ HandleFolded \/ Issue \/ Succeed \/ Fail \/ Timeout

\* They keep it: an outcome finds the attempt issued.
LEMMA LaneKeepsPublisher ==
  ASSUME IInv, LaneStep
  PROVE  PublisherInv'
<1>1. /\ PublisherInv /\ LaneInv /\ CaptureInv
      /\ pub \in Publishers \cup {None} /\ window \in Nat \cup {None}
      /\ OneWindow(rec, pub, window)
  BY DEF IInv, PublisherInv
<1>2. FALSE \in BOOLEAN /\ TRUE \in BOOLEAN /\ "handler" \in Tasks
  BY DEF Tasks
<1> DEFINE r == Current(rec)
<1>3. r \in Records /\ Consistent(r) /\ Follows(rec, r)
  BY <1>1, CurrentKeeps
<1>4. OneWindow(r, pub, window)
  BY <1>1, <1>3, FollowsKeepsWindow
<1>5. commands < Len(Commands) => Asked \in Targets
  BY <1>1, CommandsAreTargets
<1>6. handler.at # "idle" => handler.target \in Targets
  BY <1>1, CommandsAreTargets DEF LaneInv
<1>7. rpcs # <<>> => /\ Head(rpcs) = rpcs[1] /\ rpcs[1] \in Writes
                     /\ Last(rpcs) = rpcs[Len(rpcs)] /\ rpcs[Len(rpcs)] \in Writes
                     /\ rpcs[1].held => Len(rpcs) = 1
  BY <1>1, HeldIsLast DEF LaneInv
<1>8. commands \in Nat
  BY <1>1 DEF LaneInv
<1> HIDE DEF r
<1>9. ASSUME NEW s \in Records, Consistent(s), rec' = s,
             s.deadline = r.deadline, s.debt = r.debt, UNCHANGED publisher
      PROVE  PublisherInv'
  <2>1. OneWindow(s, pub, window)
    BY <1>4, <1>9 DEF OneWindow
  <2> QED
    BY <1>1, <1>9, <2>1, UnpublishedKeeps
<1>10. CASE Handle
  <2>1. Asked \in Targets /\ rec' = Begun(r, Asked) /\ UNCHANGED publisher
    BY <1>5, <1>10 DEF Handle, Arrives, r
  <2> QED
    BY <1>3, <1>9, <2>1, BegunKeeps
<1>11. CASE HandleFolded
  <2> DEFINE b == Begun(r, handler.target)
  <2>1. /\ handler.target \in Targets /\ handler.at # "idle" /\ UNCHANGED publisher
        /\ rec' = IF Last(rpcs).at = "waiting" THEN b ELSE Issued(b, Last(rpcs))
    BY <1>6, <1>11 DEF HandleFolded, r
  <2>2. b \in Records /\ Consistent(b) /\ b.deadline = r.deadline /\ b.debt = r.debt
    BY <1>3, <2>1, BegunKeeps
  <2>3. Last(rpcs) \in Writes
    BY <1>1, <1>7, <2>1 DEF LaneInv, Held
  <2> HIDE DEF b
  <2>4. /\ Issued(b, Last(rpcs)) \in Records /\ Consistent(Issued(b, Last(rpcs)))
        /\ Issued(b, Last(rpcs)).deadline = r.deadline /\ Issued(b, Last(rpcs)).debt = r.debt
    BY <2>2, <2>3, IssuedKeeps
  <2> QED
    BY <1>9, <2>1, <2>2, <2>4
<1>12. CASE Issue
  <2>1. /\ rpcs # <<>> /\ Head(rpcs).at = "waiting"
        /\ rec' = Issued(r, IssuedHead) /\ UNCHANGED publisher
    BY <1>12 DEF Issue, IssuedHead, r
  <2>2. IssuedHead \in Writes
    BY <1>1, <1>7, <2>1, IssuedWrite
  <2> QED
    BY <1>3, <1>9, <2>1, <2>2, IssuedKeeps
<1>13. CASE Succeed
  <2>1. handler.at = "writing" /\ rpcs # <<>> /\ rpcs[1].held /\ rpcs[1].at # "waiting"
    BY <1>7, <1>13 DEF Succeed, Answers
  <2>2. AttemptIssued(rec)
    BY <1>1, <1>7, <2>1 DEF LaneInv, Waits
  <2>3. AttemptIssued(r)
    BY <1>3, <2>2 DEF Follows, AttemptIssued
  <2>4. Publish("handler", Succeeded(r, commands), FALSE)
    BY <1>13 DEF Succeed, r
  <2>5. /\ Succeeded(r, commands) \in Records /\ Consistent(Succeeded(r, commands))
        /\ Follows(rec, Succeeded(r, commands))
    BY <1>3, <1>8, <2>3, SucceededKeeps, FollowsTwice
  <2> QED
    BY <1>1, <1>2, <2>4, <2>5, FollowedKeeps
<1>14. CASE Fail \/ Timeout
  <2>1. Publish("handler", Failed(r), TRUE)
    BY <1>14 DEF Fail, Timeout, r
  <2>2. Failed(r) \in Records /\ Consistent(Failed(r)) /\ Follows(rec, Failed(r))
    BY <1>3, FailedKeeps, FollowsTwice
  <2> QED
    BY <1>1, <1>2, <2>1, <2>2, FollowedKeeps
<1> QED
  BY <1>10, <1>11, <1>12, <1>13, <1>14 DEF LaneStep

\* The next session begins with nothing.
LEMMA NewSessionKeepsPublisher ==
  ASSUME IInv, NewSession
  PROVE  PublisherInv' /\ rec'.attempt = None
<1>1. /\ source' \in Nat /\ rec' = NewRecord(source') /\ pub' = None /\ dirty' = FALSE
      /\ force' = FALSE /\ cached' = None /\ wire' = wire /\ window' = None
      /\ wire \in Documents \cup {None}
  BY DEF NewSession, IInv, CaptureInv, PublisherInv
<1>2. NoEra \in [Fields -> Nat \cup {-1}]
  BY DEF NoEra
<1>3. /\ rec' \in Records /\ rec'.feedback = None /\ rec'.deadline = None
      /\ rec'.attempt = None
  BY <1>1, <1>2 DEF NewRecord, Records
<1> QED
  BY <1>1, <1>3 DEF PublisherInv, Consistent, OneWindow

\* Every step keeps what the publisher relies on.
LEMMA PublisherIsKept ==
  ASSUME IInv, [Next]_vars
  PROVE  PublisherInv'
<1>1. PublisherInv /\ rec \in Records /\ Consistent(rec) /\ OneWindow(rec, pub, window)
  BY DEF IInv, PublisherInv
<1>2. ASSUME UNCHANGED <<rec, publisher>> PROVE PublisherInv'
  BY <1>1, <1>2 DEF PublisherInv, publisher
<1>3. CASE TaskStep
  BY <1>3, TasksKeepPublisher
<1>4. CASE LaneStep
  BY <1>4, LaneKeepsPublisher
<1>5. CASE NewSession
  BY <1>5, NewSessionKeepsPublisher
<1>6. CASE Reconcile \/ Registered \/ ReconnectRead \/ PollRead
  BY <1>2, <1>6 DEF Reconcile, Registered, ReconnectRead, PollRead
<1>7. CASE Notify \/ Reconnect \/ \E f \in Fields, v \in Reports : ByHand(f, v)
  BY <1>2, <1>7 DEF Notify, Reconnect, ByHand
<1>8. CASE Fold \/ Take \/ Settle
  BY <1>2, <1>8 DEF Fold, Take, Settle
<1>9. CASE UNCHANGED vars
  BY <1>2, <1>9 DEF vars
<1> QED
  BY <1>3, <1>4, <1>5, <1>6, <1>7, <1>8, <1>9 DEF Next, Works, Bus, TaskStep, LaneStep

-----------------------------------------------------------------------------
(* Every step keeps the order of the writes                                *)

\* A step that leaves the lane alone, and begins no attempt.
LEMMA LaneIsLeftAlone ==
  ASSUME LaneInv, UNCHANGED lane, rec'.attempt \in {rec.attempt, None},
         commands' \in 0 .. Len(Commands), faults' \in Nat, eras' \in [Fields -> Nat],
         \A f \in Fields : eras'[f] + (IF Waits(rpcs) THEN 1 ELSE 0) <= commands'
  PROVE  LaneInv'
<1>1. handler' = handler /\ rpcs' = rpcs
  BY DEF lane
<1>2. AttemptIssued(rec) => AttemptIssued(rec')
  BY DEF AttemptIssued
<1>3. (Waits(rpcs))' <=> Waits(rpcs)
  BY <1>1 DEF Waits
<1>4. /\ (Lined(rpcs))' /\ (handler.at # "idle" <=> Held(rpcs))'
  BY <1>1 DEF LaneInv, Lined, Held
<1> QED
  BY <1>1, <1>2, <1>3, <1>4 DEF LaneInv

\* A step that leaves the lane, the eras and the number of commands alone.
LEMMA LaneIsUntouched ==
  ASSUME LaneInv, UNCHANGED <<lane, eras, commands>>, rec'.attempt \in {rec.attempt, None},
         faults' \in Nat
  PROVE  LaneInv'
<1>1. /\ commands' \in 0 .. Len(Commands) /\ eras' \in [Fields -> Nat]
      /\ \A f \in Fields : eras'[f] + (IF Waits(rpcs) THEN 1 ELSE 0) <= commands'
  BY DEF LaneInv
<1> QED
  BY <1>1, LaneIsLeftAlone DEF lane

\* A change that takes the place of a command.
LEMMA UpheavalKeepsLane ==
  ASSUME LaneInv, Upheaval, UNCHANGED <<lane, rec>>,
         eras' \in {eras, [f \in Fields |-> 0]}
  PROVE  LaneInv'
<1> DEFINE w == IF Waits(rpcs) THEN 1 ELSE 0
           n == Len(Commands)
<1>1. /\ commands \in 0 .. n /\ commands < n /\ commands' = commands + 1
      /\ faults \in Nat /\ faults' = faults + 1 /\ eras \in [Fields -> Nat]
      /\ w \in {0, 1} /\ \A f \in Fields : eras[f] + w <= commands
  BY DEF LaneInv, Upheaval
<1>2. n \in Nat
  BY DataAssumption, LenProperties
<1>3. UNCHANGED lane /\ rec'.attempt \in {rec.attempt, None} /\ eras' \in [Fields -> Nat]
  BY <1>1
<1> HIDE DEF w, n
<1>4. commands' \in 0 .. n /\ faults' \in Nat /\ \A f \in Fields : eras'[f] + w <= commands'
  BY <1>1, <1>2
<1> QED
  BY <1>3, <1>4, LaneIsLeftAlone DEF w, n

\* A step that makes the writes ws and the handler's place, and ends no attempt's
\* knowledge of its issue.
LEMMA LaneIsChanged ==
  ASSUME LaneInv, NEW ws, rpcs' = ws, Lined(ws),
         handler' \in [at: {"idle", "writing", "folded"}, target: Range(Commands) \cup {None}],
         handler'.at # "idle" => handler'.target \in Range(Commands),
         handler'.at # "idle" <=> Held(ws),
         handler'.at = "writing" /\ ~Waits(ws) => AttemptIssued(rec'),
         commands' \in 0 .. Len(Commands), faults' \in Nat, eras' \in [Fields -> Nat],
         \A f \in Fields : eras'[f] + (IF Waits(ws) THEN 1 ELSE 0) <= commands'
  PROVE  LaneInv'
<1>1. (Lined(rpcs))' /\ ((Held(rpcs))' <=> Held(ws)) /\ ((Waits(rpcs))' <=> Waits(ws))
  BY DEF Lined, Held, Waits
<1> QED
  BY <1>1 DEF LaneInv

\* A command begins a write behind at most one that nobody awaits.
LEMMA HandleKeepsLane ==
  ASSUME LaneInv, Handle
  PROVE  LaneInv'
<1> DEFINE w == [target |-> Asked, at |-> "waiting", held |-> TRUE, eras |-> <<>>, source |-> 0]
           ws == Append(rpcs, w)
<1>1. /\ handler.at = "idle" /\ commands < Len(Commands) /\ commands' = commands + 1
      /\ faults' = faults /\ handler' = [at |-> "writing", target |-> Asked]
      /\ rpcs' = ws /\ eras' = eras
  BY DEF Handle, Arrives, laneOnly
<1>2. /\ Asked \in Range(Commands) /\ Asked \in Targets /\ commands' \in 0 .. Len(Commands)
  BY <1>1, CommandsAreTargets
<1>3. <<>> \in [{} -> 0 .. Len(Commands)]
  OBVIOUS
<1>4. <<>> \in Eras
  BY <1>3 DEF Eras
<1>5. w \in Writes /\ w.held /\ w.at = "waiting"
  BY <1>2, <1>4 DEF Writes
<1> HIDE DEF w
<1>6. Lined(rpcs) /\ ~Held(rpcs)
  BY <1>1 DEF LaneInv
<1>7. Lined(ws) /\ Held(ws) /\ Waits(ws) /\ ~Waits(rpcs)
  BY <1>5, <1>6, JoinedWrites
<1>8. /\ faults' \in Nat /\ eras' \in [Fields -> Nat]
      /\ \A f \in Fields : eras'[f] + 1 <= commands'
  BY <1>1, <1>7 DEF LaneInv
<1>9. /\ handler' \in [at: {"idle", "writing", "folded"}, target: Range(Commands) \cup {None}]
      /\ handler'.at # "idle" /\ handler'.target \in Range(Commands)
  BY <1>1, <1>2
<1> HIDE DEF ws
<1> QED
  BY <1>1, <1>2, <1>7, <1>8, <1>9, LaneIsChanged

\* A folded command takes the place of one whose write still waits.
LEMMA FoldKeepsLane ==
  ASSUME LaneInv, Fold
  PROVE  LaneInv'
<1> DEFINE n == Len(rpcs)
           w == [rpcs[n] EXCEPT !.target = Asked]
           ws == [rpcs EXCEPT ![n] = w]
<1>1. /\ handler.at = "writing" /\ Last(rpcs).at = "waiting"
      /\ commands < Len(Commands) /\ commands' = commands + 1 /\ faults' = faults
      /\ handler' = [at |-> "folded", target |-> Asked]
      /\ rpcs' = ws /\ eras' = eras
  BY DEF Fold, Arrives, laneOnly
<1>2. Asked \in Range(Commands) /\ Asked \in Targets /\ commands' \in 0 .. Len(Commands)
  BY <1>1, CommandsAreTargets
<1>3. Lined(rpcs) /\ rpcs # <<>> /\ rpcs[n].held
  BY <1>1 DEF LaneInv, Held
<1>4. Last(rpcs) = rpcs[n] /\ n \in 1 .. Len(rpcs)
      /\ rpcs[n] \in Writes /\ InPlace(rpcs[n], n, Len(rpcs))
  BY <1>3, HeldIsLast
<1>5. w \in Writes /\ w.at = "waiting" /\ w.held
  BY <1>1, <1>2, <1>3, <1>4 DEF Writes
<1> HIDE DEF w
<1>6. InPlace(w, n, Len(rpcs))
  BY <1>5 DEF InPlace
<1>7. Replaces(ws, rpcs, n, w)
  BY DEF Replaces
<1>8. Lined(ws) /\ ws # <<>> /\ Len(ws) = n /\ ws[n] = w
  BY <1>3, <1>4, <1>5, <1>6, <1>7, ReplacedWrite DEF n
<1>9. Waits(rpcs)
  BY <1>1, <1>3, <1>4 DEF Waits
<1> HIDE DEF ws
<1>10. Held(ws) /\ Waits(ws)
  BY <1>5, <1>8 DEF Held, Waits
<1>11. /\ faults' \in Nat /\ eras' \in [Fields -> Nat]
       /\ \A f \in Fields : eras'[f] + 1 <= commands'
  BY <1>1, <1>9 DEF LaneInv
<1>12. /\ handler' \in [at: {"idle", "writing", "folded"}, target: Range(Commands) \cup {None}]
       /\ handler'.at # "idle" /\ handler'.at # "writing" /\ handler'.target \in Range(Commands)
  BY <1>1, <1>2
<1> QED
  BY <1>1, <1>2, <1>8, <1>10, <1>11, <1>12, LaneIsChanged

\* The handler that runs again for a folded command learns of an issue.
LEMMA HandleFoldedKeepsLane ==
  ASSUME IInv, HandleFolded
  PROVE  LaneInv'
<1> DEFINE b == Begun(Current(rec), handler.target)
<1>1. /\ handler.at = "folded" /\ handler' = [handler EXCEPT !.at = "writing"]
      /\ rpcs' = rpcs /\ eras' = eras /\ commands' = commands /\ faults' = faults
      /\ rec' = IF Last(rpcs).at = "waiting" THEN b ELSE Issued(b, Last(rpcs))
  BY DEF HandleFolded, laneOnly, bounds
<1>2. PublisherInv /\ LaneInv /\ CaptureInv
  BY DEF IInv
<1>3. Lined(rpcs) /\ Held(rpcs) /\ rpcs # <<>> /\ handler.target \in Range(Commands)
  BY <1>1, <1>2 DEF LaneInv, Held
<1>4. /\ Last(rpcs) = rpcs[Len(rpcs)] /\ Last(rpcs) \in Writes
      /\ InPlace(Last(rpcs), Len(rpcs), Len(rpcs))
  BY <1>3, HeldIsLast
<1>5. Current(rec) \in Records /\ Consistent(Current(rec))
  BY <1>2, CurrentKeeps
<1>6. b \in Records /\ Consistent(b)
  BY <1>2, <1>3, <1>5, BegunKeeps, CommandsAreTargets
<1> HIDE DEF b
<1>7. ~Waits(rpcs) => AttemptIssued(rec')
  <2> SUFFICES ASSUME ~Waits(rpcs) PROVE AttemptIssued(rec')
    OBVIOUS
  <2>1. Last(rpcs).at # "waiting"
    BY <1>3, <1>4 DEF Waits
  <2>2. DOMAIN Last(rpcs).target \subseteq DOMAIN Last(rpcs).eras
    BY <1>4, <2>1 DEF InPlace
  <2> QED
    BY <1>1, <1>4, <1>6, <2>1, <2>2, IssuedKeeps
<1>8. /\ handler' \in [at: {"idle", "writing", "folded"}, target: Range(Commands) \cup {None}]
      /\ handler'.at = "writing" /\ handler'.target \in Range(Commands)
  BY <1>1, <1>2, <1>3 DEF LaneInv
<1>9. /\ commands' \in 0 .. Len(Commands) /\ faults' \in Nat /\ eras' \in [Fields -> Nat]
      /\ \A f \in Fields : eras'[f] + (IF Waits(rpcs) THEN 1 ELSE 0) <= commands'
  BY <1>1, <1>2 DEF LaneInv
<1> QED
  BY <1>1, <1>2, <1>3, <1>7, <1>8, <1>9, LaneIsChanged

\* An issue gives each field the next era, and tells the attempt.
LEMMA IssueKeepsLane ==
  ASSUME IInv, Issue
  PROVE  LaneInv'
<1>1. PublisherInv /\ LaneInv /\ CaptureInv
  BY DEF IInv
<1>2. /\ rpcs # <<>> /\ Head(rpcs).at = "waiting" /\ handler' = handler
      /\ commands' = commands /\ faults' = faults
      /\ rpcs' = [rpcs EXCEPT ![1] = IssuedHead]
      /\ eras' = [f \in Fields |-> IF f \in DOMAIN Head(rpcs).target THEN eras[f] + 1
                                   ELSE eras[f]]
      /\ rec' = Issued(Current(rec), IssuedHead)
  BY DEF Issue, IssuedHead, bounds
<1>3. Lined(rpcs) /\ Head(rpcs) = rpcs[1] /\ 1 \in 1 .. Len(rpcs)
  BY <1>1, <1>2, HeldIsLast DEF LaneInv
<1>4. /\ IssuedHead \in Writes /\ IssuedHead.at = "issued" /\ IssuedHead.held
      /\ DOMAIN IssuedHead.target \subseteq DOMAIN IssuedHead.eras
      /\ Len(rpcs) = 1 /\ Waits(rpcs)
  BY <1>1, <1>2, <1>3, IssuedWrite
<1>5. InPlace(IssuedHead, 1, 1)
  BY <1>4 DEF InPlace
<1>6. Replaces(rpcs', rpcs, 1, IssuedHead)
  BY <1>2 DEF Replaces
<1>7. Lined(rpcs') /\ Held(rpcs') /\ ~Waits(rpcs')
  BY <1>3, <1>4, <1>5, <1>6, OnlyWriteReplaced
<1>8. Held(rpcs)
  <2>1. InPlace(rpcs[1], 1, Len(rpcs))
    BY <1>2, <1>3, HeldIsLast
  <2> QED
    BY <1>2, <1>3, <1>4, <2>1 DEF Held, InPlace
<1>9. AttemptIssued(rec')
  BY <1>1, <1>2, <1>4, CurrentKeeps, IssuedKeeps
<1>10. /\ handler' \in [at: {"idle", "writing", "folded"}, target: Range(Commands) \cup {None}]
       /\ handler'.at # "idle" /\ handler'.target \in Range(Commands)
       /\ commands' \in 0 .. Len(Commands) /\ faults' \in Nat
  BY <1>1, <1>2, <1>8 DEF LaneInv
<1>11. /\ eras' \in [Fields -> Nat] /\ \A f \in Fields : eras'[f] + 0 <= commands'
  <2>1. commands \in Int /\ \A f \in Fields : eras[f] \in Nat /\ eras[f] + 1 <= commands
    BY <1>1, <1>4 DEF LaneInv
  <2> QED
    BY <1>2, <2>1
<1> QED
  BY <1>1, <1>7, <1>9, <1>10, <1>11, LaneIsChanged

\* The load takes a write that is on its way.
LEMMA TakeKeepsLane ==
  ASSUME LaneInv, Take
  PROVE  LaneInv'
<1> DEFINE w == [rpcs[1] EXCEPT !.at = "taken"]
<1>1. /\ rpcs # <<>> /\ Head(rpcs).at = "issued" /\ rpcs' = [rpcs EXCEPT ![1] = w]
      /\ rec' = rec /\ handler' = handler /\ eras' = eras
      /\ commands' = commands /\ faults' = faults
  BY DEF Take, bounds
<1>2. /\ Lined(rpcs) /\ Head(rpcs) = rpcs[1] /\ 1 \in 1 .. Len(rpcs)
      /\ rpcs[1] \in Writes /\ InPlace(rpcs[1], 1, Len(rpcs))
  BY <1>1, HeldIsLast DEF LaneInv
<1>3. /\ w \in Writes /\ w.at = "taken" /\ w.held = rpcs[1].held
      /\ w.target = rpcs[1].target /\ w.eras = rpcs[1].eras
  BY <1>2 DEF Writes
<1> HIDE DEF w
<1>4. InPlace(w, 1, Len(rpcs))
  BY <1>1, <1>2, <1>3 DEF InPlace
<1>5. /\ Lined(rpcs') /\ rpcs' # <<>> /\ Len(rpcs') = Len(rpcs)
      /\ rpcs'[Len(rpcs)] = IF 1 = Len(rpcs) THEN w ELSE rpcs[Len(rpcs)]
  <2>1. Replaces(rpcs', rpcs, 1, w) /\ w \in Writes
    BY <1>1, <1>3 DEF Replaces
  <2> QED
    BY <1>2, <1>4, <2>1, ReplacedWrite
<1>6. (Held(rpcs') <=> Held(rpcs)) /\ (Waits(rpcs') <=> Waits(rpcs))
  BY <1>1, <1>2, <1>3, <1>5 DEF Held, Waits
<1> QED
  BY <1>1, <1>5, <1>6, LaneIsChanged DEF LaneInv

\* An outcome ends the handler; what it leaves is nothing, or a write on its way.
LEMMA OutcomeKeepsLane ==
  ASSUME LaneInv, Succeed \/ Fail \/ Timeout
  PROVE  LaneInv'
<1> DEFINE w == [rpcs[1] EXCEPT !.held = FALSE]
<1>1. /\ rpcs # <<>> /\ Head(rpcs).held /\ Head(rpcs).at \in {"issued", "taken"}
      /\ handler' = NoHandler /\ eras' = eras /\ commands' = commands /\ faults' = faults
      /\ rpcs' = Tail(rpcs) \/ rpcs' = [rpcs EXCEPT ![1] = w]
  BY DEF Succeed, Fail, Timeout, Answers, laneOnly, bounds
<1>2. /\ Lined(rpcs) /\ Head(rpcs) = rpcs[1] /\ 1 \in 1 .. Len(rpcs) /\ Len(rpcs) = 1
      /\ rpcs[1] \in Writes /\ InPlace(rpcs[1], 1, Len(rpcs))
  BY <1>1, HeldIsLast DEF LaneInv
<1>3. Lined(rpcs') /\ ~Held(rpcs') /\ ~Waits(rpcs')
  <2>1. CASE rpcs' = Tail(rpcs)
    BY <1>1, <1>2, <2>1, SettledWrites, NoWrites
  <2>2. CASE rpcs' = [rpcs EXCEPT ![1] = w]
    <3>1. /\ w \in Writes /\ w.at = rpcs[1].at /\ ~w.held
          /\ w.target = rpcs[1].target /\ w.eras = rpcs[1].eras
      BY <1>2 DEF Writes
    <3> HIDE DEF w
    <3>2. InPlace(w, 1, 1)
      BY <1>1, <1>2, <3>1 DEF InPlace
    <3>3. Replaces(rpcs', rpcs, 1, w)
      BY <2>2 DEF Replaces, w
    <3>4. w.at # "waiting"
      BY <1>1, <1>2, <3>1
    <3> QED
      BY <1>2, <3>1, <3>2, <3>3, <3>4, OnlyWriteReplaced
  <2> QED
    BY <1>1, <2>1, <2>2
<1>4. /\ handler' \in [at: {"idle", "writing", "folded"}, target: Range(Commands) \cup {None}]
      /\ handler'.at = "idle"
  BY <1>1 DEF NoHandler
<1>5. /\ commands' \in 0 .. Len(Commands) /\ faults' \in Nat /\ eras' \in [Fields -> Nat]
      /\ \A f \in Fields : eras'[f] + 0 <= commands'
  <2>1. \A f \in Fields : eras[f] \in Nat /\ eras[f] + (IF Waits(rpcs) THEN 1 ELSE 0) <= commands
    BY DEF LaneInv
  <2>2. commands \in Int
    BY DEF LaneInv
  <2> QED
    BY <1>1, <2>1, <2>2 DEF LaneInv
<1> QED
  BY <1>3, <1>4, <1>5, LaneIsChanged

\* The answer to a write nobody awaits leaves the one that waits, or none.
LEMMA SettleKeepsLane ==
  ASSUME LaneInv, Settle
  PROVE  LaneInv'
<1>1. /\ rpcs # <<>> /\ ~Head(rpcs).held /\ Head(rpcs).at # "waiting"
      /\ rpcs' = Tail(rpcs) /\ rec' = rec /\ handler' = handler /\ eras' = eras
      /\ commands' = commands /\ faults' = faults
  BY DEF Settle, laneOnly, bounds
<1>2. Lined(rpcs) /\ Head(rpcs) = rpcs[1] /\ (Len(rpcs) = 1 \/ Len(rpcs) = 2)
  BY <1>1, HeldIsLast DEF LaneInv
<1>3. Lined(rpcs') /\ (Held(rpcs') <=> Held(rpcs)) /\ (Waits(rpcs') <=> Waits(rpcs))
  <2>1. CASE Len(rpcs) = 1
    <3>1. rpcs' = <<>> /\ ~Held(rpcs) /\ ~Waits(rpcs)
      BY <1>1, <1>2, <2>1, SettledWrites DEF Held, Waits
    <3> QED
      BY <3>1, NoWrites
  <2>2. CASE Len(rpcs) = 2
    BY <1>1, <1>2, <2>2, SettledWrites
  <2> QED
    BY <1>2, <2>1, <2>2
<1> QED
  BY <1>1, <1>3, LaneIsChanged DEF LaneInv

\* A session that ends leaves at most one write on its way, which nobody awaits.
LEMMA NewSessionKeepsLane ==
  ASSUME LaneInv, NewSession, rec'.attempt = None
  PROVE  LaneInv'
<1> DEFINE w == [rpcs[1] EXCEPT !.held = FALSE]
<1>1. /\ eras' = [f \in Fields |-> 0] /\ handler' = NoHandler
      /\ rpcs' = IF rpcs # <<>> /\ Head(rpcs).at # "waiting"
                 THEN <<[Head(rpcs) EXCEPT !.held = FALSE]>> ELSE <<>>
      /\ commands' = commands /\ faults' = faults + 1
  BY DEF NewSession, Fault
<1>2. Lined(rpcs') /\ ~Held(rpcs') /\ ~Waits(rpcs')
  <2>1. CASE rpcs # <<>> /\ Head(rpcs).at # "waiting"
    <3>1. /\ Head(rpcs) = rpcs[1] /\ rpcs[1] \in Writes /\ InPlace(rpcs[1], 1, Len(rpcs))
      BY <2>1, HeldIsLast DEF LaneInv
    <3>2. /\ w \in Writes /\ w.at = rpcs[1].at /\ ~w.held
          /\ w.target = rpcs[1].target /\ w.eras = rpcs[1].eras
      BY <3>1 DEF Writes
    <3>3. rpcs' = <<w>>
      BY <1>1, <2>1, <3>1
    <3> HIDE DEF w
    <3>4. InPlace(w, 1, 1) /\ w.at # "waiting"
      BY <2>1, <3>1, <3>2 DEF InPlace
    <3> QED
      BY <3>2, <3>3, <3>4, OneWrite
  <2>2. CASE ~(rpcs # <<>> /\ Head(rpcs).at # "waiting")
    BY <1>1, <2>2, NoWrites
  <2> QED
    BY <2>1, <2>2
<1>3. /\ handler' \in [at: {"idle", "writing", "folded"}, target: Range(Commands) \cup {None}]
      /\ handler'.at = "idle"
  BY <1>1 DEF NoHandler
<1>4. /\ commands' \in 0 .. Len(Commands) /\ faults' \in Nat /\ eras' \in [Fields -> Nat]
      /\ \A f \in Fields : eras'[f] + 0 <= commands'
  BY <1>1 DEF LaneInv
<1> QED
  BY <1>2, <1>3, <1>4, LaneIsChanged

\* Every step keeps the order of the writes.
LEMMA LaneIsKept ==
  ASSUME IInv, [Next]_vars
  PROVE  LaneInv'
<1>1. LaneInv /\ faults \in Nat
  BY DEF IInv, LaneInv
<1>2. ASSUME UNCHANGED <<lane, eras, commands>>, faults' \in {faults, faults + 1},
             rec'.attempt \in {rec.attempt, None}
      PROVE  LaneInv'
  BY <1>1, <1>2, LaneIsUntouched
<1>3. CASE TaskStep
  <2>1. rec'.attempt \in {rec.attempt, None}
    BY <1>3, TasksKeepPublisher
  <2>2. UNCHANGED <<lane, eras, commands>> /\ faults' \in {faults, faults + 1}
    BY <1>3 DEF TaskStep, Complete, PublishFails, Fault, Polled, Retire, Loop, Returned,
                Announced, Push, Expire, pubOnly, laneOnly, busOnly, bounds
  <2> QED
    BY <1>2, <2>1, <2>2
<1>4. CASE LaneStep
  BY <1>1, <1>4, HandleKeepsLane, HandleFoldedKeepsLane, IssueKeepsLane, OutcomeKeepsLane
     DEF LaneStep
<1>5. CASE NewSession
  BY <1>1, <1>5, NewSessionKeepsPublisher, NewSessionKeepsLane
<1>6. CASE Reconcile \/ Registered \/ ReconnectRead \/ PollRead \/ Notify
  BY <1>2, <1>6 DEF Reconcile, Registered, ReconnectRead, PollRead, Notify, busOnly, bounds
<1>7. CASE Reconnect \/ \E f \in Fields, v \in Reports : ByHand(f, v)
  BY <1>1, <1>7, UpheavalKeepsLane DEF Reconnect, ByHand
<1>8. CASE Fold \/ Take \/ Settle
  BY <1>1, <1>8, FoldKeepsLane, TakeKeepsLane, SettleKeepsLane
<1>9. CASE UNCHANGED vars
  BY <1>2, <1>9 DEF vars, bounds
<1> QED
  BY <1>3, <1>4, <1>5, <1>6, <1>7, <1>8, <1>9 DEF Next, Works, Bus, TaskStep, LaneStep

-----------------------------------------------------------------------------
(* Every step keeps the captures in flight, and the load                   *)

\* A step that leaves the captures, the load and its bus alone.
LEMMA CapturesAreUntouched ==
  ASSUME CaptureInv, UNCHANGED <<source, mirror, actual, at, cap, push>>
  PROVE  CaptureInv'
BY DEF CaptureInv

\* A loop that goes on, and carries a capture when it awaits one.
LEMMA GotoKeeps ==
  ASSUME CaptureInv, NEW t \in Loops, NEW where, NEW c \in Captures \cup {None},
         Goto(t, where, c), UNCHANGED <<mirror, actual, push>>, source' \in Nat,
         where \in {"poll", "read"} => c \in Captures,
         where \in {"start", "read", "announce", "register", "idle", "poll", "retire", "retired"},
         t = "tick" => where \notin {"retire", "retired"},
         t = "reconnect" => where \notin {"start", "poll"}
  PROVE  CaptureInv'
BY DEF CaptureInv, Goto, Loops

\* Every step keeps the captures in flight, and the load.
LEMMA CapturesAreKept ==
  ASSUME IInv, [Next]_vars
  PROVE  CaptureInv'
<1>1. CaptureInv /\ LaneInv
  BY DEF IInv
<1>2. Snapshot \in Captures /\ [source |-> source, val |-> actual, era |-> eras] \in Captures
  BY <1>1, CapturesAreCaptures
<1>3. "tick" \in Loops /\ "reconnect" \in Loops /\ None \in Captures \cup {None}
  BY DEF Loops
<1>4. source \in Nat /\ source + 1 \in Nat
  BY <1>1 DEF CaptureInv
<1>5. CASE PollRead \/ Reconcile \/ ReconnectRead
  BY <1>1, <1>2, <1>3, <1>4, <1>5, GotoKeeps DEF PollRead, Reconcile, ReconnectRead, busOnly
<1>6. CASE Polled \/ Registered
  BY <1>1, <1>3, <1>4, <1>6, GotoKeeps DEF Polled, Registered, busOnly
<1>7. CASE Reconnect
  BY <1>1, <1>3, <1>4, <1>7, GotoKeeps DEF Reconnect
<1>8. CASE Retire
  BY <1>1, <1>3, <1>4, <1>8, GotoKeeps DEF Retire, busOnly
<1>9. ASSUME NEW t \in Loops, Returned(t) \/ Announced(t)
      PROVE  CaptureInv'
  BY <1>1, <1>3, <1>4, <1>9, GotoKeeps DEF Returned, Announced, busOnly, Loops
<1>10. CASE Notify
  BY <1>1, <1>2, <1>10 DEF Notify, CaptureInv, loops
<1>11. CASE Push
  BY <1>1, <1>11 DEF Push, CaptureInv, busOnly, loops
<1>12. ASSUME NEW f \in Fields, NEW v \in Reports, ByHand(f, v)
       PROVE  CaptureInv'
  <2>1. v \in Values \cup {None}
    BY DataAssumption
  <2> QED
    BY <1>1, <1>12, <2>1 DEF ByHand, CaptureInv, Known, loops
<1>13. CASE Take
  <2>1. rpcs # <<>> /\ Head(rpcs) \in Writes
    BY <1>1, <1>13, HeldIsLast DEF Take, LaneInv
  <2>2. Head(rpcs).target \in Targets
    BY <2>1 DEF Writes
  <2>3. actual' \in Known
    BY <1>1, <1>13, <2>2 DEF Take, CaptureInv, Known, Targets
  <2> QED
    BY <1>1, <1>13, <2>3 DEF Take, CaptureInv, loops
<1>14. CASE LaneStep
  BY <1>1, <1>14, CapturesAreUntouched
     DEF LaneStep, Handle, HandleFolded, Issue, Succeed, Fail, Timeout, laneOnly, loops
<1>15. CASE Fold \/ Settle \/ Expire \/ Complete \/ PublishFails
  BY <1>1, <1>15, CapturesAreUntouched
     DEF Fold, Settle, Expire, Complete, PublishFails, laneOnly, pubOnly, busOnly, loops
<1>16. CASE NewSession
  <2>1. /\ source' \in Nat /\ push' = None /\ mirror' = mirror /\ actual' = actual
        /\ at' = [t \in Loops |-> IF t = "tick" THEN "start" ELSE "idle"]
        /\ cap' = [t \in Loops |-> None]
    BY <1>4, <1>16 DEF NewSession
  <2> QED
    BY <1>1, <2>1 DEF CaptureInv, Loops
<1>17. CASE UNCHANGED vars
  BY <1>1, <1>17, CapturesAreUntouched DEF vars, loops
<1> QED
  BY <1>5, <1>6, <1>7, <1>8, <1>9, <1>10, <1>11, <1>12, <1>13, <1>14, <1>15, <1>16, <1>17
     DEF Next, Works, Bus, Loop, LaneStep

-----------------------------------------------------------------------------
(* The theorems                                                            *)

\* A bridge that starts has no request, no write and no publication.
LEMMA InitHolds == Init => IInv
<1> SUFFICES ASSUME Init PROVE IInv
  OBVIOUS
<1>1. NoEra \in [Fields -> Nat \cup {-1}]
  BY DEF NoEra
<1>2. /\ rec \in Records /\ rec.feedback = None /\ rec.deadline = None /\ rec.attempt = None
  BY <1>1 DEF Init, NewRecord, Records
<1>3. PublisherInv
  BY <1>2 DEF Init, PublisherInv, Consistent, OneWindow
<1>4. LaneInv
  <2>1. Len(Commands) \in Nat
    BY DataAssumption, LenProperties
  <2> DEFINE n == Len(Commands)
  <2> HIDE DEF n
  <2>2. 0 \in 0 .. n
    BY <2>1 DEF n
  <2>3. commands \in 0 .. Len(Commands)
    BY <2>2 DEF Init, n
  <2>4. /\ handler \in [at: {"idle", "writing", "folded"}, target: Range(Commands) \cup {None}]
        /\ handler.at = "idle"
    BY DEF Init, NoHandler
  <2>5. rpcs = <<>> /\ Lined(rpcs) /\ ~Held(rpcs) /\ ~Waits(rpcs)
    BY NoWrites DEF Init
  <2> QED
    BY <2>3, <2>4, <2>5 DEF Init, LaneInv
<1>5. CaptureInv
  <2>1. (CHOOSE v \in Values : TRUE) \in Values
    BY DataAssumption
  <2>2. actual \in Known /\ mirror \in Known
    BY <2>1 DEF Init, Known
  <2> QED
    BY <2>2 DEF Init, CaptureInv, Loops
<1> QED
  BY <1>3, <1>4, <1>5 DEF IInv

\* The inductive invariant holds of every behaviour.
THEOREM IInvHolds == Spec => []IInv
<1>1. IInv /\ [Next]_vars => IInv'
  BY PublisherIsKept, LaneIsKept, CapturesAreKept DEF IInv
<1> QED
  BY InitHolds, <1>1, PTL DEF Spec

\* Every variable holds what its place in the program can hold, whatever the load,
\* its commands and the faults: an era has a command of its own, so there are never
\* more eras than commands, and a document that tells of no pending request carries
\* neither its targets nor its deadline.
THEOREM TypeCorrect == Spec => []TypeOK
<1>1. IInv => TypeOK
  <2> SUFFICES ASSUME IInv PROVE TypeOK
    OBVIOUS
  <2>1. PublisherInv /\ LaneInv /\ CaptureInv
    BY DEF IInv
  <2>2. /\ rec \in Records /\ pub \in Publishers \cup {None} /\ dirty \in BOOLEAN
        /\ force \in BOOLEAN /\ cached \in Documents \cup {None}
        /\ wire \in Documents \cup {None} /\ window \in Nat \cup {None}
    BY <2>1 DEF PublisherInv
  <2>3. /\ commands \in Nat /\ faults \in Nat /\ eras \in [Fields -> Nat]
        /\ handler \in [at: {"idle", "writing", "folded"}, target: Range(Commands) \cup {None}]
        /\ rpcs \in Seq(Writes)
    BY <2>1 DEF LaneInv, Lined
  <2>4. /\ source \in Nat /\ mirror \in Known /\ actual \in Known
        /\ at["tick"] \in {"start", "read", "announce", "register", "idle", "poll"}
        /\ at["reconnect"] \in {"idle", "retire", "retired", "read", "announce", "register"}
    BY <2>1 DEF CaptureInv, Loops
  <2> QED
    BY <2>2, <2>3, <2>4 DEF TypeOK, Records, Publishers, Writes
<1> QED
  BY <1>1, IInvHolds, PTL

\* Whatever successes, timeouts, reconnections and failed publications follow each
\* other, requested values that are published are under the deadline that the wire
\* has shown since native values were on it: no success renews the window.
THEOREM WindowHolds == Spec => []WindowIsNotRenewed
<1>1. IInv => WindowIsNotRenewed
  BY DEF IInv, PublisherInv, OneWindow, WindowIsNotRenewed
<1> QED
  BY <1>1, IInvHolds, PTL

\* A field that is projected has seen no capture of its issue or of a later one, in
\* whatever order the captures of the loops and of the pushes arrive.
THEOREM ProjectionHolds == Spec => []ProjectionYields
<1>1. IInv => ProjectionYields
  BY DEF IInv, PublisherInv, Consistent, ProjectionYields
<1> QED
  BY <1>1, IInvHolds, PTL

\* What the diff of a publication is made against is what the broker retains, or
\* nothing: no failed publication hides the repair that follows it.
THEOREM CacheHolds == Spec => []CacheIsHonest
<1>1. IInv => CacheIsHonest
  BY DEF IInv, PublisherInv, CacheIsHonest
<1> QED
  BY <1>1, IInvHolds, PTL
=============================================================================
