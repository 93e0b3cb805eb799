------------------------- MODULE Commands_proofs -------------------------
(***************************************************************************)
(* Commands on their way to a load, for all kinds of commands, all values  *)
(* of a load and all sizes of the queues, and for every number of          *)
(* commands, failures, losses of the election and changes by hand.         *)
(*                                                                         *)
(* The lane: what the worker handles, what is pending in the lane, the put *)
(* that waits and the transport queue are one line, in which every command *)
(* is Before those behind it; the write that waits for the device has the  *)
(* values of the command the worker handles.                               *)
(*                                                                         *)
(* The mesh load: what is pending and what is under way is about the       *)
(* feedback in force, only the leader publishes, and the broker retains    *)
(* what it was handed last.                                                *)
(***************************************************************************)
EXTENDS CommandLane, MeshConfirm, SequenceTheorems, TLAPS


\* Functions from fields to numbers.
Maps == UNION {[s -> Nat] : s \in SUBSET Fields}

\* A command of which no number is above n.
Good(n) ==
  {m \in [topic : Topics, off : BOOLEAN, plain : BOOLEAN, fields : Maps] :
     /\ \E k \in Kinds : m.topic = k.topic /\ m.off = k.off /\ m.plain = k.plain
     /\ \A f \in DOMAIN m.fields : TopicOf(f) = m.topic /\ m.fields[f] \in 1 .. n
     /\ m.off => "on" \in DOMAIN m.fields}

\* Command a may act before b and not after it.
Before(a, b) ==
  \A f \in DOMAIN Sets(a), g \in DOMAIN Sets(b) :
     f = g \/ "switch" \in {f, g} => Sets(a)[f] < Sets(b)[g]

\* The values of command a are not older than the values old.
Unsent(a, old) == \A f \in DOMAIN Sets(a) : old[f] <= Sets(a)[f]

\* The same for whole queues of commands.
Ordered(s) == \A i, j \in DOMAIN s : i < j => Before(s[i], s[j])
Precede(s, t) == \A i \in DOMAIN s, j \in DOMAIN t : Before(s[i], t[j])
NotYet(s, old) == \A i \in DOMAIN s : Unsent(s[i], old)

\* What the worker handles (a), what is pending (l), the put that waits (h) and the
\* transport queue (b) are one line of commands, none older than what was sent.
Line(a, l, h, b, n, old) ==
  /\ a \in Seq(Good(n)) /\ l \in Seq(Good(n)) /\ h \in Seq(Good(n)) /\ b \in Seq(Good(n))
  /\ Len(a) <= 1 /\ Len(h) <= 1
  /\ Ordered(l) /\ Ordered(b)
  /\ Precede(a, l) /\ Precede(a, h) /\ Precede(a, b)
  /\ Precede(l, h) /\ Precede(l, b) /\ Precede(h, b)
  /\ NotYet(a, old) /\ NotYet(l, old) /\ NotYet(h, old) /\ NotYet(b, old)

LineInv ==
  /\ arrived \in 0 .. MaxCommands /\ sent \in [Fields -> 0 .. arrived]
  /\ Line(active, lane, held, inbox, arrived, sent)

\* A write of the bus, and one with the values v that waits alone or as a ticket.
Write == [sets : Maps, epoch : Nat, owner : {"ticket", "own", "nobody"}]
IsWrite(q, v) == \E w \in Write : q = <<w>> /\ w.sets = v
IsOwned(q, v, owner) == \E w \in Write : q = <<w>> /\ w.sets = v /\ w.owner = owner

\* The worker's write: at most one waits, and it has the values of its command.
WorkerInv ==
  /\ stage \in Stage
  /\ (active # <<>>) <=> stage \in Busy
  /\ hook # <<>> => stage \in Busy
  /\ stage \in {"ticket", "superseded"} =>
       hook # <<>> /\ Latest(active[1]) /\ IsWrite(ticket, Sets(active[1]))
  /\ queue # <<>> =>
       \/ stage \in {"ticket", "superseded"} /\ IsOwned(queue, Sets(active[1]), "ticket")
       \/ stage = "own" /\ IsOwned(queue, Sets(active[1]), "own")

\* What is bounded.
Limits ==
  /\ Len(inbox) <= InboxSize /\ Len(lane) <= LaneSize
  /\ running \in Seq(Write) /\ Len(running) <= 1
  /\ epoch \in 0 .. MaxRetypes /\ failures \in 0 .. MaxFailures
  /\ stage \in Busy \cup {"idle", "closing"} => failures < MaxFailures
  /\ due \in [Fields -> 0 .. MaxCommands]

IInv == LineInv /\ WorkerInv /\ Limits

-----------------------------------------------------------------------------
(* Commands                                                                *)

\* What it means to be such a function.
LEMMA MapFacts ==
  ASSUME NEW f
  PROVE  f \in Maps <=> /\ f = [x \in DOMAIN f |-> f[x]] /\ DOMAIN f \subseteq Fields
                        /\ \A x \in DOMAIN f : f[x] \in Nat
BY DEF Maps

\* One function over another.
LEMMA OverFacts ==
  ASSUME NEW f \in Maps, NEW g \in Maps
  PROVE  /\ Over(f, g) \in Maps /\ DOMAIN Over(f, g) = DOMAIN f \cup DOMAIN g
         /\ \A x \in DOMAIN f : Over(f, g)[x] = f[x]
         /\ \A x \in DOMAIN g \ DOMAIN f : Over(f, g)[x] = g[x]
<1>1. /\ DOMAIN Over(f, g) = DOMAIN f \cup DOMAIN g
      /\ \A x \in DOMAIN f : Over(f, g)[x] = f[x]
      /\ \A x \in DOMAIN g \ DOMAIN f : Over(f, g)[x] = g[x]
      /\ Over(f, g) = [x \in DOMAIN Over(f, g) |-> Over(f, g)[x]]
  BY DEF Over
<1>2. \A x \in DOMAIN Over(f, g) : Over(f, g)[x] \in Nat
  BY <1>1, MapFacts
<1>3. DOMAIN Over(f, g) \subseteq Fields
  BY <1>1, MapFacts
<1> QED
  BY <1>1, <1>2, <1>3, MapFacts

\* A good command, its values, and the numbers it may have.
LEMMA GoodFacts ==
  ASSUME NEW n \in Nat, NEW m \in Good(n)
  PROVE  /\ m.fields \in Maps /\ m.topic \in Topics /\ m.off \in BOOLEAN /\ m.plain \in BOOLEAN
         /\ Sets(m) \in Maps
         /\ DOMAIN Sets(m) = (IF m.off THEN {"on"} ELSE DOMAIN m.fields)
         /\ DOMAIN Sets(m) \subseteq DOMAIN m.fields
         /\ \A f \in DOMAIN Sets(m) :
              Sets(m)[f] = m.fields[f] /\ Sets(m)[f] \in 1 .. n /\ TopicOf(f) = m.topic
         /\ m.plain => m.topic # "set_switch"
<1>1. /\ m.fields \in Maps /\ m.topic \in Topics /\ m.off \in BOOLEAN /\ m.plain \in BOOLEAN
      /\ m.off => "on" \in DOMAIN m.fields
      /\ \A f \in DOMAIN m.fields : TopicOf(f) = m.topic /\ m.fields[f] \in 1 .. n
  BY DEF Good
<1>2. PICK k \in Kinds : m.topic = k.topic /\ m.off = k.off /\ m.plain = k.plain
  BY DEF Good
<1>3. m.plain => m.topic # "set_switch"
  BY <1>2, LaneAssumption DEF Kind
<1>4. DOMAIN m.fields \subseteq Fields
  BY <1>1, MapFacts
<1>5. /\ DOMAIN Sets(m) = (IF m.off THEN {"on"} ELSE DOMAIN m.fields)
      /\ \A f \in DOMAIN Sets(m) : Sets(m)[f] = m.fields[f]
      /\ Sets(m) = [x \in DOMAIN Sets(m) |-> Sets(m)[x]]
  BY DEF Sets
<1>6. DOMAIN Sets(m) \subseteq DOMAIN m.fields
  BY <1>1, <1>5
<1>7. \A f \in DOMAIN Sets(m) : Sets(m)[f] \in Nat
  BY <1>1, <1>5, <1>6
<1>8. Sets(m) \in Maps
  BY <1>4, <1>5, <1>6, <1>7, MapFacts
<1> QED
  BY <1>1, <1>3, <1>5, <1>6, <1>8

\* A number that is good stays good.
LEMMA GoodGrows == ASSUME NEW n \in Nat, NEW m \in Nat, n <= m PROVE Good(n) \subseteq Good(m)
BY DEF Good

\* The values of m are those of b, and of a where b has none.
MergedValues(a, b, m) ==
  /\ DOMAIN Sets(m) = DOMAIN Sets(a) \cup DOMAIN Sets(b)
  /\ \A f \in DOMAIN Sets(b) : Sets(m)[f] = Sets(b)[f]
  /\ \A f \in DOMAIN Sets(a) \ DOMAIN Sets(b) : Sets(m)[f] = Sets(a)[f]

\* What stands for both commands has the values of both, those of the newer first.
LEMMA MergedFacts ==
  ASSUME NEW n \in Nat, NEW a \in Good(n), NEW b \in Good(n), a.topic = b.topic, Mergeable(a, b)
  PROVE  /\ Merged(a, b) \in Good(n)
         /\ Merged(a, b).topic = b.topic /\ Merged(a, b).plain
         /\ MergedValues(a, b, Merged(a, b))
<1> DEFINE m == Merged(a, b)
<1>1. /\ a.fields \in Maps /\ b.fields \in Maps
      /\ a.plain /\ b.plain
      /\ a.off \/ b.off => a.off /\ b.off /\ DOMAIN a.fields = {"on"} /\ DOMAIN b.fields = {"on"}
      /\ a.off \in BOOLEAN /\ b.off \in BOOLEAN
  BY GoodFacts DEF Mergeable
<1>2. /\ m \in [topic : Topics, off : BOOLEAN, plain : BOOLEAN, fields : Maps]
      /\ m.topic = b.topic /\ m.off = b.off /\ m.plain = b.plain
      /\ m.fields = Over(b.fields, a.fields)
  BY <1>1, OverFacts DEF Merged, Good
<1> HIDE DEF m
<1>3. /\ DOMAIN m.fields = DOMAIN a.fields \cup DOMAIN b.fields
      /\ \A x \in DOMAIN b.fields : m.fields[x] = b.fields[x]
      /\ \A x \in DOMAIN a.fields \ DOMAIN b.fields : m.fields[x] = a.fields[x]
  <2>1. /\ DOMAIN Over(b.fields, a.fields) = DOMAIN b.fields \cup DOMAIN a.fields
        /\ \A x \in DOMAIN b.fields : Over(b.fields, a.fields)[x] = b.fields[x]
        /\ \A x \in DOMAIN a.fields \ DOMAIN b.fields :
             Over(b.fields, a.fields)[x] = a.fields[x]
    BY <1>1, OverFacts
  <2> QED
    BY <1>2, <2>1
<1>4. \A f \in DOMAIN m.fields : TopicOf(f) = m.topic /\ m.fields[f] \in 1 .. n
  BY <1>2, <1>3 DEF Good
<1>5. \E k \in Kinds : m.topic = k.topic /\ m.off = k.off /\ m.plain = k.plain
  BY <1>2 DEF Good
<1>6. m.off => "on" \in DOMAIN m.fields
  BY <1>1, <1>2, <1>3
<1>7. m \in Good(n)
  BY <1>2, <1>4, <1>5, <1>6 DEF Good
<1>8. /\ DOMAIN Sets(m) = DOMAIN Sets(a) \cup DOMAIN Sets(b)
      /\ DOMAIN Sets(m) = DOMAIN m.fields /\ DOMAIN Sets(a) = DOMAIN a.fields
      /\ DOMAIN Sets(b) = DOMAIN b.fields
  BY <1>1, <1>2, <1>3, <1>7, GoodFacts
<1>9. /\ \A f \in DOMAIN Sets(b) : Sets(m)[f] = Sets(b)[f]
      /\ \A f \in DOMAIN Sets(a) \ DOMAIN Sets(b) : Sets(m)[f] = Sets(a)[f]
  BY <1>3, <1>7, <1>8, GoodFacts
<1> QED
  BY <1>1, <1>2, <1>7, <1>8, <1>9 DEF m, MergedValues

\* It is behind what both are behind, and before what both are before.
LEMMA MergedKeepsOrder ==
  ASSUME NEW n \in Nat, NEW a \in Good(n), NEW b \in Good(n), a.topic = b.topic, Mergeable(a, b),
         NEW x
  PROVE  /\ Before(x, a) /\ Before(x, b) => Before(x, Merged(a, b))
         /\ Before(a, x) /\ Before(b, x) => Before(Merged(a, b), x)
         /\ \A old : Unsent(a, old) /\ Unsent(b, old) => Unsent(Merged(a, b), old)
<1> DEFINE m == Merged(a, b)
<1>1. MergedValues(a, b, m)
  BY MergedFacts
<1> HIDE DEF m
<1>2. Before(x, a) /\ Before(x, b) => Before(x, m)
  BY <1>1 DEF Before, MergedValues
<1>3. Before(a, x) /\ Before(b, x) => Before(m, x)
  BY <1>1 DEF Before, MergedValues
<1>4. \A old : Unsent(a, old) /\ Unsent(b, old) => Unsent(m, old)
  BY <1>1 DEF Unsent, MergedValues
<1> QED
  BY <1>2, <1>3, <1>4 DEF m

\* A command of another topic that is no barrier may stand on either side.
LEMMA ApartAreBefore ==
  ASSUME NEW n \in Nat, NEW a \in Good(n), NEW b \in Good(n), a.topic # b.topic, a.plain, b.plain
  PROVE  Before(a, b)
<1>1. /\ a.topic # "set_switch" /\ b.topic # "set_switch"
      /\ \A f \in DOMAIN Sets(a) : TopicOf(f) = a.topic
      /\ \A f \in DOMAIN Sets(b) : TopicOf(f) = b.topic
  BY GoodFacts
<1>2. TopicOf("switch") = "set_switch"
  BY DEF TopicOf
<1> QED
  BY <1>1, <1>2 DEF Before

-----------------------------------------------------------------------------
(* Queues                                                                  *)

\* Where a command replaces a pending one, all behind that one are of other
\* topics and no barriers.
LEMMA PutFacts ==
  ASSUME NEW n \in Nat, NEW q \in Seq(Good(n)), NEW m \in Good(n),
         Ordered(q), \A i \in DOMAIN q : Before(q[i], m)
  PROVE  /\ Put(q, m) \in Seq(Good(n)) /\ Ordered(Put(q, m))
         /\ \A x : (\A i \in DOMAIN q : Before(x, q[i])) /\ Before(x, m)
                     => \A i \in DOMAIN Put(q, m) : Before(x, Put(q, m)[i])
         /\ \A x : (\A i \in DOMAIN q : Before(q[i], x)) /\ Before(m, x)
                     => \A i \in DOMAIN Put(q, m) : Before(Put(q, m)[i], x)
         /\ \A old : NotYet(q, old) /\ Unsent(m, old) => NotYet(Put(q, m), old)
         /\ Len(Put(q, m)) <= Len(q) + 1
         /\ Twin(q, m) # {} => Len(Put(q, m)) = Len(q)
<1> DEFINE p == Put(q, m)
<1>1. CASE Twin(q, m) = {}
  <2>1. p = Append(q, m)
    BY <1>1 DEF Put
  <2>2. /\ p \in Seq(Good(n)) /\ Len(p) = Len(q) + 1 /\ DOMAIN p = 1 .. Len(q) + 1
        /\ DOMAIN q = 1 .. Len(q) /\ Len(q) \in Nat
        /\ \A i \in DOMAIN p : p[i] = IF i \in DOMAIN q THEN q[i] ELSE m
        /\ \A i, j \in DOMAIN p : i < j => i \in DOMAIN q
    BY <2>1
  <2> HIDE DEF p
  <2>3. Ordered(p)
    BY <2>2 DEF Ordered
  <2> QED
    BY <1>1, <2>2, <2>3 DEF p, NotYet
<1>2. CASE Twin(q, m) # {}
  <2> DEFINE i == CHOOSE k \in Twin(q, m) : TRUE
  <2>1. i \in Twin(q, m)
    BY <1>2
  <2>2. p = [q EXCEPT ![i] = Merged(q[i], m)]
    BY <1>2 DEF Put, Replaced
  <2> HIDE DEF i, p
  <2>3. /\ i \in DOMAIN q /\ q[i].topic = m.topic /\ Mergeable(q[i], m)
        /\ \A j \in (i + 1) .. Len(q) : q[j].topic # m.topic /\ q[j].plain
    BY <2>1 DEF Twin
  <2>4. /\ q[i] \in Good(n) /\ DOMAIN q = 1 .. Len(q) /\ Len(q) \in Nat
        /\ \A k \in DOMAIN q : q[k] \in Good(n)
    BY <2>3
  <2>5. Merged(q[i], m) \in Good(n)
    BY <2>3, <2>4, MergedFacts
  <2>6. /\ p \in Seq(Good(n)) /\ Len(p) = Len(q) /\ DOMAIN p = DOMAIN q
        /\ p[i] = Merged(q[i], m) /\ \A k \in DOMAIN p \ {i} : p[k] = q[k]
    BY <2>2, <2>3, <2>4, <2>5
  <2>7. ASSUME NEW k \in DOMAIN q, i < k PROVE Before(p[i], p[k])
    <3>1. Before(q[i], q[k])
      BY <2>3, <2>7 DEF Ordered
    <3>2. Before(m, q[k])
      <4>1. q[k].topic # m.topic /\ q[k].plain /\ m.plain
        BY <2>3, <2>4, <2>7 DEF Mergeable
      <4> QED
        BY <4>1, <2>4, ApartAreBefore
    <3> QED
      BY <2>3, <2>4, <2>6, <2>7, <3>1, <3>2, MergedKeepsOrder
  <2>8. ASSUME NEW k \in DOMAIN q, k < i PROVE Before(p[k], p[i])
    <3>1. Before(q[k], q[i]) /\ Before(q[k], m)
      BY <2>3, <2>8 DEF Ordered
    <3> QED
      BY <2>3, <2>4, <2>6, <2>8, <3>1, MergedKeepsOrder
  <2>9. Ordered(p)
    BY <2>4, <2>6, <2>7, <2>8 DEF Ordered
  <2>10. ASSUME NEW x, \A k \in DOMAIN q : Before(x, q[k]), Before(x, m)
         PROVE  \A k \in DOMAIN p : Before(x, p[k])
    BY <2>3, <2>4, <2>6, <2>10, MergedKeepsOrder
  <2>11. ASSUME NEW x, \A k \in DOMAIN q : Before(q[k], x), Before(m, x)
         PROVE  \A k \in DOMAIN p : Before(p[k], x)
    BY <2>3, <2>4, <2>6, <2>11, MergedKeepsOrder
  <2>12. ASSUME NEW old, NotYet(q, old), Unsent(m, old) PROVE NotYet(p, old)
    BY <2>3, <2>4, <2>6, <2>12, MergedKeepsOrder DEF NotYet
  <2> QED
    BY <1>2, <2>4, <2>6, <2>9, <2>10, <2>11, <2>12 DEF p
<1> QED
  BY <1>1, <1>2

\* A queue without commands.
LEMMA NoneFacts ==
  /\ \A n : <<>> \in Seq(Good(n))
  /\ Len(<<>>) = 0 /\ Ordered(<<>>) /\ \A old : NotYet(<<>>, old)
  /\ \A q : Precede(<<>>, q) /\ Precede(q, <<>>)
<1>1. DOMAIN <<>> = {} /\ Len(<<>>) = 0 /\ \A n : <<>> \in Seq(Good(n))
  OBVIOUS
<1> QED
  BY <1>1 DEF Ordered, NotYet, Precede

\* A queue of one command.
LEMMA OneFacts ==
  ASSUME NEW n, NEW m \in Good(n)
  PROVE  /\ <<m>> \in Seq(Good(n)) /\ Len(<<m>>) = 1 /\ <<m>> # <<>>
         /\ Ordered(<<m>>) /\ \A old : NotYet(<<m>>, old) <=> Unsent(m, old)
         /\ \A q : /\ Precede(<<m>>, q) <=> \A j \in DOMAIN q : Before(m, q[j])
                   /\ Precede(q, <<m>>) <=> \A i \in DOMAIN q : Before(q[i], m)
<1> DEFINE s == <<m>>
<1>1. /\ s \in Seq(Good(n)) /\ Len(s) = 1 /\ s # <<>>
      /\ DOMAIN s = {1} /\ \A i \in DOMAIN s : s[i] = m
      /\ \A i, j \in DOMAIN s : ~ i < j
  OBVIOUS
<1> HIDE DEF s
<1>2. Ordered(s)
  BY <1>1 DEF Ordered
<1>3. \A old : NotYet(s, old) <=> Unsent(m, old)
  BY <1>1 DEF NotYet
<1>4. \A q : Precede(s, q) <=> \A j \in DOMAIN q : Before(m, q[j])
  BY <1>1 DEF Precede
<1>5. \A q : Precede(q, s) <=> \A i \in DOMAIN q : Before(q[i], m)
  BY <1>1 DEF Precede
<1> QED
  BY <1>1, <1>2, <1>3, <1>4, <1>5 DEF s

\* The first command of a queue and those behind it.
LEMMA TailFacts ==
  ASSUME NEW n, NEW q \in Seq(Good(n)), q # <<>>
  PROVE  /\ Head(q) \in Good(n) /\ Tail(q) \in Seq(Good(n)) /\ Len(Tail(q)) < Len(q)
         /\ Ordered(q) => Ordered(Tail(q)) /\ \A j \in DOMAIN Tail(q) : Before(Head(q), Tail(q)[j])
         /\ \A old : NotYet(q, old) => NotYet(Tail(q), old) /\ Unsent(Head(q), old)
         /\ \A t : Precede(t, q) => Precede(t, Tail(q)) /\ \A i \in DOMAIN t : Before(t[i], Head(q))
         /\ \A t : Precede(q, t) => Precede(Tail(q), t) /\ \A i \in DOMAIN t : Before(Head(q), t[i])
<1> DEFINE t == Tail(q)
           one == 1
<1>1. /\ Head(q) \in Good(n) /\ t \in Seq(Good(n)) /\ Len(t) < Len(q)
      /\ one \in DOMAIN q /\ q[one] = Head(q)
  OBVIOUS
<1>2. /\ \A i \in DOMAIN t : i + 1 \in DOMAIN q /\ t[i] = q[i + 1] /\ i \in Nat /\ one < i + 1
      /\ \A i, j \in DOMAIN t : i < j => i + 1 < j + 1
  OBVIOUS
<1> HIDE DEF t, one
<1>3. ASSUME Ordered(q) PROVE Ordered(t) /\ \A j \in DOMAIN t : Before(Head(q), t[j])
  BY <1>1, <1>2, <1>3 DEF Ordered
<1>4. ASSUME NEW old, NotYet(q, old) PROVE NotYet(t, old) /\ Unsent(Head(q), old)
  BY <1>1, <1>2, <1>4 DEF NotYet
<1>5. ASSUME NEW p, Precede(p, q)
      PROVE  Precede(p, t) /\ \A i \in DOMAIN p : Before(p[i], Head(q))
  BY <1>1, <1>2, <1>5 DEF Precede
<1>6. ASSUME NEW p, Precede(q, p)
      PROVE  Precede(t, p) /\ \A i \in DOMAIN p : Before(Head(q), p[i])
  BY <1>1, <1>2, <1>6 DEF Precede
<1> QED
  BY <1>1, <1>3, <1>4, <1>5, <1>6 DEF t

\* One queue behind another.
LEMMA JoinFacts ==
  ASSUME NEW n, NEW p \in Seq(Good(n)), NEW q \in Seq(Good(n)),
         Ordered(p), Ordered(q), Precede(p, q)
  PROVE  /\ p \o q \in Seq(Good(n)) /\ Ordered(p \o q)
         /\ \A old : NotYet(p, old) /\ NotYet(q, old) => NotYet(p \o q, old)
         /\ \A t : Precede(t, p) /\ Precede(t, q) => Precede(t, p \o q)
         /\ \A t : Precede(p, t) /\ Precede(q, t) => Precede(p \o q, t)
<1> DEFINE r == p \o q
           k == Len(p)
<1>1. /\ r \in Seq(Good(n)) /\ k \in Nat
      /\ \A i \in DOMAIN r : i \in Int
      /\ \A i \in DOMAIN r : i \notin DOMAIN p => i - k \in DOMAIN q /\ r[i] = q[i - k] /\ i > k
      /\ \A i \in DOMAIN r : i \in DOMAIN p => r[i] = p[i] /\ i <= k
  OBVIOUS
<1> HIDE DEF r, k
<1>2. ASSUME NEW i \in DOMAIN r, NEW j \in DOMAIN r, i < j PROVE Before(r[i], r[j])
  <2>1. CASE j \in DOMAIN p
    <3>1. i \in DOMAIN p
      BY <1>1, <1>2, <2>1
    <3> QED
      BY <1>1, <1>2, <2>1, <3>1 DEF Ordered
  <2>2. CASE i \in DOMAIN p /\ j \notin DOMAIN p
    BY <1>1, <2>2 DEF Precede
  <2>3. CASE i \notin DOMAIN p /\ j \notin DOMAIN p
    <3>1. i - k < j - k
      BY <1>1, <1>2
    <3> QED
      BY <1>1, <2>3, <3>1 DEF Ordered
  <2> QED
    BY <2>1, <2>2, <2>3
<1>3. ASSUME NEW old, NotYet(p, old), NotYet(q, old) PROVE NotYet(r, old)
  BY <1>1, <1>3 DEF NotYet
<1>4. ASSUME NEW t, Precede(t, p), Precede(t, q) PROVE Precede(t, r)
  BY <1>1, <1>4 DEF Precede
<1>5. ASSUME NEW t, Precede(p, t), Precede(q, t) PROVE Precede(r, t)
  BY <1>1, <1>5 DEF Precede
<1> QED
  BY <1>1, <1>2, <1>3, <1>4, <1>5 DEF r, Ordered

\* A queue of at most one command.
LEMMA AtMostOne ==
  ASSUME NEW S, NEW q \in Seq(S), Len(q) <= 1, q # <<>>
  PROVE  q = <<q[1]>> /\ q[1] \in S /\ Len(q) = 1
<1>1. Len(q) = 1 /\ q[1] \in S
  BY EmptySeq
<1> DEFINE x == q[1]
<1>2. x \in S /\ Len(<<x>>) = 1 /\ <<x>> \in Seq(S)
  BY <1>1
<1>3. \A i \in 1 .. 1 : q[i] = <<x>>[i]
  OBVIOUS
<1> HIDE DEF x
<1>4. q = <<x>>
  BY <1>1, <1>2, <1>3, SeqEqual
<1> QED
  BY <1>1, <1>4 DEF x

\* The command of a queue of one command.
LEMMA OnlyOne == ASSUME NEW S, NEW m, <<m>> \in Seq(S) PROVE m \in S
<1> DEFINE q == <<m>>
<1>1. \A p \in Seq(S) : \A i \in DOMAIN p : p[i] \in S
  OBVIOUS
<1>2. /\ q \in Seq(S) /\ \A i \in {1} : i \in DOMAIN q /\ q[i] = m
      /\ \E i : i \in {1}
  OBVIOUS
<1> HIDE DEF q
<1> QED
  BY <1>1, <1>2, Zenon

\* What stays good when a number is added.
LEMMA SeqGrows ==
  ASSUME NEW n \in Nat, NEW m \in Nat, n <= m PROVE Seq(Good(n)) \subseteq Seq(Good(m))
BY GoodGrows

-----------------------------------------------------------------------------
(* The line                                                                *)

\* The worker is done with its command, or leaves it.
LEMMA LineLeaves ==
  ASSUME NEW a, NEW l, NEW h, NEW b, NEW n, NEW old, Line(a, l, h, b, n, old)
  PROVE  Line(<<>>, l, h, b, n, old) /\ Line(a, <<>>, <<>>, b, n, old)
BY NoneFacts DEF Line

\* The first command of the transport queue leaves it: it is refused, put into the
\* lane, or waits for room there.
LEMMA LineDispatches ==
  ASSUME NEW a, NEW l, NEW b, NEW n \in Nat, NEW old, Line(a, l, <<>>, b, n, old), b # <<>>
  PROVE  /\ Line(a, l, <<>>, Tail(b), n, old)
         /\ Line(a, Put(l, Head(b)), <<>>, Tail(b), n, old)
         /\ Line(a, l, <<Head(b)>>, Tail(b), n, old)
         /\ Len(Put(l, Head(b))) <= Len(l) + 1
         /\ Twin(l, Head(b)) # {} => Len(Put(l, Head(b))) = Len(l)
<1> DEFINE m == Head(b)
           t == Tail(b)
           p == Put(l, m)
           one == <<m>>
<1>1. /\ b \in Seq(Good(n)) /\ l \in Seq(Good(n)) /\ a \in Seq(Good(n)) /\ Len(a) <= 1
      /\ Ordered(l) /\ Ordered(b)
      /\ Precede(a, l) /\ Precede(a, b) /\ Precede(l, b)
      /\ NotYet(a, old) /\ NotYet(l, old) /\ NotYet(b, old)
  BY DEF Line
<1>2. /\ m \in Good(n) /\ t \in Seq(Good(n)) /\ Ordered(t)
      /\ \A j \in DOMAIN t : Before(m, t[j])
      /\ NotYet(t, old) /\ Unsent(m, old)
      /\ Precede(a, t) /\ \A i \in DOMAIN a : Before(a[i], m)
      /\ Precede(l, t) /\ \A i \in DOMAIN l : Before(l[i], m)
  BY <1>1, TailFacts
<1> HIDE DEF m, t
<1>3. /\ p \in Seq(Good(n)) /\ Ordered(p) /\ NotYet(p, old)
      /\ \A x : (\A i \in DOMAIN l : Before(x, l[i])) /\ Before(x, m)
                  => \A i \in DOMAIN p : Before(x, p[i])
      /\ \A x : (\A i \in DOMAIN l : Before(l[i], x)) /\ Before(m, x)
                  => \A i \in DOMAIN p : Before(p[i], x)
      /\ Len(p) <= Len(l) + 1
      /\ Twin(l, m) # {} => Len(p) = Len(l)
  BY <1>1, <1>2, PutFacts
<1> HIDE DEF p
<1>4. Precede(a, p) /\ Precede(p, t)
  BY <1>1, <1>2, <1>3 DEF Precede
<1>5. /\ one \in Seq(Good(n)) /\ Len(one) = 1 /\ NotYet(one, old)
      /\ Precede(a, one) /\ Precede(l, one) /\ Precede(one, t)
  BY <1>2, OneFacts
<1> HIDE DEF one
<1>6. Line(a, l, <<>>, t, n, old)
  BY <1>1, <1>2, NoneFacts DEF Line
<1>7. Line(a, p, <<>>, t, n, old)
  BY <1>1, <1>2, <1>3, <1>4, NoneFacts DEF Line
<1>8. Line(a, l, one, t, n, old)
  BY <1>1, <1>2, <1>5 DEF Line
<1> QED
  BY <1>3, <1>6, <1>7, <1>8 DEF m, t, p, one

\* The put that waited gets its room.
LEMMA LineUnblocks ==
  ASSUME NEW a, NEW l, NEW h, NEW b, NEW n, NEW old, Line(a, l, h, b, n, old), h # <<>>
  PROVE  Line(a, Append(l, h[1]), <<>>, b, n, old)
<1>1. h = <<h[1]>> /\ h[1] \in Good(n)
  BY AtMostOne DEF Line
<1>2. Ordered(h)
  BY <1>1, OneFacts
<1>3. Append(l, h[1]) = l \o h
  <2>1. l \in Seq(Good(n))
    BY DEF Line
  <2> DEFINE x == h[1]
  <2>2. x \in Good(n) /\ h = <<x>>
    BY <1>1
  <2> HIDE DEF x
  <2>3. Append(l, x) = l \o <<x>>
    BY <2>1, <2>2
  <2> QED
    BY <2>2, <2>3 DEF x
<1>4. /\ l \o h \in Seq(Good(n)) /\ Ordered(l \o h) /\ NotYet(l \o h, old)
      /\ Precede(a, l \o h) /\ Precede(l \o h, b)
  BY <1>2, JoinFacts DEF Line
<1> QED
  BY <1>3, <1>4, NoneFacts DEF Line

\* A command arrives: its number is above all others.
LEMMA LineArrives ==
  ASSUME NEW a, NEW l, NEW h, NEW b, NEW n \in Nat, NEW old, Line(a, l, h, b, n, old),
         NEW m \in Good(n + 1), \A f \in DOMAIN m.fields : m.fields[f] = n + 1,
         old \in [Fields -> 0 .. n]
  PROVE  /\ Line(a, l, h, Put(b, m), n + 1, old)
         /\ Len(Put(b, m)) <= Len(b) + 1
         /\ Twin(b, m) # {} => Len(Put(b, m)) = Len(b)
<1> DEFINE p == Put(b, m)
           k == n + 1
<1>1. k \in Nat /\ n < k /\ Seq(Good(n)) \subseteq Seq(Good(k))
  BY SeqGrows
<1>2. /\ DOMAIN Sets(m) \subseteq Fields
      /\ \A f \in DOMAIN Sets(m) : Sets(m)[f] = k
  BY <1>1, GoodFacts, MapFacts
<1> HIDE DEF k
<1>3. \A x \in Good(n) : Before(x, m)
  <2> SUFFICES ASSUME NEW x \in Good(n) PROVE Before(x, m)
    OBVIOUS
  <2>1. \A f \in DOMAIN Sets(x) : Sets(x)[f] \in 1 .. n
    BY GoodFacts
  <2> QED
    BY <1>1, <1>2, <2>1 DEF Before
<1>4. Unsent(m, old)
  BY <1>1, <1>2 DEF Unsent
<1>5. /\ \A i \in DOMAIN a : Before(a[i], m)
      /\ \A i \in DOMAIN l : Before(l[i], m)
      /\ \A i \in DOMAIN h : Before(h[i], m)
      /\ \A i \in DOMAIN b : Before(b[i], m)
  BY <1>3 DEF Line
<1>6. b \in Seq(Good(k)) /\ Ordered(b) /\ NotYet(b, old) /\ m \in Good(k)
  BY <1>1 DEF Line, k
<1>7. /\ p \in Seq(Good(k)) /\ Ordered(p) /\ NotYet(p, old)
      /\ \A x : (\A i \in DOMAIN b : Before(x, b[i])) /\ Before(x, m)
                  => \A i \in DOMAIN p : Before(x, p[i])
      /\ Len(p) <= Len(b) + 1
      /\ Twin(b, m) # {} => Len(p) = Len(b)
  BY <1>1, <1>4, <1>5, <1>6, PutFacts
<1> HIDE DEF p
<1>8. Precede(a, p) /\ Precede(l, p) /\ Precede(h, p)
  BY <1>5, <1>7 DEF Line, Precede
<1>9. Line(a, l, h, p, k, old)
  BY <1>1, <1>7, <1>8 DEF Line
<1> QED
  BY <1>7, <1>9 DEF p, k

\* The idle worker takes the first pending command.
LEMMA LineTakes ==
  ASSUME NEW l, NEW h, NEW b, NEW n, NEW old, Line(<<>>, l, h, b, n, old), l # <<>>
  PROVE  Line(<<Head(l)>>, Tail(l), h, b, n, old)
<1> DEFINE one == <<Head(l)>>
           t == Tail(l)
<1>1. /\ Head(l) \in Good(n) /\ t \in Seq(Good(n)) /\ Ordered(t) /\ NotYet(t, old)
      /\ \A j \in DOMAIN t : Before(Head(l), t[j])
      /\ Unsent(Head(l), old)
      /\ Precede(t, h) /\ \A j \in DOMAIN h : Before(Head(l), h[j])
      /\ Precede(t, b) /\ \A j \in DOMAIN b : Before(Head(l), b[j])
  BY TailFacts DEF Line
<1> HIDE DEF t
<1>2. /\ one \in Seq(Good(n)) /\ Len(one) = 1 /\ NotYet(one, old)
      /\ Precede(one, t) /\ Precede(one, h) /\ Precede(one, b)
  BY <1>1, OneFacts
<1> HIDE DEF one
<1>3. Line(one, t, h, b, n, old)
  BY <1>1, <1>2 DEF Line
<1> QED
  BY <1>3 DEF one, t

\* What stands for command c with m folded into it.
Folded(c, m) == IF Mergeable(c, m) THEN Merged(c, m) ELSE m

\* The first command of the transport queue is folded into the worker's.
LEMMA LineFolds ==
  ASSUME NEW b, NEW n \in Nat, NEW old, NEW c,
         Line(<<c>>, <<>>, <<>>, b, n, old), b # <<>>, c.topic = Head(b).topic
  PROVE  /\ Folded(c, Head(b)) \in Good(n) /\ Folded(c, Head(b)).topic = c.topic
         /\ Line(<<Folded(c, Head(b))>>, <<>>, <<>>, Tail(b), n, old)
<1> DEFINE m == Head(b)
           r == Folded(c, m)
           t == Tail(b)
           one == <<r>>
           was == <<c>>
<1>1. c \in Good(n)
  BY OnlyOne DEF Line
<1>2. /\ Unsent(c, old)
      /\ \A j \in DOMAIN b : Before(c, b[j])
  BY <1>1, OneFacts DEF Line
<1>3. b \in Seq(Good(n)) /\ Ordered(b) /\ NotYet(b, old) /\ Precede(was, b)
  BY DEF Line
<1>4. /\ m \in Good(n) /\ t \in Seq(Good(n)) /\ Ordered(t)
      /\ \A j \in DOMAIN t : Before(m, t[j])
      /\ NotYet(t, old) /\ Unsent(m, old)
      /\ Precede(was, t)
  BY <1>3, TailFacts
<1>5. \A j \in DOMAIN t : Before(c, t[j])
  BY <1>1, <1>4, OneFacts
<1> HIDE DEF m, t
<1> HIDE DEF r
<1>6. /\ r \in Good(n) /\ Unsent(r, old) /\ r.topic = c.topic
      /\ \A j \in DOMAIN t : Before(r, t[j])
  <2>1. CASE Mergeable(c, m)
    <3>1. r = Merged(c, m)
      BY <2>1 DEF r, Folded
    <3>2. r \in Good(n) /\ r.topic = m.topic
      BY <1>1, <1>4, <2>1, <3>1, MergedFacts DEF m
    <3>3. \A x : Before(c, x) /\ Before(m, x) => Before(r, x)
      BY <1>1, <1>4, <2>1, <3>1, MergedKeepsOrder DEF m
    <3>4. Unsent(r, old)
      BY <1>1, <1>2, <1>4, <2>1, <3>1, MergedKeepsOrder DEF m
    <3> QED
      BY <1>4, <1>5, <3>2, <3>3, <3>4 DEF m
  <2>2. CASE ~Mergeable(c, m)
    <3>1. r = m
      BY <2>2 DEF r, Folded
    <3> QED
      BY <1>4, <3>1 DEF m
  <2> QED
    BY <2>1, <2>2
<1>7. /\ one \in Seq(Good(n)) /\ Len(one) = 1 /\ NotYet(one, old)
      /\ Precede(one, t)
  BY <1>6, OneFacts
<1> HIDE DEF one
<1>8. Line(one, <<>>, <<>>, t, n, old)
  BY <1>4, <1>7, NoneFacts DEF Line
<1> QED
  BY <1>6, <1>8 DEF m, one, r, t

\* The write of the worker is sent.
LEMMA LineSends ==
  ASSUME NEW l, NEW h, NEW b, NEW n \in Nat, NEW old \in [Fields -> 0 .. n], NEW c,
         Line(<<c>>, l, h, b, n, old)
  PROVE  /\ Over(Sets(c), old) \in [Fields -> 0 .. n]
         /\ Line(<<c>>, l, h, b, n, Over(Sets(c), old))
<1> DEFINE was == <<c>>
           new == Over(Sets(c), old)
<1>1. c \in Good(n)
  BY OnlyOne DEF Line
<1>2. /\ DOMAIN Sets(c) \subseteq Fields /\ Sets(c) \in Maps
      /\ \A f \in DOMAIN Sets(c) : Sets(c)[f] \in 1 .. n
  BY <1>1, GoodFacts, MapFacts
<1>3. /\ \A f \in Fields \ DOMAIN Sets(c) : new[f] = old[f]
      /\ \A f \in DOMAIN Sets(c) : new[f] = Sets(c)[f]
      /\ new = [f \in Fields |-> new[f]]
  BY <1>2 DEF Over
<1> HIDE DEF new
<1>4. new \in [Fields -> 0 .. n]
  BY <1>2, <1>3
<1>5. \A x \in Good(n) : Unsent(x, old) /\ Before(c, x) => Unsent(x, new)
  <2> SUFFICES ASSUME NEW x \in Good(n), Unsent(x, old), Before(c, x), NEW f \in DOMAIN Sets(x)
               PROVE  new[f] <= Sets(x)[f]
    BY DEF Unsent
  <2>1. f \in Fields /\ Sets(x)[f] \in 1 .. n /\ old[f] <= Sets(x)[f]
    BY GoodFacts, MapFacts DEF Unsent
  <2>2. f \in DOMAIN Sets(c) => Sets(c)[f] < Sets(x)[f]
    BY DEF Before
  <2>3. CASE f \in DOMAIN Sets(c)
    <3>1. new[f] = Sets(c)[f] /\ Sets(c)[f] \in 1 .. n
      BY <1>2, <1>3, <2>3
    <3> QED
      BY <2>1, <2>2, <2>3, <3>1
  <2>4. CASE f \notin DOMAIN Sets(c)
    <3>1. new[f] = old[f]
      BY <1>3, <2>1, <2>4
    <3> QED
      BY <2>1, <3>1
  <2> QED
    BY <2>3, <2>4
<1>6. Unsent(c, new)
  BY <1>2, <1>3 DEF Unsent
<1>7. ASSUME NEW q \in Seq(Good(n)), NotYet(q, old), Precede(was, q)
      PROVE  NotYet(q, new)
  <2>1. \A j \in DOMAIN q : Before(c, q[j]) /\ q[j] \in Good(n)
    BY <1>1, <1>7, OneFacts
  <2> QED
    BY <1>5, <1>7, <2>1 DEF NotYet
<1>8. NotYet(l, new) /\ NotYet(h, new) /\ NotYet(b, new)
  BY <1>7 DEF Line
<1>9. NotYet(was, new)
  BY <1>1, <1>6, OneFacts
<1>10. Line(was, l, h, b, n, new)
  BY <1>8, <1>9 DEF Line
<1> QED
  BY <1>4, <1>10 DEF new

-----------------------------------------------------------------------------
(* The worker                                                              *)

\* A queue of one write.
LEMMA WriteAlone ==
  ASSUME NEW w \in Write, NEW v \in Write
  PROVE  /\ <<w>> # <<>> /\ Head(<<w>>) = w /\ Tail(<<w>>) = <<>> /\ Append(<<>>, w) = <<w>>
         /\ Last(<<w>>) = w /\ Front(<<w>>) = <<>>
         /\ [<<w>> EXCEPT ![Len(<<w>>)] = v] = <<v>>
         /\ DOMAIN <<w>> = {1} /\ <<w>>[1] = w
BY DEF Last, Front

\* What the worker leaves is withdrawn.
LEMMA Withdrawn ==
  ASSUME NEW q, NEW v, NEW owner, NEW owners, IsOwned(q, v, owner), owner \in owners
  PROVE  WithdrawnFrom(q, owners) = <<>>
<1>1. PICK w \in Write : q = <<w>> /\ w.owner = owner
  BY DEF IsOwned
<1> QED
  BY <1>1, WriteAlone DEF WithdrawnFrom

\* A write of a command.
LEMMA WritesAreWrites ==
  ASSUME LineInv, Limits, NEW m \in Good(arrived), NEW owner \in {"ticket", "own"}
  PROVE  /\ WriteOf(m, owner) \in Write
         /\ IsWrite(<<WriteOf(m, owner)>>, Sets(m))
         /\ IsOwned(<<WriteOf(m, owner)>>, Sets(m), owner)
<1>1. Sets(m) \in Maps
  BY GoodFacts, LaneAssumption DEF LineInv
<1>2. WriteOf(m, owner) \in Write /\ WriteOf(m, owner).sets = Sets(m)
      /\ WriteOf(m, owner).owner = owner
  BY <1>1, LaneAssumption DEF WriteOf, Write, Limits
<1> QED
  BY <1>2 DEF IsWrite, IsOwned

\* What handling a command leaves: its write waits, or is with the device already.
LEMMA HandleFacts ==
  ASSUME IInv, NEW m \in Good(arrived), Handle(m),
         \/ queue = <<>> /\ hook = <<>>
         \/ /\ Latest(m) /\ hook # <<>> /\ IsWrite(ticket, Sets(m))
            /\ queue # <<>> => IsOwned(queue, Sets(m), "ticket")
  PROVE  \/ /\ stage' = "ticket" /\ Latest(m) /\ hook' # <<>> /\ IsWrite(ticket', Sets(m))
            /\ queue' # <<>> => IsOwned(queue', Sets(m), "ticket")
         \/ /\ stage' = "own"
            /\ IsOwned(queue', Sets(m), "own")
<1> DEFINE tw == WriteOf(m, "ticket")
           ow == WriteOf(m, "own")
<1>1. /\ tw \in Write /\ IsWrite(<<tw>>, Sets(m)) /\ IsOwned(<<tw>>, Sets(m), "ticket")
      /\ ow \in Write /\ IsOwned(<<ow>>, Sets(m), "own")
  BY WritesAreWrites DEF IInv
<1>2. Append(<<>>, tw) = <<tw>> /\ Append(<<>>, ow) = <<ow>> /\ <<epoch>> # <<>>
  BY <1>1, WriteAlone
<1> HIDE DEF tw, ow
<1>3. CASE ~Latest(m)
  BY <1>1, <1>2, <1>3 DEF Handle, ow
<1>4. CASE Latest(m) /\ hook = <<>>
  BY <1>1, <1>2, <1>4 DEF Handle, tw
<1>5. CASE Latest(m) /\ hook # <<>> /\ SameValues(ticket[1], WriteOf(m, "ticket"))
  BY <1>5 DEF Handle
<1>6. CASE Latest(m) /\ hook # <<>> /\ ~SameValues(ticket[1], WriteOf(m, "ticket"))
  <2>1. queue' = Append(WithdrawnFrom(queue, {"ticket"}), ow) /\ stage' = "own"
    BY <1>6 DEF Handle, ow
  <2>2. WithdrawnFrom(queue, {"ticket"}) = <<>>
    <3>1. CASE queue = <<>>
      BY <3>1 DEF WithdrawnFrom
    <3>2. CASE queue # <<>>
      BY <1>6, <3>2, Withdrawn
    <3> QED
      BY <3>1, <3>2
  <2> QED
    BY <1>1, <1>2, <2>1, <2>2
<1> QED
  BY <1>3, <1>4, <1>5, <1>6

-----------------------------------------------------------------------------
(* Steps                                                                   *)

\* What an arriving command is.
LEMMA Arriving ==
  ASSUME NEW n \in Nat \ {0}, NEW k \in Kinds, NEW m,
         m = [topic |-> k.topic, off |-> k.off, plain |-> k.plain, fields |-> [f \in k.names |-> n]]
  PROVE  /\ m \in Good(n) /\ \A f \in DOMAIN m.fields : m.fields[f] = n
         /\ \A f \in DOMAIN Sets(m) : Sets(m)[f] = n
<1>1. /\ k.topic \in Topics /\ k.names \subseteq Fields /\ k.off \in BOOLEAN /\ k.plain \in BOOLEAN
      /\ \A f \in k.names : TopicOf(f) = k.topic
      /\ k.off => "on" \in k.names
  BY LaneAssumption DEF Kind
<1>2. /\ m.topic = k.topic /\ m.off = k.off /\ m.plain = k.plain
      /\ m.fields = [f \in k.names |-> n]
  OBVIOUS
<1>3. m.fields \in Maps
  BY <1>1, <1>2 DEF Maps
<1>4. m \in Good(n)
  BY <1>1, <1>2, <1>3 DEF Good
<1> QED
  BY <1>2, <1>4, GoodFacts

\* The line stays a line.
LEMMA LineKept == IInv /\ [Next]_vars => LineInv'
<1> SUFFICES ASSUME IInv, [Next]_vars PROVE LineInv'
  OBVIOUS
<1>1. /\ arrived \in 0 .. MaxCommands /\ arrived \in Nat /\ sent \in [Fields -> 0 .. arrived]
      /\ Line(active, lane, held, inbox, arrived, sent)
  BY LaneAssumption DEF IInv, LineInv
<1>2. /\ active \in Seq(Good(arrived)) /\ Len(active) <= 1
      /\ stage \notin Busy => active = <<>>
  BY <1>1 DEF Line, IInv, WorkerInv
<1>3. active # <<>> => active = <<active[1]>> /\ active[1] \in Good(arrived)
  BY <1>2, AtMostOne
<1>4. ASSUME NEW k \in Kinds, Arrive(k) PROVE LineInv'
  <2> DEFINE n == arrived + 1
             m == [topic |-> k.topic, off |-> k.off, plain |-> k.plain,
                   fields |-> [f \in k.names |-> n]]
  <2>1. /\ arrived' = n /\ n \in 0 .. MaxCommands /\ inbox' = Put(inbox, m)
        /\ UNCHANGED <<held, lane, active, sent>>
    BY <1>1, <1>4, LaneAssumption DEF Arrive, laneVars
  <2>2. n \in Nat \ {0}
    BY <1>1
  <2>3. m \in Good(n) /\ \A f \in DOMAIN m.fields : m.fields[f] = n
    BY <2>2, Arriving
  <2> HIDE DEF m
  <2>4. Line(active, lane, held, Put(inbox, m), n, sent)
    BY <1>1, <2>3, LineArrives
  <2>5. sent \in [Fields -> 0 .. n]
    BY <1>1
  <2> QED
    BY <2>1, <2>4, <2>5 DEF LineInv
<1>5. CASE Fold
  <2> DEFINE m == Head(inbox)
             r == Replacement(m)
  <2>1. /\ active # <<>> /\ active[1].topic = m.topic /\ inbox # <<>> /\ held = <<>> /\ lane = <<>>
        /\ active' = <<r>> /\ inbox' = Tail(inbox) /\ UNCHANGED <<arrived, held, lane, sent>>
    BY <1>5 DEF Fold, MayFold, laneVars
  <2>2. Line(<<active[1]>>, <<>>, <<>>, inbox, arrived, sent)
    BY <1>1, <1>3, <2>1
  <2> DEFINE c == active[1]
  <2>3. r = Folded(c, m)
    BY DEF Replacement, Folded
  <2> HIDE DEF r, c
  <2>4. Line(<<r>>, <<>>, <<>>, Tail(inbox), arrived, sent)
    BY <1>1, <2>1, <2>2, <2>3, LineFolds DEF c
  <2> QED
    BY <1>1, <2>1, <2>4 DEF LineInv
<1>6. CASE Dispatch
  <2>1. /\ inbox # <<>> /\ held = <<>> /\ inbox' = Tail(inbox)
        /\ \/ lane' = Put(lane, Head(inbox)) /\ held' = <<>>
           \/ lane' = lane /\ held' = <<Head(inbox)>>
        /\ UNCHANGED <<arrived, active, sent>>
    BY <1>6 DEF Dispatch
  <2>2. /\ Line(active, Put(lane, Head(inbox)), <<>>, Tail(inbox), arrived, sent)
        /\ Line(active, lane, <<Head(inbox)>>, Tail(inbox), arrived, sent)
    BY <1>1, <2>1, LineDispatches
  <2> QED
    BY <1>1, <2>1, <2>2 DEF LineInv
<1>7. CASE Unblock
  <2>1. /\ held # <<>> /\ lane' = Append(lane, held[1]) /\ held' = <<>>
        /\ UNCHANGED <<arrived, active, inbox, sent>>
    BY <1>7 DEF Unblock
  <2> QED
    BY <1>1, <2>1, LineUnblocks DEF LineInv
<1>8. CASE Reject
  <2>1. /\ inbox # <<>> /\ held = <<>> /\ inbox' = Tail(inbox)
        /\ UNCHANGED <<arrived, active, held, lane, sent>>
    BY <1>8 DEF Reject, laneVars
  <2>2. Line(active, lane, <<>>, Tail(inbox), arrived, sent)
    BY <1>1, <2>1, LineDispatches
  <2> QED
    BY <1>1, <2>1, <2>2 DEF LineInv
<1>9. CASE Reopen
  <2>1. /\ inbox # <<>> /\ held = <<>> /\ inbox' = Tail(inbox) /\ lane' = <<Head(inbox)>>
        /\ active = <<>> /\ UNCHANGED <<arrived, active, held, sent>>
    BY <1>2, <1>9 DEF Reopen, Busy
  <2>2. Line(<<>>, <<>>, <<>>, inbox, arrived, sent)
    BY <1>1, <2>1, LineLeaves
  <2>3. Line(<<>>, <<>>, <<Head(inbox)>>, Tail(inbox), arrived, sent)
    BY <1>1, <2>1, <2>2, LineDispatches
  <2>4. Line(<<>>, Append(<<>>, <<Head(inbox)>>[1]), <<>>, Tail(inbox), arrived, sent)
    <3>1. <<Head(inbox)>> # <<>>
      OBVIOUS
    <3> QED
      BY <2>3, <3>1, LineUnblocks
  <2>5. Append(<<>>, <<Head(inbox)>>[1]) = <<Head(inbox)>>
    OBVIOUS
  <2> QED
    BY <1>1, <2>1, <2>4, <2>5 DEF LineInv
<1>10. CASE Take
  <2>1. /\ lane # <<>> /\ active = <<>> /\ active' = <<Head(lane)>> /\ lane' = Tail(lane)
        /\ UNCHANGED <<arrived, held, inbox, sent>>
    BY <1>2, <1>10 DEF Take, inVars, Busy
  <2> QED
    BY <1>1, <2>1, LineTakes DEF LineInv
<1>11. CASE Issue
  <2>1. /\ queue # <<>> /\ sent' = Over(Head(queue).sets, sent)
        /\ UNCHANGED <<arrived, active, lane, held, inbox>>
    BY <1>11 DEF Issue, inVars, laneVars
  <2>2. active # <<>> /\ Head(queue).sets = Sets(active[1])
    <3>1. stage \in Busy /\ \E owner : IsOwned(queue, Sets(active[1]), owner)
      BY <2>1 DEF IInv, WorkerInv, Busy
    <3>2. PICK w \in Write : queue = <<w>> /\ w.sets = Sets(active[1])
      BY <3>1 DEF IsOwned
    <3> QED
      BY <3>1, <3>2, WriteAlone DEF IInv, WorkerInv
  <2> DEFINE c == active[1]
  <2>3. Line(<<c>>, lane, held, inbox, arrived, sent)
    BY <1>1, <1>3, <2>2
  <2> HIDE DEF c
  <2>4. /\ Over(Sets(c), sent) \in [Fields -> 0 .. arrived]
        /\ Line(<<c>>, lane, held, inbox, arrived, Over(Sets(c), sent))
    BY <1>1, <2>3, LineSends
  <2>5. active = <<c>>
    BY <1>3, <2>2 DEF c
  <2>6. sent' = Over(Sets(c), sent)
    BY <2>1, <2>2 DEF c
  <2> QED
    BY <1>1, <2>1, <2>4, <2>5, <2>6 DEF LineInv
<1>12. CASE Adopt \/ Awaited \/ Return \/ Retype \/ CoolDown \/ Restart \/ UNCHANGED vars
  <2>1. UNCHANGED <<arrived, active, lane, held, inbox, sent>>
    BY <1>12 DEF Adopt, Awaited, Return, Retype, CoolDown, Restart, vars, inVars, laneVars
  <2> QED
    BY <1>1, <2>1 DEF LineInv
<1>13. CASE Finish \/ WorkerCancelled \/ WorkerDies
  <2>1. active' = <<>> /\ UNCHANGED <<arrived, lane, held, inbox, sent>>
    BY <1>13 DEF Finish, WorkerCancelled, WorkerDies, Abandon, inVars, laneVars
  <2> QED
    BY <1>1, <2>1, LineLeaves DEF LineInv
<1>14. CASE Close
  <2>1. lane' = <<>> /\ held' = <<>> /\ UNCHANGED <<arrived, active, inbox, sent>>
    BY <1>14 DEF Close
  <2> QED
    BY <1>1, <2>1, LineLeaves DEF LineInv
<1> QED
  BY <1>4, <1>5, <1>6, <1>7, <1>8, <1>9, <1>10, <1>11, <1>12, <1>13, <1>14
     DEF Next, Reader, Worker

\* The worker keeps its write.
LEMMA WorkerKept == IInv /\ [Next]_vars => WorkerInv'
<1> SUFFICES ASSUME IInv, [Next]_vars PROVE WorkerInv'
  OBVIOUS
<1>1. /\ WorkerInv /\ arrived \in Nat
      /\ Line(active, lane, held, inbox, arrived, sent)
  BY LaneAssumption DEF IInv, LineInv
<1>2. active \in Seq(Good(arrived)) /\ Len(active) <= 1
  BY <1>1 DEF Line
<1>3. active # <<>> => active = <<active[1]>> /\ active[1] \in Good(arrived)
  BY <1>2, AtMostOne
<1> DEFINE workers == <<active, stage, hook, ticket, queue>>
<1>4. CASE (\E k \in Kinds : Arrive(k)) \/ Dispatch \/ Unblock \/ Reject \/ Retype \/ Return
           \/ UNCHANGED vars
  <2>1. UNCHANGED workers
    BY <1>4 DEF Arrive, Dispatch, Unblock, Reject, Retype, Return, vars, inVars, laneVars, busVars
  <2> QED
    BY <1>1, <2>1 DEF WorkerInv
<1>5. CASE Fold
  <2> DEFINE m == Head(inbox)
             r == Replacement(m)
             w == WriteOf(r, "ticket")
  <2>1. /\ active # <<>> /\ active[1].topic = m.topic /\ Latest(m) /\ hook = <<epoch>>
        /\ inbox # <<>> /\ held = <<>> /\ lane = <<>> /\ stage \in {"ticket", "superseded"}
        /\ active' = <<r>> /\ ticket' = <<w>> /\ queue' = [queue EXCEPT ![Len(queue)] = w]
        /\ queue # <<>> /\ stage' = "superseded" /\ hook' = hook
    BY <1>5 DEF Fold, MayFold
  <2>2. r \in Good(arrived) /\ r.topic = active[1].topic
    <3> DEFINE c == active[1]
    <3>1. Line(<<c>>, <<>>, <<>>, inbox, arrived, sent)
      BY <1>1, <1>3, <2>1
    <3>2. r = Folded(c, Head(inbox)) /\ c.topic = Head(inbox).topic /\ inbox # <<>>
      BY <2>1 DEF Replacement, Folded
    <3> HIDE DEF r, c
    <3> QED
      BY <1>1, <3>1, <3>2, LineFolds DEF c
  <2> HIDE DEF m, r
  <2>3. w \in Write /\ IsWrite(<<w>>, Sets(r)) /\ IsOwned(<<w>>, Sets(r), "ticket")
    BY <2>2, WritesAreWrites DEF IInv
  <2> HIDE DEF w
  <2>4. queue' = <<w>>
    <3>1. \E q \in Write : queue = <<q>>
      BY <1>1, <2>1 DEF WorkerInv, IsOwned
    <3> QED
      BY <2>1, <2>3, <3>1, WriteAlone
  <2>5. active'[1] = r /\ active' # <<>>
    BY <2>1
  <2>6. Latest(r) /\ hook' # <<>>
    BY <2>1, <2>2 DEF Latest
  <2> QED
    BY <2>1, <2>3, <2>4, <2>5, <2>6 DEF WorkerInv, Stage, Busy
<1>6. CASE Reopen \/ CoolDown \/ Restart \/ Close
  <2>1. /\ stage \notin Busy /\ stage' \in Stage \ Busy
        /\ UNCHANGED <<active, hook, ticket, queue>>
    BY <1>6 DEF Reopen, CoolDown, Restart, Close, Stage, Busy, busVars
  <2> QED
    BY <1>1, <2>1 DEF WorkerInv, Busy
<1>7. ASSUME NEW m \in Good(arrived), active' = <<m>>, Handle(m),
             \/ queue = <<>> /\ hook = <<>>
             \/ /\ Latest(m) /\ hook # <<>> /\ IsWrite(ticket, Sets(m))
                /\ queue # <<>> => IsOwned(queue, Sets(m), "ticket")
      PROVE  WorkerInv'
  <2>1. \/ /\ stage' = "ticket" /\ Latest(m) /\ hook' # <<>> /\ IsWrite(ticket', Sets(m))
           /\ queue' # <<>> => IsOwned(queue', Sets(m), "ticket")
        \/ stage' = "own" /\ IsOwned(queue', Sets(m), "own")
    BY <1>7, HandleFacts
  <2>2. active'[1] = m /\ active' # <<>>
    BY <1>7
  <2> QED
    BY <2>1, <2>2 DEF WorkerInv, Stage, Busy
<1>8. CASE Take
  <2>1. /\ lane # <<>> /\ stage = "idle" /\ active' = <<Head(lane)>> /\ Handle(Head(lane))
        /\ Head(lane) \in Good(arrived)
    BY <1>1, <1>8, TailFacts DEF Take, Line
  <2>2. queue = <<>> /\ hook = <<>>
    BY <1>1, <2>1 DEF WorkerInv, Busy
  <2> QED
    BY <1>7, <2>1, <2>2
<1>9. CASE Adopt
  <2>1. /\ stage = "superseded" /\ active # <<>> /\ active' = <<active[1]>> /\ Handle(active[1])
        /\ active[1] \in Good(arrived)
    BY <1>1, <1>3, <1>9 DEF Adopt, WorkerInv, Busy
  <2>2. /\ Latest(active[1]) /\ hook # <<>> /\ IsWrite(ticket, Sets(active[1]))
        /\ queue # <<>> => IsOwned(queue, Sets(active[1]), "ticket")
    BY <1>1, <2>1 DEF WorkerInv
  <2> DEFINE c == active[1]
  <2>3. /\ c \in Good(arrived) /\ active' = <<c>> /\ Handle(c)
        /\ Latest(c) /\ hook # <<>> /\ IsWrite(ticket, Sets(c))
        /\ queue # <<>> => IsOwned(queue, Sets(c), "ticket")
    BY <2>1, <2>2
  <2> HIDE DEF c
  <2> QED
    BY <1>7, <2>3
<1>10. CASE Issue
  <2>1. queue # <<>> /\ queue' = Tail(queue) /\ UNCHANGED <<active, stage, hook, ticket>>
    BY <1>10 DEF Issue
  <2>2. \E w \in Write : queue = <<w>>
    BY <1>1, <2>1 DEF WorkerInv, IsOwned
  <2>3. queue' = <<>>
    BY <2>1, <2>2, WriteAlone
  <2> QED
    BY <1>1, <2>1, <2>3 DEF WorkerInv
<1>11. CASE Awaited
  <2>1. /\ stage \in {"ticket", "own"} /\ \A i \in DOMAIN queue : queue[i].owner # stage
        /\ stage' = "finishing" /\ UNCHANGED <<active, hook, queue>>
    BY <1>11 DEF Awaited
  <2>2. queue = <<>>
    <3> SUFFICES ASSUME queue # <<>> PROVE FALSE
      OBVIOUS
    <3>1. \E w \in Write : queue = <<w>> /\ w.owner = stage
      BY <1>1, <2>1 DEF WorkerInv, IsOwned
    <3> QED
      BY <2>1, <3>1, WriteAlone
  <2> QED
    BY <1>1, <2>1, <2>2 DEF WorkerInv, Stage, Busy
<1>12. CASE Finish
  <2>1. /\ stage = "finishing" /\ stage' = "idle" /\ active' = <<>> /\ hook' = <<>>
        /\ UNCHANGED queue
    BY <1>12 DEF Finish, busVars
  <2>2. queue = <<>>
    BY <1>1, <2>1 DEF WorkerInv
  <2> QED
    BY <2>1, <2>2 DEF WorkerInv, Stage, Busy
<1>13. CASE WorkerCancelled \/ WorkerDies
  <2>1. /\ stage' \in {"closing", "recovering"} /\ active' = <<>> /\ hook' = <<>>
        /\ queue' = WithdrawnFrom(queue, {"ticket", "own"})
    BY <1>13 DEF WorkerCancelled, WorkerDies, Abandon
  <2>2. queue' = <<>>
    <3>1. CASE queue = <<>>
      BY <2>1, <3>1 DEF WithdrawnFrom
    <3>2. CASE queue # <<>>
      <4>1. PICK owner \in {"ticket", "own"} : IsOwned(queue, Sets(active[1]), owner)
        BY <1>1, <3>2 DEF WorkerInv
      <4> QED
        BY <2>1, <4>1, Withdrawn
    <3> QED
      BY <3>1, <3>2
  <2> QED
    BY <2>1, <2>2 DEF WorkerInv, Stage, Busy
<1> QED
  BY <1>4, <1>5, <1>6, <1>8, <1>9, <1>10, <1>11, <1>12, <1>13 DEF Next, Reader, Worker

\* What the end of the worker leaves of the write the device executes.
LEMMA Disowned ==
  ASSUME running \in Seq(Write), Len(running) <= 1,
         running' = [i \in DOMAIN running |-> [running[i] EXCEPT !.owner = "nobody"]]
  PROVE  running' \in Seq(Write) /\ Len(running') <= 1
<1> DEFINE n == Len(running)
<1>1. n \in Nat /\ n <= 1 /\ DOMAIN running = 1 .. n
  BY LenProperties
<1>2. \A i \in 1 .. n : [running[i] EXCEPT !.owner = "nobody"] \in Write
  <2> SUFFICES ASSUME NEW i \in 1 .. n PROVE [running[i] EXCEPT !.owner = "nobody"] \in Write
    OBVIOUS
  <2>1. running[i] \in Write
    BY ElementOfSeq
  <2> QED
    BY <2>1 DEF Write
<1>3. running' \in [1 .. n -> Write]
  BY <1>1, <1>2
<1> HIDE DEF n
<1>4. running' \in Seq(Write) /\ DOMAIN running' = 1 .. n
  BY <1>1, <1>3, SeqDef
<1>5. Len(running') = n
  BY <1>1, <1>4
<1> QED
  BY <1>1, <1>4, <1>5

\* The bounds hold.
LEMMA LimitsKept == IInv /\ [Next]_vars => Limits'
<1> SUFFICES ASSUME IInv, [Next]_vars PROVE Limits'
  OBVIOUS
<1>1. /\ Limits /\ WorkerInv /\ arrived \in 0 .. MaxCommands
      /\ MaxCommands \in Nat /\ MaxRetypes \in Nat
      /\ InboxSize \in Nat \ {0} /\ LaneSize \in Nat \ {0} /\ MaxFailures \in Nat \ {0}
      /\ Line(active, lane, held, inbox, arrived, sent)
  BY LaneAssumption DEF IInv, LineInv
<1>2. /\ inbox \in Seq(Good(arrived)) /\ lane \in Seq(Good(arrived)) /\ held \in Seq(Good(arrived))
      /\ Len(inbox) \in Nat /\ Len(lane) \in Nat /\ Len(held) <= 1
  BY <1>1 DEF Line
<1>3. ASSUME UNCHANGED failures,
             stage' \in Busy \cup {"idle", "closing"} => stage \in Busy \cup {"idle", "closing"}
      PROVE  /\ failures' \in 0 .. MaxFailures
             /\ stage' \in Busy \cup {"idle", "closing"} => failures' < MaxFailures
  BY <1>1, <1>3 DEF Limits
<1>4. ASSUME failures' = 0
      PROVE  /\ failures' \in 0 .. MaxFailures
             /\ stage' \in Busy \cup {"idle", "closing"} => failures' < MaxFailures
  BY <1>1, <1>4
<1>5. ASSUME NEW lost, Lose(lost) PROVE due' \in [Fields -> 0 .. MaxCommands]
  <2>1. \A f \in Fields : due[f] \in 0 .. MaxCommands /\ 0 \in 0 .. MaxCommands
    BY <1>1 DEF Limits
  <2> QED
    BY <1>5, <2>1 DEF Lose
<1>6. ASSUME NEW k \in Kinds, Arrive(k) PROVE Limits'
  <2> DEFINE n == arrived + 1
             m == [topic |-> k.topic, off |-> k.off, plain |-> k.plain,
                   fields |-> [f \in k.names |-> n]]
  <2>1. /\ n \in 1 .. MaxCommands /\ inbox' = Put(inbox, m) /\ Room(inbox, m, InboxSize)
        /\ due' = [f \in Fields |-> IF f \in DOMAIN Sets(m) THEN n ELSE due[f]]
        /\ UNCHANGED <<lane, running, epoch, failures, stage>>
    BY <1>1, <1>6 DEF Arrive, laneVars, busVars
  <2>2. n \in Nat \ {0} /\ n \in 0 .. MaxCommands
    BY <1>1, <2>1
  <2>3. m \in Good(n) /\ \A f \in DOMAIN m.fields : m.fields[f] = n
    BY <2>2, Arriving
  <2> HIDE DEF m
  <2>4. /\ arrived \in Nat /\ sent \in [Fields -> 0 .. arrived]
        /\ Line(active, lane, held, inbox, arrived, sent)
    BY <1>1 DEF IInv, LineInv
  <2>5. /\ Len(Put(inbox, m)) <= Len(inbox) + 1
        /\ Twin(inbox, m) # {} => Len(Put(inbox, m)) = Len(inbox)
        /\ Len(Put(inbox, m)) \in Nat
    <3>1. /\ Line(active, lane, held, Put(inbox, m), n, sent)
          /\ Len(Put(inbox, m)) <= Len(inbox) + 1
          /\ Twin(inbox, m) # {} => Len(Put(inbox, m)) = Len(inbox)
      BY <2>3, <2>4, LineArrives
    <3> QED
      BY <3>1 DEF Line
  <2>6. Len(inbox') <= InboxSize
    BY <1>1, <1>2, <2>1, <2>5 DEF Room, Limits
  <2>7. due' \in [Fields -> 0 .. MaxCommands]
    BY <1>1, <2>1, <2>2 DEF Limits
  <2> QED
    BY <1>1, <2>1, <2>6, <2>7 DEF Limits
<1>7. CASE Fold \/ Dispatch \/ Reject \/ Reopen
  <2>1. inbox # <<>> /\ held = <<>> /\ inbox' = Tail(inbox) /\ UNCHANGED <<running, epoch>>
    BY <1>7 DEF Fold, Dispatch, Reject, Reopen, busVars
  <2>2. Len(inbox') <= InboxSize
    BY <1>1, <1>2, <2>1, TailFacts DEF Limits
  <2>3. due' \in [Fields -> 0 .. MaxCommands]
    BY <1>1, <1>5, <1>7 DEF Fold, Dispatch, Reject, Reopen, Limits
  <2>4. /\ failures' \in 0 .. MaxFailures
        /\ stage' \in Busy \cup {"idle", "closing"} => failures' < MaxFailures
    BY <1>3, <1>4, <1>7 DEF Fold, Dispatch, Reject, Reopen, laneVars, Busy
  <2>5. Len(lane') <= LaneSize
    <3>1. CASE Fold \/ Reject
      BY <1>1, <3>1 DEF Fold, Reject, laneVars, Limits
    <3>2. CASE Reopen
      <4>1. lane' = <<Head(inbox)>>
        BY <3>2 DEF Reopen
      <4>2. Len(lane') = 1
        BY <4>1
      <4> QED
        BY <1>1, <4>2
    <3>3. CASE Dispatch
      <4> DEFINE m == Head(inbox)
                 p == Put(lane, m)
      <4>1. \/ lane' = p /\ Room(lane, m, LaneSize)
            \/ lane' = lane
        BY <3>3 DEF Dispatch
      <4>2. Line(active, lane, <<>>, inbox, arrived, sent) /\ arrived \in Nat
        BY <1>1, <2>1
      <4>3. /\ Len(p) <= Len(lane) + 1 /\ (Twin(lane, m) # {} => Len(p) = Len(lane))
            /\ Line(active, p, <<>>, Tail(inbox), arrived, sent)
        BY <2>1, <4>2, LineDispatches
      <4> HIDE DEF m, p
      <4>4. Len(p) \in Nat
        BY <4>3 DEF Line
      <4> QED
        BY <1>1, <1>2, <4>1, <4>3, <4>4 DEF Room, Limits
    <3> QED
      BY <1>7, <3>1, <3>2, <3>3
  <2> QED
    BY <1>1, <2>1, <2>2, <2>3, <2>4, <2>5 DEF Limits
<1>8. CASE Unblock
  <2>1. /\ held # <<>> /\ Len(lane) < LaneSize /\ lane' = Append(lane, held[1])
        /\ UNCHANGED <<inbox, running, epoch, failures, stage, due>>
    BY <1>8 DEF Unblock, busVars
  <2>2. held[1] \in Good(arrived)
    BY <1>2, <2>1, AtMostOne
  <2> DEFINE x == held[1]
  <2>3. x \in Good(arrived) /\ lane' = Append(lane, x)
    BY <2>1, <2>2
  <2> HIDE DEF x
  <2>4. Len(lane') = Len(lane) + 1
    BY <1>2, <2>3
  <2> QED
    BY <1>1, <1>2, <2>1, <2>4 DEF Limits
<1>9. CASE Take
  <2>1. /\ lane # <<>> /\ lane' = Tail(lane) /\ stage = "idle"
        /\ UNCHANGED <<inbox, running, epoch, failures, due>>
    BY <1>9 DEF Take, inVars
  <2>2. Len(lane') <= LaneSize
    BY <1>1, <1>2, <2>1, TailFacts DEF Limits
  <2> QED
    BY <1>1, <1>3, <2>1, <2>2 DEF Limits
<1>10. CASE Adopt \/ Finish
  <2>1. failures' = 0 /\ UNCHANGED <<lane, inbox, running, epoch, due>>
    BY <1>10 DEF Adopt, Finish, inVars, busVars
  <2> QED
    BY <1>1, <1>4, <2>1 DEF Limits
<1>11. CASE Issue
  <2>1. /\ queue # <<>> /\ running' = <<Head(queue)>>
        /\ UNCHANGED <<inbox, lane, epoch, failures, stage, due>>
    BY <1>11 DEF Issue, inVars, laneVars
  <2>2. PICK w \in Write : queue = <<w>>
    BY <1>1, <2>1 DEF WorkerInv, IsOwned
  <2>3. running' = <<w>>
    BY <2>1, <2>2, WriteAlone
  <2>4. running' \in Seq(Write) /\ Len(running') <= 1
    BY <2>2, <2>3
  <2> QED
    BY <1>1, <2>1, <2>4 DEF Limits
<1>12. CASE Return
  <2>1. running' = <<>> /\ UNCHANGED <<inbox, lane, epoch, failures, stage, due>>
    BY <1>12 DEF Return, inVars, laneVars
  <2> QED
    BY <1>1, <2>1 DEF Limits
<1>13. CASE Awaited \/ WorkerCancelled
  <2>1. /\ running' = [i \in DOMAIN running |-> [running[i] EXCEPT !.owner = "nobody"]]
        /\ stage \in Busy /\ UNCHANGED <<inbox, lane, epoch, failures>>
    BY <1>13 DEF Awaited, WorkerCancelled, Abandon, inVars, laneVars, Busy
  <2>2. running' \in Seq(Write) /\ Len(running') <= 1
    BY <1>1, <2>1, Disowned DEF Limits
  <2>3. due' \in [Fields -> 0 .. MaxCommands]
    BY <1>1, <1>5, <1>13 DEF Awaited, WorkerCancelled, Abandon, Limits
  <2> QED
    BY <1>1, <1>3, <2>1, <2>2, <2>3 DEF Limits
<1>14. CASE WorkerDies
  <2>1. /\ running' = [i \in DOMAIN running |-> [running[i] EXCEPT !.owner = "nobody"]]
        /\ stage \in Busy /\ stage' = "recovering" /\ failures' = failures + 1
        /\ UNCHANGED <<inbox, lane, epoch>>
    BY <1>14 DEF WorkerDies, Abandon, inVars
  <2>2. running' \in Seq(Write) /\ Len(running') <= 1
    BY <1>1, <2>1, Disowned DEF Limits
  <2>3. due' \in [Fields -> 0 .. MaxCommands]
    BY <1>5, <1>14 DEF WorkerDies, Abandon
  <2>4. failures' \in 0 .. MaxFailures
    BY <1>1, <2>1 DEF Limits
  <2> QED
    BY <1>1, <2>1, <2>2, <2>3, <2>4 DEF Limits, Busy
<1>15. CASE Restart
  <2>1. /\ failures < MaxFailures /\ UNCHANGED <<inbox, lane, running, epoch, failures, due>>
    BY <1>15 DEF Restart, inVars, laneVars, busVars
  <2> QED
    BY <1>1, <2>1 DEF Limits
<1>16. CASE Close
  <2>1. /\ lane' = <<>> /\ stage' = "closed" /\ UNCHANGED <<inbox, running, epoch, failures>>
    BY <1>16 DEF Close, busVars
  <2>2. due' \in [Fields -> 0 .. MaxCommands]
    BY <1>5, <1>16 DEF Close
  <2> QED
    BY <1>1, <2>1, <2>2 DEF Limits, Busy
<1>17. CASE Retype
  <2>1. epoch' \in 0 .. MaxRetypes /\ UNCHANGED <<inbox, lane, running, failures, stage, due>>
    BY <1>1, <1>17 DEF Retype, Limits, inVars, laneVars, busVars
  <2> QED
    BY <1>1, <2>1 DEF Limits
<1>18. CASE CoolDown
  <2>1. stage' = "expired" /\ UNCHANGED <<inbox, lane, running, epoch, failures, due>>
    BY <1>18 DEF CoolDown, inVars, laneVars, busVars
  <2> QED
    BY <1>1, <2>1 DEF Limits, Busy
<1>19. CASE UNCHANGED vars
  BY <1>1, <1>19 DEF Limits, vars, inVars, laneVars, busVars
<1> QED
  BY <1>6, <1>7, <1>8, <1>9, <1>10, <1>11, <1>12, <1>13, <1>14, <1>15, <1>16, <1>17, <1>18, <1>19
     DEF Next, Reader, Worker

\* The lane is empty and the worker idle at first.
LEMMA AtFirst == Init => IInv
<1> SUFFICES ASSUME Init PROVE IInv
  OBVIOUS
<1>1. /\ arrived = 0 /\ sent = [f \in Fields |-> 0] /\ due = [f \in Fields |-> 0]
      /\ active = <<>> /\ lane = <<>> /\ held = <<>> /\ inbox = <<>>
      /\ stage = "idle" /\ queue = <<>> /\ hook = <<>> /\ running = <<>>
      /\ epoch = 0 /\ failures = 0
  BY DEF Init
<1>2. LineInv
  BY <1>1, NoneFacts, LaneAssumption DEF LineInv, Line
<1>3. WorkerInv
  BY <1>1 DEF WorkerInv, Stage, Busy
<1>4. Limits
  BY <1>1, LaneAssumption DEF Limits
<1> QED
  BY <1>2, <1>3, <1>4 DEF IInv

\* The invariant holds.
LEMMA Invariant == Spec => []IInv
<1>1. IInv /\ [Next]_vars => IInv'
  BY LineKept, WorkerKept, LimitsKept DEF IInv
<1> QED
  BY AtFirst, <1>1, PTL DEF Spec

-----------------------------------------------------------------------------
(* What the invariant says                                                 *)

\* All commands that are pending somewhere are in one order, behind the worker's.
LEMMA PendingInOrder ==
  ASSUME LineInv
  PROVE  /\ lane \o held \o inbox \in Seq(Good(arrived))
         /\ Ordered(lane \o held \o inbox) /\ NotYet(lane \o held \o inbox, sent)
         /\ Precede(active, lane \o held \o inbox)
<1> DEFINE p == lane \o held
<1>1. Line(active, lane, held, inbox, arrived, sent)
  BY DEF LineInv
<1>2. Ordered(held)
  <2>1. CASE held = <<>>
    BY <2>1, NoneFacts
  <2>2. CASE held # <<>>
    <3>1. held = <<held[1]>> /\ held[1] \in Good(arrived)
      BY <1>1, <2>2, AtMostOne DEF Line
    <3> QED
      BY <3>1, OneFacts
  <2> QED
    BY <2>1, <2>2
<1>3. /\ p \in Seq(Good(arrived)) /\ Ordered(p) /\ NotYet(p, sent)
      /\ Precede(active, p) /\ Precede(p, inbox)
  BY <1>1, <1>2, JoinFacts DEF Line
<1> HIDE DEF p
<1>4. /\ p \o inbox \in Seq(Good(arrived)) /\ Ordered(p \o inbox) /\ NotYet(p \o inbox, sent)
      /\ Precede(active, p \o inbox)
  BY <1>1, <1>3, JoinFacts DEF Line
<1> QED
  BY <1>4 DEF p

\* A queue of values in front of another.
LEMMA Concatenation ==
  ASSUME NEW S, NEW p \in Seq(S), NEW q \in Seq(S)
  PROVE  /\ \A i \in DOMAIN (p \o q) :
              \/ i \in DOMAIN p /\ (p \o q)[i] = p[i]
              \/ i \notin DOMAIN p /\ i - Len(p) \in DOMAIN q /\ (p \o q)[i] = q[i - Len(p)]
         /\ \A i, j \in DOMAIN (p \o q) : i < j =>
              /\ j \in DOMAIN p => i \in DOMAIN p
              /\ i - Len(p) < j - Len(p)
OBVIOUS

\* The lines of the commands and the write of the worker are in order.
LEMMA InOrderHolds == IInv => InOrder
<1> SUFFICES ASSUME IInv PROVE InOrder
  OBVIOUS
<1> DEFINE P == lane \o held \o inbox
           Q == [i \in DOMAIN queue |-> queue[i].sets]
           R == [i \in DOMAIN P |-> Sets(P[i])]
           W == OnTheWay
           v == Sets(active[1])
<1>1. /\ P \in Seq(Good(arrived)) /\ Ordered(P) /\ NotYet(P, sent) /\ Precede(active, P)
      /\ arrived \in Nat
  BY PendingInOrder, LaneAssumption DEF IInv, LineInv
<1>2. W = Q \o R
  BY DEF OnTheWay
<1> HIDE DEF P, W
<1>3. /\ R \in Seq(Maps) /\ DOMAIN R = DOMAIN P /\ \A i \in DOMAIN R : R[i] = Sets(P[i])
  <2>1. \A i \in DOMAIN P : Sets(P[i]) \in Maps
    BY <1>1, GoodFacts
  <2>2. Len(P) \in Nat /\ DOMAIN P = 1 .. Len(P)
    BY <1>1
  <2>3. R \in [1 .. Len(P) -> Maps]
    BY <2>1, <2>2
  <2> QED
    BY <2>2, <2>3, SeqDef
<1> HIDE DEF R
<1>4. /\ Q \in Seq(Maps) /\ \A i \in DOMAIN Q : Q[i] = v
      /\ \A i, j \in DOMAIN Q : i = j
      /\ Q # <<>> => active # <<>>
  <2>1. CASE queue = <<>>
    BY <2>1
  <2>2. CASE queue # <<>>
    <3>1. PICK w \in Write : queue = <<w>> /\ w.sets = v
      BY <2>2 DEF IInv, WorkerInv, IsOwned
    <3>2. active # <<>>
      BY <2>2 DEF IInv, WorkerInv, Busy
    <3>3. w.sets \in Maps
      BY DEF Write
    <3>4. Q = <<w.sets>>
      BY <3>1
    <3> DEFINE s == w.sets
    <3>5. s \in Maps /\ Q = <<s>> /\ s = v
      BY <3>1, <3>3, <3>4
    <3> HIDE DEF Q, s, v
    <3> QED
      BY <3>2, <3>5
  <2> QED
    BY <2>1, <2>2
<1> HIDE DEF Q
<1>5. active # <<>> => active = <<active[1]>> /\ active[1] \in Good(arrived)
  <2>1. active \in Seq(Good(arrived)) /\ Len(active) <= 1
    BY DEF IInv, LineInv, Line
  <2> QED
    BY <2>1, AtMostOne
<1>6. Q # <<>> => /\ \A j \in DOMAIN P : Before(active[1], P[j])
                  /\ Unsent(active[1], sent)
  <2> DEFINE c == active[1]
  <2>1. ASSUME Q # <<>> PROVE active = <<c>> /\ c \in Good(arrived) /\ NotYet(active, sent)
    BY <1>4, <1>5, <2>1 DEF IInv, LineInv, Line
  <2> HIDE DEF c
  <2>2. ASSUME Q # <<>> PROVE (\A j \in DOMAIN P : Before(c, P[j])) /\ Unsent(c, sent)
    BY <1>1, <2>1, <2>2, OneFacts
  <2> QED
    BY <2>2 DEF c
<1>7. \A i \in DOMAIN Q : Q # <<>>
  OBVIOUS
<1>8. /\ \A i \in DOMAIN W :
           \/ i \in DOMAIN Q /\ W[i] = Q[i]
           \/ i \notin DOMAIN Q /\ i - Len(Q) \in DOMAIN R /\ W[i] = R[i - Len(Q)]
      /\ \A i, j \in DOMAIN W : i < j =>
           /\ j \in DOMAIN Q => i \in DOMAIN Q
           /\ i - Len(Q) < j - Len(Q)
  BY <1>2, <1>3, <1>4, Concatenation
<1>9. ASSUME NEW i \in DOMAIN W, NEW f \in DOMAIN W[i] PROVE sent[f] <= W[i][f]
  <2>1. CASE i \in DOMAIN Q
    BY <1>4, <1>6, <1>7, <1>8, <2>1 DEF Unsent
  <2>2. CASE i \notin DOMAIN Q
    BY <1>1, <1>3, <1>8, <2>2 DEF NotYet, Unsent
  <2> QED
    BY <2>1, <2>2
<1>10. ASSUME NEW i \in DOMAIN W, NEW j \in DOMAIN W, i < j,
              NEW f \in DOMAIN W[i], NEW g \in DOMAIN W[j], f = g \/ "switch" \in {f, g}
       PROVE  W[i][f] < W[j][g]
  <2>1. CASE i \in DOMAIN Q /\ j \in DOMAIN Q
    <3>1. i = j
      BY <1>4, <2>1
    <3> QED
      BY <1>8, <1>10, <3>1
  <2>2. CASE i \in DOMAIN Q /\ j \notin DOMAIN Q
    <3>1. W[i] = v /\ W[j] = Sets(P[j - Len(Q)]) /\ Before(active[1], P[j - Len(Q)])
      BY <1>3, <1>4, <1>6, <1>7, <1>8, <2>2
    <3> QED
      BY <1>10, <3>1 DEF Before
  <2>3. CASE i \notin DOMAIN Q /\ j \notin DOMAIN Q
    <3>1. /\ W[i] = Sets(P[i - Len(Q)]) /\ W[j] = Sets(P[j - Len(Q)])
          /\ Before(P[i - Len(Q)], P[j - Len(Q)])
      BY <1>1, <1>3, <1>8, <1>10, <2>3 DEF Ordered
    <3> QED
      BY <1>10, <3>1 DEF Before
  <2> QED
    BY <1>8, <1>10, <2>1, <2>2, <2>3
<1> QED
  BY <1>9, <1>10 DEF InOrder, W

\* The types of the lane and the bounds of its queues.
LEMMA TypesHold == IInv => TypeOK
<1> SUFFICES ASSUME IInv PROVE TypeOK
  OBVIOUS
<1>1. /\ arrived \in 0 .. MaxCommands /\ arrived \in Nat /\ MaxCommands \in Nat
      /\ sent \in [Fields -> 0 .. arrived]
      /\ Line(active, lane, held, inbox, arrived, sent)
  BY LaneAssumption DEF IInv, LineInv
<1>2. Good(arrived) \subseteq Command
  <2> SUFFICES ASSUME NEW m \in Good(arrived) PROVE m \in Command
    OBVIOUS
  <2>1. PICK k \in Kinds : m.topic = k.topic /\ m.off = k.off /\ m.plain = k.plain
    BY DEF Good
  <2>2. /\ m = [topic |-> m.topic, off |-> m.off, plain |-> m.plain, fields |-> m.fields]
        /\ m.fields \in Maps /\ \A f \in DOMAIN m.fields : m.fields[f] \in 1 .. arrived
    BY DEF Good
  <2> DEFINE g == m.fields
  <2>3. \A f \in DOMAIN g : g[f] \in 1 .. MaxCommands
    BY <1>1, <2>2
  <2>4. g \in [DOMAIN g -> 1 .. MaxCommands] /\ DOMAIN g \in SUBSET Fields
    BY <2>2, <2>3, MapFacts
  <2>5. g \in UNION {[s -> 1 .. MaxCommands] : s \in SUBSET Fields}
    BY <2>4
  <2>6. m = [topic |-> k.topic, off |-> k.off, plain |-> k.plain, fields |-> g]
    BY <2>1, <2>2
  <2> HIDE DEF g
  <2> QED
    BY <2>5, <2>6 DEF Command
<1>3. ToSet(inbox \o held \o lane \o active) \subseteq Command
  <2> DEFINE s == inbox \o held \o lane \o active
  <2>1. s \in Seq(Good(arrived))
    BY <1>1 DEF Line
  <2> HIDE DEF s
  <2>2. \A i \in DOMAIN s : s[i] \in Command
    BY <1>2, <2>1
  <2>3. ToSet(s) \subseteq Command
    BY <2>2 DEF ToSet
  <2> QED
    BY <2>3 DEF s
<1>4. sent \in [Fields -> 0 .. MaxCommands]
  BY <1>1
<1>5. stage \in {"superseded", "ticket"} => ticket # <<>> /\ hook # <<>>
  <2>1. \A w \in Write : <<w>> # <<>>
    OBVIOUS
  <2>2. \A v : IsWrite(ticket, v) => ticket # <<>>
    BY <2>1 DEF IsWrite
  <2> QED
    BY <2>2 DEF IInv, WorkerInv
<1> QED
  BY <1>1, <1>3, <1>4, <1>5 DEF TypeOK, IInv, WorkerInv, Limits, Line

-----------------------------------------------------------------------------
(* Theorems                                                                *)

\* No queue and no counter leaves its bounds, and the worker has what its stage
\* needs.
THEOREM TypeCorrect == Spec => []TypeOK
BY Invariant, TypesHold, PTL

\* Coalescing in the transport queue and in the lane, and folding into the write
\* that waits, reorder nothing: the values of a field are sent in the order of
\* their commands, and a command of a switch acts where it arrived, whatever
\* happens to the worker and the lane.
THEOREM CommandsKeepTheirOrder == Spec => []InOrder
BY Invariant, InOrderHolds, PTL

-----------------------------------------------------------------------------
(* The mesh load: the inductive invariant                                  *)

\* The tick loop withdraws what the bridge has on the broker.
Withdrawing == at["tick"] \in {"unsubscribe", "clear"}

\* A pending record is the feedback of the generation in force.
Linked == pending # None => gen = pending.gen /\ feedback = pending

\* What is under way is about the feedback in force.
InForce == \A i \in DOMAIN pubs : Owns(pubs[i].rec, pubs[i].gen)

\* The broker retains what it was handed last.
LastIsRetained ==
  \A i \in DOMAIN pubs :
    pubs[i].sent /\ (\A j \in DOMAIN pubs : j > i => ~pubs[j].sent)
      => torn \/ pubs[i].fields = wire

\* Only the leader publishes, and it does not withdraw.
Leading ==
  /\ leader => enabled
  /\ ~leader => pubs = <<>>
  /\ Withdrawing => ~leader

\* The handler is busy as long as it awaits the last write, and no other.
HandlerIsAnswered ==
  /\ \A i \in DOMAIN rpcs : rpcs[i].held => i = Len(rpcs)
  /\ handler.at # "idle" <=> HandlerAwaits

\* What the cache needs to tell what the broker retains.
PublishedInv == InForce /\ LastIsRetained /\ Leading /\ CachedIsRetained

\* The inductive invariant of the bridge.
MeshInv == MeshTypeOK /\ Linked /\ PublishedInv /\ HandlerIsAnswered

-----------------------------------------------------------------------------
(* The helpers                                                             *)

\* What _project_pending_mesh makes of an observed value and a record is what a bridge
\* publishes.
LEMMA ProjectFacts ==
  ASSUME NEW v \in Values, NEW r \in Record \cup {None}
  PROVE  Project(v, r) \in StateFields
<1>1. CASE r = None
  BY <1>1 DEF Project, StateFields
<1>2. CASE r # None /\ r.status \in {"pending", "unconfirmed"}
  BY <1>2 DEF Project, StateFields, Record
<1>3. CASE r # None /\ r.status \notin {"pending", "unconfirmed"}
  BY <1>3 DEF Project, StateFields, Record
<1>4. QED
  BY <1>1, <1>2, <1>3

\* A record of a write has its generation.
LEMMA RecFacts ==
  ASSUME NEW h, h.gen \in Nat, h.value \in Values,
         NEW s \in {"superseded", "pending", "failed", "contradicted", "unconfirmed"}
  PROVE  Rec(s, h) \in Record /\ Rec(s, h).gen = h.gen
BY DEF Rec, Record

\* One publication may follow those in ps.
Adds(ps, qs, r, g) ==
  \/ qs = ps
  \/ /\ leader /\ enabled
     /\ \E p \in Publication : qs = Append(ps, p) /\ ~p.sent /\ p.rec = r /\ p.gen = g

\* _publish_state adds one publication, of the feedback in force, or none.
LEMMA PublishedFacts ==
  ASSUME MeshTypeOK, NEW t \in Tasks, NEW v \in Values \cup {None},
         NEW r \in Record \cup {None}, NEW ps, NEW c, NEW force
  PROVE  Adds(ps, Published(t, v, r, ps, c, force), r, gen)
<1> DEFINE p == [owner |-> t, fields |-> Project(v, r), gen |-> gen, rec |-> r, sent |-> FALSE]
<1>1. CASE v = None \/ ~enabled \/ ~leader \/ (~force /\ c = Project(v, r))
  BY <1>1 DEF Adds, Published
<1>2. CASE ~(v = None \/ ~enabled \/ ~leader \/ (~force /\ c = Project(v, r)))
  <2>1. p \in Publication
    BY <1>2, ProjectFacts DEF Publication, MeshTypeOK, BridgeTypes
  <2>2. p.sent = FALSE /\ p.rec = r /\ p.gen = gen
    OBVIOUS
  <2>3. Published(t, v, r, ps, c, force) = Append(ps, p)
    BY <1>2 DEF Published
  <2> HIDE DEF p
  <2>4. leader /\ enabled
    BY <1>2
  <2>5. QED
    BY <2>1, <2>2, <2>3, <2>4 DEF Adds
<1>3. QED
  BY <1>1, <1>2

\* What follows publications are publications.
LEMMA AddsTyped ==
  ASSUME NEW ps \in Seq(Publication), NEW qs, NEW r, NEW g, Adds(ps, qs, r, g)
  PROVE  qs \in Seq(Publication)
BY DEF Adds

\* Effect of an observation.
Saw(o) ==
  /\ o.pending \in Record \cup {None} /\ o.feedback \in Record \cup {None}
  /\ o.fresh \in BOOLEAN
  /\ o.pubs \in Seq(Publication) /\ o.cached \in StateFields \cup {None}
  /\ o.pending # None => gen = o.pending.gen /\ o.feedback = o.pending
  /\ \/ o.pubs = pubs /\ o.feedback = feedback /\ o.cached = cached
     \/ o.pubs = <<>> /\ o.cached = CachedAfterRevoking(pubs, cached)

\* _observe_mesh_pending leaves a pending record in force, or takes it away with the
\* publications under way.
LEMMA ObservedFacts ==
  ASSUME MeshTypeOK, Linked, NEW v
  PROVE  Saw(Observed(v))
<1> DEFINE kept(clock) == [pending |-> pending, fresh |-> clock, feedback |-> feedback,
                           pubs |-> pubs, cached |-> cached]
           c == CachedAfterRevoking(pubs, cached)
           revoked(r) == [pending |-> None, fresh |-> FALSE, feedback |-> r,
                          pubs |-> <<>>, cached |-> c]
<1>1. ASSUME NEW b \in BOOLEAN PROVE Saw(kept(b))
  BY DEF Saw, MeshTypeOK, BridgeTypes, Linked
<1>2. c \in StateFields \cup {None}
  BY DEF CachedAfterRevoking, MeshTypeOK, BridgeTypes
<1>3. ASSUME NEW r \in Record \cup {None} PROVE Saw(revoked(r))
  BY <1>2 DEF Saw
<1>4. CASE pending = None
  <2>1. Observed(v) \in {kept(fresh), revoked(None)}
    BY <1>4 DEF Observed
  <2> HIDE DEF kept, revoked, c
  <2>2. QED
    BY <2>1, <1>1, <1>3 DEF MeshTypeOK, BridgeTypes
<1>5. CASE pending # None
  <2>1. Rec("contradicted", pending) \in Record
    BY <1>5, RecFacts DEF MeshTypeOK, BridgeTypes, Record
  <2>2. Observed(v) \in {kept(fresh), kept(TRUE), revoked(Rec("contradicted", pending))}
    BY <1>5 DEF Observed
  <2> HIDE DEF kept, revoked, c
  <2>3. QED
    BY <2>1, <2>2, <1>1, <1>3 DEF MeshTypeOK, BridgeTypes
<1>6. QED
  BY <1>4, <1>5

-----------------------------------------------------------------------------
(* What one slice of the event loop does to the bridge                     *)

\* The publications under way go on or are revoked, and one may follow.
Slice ==
  /\ enabled' = enabled
  /\ \/ UNCHANGED <<feedback, gen, cached>> /\ Adds(pubs, pubs', feedback', gen')
     \/ cached' = CachedAfterRevoking(pubs, cached) /\ Adds(<<>>, pubs', feedback', gen')

\* What every slice keeps.
BridgeStep == BridgeTypes' /\ Linked' /\ Slice

\* No publication is under way.
LEMMA NonePublished == <<>> \in Seq(Publication)
OBVIOUS

\* A revocation leaves the cache with what it had, or empty.
LEMMA RevokedTyped ==
  ASSUME MeshTypeOK
  PROVE  CachedAfterRevoking(pubs, cached) \in StateFields \cup {None}
BY DEF CachedAfterRevoking, MeshTypeOK, BridgeTypes

\* What is under way may go on as it is.
LEMMA NothingAdded == ASSUME NEW ps, NEW r, NEW g PROVE Adds(ps, ps, r, g)
BY DEF Adds

\* An observation that is published at once is one slice.
LEMMA ObserveAndPublishFacts ==
  ASSUME MeshTypeOK, Linked, NEW t \in Tasks, NEW v \in Values \cup {None},
         ObserveAndPublish(t, v)
  PROVE  BridgeStep
<1> DEFINE o == Observed(v)
<1>1. Saw(o)
  BY ObservedFacts
<1> HIDE DEF o
<1>2. /\ snap' = v /\ Observe(o) /\ UNCHANGED <<enabled, gen>>
      /\ pubs' = Published(t, v, o.feedback, o.pubs, o.cached, FALSE)
  BY DEF ObserveAndPublish, o
<1>3. Adds(o.pubs, pubs', o.feedback, gen)
  BY <1>1, <1>2, PublishedFacts DEF Saw
<1>4. BridgeTypes'
  BY <1>1, <1>2, <1>3, AddsTyped DEF Saw, Observe, BridgeTypes, MeshTypeOK
<1>5. Linked'
  BY <1>1, <1>2 DEF Saw, Observe, Linked
<1>6. Slice
  BY <1>1, <1>2, <1>3 DEF Saw, Observe, Slice
<1>7. QED
  BY <1>4, <1>5, <1>6 DEF BridgeStep

\* An observation of a reconcile, which publishes later, is one slice.
LEMMA AnnouncedFacts ==
  ASSUME MeshTypeOK, Linked, NEW v \in Values \cup {None}, Observe(Observed(v)),
         pubs' = Observed(v).pubs, snap' = v, UNCHANGED <<enabled, gen>>
  PROVE  BridgeStep
<1> DEFINE o == Observed(v)
<1>1. Saw(o)
  BY ObservedFacts
<1>2. Observe(o) /\ pubs' = o.pubs
  OBVIOUS
<1> HIDE DEF o
<1>3. Adds(o.pubs, pubs', o.feedback, gen)
  BY <1>2, NothingAdded
<1>4. BridgeTypes'
  BY <1>1, <1>2 DEF Saw, Observe, BridgeTypes, MeshTypeOK
<1>5. Linked'
  BY <1>1, <1>2 DEF Saw, Observe, Linked
<1>6. Slice
  BY <1>1, <1>2, <1>3 DEF Saw, Observe, Slice
<1>7. QED
  BY <1>4, <1>5, <1>6 DEF BridgeStep

\* The publication of a reconcile is one slice.
LEMMA ConfiguredFacts ==
  ASSUME MeshTypeOK, Linked, NEW t \in Tasks, NEW v \in Values \cup {None},
         pubs' = Published(t, v, feedback, pubs, cached, TRUE),
         UNCHANGED <<enabled, snap, gen, pending, fresh, feedback, cached>>
  PROVE  BridgeStep
<1>1. Adds(pubs, pubs', feedback, gen)
  BY PublishedFacts DEF MeshTypeOK, BridgeTypes
<1>2. BridgeTypes'
  BY <1>1, AddsTyped DEF MeshTypeOK, BridgeTypes
<1>3. QED
  BY <1>1, <1>2 DEF BridgeStep, Slice, Linked

\* A new command starts with nothing pending, and the handler knows its value.
LEMMA SupersedeFacts ==
  ASSUME MeshTypeOK, NEW v \in Values, SupersedeWrite(v)
  PROVE  /\ BridgeStep
         /\ handler' \in [at: {"writing"}, gen: Nat, value: Values]
<1> DEFINE h == [at |-> "writing", gen |-> gen + 1, value |-> v]
<1>1. gen + 1 \in Nat
  BY DEF MeshTypeOK, BridgeTypes
<1>2. Rec("superseded", h) \in Record
  BY <1>1, RecFacts
<1>3. feedback' \in Record \cup {None}
  BY <1>2 DEF SupersedeWrite
<1>4. /\ gen' = gen + 1 /\ handler' = h /\ pending' = None /\ fresh' = FALSE
      /\ pubs' = <<>> /\ cached' = CachedAfterRevoking(pubs, cached)
      /\ UNCHANGED <<enabled, snap>>
  BY DEF SupersedeWrite
<1>5. BridgeTypes'
  BY <1>1, <1>3, <1>4, RevokedTyped, NonePublished DEF BridgeTypes, MeshTypeOK
<1>6. Linked'
  BY <1>4 DEF Linked
<1>7. Slice
  BY <1>4, NothingAdded DEF Slice
<1>8. QED
  BY <1>1, <1>4, <1>5, <1>6, <1>7 DEF BridgeStep

\* The outcome of a write arms the confirmation of its own generation, or finds
\* itself outrun.
LEMMA SettleFacts ==
  ASSUME MeshTypeOK, Linked, NEW s \in {"pending", "failed"}, NEW force, Settle(s, force),
         handler.at = "writing"
  PROVE  BridgeStep
<1> DEFINE r == Rec(s, handler)
           c == CachedAfterRevoking(pubs, cached)
<1>1. CASE gen # handler.gen
  BY <1>1, NothingAdded DEF Settle, bridgeVars, BridgeStep, BridgeTypes, MeshTypeOK, Linked, Slice
<1>2. CASE gen = handler.gen
  <2>1. r \in Record /\ r.gen = gen
    BY <1>2, RecFacts DEF MeshTypeOK, LaneTypes
  <2>2. /\ pending' \in {r, None} /\ fresh' = FALSE /\ feedback' = r /\ cached' = c
        /\ pubs' = Published("handler", snap, r, <<>>, c, force)
        /\ UNCHANGED <<enabled, snap, gen>>
    BY <1>2 DEF Settle
  <2> HIDE DEF r
  <2>3. Adds(<<>>, pubs', r, gen)
    BY <2>1, <2>2, PublishedFacts DEF Tasks, MeshTypeOK, BridgeTypes
  <2>4. BridgeTypes'
    BY <2>1, <2>2, <2>3, AddsTyped, NonePublished, RevokedTyped DEF MeshTypeOK, BridgeTypes
  <2>5. Linked'
    BY <2>1, <2>2 DEF Linked
  <2>6. Slice
    BY <2>2, <2>3 DEF Slice
  <2>7. QED
    BY <2>4, <2>5, <2>6 DEF BridgeStep
<1>3. QED
  BY <1>1, <1>2

\* The confirmed record is gone, and the state is published.
LEMMA ConfirmFacts == ASSUME MeshTypeOK, Confirm PROVE BridgeStep
<1> DEFINE c == CachedAfterRevoking(pubs, cached)
<1>1. /\ pending' = None /\ fresh' = FALSE /\ feedback' = None /\ cached' = c
      /\ pubs' = Published("resolver", snap', None, <<>>, c, FALSE)
      /\ UNCHANGED <<enabled, gen>>
  BY DEF Confirm, timerOnly
<1>2. snap' \in Values \cup {None}
  BY DEF Confirm, Due, MeshTypeOK, BridgeTypes, Record
<1>3. Adds(<<>>, pubs', None, gen)
  BY <1>1, <1>2, PublishedFacts DEF Tasks
<1>4. BridgeTypes'
  BY <1>1, <1>2, <1>3, AddsTyped, NonePublished, RevokedTyped DEF MeshTypeOK, BridgeTypes
<1>5. QED
  BY <1>1, <1>3, <1>4 DEF BridgeStep, Slice, Linked

\* The expired record is no longer pending, and its feedback is published.
LEMMA ExpireFacts == ASSUME MeshTypeOK, Expire PROVE BridgeStep
<1> DEFINE c == CachedAfterRevoking(pubs, cached)
           r == Rec("unconfirmed", pending)
<1>1. /\ pending' = None /\ feedback' = r /\ cached' = c
      /\ pubs' = Published("resolver", snap, r, <<>>, c, FALSE)
      /\ UNCHANGED <<enabled, snap, gen, fresh>>
  BY DEF Expire, timerOnly
<1>2. r \in Record
  BY RecFacts DEF Expire, Due, MeshTypeOK, BridgeTypes, Record
<1> HIDE DEF r
<1>3. Adds(<<>>, pubs', r, gen)
  BY <1>1, <1>2, PublishedFacts DEF Tasks, MeshTypeOK, BridgeTypes
<1>4. BridgeTypes'
  BY <1>1, <1>2, <1>3, AddsTyped, NonePublished, RevokedTyped DEF MeshTypeOK, BridgeTypes
<1>5. QED
  BY <1>1, <1>3, <1>4 DEF BridgeStep, Slice, Linked

\* Without its i-th element, a sequence holds the others in their order.
LEMMA RemoveAtFacts ==
  ASSUME NEW S, NEW s \in Seq(S), NEW i \in DOMAIN s
  PROVE  /\ RemoveAt(s, i) \in Seq(S)
         /\ Len(RemoveAt(s, i)) = Len(s) - 1
         /\ \A j \in 1 .. i - 1 : RemoveAt(s, i)[j] = s[j]
         /\ \A j \in i .. Len(s) - 1 : RemoveAt(s, i)[j] = s[j + 1]
<1> DEFINE a == SubSeq(s, 1, i - 1)
           b == SubSeq(s, i + 1, Len(s))
<1>1. i \in 1 .. Len(s) /\ Len(s) \in Nat
  OBVIOUS
<1>2. a \in Seq(S) /\ Len(a) = i - 1 /\ \A j \in 1 .. i - 1 : a[j] = s[j]
  BY <1>1
<1>3. b \in Seq(S) /\ Len(b) = Len(s) - i /\ \A j \in 1 .. Len(s) - i : b[j] = s[i + j]
  BY <1>1
<1>4. RemoveAt(s, i) = a \o b
  BY DEF RemoveAt
<1> HIDE DEF a, b
<1>5. a \o b \in Seq(S) /\ Len(a \o b) = Len(s) - 1
  BY <1>1, <1>2, <1>3
<1>6. ASSUME NEW j \in 1 .. i - 1 PROVE (a \o b)[j] = s[j]
  BY <1>1, <1>2, <1>3, <1>5
<1>7. ASSUME NEW j \in i .. Len(s) - 1 PROVE (a \o b)[j] = s[j + 1]
  <2>1. j - (i - 1) \in 1 .. Len(s) - i /\ i + (j - (i - 1)) = j + 1
    BY <1>1
  <2>2. (a \o b)[j] = b[j - (i - 1)]
    BY <1>1, <1>2, <1>3, <1>5
  <2>3. QED
    BY <2>1, <2>2, <1>3
<1>8. QED
  BY <1>4, <1>5, <1>6, <1>7

\* The ends of a sequence and what is left without them.
LEMMA EndFacts ==
  ASSUME NEW S, NEW s \in Seq(S), s # <<>>
  PROVE  /\ 1 \in DOMAIN s /\ Head(s) = s[1] /\ Head(s) \in S
         /\ Len(s) \in DOMAIN s /\ Last(s) = s[Len(s)] /\ Last(s) \in S
         /\ Tail(s) \in Seq(S) /\ Len(Tail(s)) = Len(s) - 1
         /\ \A j \in DOMAIN Tail(s) : Tail(s)[j] = s[j + 1]
         /\ Front(s) \in Seq(S) /\ Len(Front(s)) = Len(s) - 1
         /\ \A j \in 1 .. Len(s) - 1 : Front(s)[j] = s[j]
<1>1. Len(s) \in Nat \ {0}
  OBVIOUS
<1>2. 1 \in DOMAIN s /\ Len(s) \in DOMAIN s
  BY <1>1
<1>3. Head(s) = s[1] /\ Head(s) \in S
  BY <1>1
<1>4. Last(s) = s[Len(s)] /\ Last(s) \in S
  BY <1>1, <1>2 DEF Last
<1>5. /\ Tail(s) \in Seq(S) /\ Len(Tail(s)) = Len(s) - 1
      /\ \A j \in DOMAIN Tail(s) : Tail(s)[j] = s[j + 1]
  BY <1>1
<1>6. /\ Front(s) \in Seq(S) /\ Len(Front(s)) = Len(s) - 1
      /\ \A j \in 1 .. Len(s) - 1 : Front(s)[j] = s[j]
  <2> DEFINE n == Len(s) - 1
  <2>1. Front(s) = SubSeq(s, 1, n)
    BY DEF Front
  <2>2. n \in 0 .. Len(s) /\ n \in Nat
    BY <1>1
  <2> HIDE DEF n
  <2>3. /\ SubSeq(s, 1, n) \in Seq(S) /\ Len(SubSeq(s, 1, n)) = n
        /\ \A j \in 1 .. n : SubSeq(s, 1, n)[j] = s[j]
    BY <1>1, <2>2
  <2>4. QED
    BY <2>1, <2>3 DEF n
<1>7. QED
  BY <1>2, <1>3, <1>4, <1>5, <1>6

\* A sequence with one element replaced.
LEMMA ExceptFacts ==
  ASSUME NEW S, NEW s \in Seq(S), NEW i \in DOMAIN s, NEW x \in S
  PROVE  /\ [s EXCEPT ![i] = x] \in Seq(S) /\ Len([s EXCEPT ![i] = x]) = Len(s)
         /\ [s EXCEPT ![i] = x][i] = x
         /\ \A j \in DOMAIN s \ {i} : [s EXCEPT ![i] = x][j] = s[j]
OBVIOUS

\* A publication that is handed over is a publication.
LEMMA SentTyped ==
  ASSUME NEW p \in Publication
  PROVE  [p EXCEPT !.sent = TRUE] \in Publication
BY DEF Publication

\* What the client does with the publications leaves publications.
LEMMA PubsTyped ==
  ASSUME MeshTypeOK, Start \/ Complete \/ PublishFails
  PROVE  pubs' \in Seq(Publication)
<1>1. pubs \in Seq(Publication)
  BY DEF MeshTypeOK, BridgeTypes
<1>2. ASSUME NEW i \in DOMAIN pubs PROVE [pubs EXCEPT ![i].sent = TRUE] \in Seq(Publication)
  <2>1. pubs[i] \in Publication
    BY <1>1
  <2>2. [pubs[i] EXCEPT !.sent = TRUE] \in Publication
    BY <2>1, SentTyped
  <2>3. QED
    BY <1>1, <2>2, ExceptFacts
<1>3. CASE Start
  <2>1. PICK i \in DOMAIN pubs : \/ pubs' = [pubs EXCEPT ![i].sent = TRUE]
                               \/ pubs' = RemoveAt(pubs, i)
    BY <1>3 DEF Start
  <2>2. CASE pubs' = [pubs EXCEPT ![i].sent = TRUE]
    BY <2>2, <1>2
  <2>3. CASE pubs' = RemoveAt(pubs, i)
    BY <2>3, <1>1, RemoveAtFacts
  <2>4. QED
    BY <2>1, <2>2, <2>3
<1>4. CASE Complete
  <2>1. pubs # <<>> /\ pubs' = Tail(pubs)
    BY <1>4 DEF Complete, Sent
  <2>2. QED
    BY <2>1, <1>1, EndFacts
<1>5. CASE PublishFails
  <2>1. PICK i \in DOMAIN pubs : pubs' = RemoveAt(pubs, i)
    BY <1>5 DEF PublishFails
  <2>2. QED
    BY <2>1, <1>1, RemoveAtFacts
<1>6. QED
  BY <1>3, <1>4, <1>5

\* What one task awaits changes; DOMAIN at stays.
LEMMA GotoFacts ==
  ASSUME LoopTypes, NEW t \in Loops, NEW where, Goto(t, where)
  PROVE  /\ at'[t] = where
         /\ \A u \in Loops \ {t} : at'[u] = at[u]
         /\ at' = [u \in Loops |-> at'[u]]
BY DEF LoopTypes, Goto

\* Every step leaves the loops where their code can await.
LEMMA LoopsKept ==
  ASSUME MeshTypeOK, [MeshNext]_meshVars
  PROVE  LoopTypes'
<1>1. ASSUME NEW t \in Loops, NEW where, Goto(t, where), dev' \in [Loops -> Values \cup {None}],
             where \in {"idle", "announce", "configure", "register", "subscribe"}
      PROVE  LoopTypes'
  BY <1>1, GotoFacts DEF LoopTypes, MeshTypeOK, Loops
<1>2. ASSUME NEW where, Goto("tick", where), dev' \in [Loops -> Values \cup {None}],
             where \in {"poll", "unsubscribe", "clear"}
      PROVE  LoopTypes'
  BY <1>2, GotoFacts DEF LoopTypes, MeshTypeOK, Loops
<1>3. ASSUME UNCHANGED <<at, dev>> PROVE LoopTypes'
  BY <1>3 DEF LoopTypes, MeshTypeOK
<1>4. ASSUME NEW t \in Loops, NEW v \in Values \cup {None}
      PROVE  [dev EXCEPT ![t] = v] \in [Loops -> Values \cup {None}]
  BY DEF LoopTypes, MeshTypeOK
<1>d. dev \in [Loops -> Values \cup {None}] /\ mirror \in Values
  BY DEF LoopTypes, LaneTypes, MeshTypeOK
<1>t. "tick" \in Loops /\ "reconnect" \in Loops
  BY DEF Loops
<1>5. CASE PollRead
  BY <1>5, <1>2, <1>4, <1>d, <1>t DEF PollRead
<1>6. CASE Polled
  BY <1>6, <1>1, <1>4, <1>d, <1>t DEF Polled
<1>7. CASE Reconcile \/ Reconnect
  BY <1>7, <1>1, <1>4, <1>d, <1>t DEF Reconcile, Reconnect, Read
<1>8. ASSUME NEW t \in Loops, Loop(t) PROVE LoopTypes'
  <2>1. Announced(t) \/ Configured(t) \/ Register(t) \/ Subscribed(t)
    BY <1>8 DEF Loop
  <2>2. QED
    BY <2>1, <1>1, <1>4, <1>d DEF Announced, Configured, Register, Subscribed
<1>9. CASE Election
  BY <1>9, <1>1, <1>2, <1>d, <1>t DEF Election, LoseElection, Unsubscribe, WithdrawEnds
<1>10. CASE PublishFails
  <2>1. PICK i \in DOMAIN pubs :
          at' = [t \in Loops |-> IF t = pubs[i].owner THEN "idle" ELSE at[t]]
    BY <1>10 DEF PublishFails
  <2>2. dev' = dev
    BY <1>10 DEF PublishFails, pubOnly
  <2>3. QED
    BY <2>1, <2>2, <1>t DEF LoopTypes, MeshTypeOK
<1>11. CASE Push \/ Start \/ Complete \/ UNCHANGED meshVars
  BY <1>11, <1>3 DEF Push, Start, Complete, pubOnly, meshVars
<1>12. CASE \E v \in Values : CommandArrives(v) \/ ByHand(v)
  BY <1>12, <1>3 DEF CommandArrives, ByHand, busOnly
<1>13. CASE Lane
  BY <1>13, <1>3 DEF Lane, DropCommand, HandleCommand, FoldCommand, HandleFolded, DropFolded
<1>14. CASE Bus \/ Fail \/ Timeout \/ Revert
  BY <1>14, <1>3 DEF Bus, IssueWrite, Accept, Reply, Fail, Timeout, Revert, busOnly
<1>15. CASE Stale \/ Confirm \/ Expire
  BY <1>15, <1>3 DEF Stale, Confirm, Expire, timerOnly
<1>16. QED
  BY <1>5, <1>6, <1>7, <1>8, <1>9, <1>10, <1>11, <1>12, <1>13, <1>14, <1>15 DEF MeshNext

\* A write stays one when the panel, a fold or a timeout touches it.
LEMMA WriteTyped ==
  ASSUME NEW w \in Writes
  PROVE  /\ \A v \in Values : [w EXCEPT !.value = v] \in Writes
         /\ [w EXCEPT !.at = "issued"] \in Writes /\ [w EXCEPT !.at = "accepted"] \in Writes
         /\ [w EXCEPT !.held = FALSE] \in Writes
BY DEF Writes

\* What an action can make of the writes.
Rewritten(i) ==
  \/ rpcs' = [rpcs EXCEPT ![i].at = "issued"] \/ rpcs' = [rpcs EXCEPT ![i].at = "accepted"]
  \/ rpcs' = [rpcs EXCEPT ![i].held = FALSE]
  \/ \E v \in Values : rpcs' = [rpcs EXCEPT ![i].value = v]

\* What an action makes of the writes are writes.
LEMMA WritesTyped ==
  ASSUME LaneTypes,
         \/ rpcs' = rpcs
         \/ \E v \in Values : rpcs' = Append(rpcs, [value |-> v, at |-> "waiting", held |-> TRUE])
         \/ rpcs # <<>> /\ rpcs' \in {Tail(rpcs), Front(rpcs)}
         \/ rpcs # <<>> /\ (Rewritten(1) \/ Rewritten(Len(rpcs)))
  PROVE  rpcs' \in Seq(Writes)
<1>1. rpcs \in Seq(Writes)
  BY DEF LaneTypes, Writes
<1>2. ASSUME NEW v \in Values PROVE [value |-> v, at |-> "waiting", held |-> TRUE] \in Writes
  BY DEF Writes
<1>3. ASSUME NEW i \in DOMAIN rpcs, Rewritten(i) PROVE rpcs' \in Seq(Writes)
  <2>1. rpcs[i] \in Writes
    BY <1>1
  <2>2. PICK w \in Writes : rpcs' = [rpcs EXCEPT ![i] = w]
    BY <1>3, <2>1, WriteTyped DEF Rewritten
  <2>3. QED
    BY <2>2, <1>1, ExceptFacts
<1>4. CASE \E v \in Values : rpcs' = Append(rpcs, [value |-> v, at |-> "waiting", held |-> TRUE])
  <2>1. PICK w \in Writes : rpcs' = Append(rpcs, w)
    BY <1>2, <1>4
  <2>2. QED
    BY <2>1, <1>1
<1>5. CASE rpcs # <<>>
  BY <1>1, <1>3, <1>4, <1>5, EndFacts
<1>6. QED
  BY <1>1, <1>4, <1>5

\* Every step leaves a lane, a handler and writes; a folded command that is dropped
\* has its write.
LEMMA LaneKept ==
  ASSUME MeshTypeOK, HandlerIsAnswered, [MeshNext]_meshVars
  PROVE  LaneTypes'
<1>1. LaneTypes
  BY DEF MeshTypeOK
<1>2. ASSUME UNCHANGED <<loadVars, commandVars>> PROVE LaneTypes'
  BY <1>1, <1>2 DEF LaneTypes, loadVars, commandVars
<1>3. ASSUME rpcs' \in Seq(Writes), command' \in Values \cup {None},
             mirror' \in Values, actual' \in Values,
             handler' \in {NoHandler, handler} \cup [at: {"writing", "folded"}, gen: Nat, value: Values]
      PROVE  LaneTypes'
  BY <1>1, <1>3 DEF LaneTypes, NoHandler, Writes
<1>4. rpcs \in Seq(Writes) /\ command \in Values \cup {None} /\ mirror \in Values /\ actual \in Values
  BY <1>1 DEF LaneTypes, Writes
<1>5. CASE PollRead \/ Polled \/ Reconcile \/ Reconnect \/ Election \/ Push
  BY <1>5, <1>2 DEF PollRead, Polled, Reconcile, Reconnect, Read, Election, LoseElection,
       Unsubscribe, WithdrawEnds, Push, elsewhere
<1>6. ASSUME NEW t \in Loops, Loop(t) PROVE LaneTypes'
  BY <1>6, <1>2 DEF Loop, Announced, Configured, Register, Subscribed, elsewhere
<1>7. ASSUME NEW v \in Values, CommandArrives(v) \/ ByHand(v) PROVE LaneTypes'
  BY <1>7, <1>3, <1>4 DEF CommandArrives, ByHand, loadVars, busOnly
<1>8. CASE DropCommand
  BY <1>8, <1>3, <1>4 DEF DropCommand, loadVars
<1>9. CASE HandleCommand
  <2>1. command \in Values
    BY <1>9, <1>4 DEF HandleCommand
  <2>2. handler' \in [at: {"writing"}, gen: Nat, value: Values]
    BY <1>9, <2>1, SupersedeFacts DEF HandleCommand
  <2>3. rpcs' \in Seq(Writes)
    BY <1>9, <1>1, <2>1, WritesTyped DEF HandleCommand
  <2>4. QED
    BY <1>9, <1>3, <1>4, <2>2, <2>3 DEF HandleCommand
<1>10. CASE FoldCommand
  <2>1. command \in Values /\ rpcs # <<>>
    BY <1>10, <1>4 DEF FoldCommand, HandlerAwaits
  <2>2. handler' \in [at: {"folded"}, gen: Nat, value: Values]
    BY <1>10, <1>1, <2>1 DEF FoldCommand, LaneTypes
  <2>3. Rewritten(Len(rpcs))
    BY <1>10, <2>1 DEF FoldCommand, Rewritten
  <2>4. rpcs' \in Seq(Writes)
    BY <1>1, <2>1, <2>3, WritesTyped
  <2>5. QED
    BY <1>10, <1>3, <1>4, <2>2, <2>4 DEF FoldCommand
<1>11. CASE HandleFolded
  <2>1. handler.value \in Values
    BY <1>11, <1>1 DEF HandleFolded, LaneTypes
  <2>2. handler' \in [at: {"writing"}, gen: Nat, value: Values]
    BY <1>11, <2>1, SupersedeFacts DEF HandleFolded
  <2>3. QED
    BY <1>11, <1>3, <1>4, <2>2 DEF HandleFolded, loadVars
<1>12. CASE DropFolded
  <2>1. rpcs # <<>>
    BY <1>4, <1>12 DEF DropFolded, HandlerIsAnswered, HandlerAwaits
  <2>2. rpcs' \in {Front(rpcs)} \/ Rewritten(Len(rpcs))
    BY <1>12 DEF DropFolded, Rewritten
  <2>3. rpcs' \in Seq(Writes)
    BY <1>1, <2>1, <2>2, WritesTyped
  <2>4. QED
    BY <1>12, <1>3, <1>4, <2>3 DEF DropFolded
<1>13. CASE IssueWrite
  <2>1. rpcs # <<>> /\ Rewritten(1)
    BY <1>13 DEF IssueWrite, Rewritten
  <2>2. rpcs' \in Seq(Writes)
    BY <1>1, <2>1, WritesTyped
  <2>3. QED
    BY <1>13, <1>3, <1>4, <2>2 DEF IssueWrite, busOnly
<1>14. ASSUME NEW v \in Values, Accept(v) PROVE LaneTypes'
  <2>1. rpcs # <<>> /\ Rewritten(1)
    BY <1>14 DEF Accept, Rewritten
  <2>2. rpcs' \in Seq(Writes)
    BY <1>1, <2>1, WritesTyped
  <2>3. Head(rpcs) \in Writes
    BY <2>1, <1>4, EndFacts
  <2>4. Head(rpcs).value \in Values
    BY <2>3 DEF Writes
  <2>5. QED
    BY <1>14, <1>3, <1>4, <2>2, <2>4 DEF Accept, busOnly
<1>15. CASE Reply \/ Fail
  <2>1. rpcs # <<>> /\ rpcs' = Tail(rpcs)
    BY <1>15 DEF Reply, Fail, Answerable
  <2>2. rpcs' \in Seq(Writes)
    BY <1>1, <2>1, WritesTyped
  <2>3. QED
    BY <1>15, <1>3, <1>4, <2>2 DEF Reply, Fail, Settle, busOnly
<1>16. CASE Timeout
  <2>1. rpcs # <<>> /\ Rewritten(1)
    BY <1>16 DEF Timeout, Answerable, Rewritten
  <2>2. rpcs' \in Seq(Writes)
    BY <1>1, <2>1, WritesTyped
  <2>3. QED
    BY <1>16, <1>3, <1>4, <2>2 DEF Timeout, Settle, busOnly
<1>17. CASE Revert
  BY <1>17, <1>3, <1>4 DEF Revert, busOnly
<1>18. CASE Stale \/ Confirm \/ Expire \/ UNCHANGED meshVars
  BY <1>18, <1>2 DEF Stale, Confirm, Expire, timerOnly, elsewhere, meshVars
<1>19. CASE Start \/ Complete \/ PublishFails
  BY <1>19, <1>2 DEF Start, Complete, PublishFails, pubOnly
<1>20. QED
  BY <1>5, <1>6, <1>7, <1>8, <1>9, <1>10, <1>11, <1>12, <1>13, <1>14, <1>15, <1>16, <1>17,
     <1>18, <1>19 DEF MeshNext, Lane, Bus

-----------------------------------------------------------------------------
(* What a step does to the publications                                    *)

\* A slice in which neither the term nor the client changes.
Moves == BridgeStep /\ UNCHANGED <<leader, wire, torn>> /\ (Withdrawing' <=> Withdrawing)

\* A step that leaves the bridge alone is one slice.
LEMMA Unmoved ==
  ASSUME MeshTypeOK, Linked, UNCHANGED bridgeVars
  PROVE  BridgeStep
BY NothingAdded DEF bridgeVars, BridgeStep, BridgeTypes, MeshTypeOK, Linked, Slice

\* A loop that is not withdrawing does not begin to.
LEMMA GoesOn ==
  ASSUME MeshTypeOK, NEW t \in Loops, NEW where, Goto(t, where),
         at[t] \notin {"unsubscribe", "clear"}, where \notin {"unsubscribe", "clear"}
  PROVE  Withdrawing' <=> Withdrawing
<1>1. CASE t = "tick"
  BY <1>1, GotoFacts DEF Withdrawing, MeshTypeOK
<1>2. CASE t # "tick"
  BY <1>2, GotoFacts DEF Withdrawing, MeshTypeOK, Loops
<1>3. QED
  BY <1>1, <1>2

\* Every step is one slice of the bridge, or one of seven that change the term of the
\* leader or what the client has.
LEMMA StepMoves ==
  ASSUME MeshTypeOK, Linked, [MeshNext]_meshVars
  PROVE  \/ Moves
         \/ Reconcile \/ Reconnect \/ LoseElection \/ WithdrawEnds
         \/ Start \/ Complete \/ PublishFails
<1>0. BridgeTypes /\ LaneTypes /\ LoopTypes /\ mirror \in Values
  BY DEF MeshTypeOK, LaneTypes
<1>t. "tick" \in Loops /\ "reconnect" \in Loops /\ "push" \in Tasks /\ Loops \subseteq Tasks
  BY DEF Loops, Tasks
<1>1. ASSUME UNCHANGED <<leader, at, wire, torn>>, BridgeStep PROVE Moves
  BY <1>1 DEF Moves, Withdrawing
<1>2. ASSUME UNCHANGED <<leader, at, wire, torn, bridgeVars>> PROVE Moves
  BY <1>1, <1>2, Unmoved
<1>3. CASE PollRead
  <2>1. Withdrawing' <=> Withdrawing
    BY <1>3, <1>t, GoesOn DEF PollRead, Idle
  <2>2. QED
    BY <1>3, <2>1, Unmoved DEF PollRead, Moves, elsewhere
<1>4. CASE Polled
  <2>1. Withdrawing' <=> Withdrawing
    BY <1>4, <1>t, GoesOn DEF Polled
  <2>2. dev["tick"] \in Values \cup {None}
    BY <1>0, <1>t DEF LoopTypes
  <2>3. BridgeStep
    BY <1>4, <1>t, <2>2, ObserveAndPublishFacts DEF Polled
  <2>4. QED
    BY <1>4, <2>1, <2>3 DEF Polled, Moves, elsewhere
<1>5. ASSUME NEW t \in Loops, Loop(t) PROVE Moves
  <2>1. Withdrawing' <=> Withdrawing
    <3>1. \E where : /\ Goto(t, where) /\ where \notin {"unsubscribe", "clear"}
                     /\ at[t] \notin {"unsubscribe", "clear"}
      BY <1>5 DEF Loop, Announced, Configured, Register, Subscribed
    <3>2. QED
      BY <3>1, GoesOn
  <2>2. UNCHANGED <<leader, wire, torn>>
    BY <1>5 DEF Loop, Announced, Configured, Register, Subscribed, elsewhere
  <2>3. dev[t] \in Values \cup {None}
    BY <1>0 DEF LoopTypes
  <2>4. CASE Announced(t)
    <3>1. /\ Observe(Observed(dev[t])) /\ pubs' = Observed(dev[t]).pubs /\ snap' = dev[t]
          /\ UNCHANGED <<enabled, gen>>
      BY <2>4 DEF Announced
    <3>2. BridgeStep
      BY <2>3, <3>1, AnnouncedFacts
    <3>3. QED
      BY <2>1, <2>2, <3>2 DEF Moves
  <2>5. CASE Configured(t)
    BY <2>1, <2>2, <2>3, <2>5, <1>t, ConfiguredFacts DEF Configured, Moves
  <2>6. CASE Register(t) \/ Subscribed(t)
    BY <2>1, <2>2, <2>6, Unmoved DEF Register, Subscribed, Moves
  <2>7. QED
    BY <1>5, <2>4, <2>5, <2>6 DEF Loop
<1>6. CASE Unsubscribe
  <2>1. at'["tick"] = "clear"
    BY <1>6, <1>0, <1>t, GotoFacts DEF Unsubscribe
  <2>2. Withdrawing' <=> Withdrawing
    BY <1>6, <2>1 DEF Unsubscribe, Withdrawing
  <2>3. QED
    BY <1>6, <2>2, Unmoved DEF Unsubscribe, Moves, elsewhere
<1>7. CASE Push
  <2>1. BridgeStep
    BY <1>7, <1>0, <1>t, ObserveAndPublishFacts DEF Push
  <2>2. QED
    BY <1>7, <1>1, <2>1 DEF Push, elsewhere
<1>8. ASSUME NEW v \in Values, CommandArrives(v) \/ ByHand(v) PROVE Moves
  BY <1>8, <1>2 DEF CommandArrives, ByHand, busOnly
<1>9. CASE DropCommand \/ FoldCommand \/ DropFolded
  BY <1>9, <1>2 DEF DropCommand, FoldCommand, DropFolded
<1>10. CASE HandleCommand
  <2>1. command \in Values
    BY <1>10, <1>0 DEF HandleCommand, LaneTypes
  <2>2. QED
    BY <1>10, <1>1, <2>1, SupersedeFacts DEF HandleCommand
<1>11. CASE HandleFolded
  <2>1. handler.value \in Values
    BY <1>11, <1>0 DEF HandleFolded, LaneTypes
  <2>2. QED
    BY <1>11, <1>1, <2>1, SupersedeFacts DEF HandleFolded
<1>12. CASE IssueWrite \/ Revert \/ \E v \in Values : Accept(v)
  BY <1>12, <1>2 DEF IssueWrite, Revert, Accept, busOnly
<1>13. CASE Reply
  <2>1. BridgeStep
    BY <1>13, SettleFacts, Unmoved DEF Reply, Answerable
  <2>2. QED
    BY <1>13, <1>1, <2>1 DEF Reply, busOnly
<1>14. CASE Fail
  <2>1. BridgeStep
    BY <1>14, SettleFacts, Unmoved DEF Fail, Answerable
  <2>2. QED
    BY <1>14, <1>1, <2>1 DEF Fail, busOnly
<1>15. CASE Timeout
  <2>1. BridgeStep
    BY <1>15, SettleFacts DEF Timeout, Answerable
  <2>2. QED
    BY <1>15, <1>1, <2>1 DEF Timeout, busOnly
<1>16. CASE Stale
  <2>1. BridgeStep
    BY <1>16, NothingAdded DEF Stale, timerOnly, BridgeStep, BridgeTypes, MeshTypeOK, Linked, Slice
  <2>2. QED
    BY <1>16, <1>1, <2>1 DEF Stale, timerOnly, elsewhere
<1>17. CASE Confirm \/ Expire
  BY <1>17, <1>1, ConfirmFacts, ExpireFacts DEF Confirm, Expire, timerOnly, elsewhere
<1>18. CASE UNCHANGED meshVars
  BY <1>18, <1>2 DEF meshVars
<1>19. QED
  BY <1>3, <1>4, <1>5, <1>6, <1>7, <1>8, <1>9, <1>10, <1>11, <1>12, <1>13, <1>14, <1>15,
     <1>16, <1>17, <1>18 DEF MeshNext, Election, Lane, Bus

\* A pending record stays the feedback of the generation in force.
LEMMA BridgeKept ==
  ASSUME MeshTypeOK, Linked, [MeshNext]_meshVars
  PROVE  BridgeTypes' /\ Linked'
<1>0. BridgeTypes /\ <<>> \in Seq(Publication)
  BY DEF MeshTypeOK
<1>1. CASE Moves
  BY <1>1 DEF Moves, BridgeStep
<1>2. CASE Reconcile \/ Reconnect
  BY <1>0, <1>2 DEF Reconcile, Reconnect, Read, BridgeTypes, Linked
<1>3. CASE LoseElection
  <2>1. /\ pending' = None /\ fresh' = FALSE /\ enabled' = FALSE /\ feedback' = None
        /\ pubs' = <<>> /\ gen' = gen + 1 /\ UNCHANGED <<snap, cached>>
    BY <1>3 DEF LoseElection
  <2>2. gen' \in Nat
    BY <1>0, <2>1 DEF BridgeTypes
  <2>3. QED
    BY <1>0, <2>1, <2>2 DEF BridgeTypes, Linked
<1>4. CASE WithdrawEnds
  BY <1>0, <1>4 DEF WithdrawEnds, BridgeTypes, Linked
<1>5. CASE Start \/ PublishFails
  BY <1>0, <1>5, PubsTyped DEF Start, PublishFails, pubOnly, BridgeTypes, Linked
<1>6. CASE Complete
  <2>1. 1 \in DOMAIN pubs /\ cached' \in {pubs[1].fields, cached}
    BY <1>6 DEF Complete, Sent
  <2>2. pubs[1] \in Publication
    BY <2>1, <1>0 DEF BridgeTypes
  <2>3. cached' \in StateFields \cup {None}
    BY <2>1, <2>2, <1>0 DEF BridgeTypes, Publication
  <2>4. QED
    BY <1>0, <1>6, <2>3, PubsTyped DEF Complete, pubOnly, BridgeTypes, Linked
<1>7. QED
  BY <1>1, <1>2, <1>3, <1>4, <1>5, <1>6, StepMoves

\* All of ps are in force, and the broker retains the last one sent.
Sound(ps, r, g, w, t) ==
  /\ \A i \in DOMAIN ps : enabled /\ ps[i].rec = r /\ ps[i].gen = g
  /\ \A i \in DOMAIN ps :
       ps[i].sent /\ (\A j \in DOMAIN ps : j > i => ~ps[j].sent) => t \/ ps[i].fields = w
  /\ ~leader => ps = <<>>

\* A publication that is added has not been sent.
LEMMA AddsSound ==
  ASSUME NEW ps \in Seq(Publication), NEW qs, NEW r, NEW g, NEW w, NEW t,
         Adds(ps, qs, r, g), Sound(ps, r, g, w, t)
  PROVE  /\ Sound(qs, r, g, w, t)
         /\ {i \in DOMAIN qs : qs[i].sent} = {i \in DOMAIN ps : ps[i].sent}
<1>1. CASE qs = ps
  BY <1>1
<1>2. CASE qs # ps
  <2>1. PICK p \in Publication : qs = Append(ps, p) /\ ~p.sent /\ p.rec = r /\ p.gen = g
    BY <1>2 DEF Adds
  <2>2. leader /\ enabled
    BY <1>2 DEF Adds
  <2> DEFINE n == Len(ps)
  <2>3. /\ n \in Nat /\ DOMAIN ps = 1 .. n /\ DOMAIN qs = 1 .. n + 1 /\ qs[n + 1] = p
        /\ \A i \in 1 .. n : qs[i] = ps[i]
    BY <2>1
  <2> HIDE DEF n
  <2>4. \A i \in DOMAIN qs : i \in DOMAIN ps \/ i = n + 1
    BY <2>3
  <2>5. \A i \in DOMAIN ps : i \in DOMAIN qs /\ i # n + 1 /\ qs[i] = ps[i]
    BY <2>3
  <2>6. \A i \in DOMAIN qs : enabled /\ qs[i].rec = r /\ qs[i].gen = g
    BY <2>1, <2>2, <2>3, <2>4, <2>5 DEF Sound
  <2>7. \A i \in DOMAIN qs : qs[i].sent => i \in DOMAIN ps /\ ps[i].sent
    BY <2>1, <2>3, <2>4, <2>5
  <2>8. ASSUME NEW i \in DOMAIN qs, qs[i].sent, \A j \in DOMAIN qs : j > i => ~qs[j].sent
        PROVE  t \/ qs[i].fields = w
    BY <2>5, <2>7, <2>8 DEF Sound
  <2>9. {i \in DOMAIN qs : qs[i].sent} = {i \in DOMAIN ps : ps[i].sent}
    BY <2>5, <2>7
  <2>10. QED
    BY <2>2, <2>6, <2>8, <2>9 DEF Sound
<1>3. QED
  BY <1>1, <1>2

\* A slice of the bridge keeps the cache honest.
LEMMA MovesKeep ==
  ASSUME MeshTypeOK, PublishedInv, Moves
  PROVE  PublishedInv'
<1>1. Sound(pubs, feedback, gen, wire, torn)
  BY DEF PublishedInv, InForce, LastIsRetained, Leading, Sound, Owns
<1>2. pubs \in Seq(Publication)
  BY DEF MeshTypeOK, BridgeTypes
<1>3. Sound(<<>>, feedback', gen', wire, torn)
  BY DEF Sound
<1>4. PICK ps \in Seq(Publication) :
        /\ Adds(ps, pubs', feedback', gen') /\ Sound(ps, feedback', gen', wire, torn)
        /\ \/ ps = pubs /\ cached' = cached
           \/ ps = <<>> /\ cached' = CachedAfterRevoking(pubs, cached)
  BY <1>1, <1>2, <1>3, NonePublished DEF Moves, BridgeStep, Slice
<1>5. Sound(pubs', feedback', gen', wire, torn)
      /\ {i \in DOMAIN pubs' : pubs'[i].sent} = {i \in DOMAIN ps : ps[i].sent}
  BY <1>4, AddsSound
<1>6. InForce' /\ LastIsRetained' /\ Leading'
  BY <1>5 DEF Moves, BridgeStep, Slice, Sound, InForce, LastIsRetained, Leading, PublishedInv, Owns
<1>7. CASE ps = pubs /\ cached' = cached
  <2>1. Sent' = Sent
    BY <1>5, <1>7 DEF Sent
  <2>2. QED
    BY <1>6, <1>7, <2>1 DEF Moves, PublishedInv, CachedIsRetained, Withdrawing
<1>8. CASE ps = <<>> /\ cached' = CachedAfterRevoking(pubs, cached)
  <2>1. Sent' = {}
    BY <1>5, <1>8 DEF Sent
  <2>2. cached' = None \/ (pubs = <<>> /\ cached' = cached)
    BY <1>8 DEF CachedAfterRevoking
  <2>3. pubs = <<>> => Sent = {}
    BY DEF Sent
  <2>4. QED
    BY <1>6, <2>1, <2>2, <2>3 DEF Moves, PublishedInv, CachedIsRetained, Withdrawing
<1>9. QED
  BY <1>4, <1>6, <1>7, <1>8 DEF PublishedInv

\* What is handed to the client is in force, and becomes what the broker retains last.
LEMMA StartKeeps ==
  ASSUME MeshTypeOK, PublishedInv, Start
  PROVE  PublishedInv'
<1>1. PICK i \in DOMAIN pubs :
        /\ Sent = 1 .. i - 1
        /\ IF Owns(pubs[i].rec, pubs[i].gen) /\ leader
           THEN /\ wire' = pubs[i].fields /\ torn' = FALSE
                /\ pubs' = [pubs EXCEPT ![i].sent = TRUE]
           ELSE pubs' = RemoveAt(pubs, i) /\ UNCHANGED <<wire, torn>>
  BY DEF Start, IsNext
<1>2. UNCHANGED <<leader, enabled, gen, feedback, at>>
  BY DEF Start, pubOnly
<1>3. /\ pubs \in Seq(Publication) /\ DOMAIN pubs = 1 .. Len(pubs) /\ Len(pubs) \in Nat
      /\ i \in 1 .. Len(pubs) /\ pubs[i] \in Publication
  BY DEF MeshTypeOK, BridgeTypes
<1>4. Owns(pubs[i].rec, pubs[i].gen) /\ leader
  BY <1>3 DEF PublishedInv, InForce, Leading
<1>5. PICK p \in Publication : /\ p = [pubs[i] EXCEPT !.sent = TRUE]
                               /\ pubs' = [pubs EXCEPT ![i] = p]
  BY <1>1, <1>3, <1>4, SentTyped
<1>6. p.sent /\ p.rec = pubs[i].rec /\ p.gen = pubs[i].gen /\ p.fields = pubs[i].fields
  BY <1>3, <1>5 DEF Publication
<1>7. /\ DOMAIN pubs' = DOMAIN pubs /\ pubs'[i] = p
      /\ \A j \in DOMAIN pubs \ {i} : pubs'[j] = pubs[j]
  BY <1>3, <1>5, ExceptFacts
<1>8. InForce'
  BY <1>2, <1>6, <1>7 DEF PublishedInv, InForce, Owns
<1>9. \A j \in DOMAIN pubs : j # i /\ pubs[j].sent => j < i
  <2>1. ASSUME NEW j \in DOMAIN pubs, pubs[j].sent PROVE j \in 1 .. i - 1
    BY <1>1, <2>1 DEF Sent
  <2>2. QED
    BY <1>3, <2>1
<1>10. wire' = p.fields
  BY <1>1, <1>4, <1>6
<1>11. LastIsRetained'
  <2>1. ASSUME NEW j \in DOMAIN pubs', pubs'[j].sent,
               \A k \in DOMAIN pubs' : k > j => ~pubs'[k].sent
        PROVE  j = i
    BY <1>3, <1>6, <1>7, <1>9, <2>1
  <2>2. QED
    BY <1>7, <1>10, <2>1 DEF LastIsRetained
<1>12. Leading'
  BY <1>2, <1>4 DEF PublishedInv, Leading, Withdrawing
<1>13. i \in Sent'
  BY <1>3, <1>6, <1>7 DEF Sent
<1>14. QED
  BY <1>8, <1>11, <1>12, <1>13 DEF PublishedInv, CachedIsRetained

\* What the cache commits on completion is what the broker retains, unless another
\* publication is under way.
LEMMA CompleteKeeps ==
  ASSUME MeshTypeOK, PublishedInv, Complete
  PROVE  PublishedInv'
<1> DEFINE one == 1
<1>1. one \in DOMAIN pubs /\ pubs[one].sent /\ pubs # <<>>
  BY DEF Complete, Sent
<1>2. UNCHANGED <<leader, enabled, gen, feedback, at, wire, torn>> /\ pubs' = Tail(pubs)
  BY DEF Complete, pubOnly
<1>3. cached' = pubs[one].fields
  BY <1>1 DEF Complete, PublishedInv, InForce
<1>4. pubs \in Seq(Publication) /\ DOMAIN pubs = 1 .. Len(pubs) /\ Len(pubs) \in Nat
  BY DEF MeshTypeOK, BridgeTypes
<1>5. /\ DOMAIN pubs' = 1 .. Len(pubs) - 1
      /\ \A j \in DOMAIN pubs' : j + 1 \in DOMAIN pubs /\ pubs'[j] = pubs[j + 1] /\ j \in Nat
  BY <1>1, <1>2, <1>4, EndFacts
<1>6. \A k \in DOMAIN pubs : k > one => \E j \in DOMAIN pubs' : k = j + 1
  <2>1. ASSUME NEW k \in DOMAIN pubs, k > one PROVE k - 1 \in DOMAIN pubs' /\ k = (k - 1) + 1
    BY <1>4, <1>5, <2>1
  <2>2. QED
    BY <2>1
<1>7. InForce'
  BY <1>2, <1>5 DEF PublishedInv, InForce, Owns
<1>8. LastIsRetained'
  <2>1. ASSUME NEW i \in DOMAIN pubs', pubs'[i].sent,
               \A j \in DOMAIN pubs' : j > i => ~pubs'[j].sent
        PROVE  torn' \/ pubs'[i].fields = wire'
    <3>1. ASSUME NEW k \in DOMAIN pubs, k > i + 1 PROVE ~pubs[k].sent
      <4>1. PICK j \in DOMAIN pubs' : k = j + 1
        BY <1>5, <1>6, <2>1, <3>1
      <4>2. j > i
        BY <1>5, <2>1, <3>1, <4>1
      <4>3. QED
        BY <1>5, <2>1, <4>1, <4>2
    <3>2. QED
      BY <1>2, <1>5, <2>1, <3>1 DEF PublishedInv, LastIsRetained
  <2>2. QED
    BY <2>1 DEF LastIsRetained
<1>9. Leading'
  BY <1>1, <1>2 DEF PublishedInv, Leading, Withdrawing
<1>10. ASSUME Sent' = {} PROVE torn' \/ cached' = wire'
  <2>1. ASSUME NEW k \in DOMAIN pubs, k > one PROVE ~pubs[k].sent
    <3>1. PICK j \in DOMAIN pubs' : k = j + 1
      BY <1>6, <2>1
    <3>2. ~pubs'[j].sent
      BY <1>10 DEF Sent
    <3>3. QED
      BY <1>5, <3>1, <3>2
  <2>2. torn \/ pubs[one].fields = wire
    BY <1>1, <2>1 DEF PublishedInv, LastIsRetained
  <2>3. QED
    BY <1>2, <1>3, <2>2
<1>11. QED
  BY <1>7, <1>8, <1>9, <1>10 DEF PublishedInv, CachedIsRetained

\* The publication that fails was not handed over, or another one was after it, or
\* it is remembered as torn.
LEMMA FailureKeeps ==
  ASSUME MeshTypeOK, PublishedInv, PublishFails
  PROVE  PublishedInv'
<1> DEFINE one == 1
<1>1. PICK i \in DOMAIN pubs :
        /\ i = one \/ Sent = 1 .. i - 1
        /\ torn' = (torn \/ Sent = {i})
        /\ at' = [t \in Loops |-> IF t = pubs[i].owner THEN "idle" ELSE at[t]]
        /\ pubs' = RemoveAt(pubs, i)
  BY DEF PublishFails, IsNext
<1>2. UNCHANGED <<leader, enabled, gen, feedback, cached, wire>>
  BY DEF PublishFails, pubOnly
<1>3. /\ pubs \in Seq(Publication) /\ DOMAIN pubs = 1 .. Len(pubs) /\ Len(pubs) \in Nat
      /\ i \in 1 .. Len(pubs)
  BY DEF MeshTypeOK, BridgeTypes
<1>4. leader /\ ~Withdrawing /\ enabled
  BY <1>3 DEF PublishedInv, Leading
<1>5. ~Withdrawing'
  BY <1>1, <1>4 DEF Withdrawing, Loops
<1>6. /\ DOMAIN pubs' = 1 .. Len(pubs) - 1
      /\ \A j \in 1 .. i - 1 : pubs'[j] = pubs[j]
      /\ \A j \in i .. Len(pubs) - 1 : pubs'[j] = pubs[j + 1]
  <2>1. pubs' \in Seq(Publication) /\ Len(pubs') = Len(pubs) - 1
    BY <1>1, <1>3, RemoveAtFacts
  <2>2. DOMAIN pubs' = 1 .. Len(pubs) - 1
    BY <1>3, <2>1
  <2>3. QED
    BY <1>1, <1>3, <2>2, RemoveAtFacts
<1> DEFINE Up(j) == IF j < i THEN j ELSE j + 1
<1>7. \A j \in DOMAIN pubs' : Up(j) \in DOMAIN pubs \ {i} /\ pubs'[j] = pubs[Up(j)]
  BY <1>3, <1>6
<1>8. \A k \in DOMAIN pubs \ {i} : \E j \in DOMAIN pubs' : k = Up(j)
  <2>1. ASSUME NEW k \in DOMAIN pubs, k < i PROVE k \in DOMAIN pubs' /\ k = Up(k)
    BY <1>3, <1>6, <2>1
  <2>2. ASSUME NEW k \in DOMAIN pubs, k > i PROVE k - 1 \in DOMAIN pubs' /\ k = Up(k - 1)
    BY <1>3, <1>6, <2>2
  <2>3. QED
    BY <1>3, <2>1, <2>2
<1>9. \A j, l \in DOMAIN pubs' : Up(l) > Up(j) => l > j
  BY <1>3, <1>6
<1> HIDE DEF Up
<1>10. InForce'
  BY <1>2, <1>7 DEF PublishedInv, InForce, Owns
<1>11. pubs[i].sent => i = one
  BY <1>1, <1>3 DEF Sent
<1>12. LastIsRetained'
  <2>1. ASSUME NEW j \in DOMAIN pubs', pubs'[j].sent,
               \A l \in DOMAIN pubs' : l > j => ~pubs'[l].sent
        PROVE  torn' \/ pubs'[j].fields = wire'
    <3>1. ASSUME NEW k \in DOMAIN pubs, k > Up(j) PROVE ~pubs[k].sent
      <4>1. CASE k = i
        BY <1>3, <1>7, <1>11, <3>1, <4>1
      <4>2. CASE k # i
        <5>1. PICK l \in DOMAIN pubs' : k = Up(l)
          BY <1>8, <4>2
        <5>2. l > j
          BY <1>9, <3>1, <5>1
        <5>3. QED
          BY <1>7, <2>1, <5>1, <5>2
      <4>3. QED
        BY <4>1, <4>2
    <3>2. pubs[Up(j)].sent /\ Up(j) \in DOMAIN pubs /\ pubs'[j] = pubs[Up(j)]
      BY <1>7, <2>1
    <3>3. QED
      BY <1>1, <1>2, <3>1, <3>2 DEF PublishedInv, LastIsRetained
  <2>2. QED
    BY <2>1 DEF LastIsRetained
<1>13. Leading'
  BY <1>2, <1>4, <1>5 DEF Leading
<1>14. ASSUME Sent' = {} PROVE Sent = {} \/ Sent = {i}
  <2>1. ASSUME NEW k \in DOMAIN pubs \ {i} PROVE ~pubs[k].sent
    BY <1>7, <1>8, <1>14 DEF Sent
  <2>2. QED
    BY <2>1 DEF Sent
<1>15. CachedIsRetained'
  BY <1>1, <1>2, <1>4, <1>14 DEF PublishedInv, CachedIsRetained, Withdrawing
<1>16. QED
  BY <1>10, <1>12, <1>13, <1>15 DEF PublishedInv

\* Every step keeps the cache honest and the publications in force.
LEMMA PublishedKept ==
  ASSUME MeshTypeOK, Linked, PublishedInv, [MeshNext]_meshVars
  PROVE  PublishedInv'
<1>t. LoopTypes /\ "tick" \in Loops /\ "reconnect" \in Loops
  BY DEF MeshTypeOK, Loops
<1>1. ASSUME UNCHANGED <<gen, feedback, pubs, cached, wire, torn>>, leader' /\ enabled',
             ~Withdrawing, ~Withdrawing'
      PROVE  PublishedInv'
  BY <1>1 DEF PublishedInv, InForce, LastIsRetained, Leading, CachedIsRetained, Owns, Sent, Withdrawing
<1>2. CASE Reconcile \/ Reconnect
  <2>1. PICK t \in Loops : Idle(t) /\ Goto(t, "announce")
    BY <1>2, <1>t DEF Reconcile, Reconnect, Read
  <2>2. ~Withdrawing
    BY <1>2 DEF Reconcile, Reconnect, Read, Idle, Withdrawing, PublishedInv, Leading
  <2>3. ~Withdrawing'
    BY <2>1, <2>2, GoesOn DEF Idle
  <2>4. QED
    BY <1>1, <1>2, <2>2, <2>3 DEF Reconcile, Reconnect, Read, elsewhere
<1>3. CASE LoseElection
  <2>1. at'["tick"] \in {"unsubscribe", "clear"} /\ pubs' = <<>> /\ ~leader'
    BY <1>3, <1>t, GotoFacts DEF LoseElection
  <2>2. QED
    BY <2>1 DEF PublishedInv, InForce, LastIsRetained, Leading, CachedIsRetained, Withdrawing
<1>4. CASE WithdrawEnds
  <2>1. at'["tick"] = "idle" /\ ~leader /\ pubs = <<>>
    BY <1>4, <1>t, GotoFacts DEF WithdrawEnds, PublishedInv, Leading, Withdrawing
  <2>2. cached' = None /\ UNCHANGED <<leader, pubs, enabled>>
    BY <1>4 DEF WithdrawEnds
  <2>3. QED
    BY <2>1, <2>2 DEF PublishedInv, InForce, LastIsRetained, Leading, CachedIsRetained, Withdrawing
<1>5. QED
  BY <1>2, <1>3, <1>4, StepMoves, MovesKeep, StartKeeps, CompleteKeeps, FailureKeeps

-----------------------------------------------------------------------------
(* The handler and the write it awaits                                     *)

\* Every step leaves the handler with the write it awaits, and no other with a mark.
LEMMA AwaitedKept ==
  ASSUME MeshTypeOK, HandlerIsAnswered, [MeshNext]_meshVars
  PROVE  HandlerIsAnswered'
<1>0. rpcs \in Seq(Writes)
  BY DEF MeshTypeOK, LaneTypes, Writes
<1> DEFINE n == Len(rpcs)
           one == 1
<1>a. n \in Nat /\ DOMAIN rpcs = one .. n /\ (rpcs # <<>> <=> n > 0)
  BY <1>0
<1>b. rpcs # <<>> => Head(rpcs) = rpcs[one] /\ Last(rpcs) = rpcs[n] /\ one \in DOMAIN rpcs /\ n \in DOMAIN rpcs
  BY <1>0, EndFacts
<1>c. \A i \in DOMAIN rpcs : rpcs[i] \in Writes
  BY <1>0
<1>d. handler.at # "idle" <=> rpcs # <<>> /\ rpcs[n].held
  BY <1>a, <1>b DEF HandlerIsAnswered, HandlerAwaits
<1>e. \A i \in DOMAIN rpcs : rpcs[i].held => i = n
  BY DEF HandlerIsAnswered
<1>r. rpcs' \in Seq(Writes)
  BY LaneKept DEF LaneTypes, Writes
<1>m. DOMAIN rpcs' = one .. Len(rpcs') /\ Len(rpcs') \in Nat
  BY <1>r
<1>1. ASSUME handler'.at = "idle", \A i \in DOMAIN rpcs' : ~rpcs'[i].held PROVE HandlerIsAnswered'
  <2>1. rpcs' # <<>> => Last(rpcs') = rpcs'[Len(rpcs')] /\ Len(rpcs') \in DOMAIN rpcs'
    BY <1>r, EndFacts
  <2>2. Len(rpcs') > 0 => rpcs' # <<>>
    BY <1>r
  <2>3. QED
    BY <1>1, <2>1, <2>2 DEF HandlerIsAnswered, HandlerAwaits
<1>2. ASSUME handler'.at # "idle", rpcs' # <<>>, rpcs'[Len(rpcs')].held,
             \A i \in DOMAIN rpcs' : rpcs'[i].held => i = Len(rpcs')
      PROVE  HandlerIsAnswered'
  <2>1. Last(rpcs') = rpcs'[Len(rpcs')] /\ Len(rpcs') > 0
    BY <1>r, <1>2, EndFacts
  <2>2. QED
    BY <1>2, <2>1 DEF HandlerIsAnswered, HandlerAwaits
\* A step that changes no handler and no held mark.
<1>3. ASSUME Len(rpcs') = n, \A i \in DOMAIN rpcs : rpcs'[i].held = rpcs[i].held,
             handler'.at # "idle" <=> handler.at # "idle"
      PROVE  HandlerIsAnswered'
  <2>1. DOMAIN rpcs' = DOMAIN rpcs
    BY <1>a, <1>m, <1>3
  <2>2. rpcs # <<>> => rpcs' # <<>>
    BY <1>r, <1>a, <1>3
  <2>3. CASE handler.at = "idle"
    BY <1>1, <1>3, <1>b, <1>d, <1>e, <2>1, <2>3
  <2>4. CASE handler.at # "idle"
    BY <1>2, <1>3, <1>b, <1>d, <1>e, <2>1, <2>2, <2>4
  <2>5. QED
    BY <2>3, <2>4
<1>4. ASSUME UNCHANGED rpcs, handler'.at # "idle" <=> handler.at # "idle" PROVE HandlerIsAnswered'
  BY <1>3, <1>4
\* A write is rewritten, its mark kept.
<1>5. ASSUME NEW i \in DOMAIN rpcs, NEW w \in Writes, rpcs' = [rpcs EXCEPT ![i] = w],
             w.held = rpcs[i].held, handler'.at # "idle" <=> handler.at # "idle"
      PROVE  HandlerIsAnswered'
  <2>1. /\ Len(rpcs') = n /\ rpcs'[i] = w
        /\ \A j \in DOMAIN rpcs \ {i} : rpcs'[j] = rpcs[j]
    BY <1>0, <1>5, ExceptFacts
  <2>2. QED
    BY <1>3, <1>5, <2>1
\* The mark of the only write that has one is taken away.
<1>6. ASSUME rpcs # <<>>, rpcs[n].held, rpcs' = [rpcs EXCEPT ![n].held = FALSE],
             handler'.at = "idle"
      PROVE  HandlerIsAnswered'
  <2>1. PICK w \in Writes : rpcs' = [rpcs EXCEPT ![n] = w] /\ ~w.held
    <3>1. /\ [rpcs[n] EXCEPT !.held = FALSE] \in Writes
          /\ [rpcs[n] EXCEPT !.held = FALSE].held = FALSE
      BY <1>6, <1>b, <1>c, WriteTyped DEF Writes
    <3>2. QED
      BY <1>6, <3>1
  <2>2. /\ Len(rpcs') = n /\ rpcs'[n] = w
        /\ \A j \in DOMAIN rpcs \ {n} : rpcs'[j] = rpcs[j]
    BY <1>0, <1>6, <1>b, <2>1, ExceptFacts
  <2>3. QED
    BY <1>1, <1>6, <1>a, <1>e, <1>m, <2>1, <2>2
<1>7. ASSUME NEW w \in Writes
      PROVE  /\ \A v \in Values : [w EXCEPT !.value = v].held = w.held
             /\ [w EXCEPT !.at = "issued"].held = w.held
             /\ [w EXCEPT !.at = "accepted"].held = w.held
  BY DEF Writes
<1>8. CASE PollRead \/ Polled \/ Reconcile \/ Reconnect \/ Election \/ Push
  BY <1>8, <1>4 DEF PollRead, Polled, Reconcile, Reconnect, Read, Election, LoseElection,
       Unsubscribe, WithdrawEnds, Push, elsewhere, loadVars, commandVars
<1>9. ASSUME NEW t \in Loops, Loop(t) PROVE HandlerIsAnswered'
  BY <1>9, <1>4 DEF Loop, Announced, Configured, Register, Subscribed, elsewhere, loadVars,
       commandVars
<1>10. ASSUME NEW v \in Values, CommandArrives(v) \/ ByHand(v) PROVE HandlerIsAnswered'
  BY <1>10, <1>4 DEF CommandArrives, ByHand, loadVars
<1>11. CASE DropCommand
  BY <1>11, <1>4 DEF DropCommand, loadVars
<1>12. CASE HandleCommand
  <2>1. command \in Values /\ handler.at = "idle"
    BY <1>12 DEF HandleCommand, MeshTypeOK, LaneTypes
  <2>2. handler'.at = "writing"
    BY <1>12 DEF HandleCommand, SupersedeWrite
  <2>3. PICK w \in Writes : w.held /\ rpcs' = Append(rpcs, w)
    BY <1>12, <2>1 DEF HandleCommand, Writes
  <2>4. /\ Len(rpcs') = n + 1 /\ rpcs'[n + 1] = w /\ rpcs' # <<>>
        /\ \A i \in 1 .. n : rpcs'[i] = rpcs[i]
    BY <1>0, <2>3
  <2> HIDE DEF n, one
  <2>5. \A i \in DOMAIN rpcs : ~rpcs[i].held
    BY <1>a, <1>d, <1>e, <2>1 DEF one
  <2>6. \A i \in DOMAIN rpcs' : i \in DOMAIN rpcs \/ i = n + 1
    BY <1>a, <1>m, <2>4
  <2>7. \A i \in DOMAIN rpcs' : rpcs'[i].held => i = Len(rpcs')
    BY <1>a, <2>4, <2>5, <2>6 DEF one
  <2>8. QED
    BY <1>2, <2>2, <2>3, <2>4, <2>7
<1>13. CASE FoldCommand
  <2>1. rpcs # <<>> /\ command \in Values /\ handler.at = "writing"
    BY <1>13, <1>a DEF FoldCommand, HandlerAwaits, MeshTypeOK, LaneTypes
  <2>2. handler'.at = "folded"
    BY <1>13 DEF FoldCommand, MeshTypeOK, LaneTypes
  <2>3. PICK w \in Writes : rpcs' = [rpcs EXCEPT ![n] = w] /\ w.held = rpcs[n].held
    <3>1. [rpcs[n] EXCEPT !.value = command] \in Writes
          /\ [rpcs[n] EXCEPT !.value = command].held = rpcs[n].held
      BY <1>b, <1>c, <1>7, <2>1, WriteTyped
    <3>2. QED
      BY <1>13, <3>1 DEF FoldCommand
  <2>4. QED
    BY <1>5, <1>b, <2>1, <2>2, <2>3
<1>14. CASE HandleFolded
  BY <1>14, <1>4 DEF HandleFolded, SupersedeWrite, loadVars
<1>15. CASE DropFolded
  <2>1. handler.at # "idle" /\ handler'.at = "idle" /\ rpcs # <<>> /\ rpcs[n].held
    BY <1>15, <1>d DEF DropFolded, NoHandler
  <2>2. CASE rpcs' = Front(rpcs)
    <3>1. Len(rpcs') = n - 1 /\ \A j \in 1 .. n - 1 : rpcs'[j] = rpcs[j]
      BY <1>0, <2>1, <2>2, EndFacts
    <3>2. QED
      BY <1>1, <1>a, <1>e, <1>m, <2>1, <3>1
  <2>3. CASE rpcs' = [rpcs EXCEPT ![n].held = FALSE]
    BY <1>6, <2>1, <2>3
  <2>4. QED
    BY <1>15, <2>2, <2>3 DEF DropFolded
<1>16. CASE IssueWrite \/ \E v \in Values : Accept(v)
  <2>1. rpcs # <<>> /\ handler' = handler
    BY <1>16 DEF IssueWrite, Accept
  <2>2. \/ rpcs' = [rpcs EXCEPT ![one].at = "issued"]
        \/ rpcs' = [rpcs EXCEPT ![one].at = "accepted"]
    BY <1>16 DEF IssueWrite, Accept
  <2>3. PICK w \in Writes : rpcs' = [rpcs EXCEPT ![one] = w] /\ w.held = rpcs[one].held
    <3>1. rpcs[one] \in Writes
      BY <1>b, <1>c, <2>1
    <3>2. QED
      BY <1>7, <2>2, <3>1, WriteTyped
  <2>4. QED
    BY <1>5, <1>b, <2>1, <2>3
<1>17. CASE Reply \/ Fail
  <2>1. /\ rpcs # <<>> /\ rpcs' = Tail(rpcs)
        /\ IF Head(rpcs).held THEN handler' = NoHandler ELSE handler' = handler
    BY <1>17 DEF Reply, Fail, Answerable, Settle
  <2>2. /\ Len(rpcs') = n - 1 /\ n \in Nat \ {0}
        /\ \A j \in DOMAIN rpcs' : rpcs'[j] = rpcs[j + 1]
    BY <1>0, <1>a, <2>1, EndFacts
  <2>3. \A j \in DOMAIN rpcs' : j \in Nat /\ j + 1 \in DOMAIN rpcs
    BY <1>a, <1>m, <2>2
  <2>4. CASE rpcs[one].held
    <3>1. n = one
      BY <1>b, <1>e, <2>1, <2>4
    <3>2. handler' = NoHandler
      BY <1>b, <2>1, <2>4
    <3>3. handler'.at = "idle"
      BY <3>2 DEF NoHandler
    <3>4. QED
      BY <1>1, <1>m, <2>2, <3>1, <3>3
  <2>5. CASE ~rpcs[one].held /\ handler.at = "idle"
    <3>1. handler'.at = "idle"
      BY <1>b, <2>1, <2>5
    <3>2. \A i \in DOMAIN rpcs : ~rpcs[i].held
      BY <1>d, <1>e, <2>1, <2>5
    <3>3. QED
      BY <1>1, <2>2, <2>3, <3>1, <3>2
  <2>6. CASE ~rpcs[one].held /\ handler.at # "idle"
    <3>1. handler'.at # "idle" /\ rpcs[n].held /\ n # one
      BY <1>b, <1>d, <2>1, <2>6
    <3>2. Len(rpcs') \in DOMAIN rpcs' /\ Len(rpcs') + 1 = n /\ rpcs' # <<>>
      BY <1>r, <1>m, <2>2, <3>1
    <3>3. rpcs'[Len(rpcs')] = rpcs[n]
      BY <2>2, <3>2
    <3>4. \A j \in DOMAIN rpcs' : rpcs'[j].held => j = Len(rpcs')
      BY <1>e, <1>m, <2>2, <2>3
    <3>5. QED
      BY <1>2, <3>1, <3>2, <3>3, <3>4
  <2>7. QED
    BY <2>4, <2>5, <2>6
<1>18. CASE Timeout
  <2>1. rpcs # <<>> /\ Head(rpcs).held /\ rpcs' = [rpcs EXCEPT ![one].held = FALSE]
        /\ handler'.at = "idle"
    BY <1>18 DEF Timeout, Answerable, Settle, NoHandler
  <2>2. n = one /\ rpcs[n].held
    BY <1>b, <1>e, <2>1
  <2>3. QED
    BY <1>6, <2>1, <2>2
<1>19. CASE Revert \/ Stale \/ Confirm \/ Expire \/ UNCHANGED meshVars
  BY <1>19, <1>4 DEF Revert, Stale, Confirm, Expire, timerOnly, elsewhere, loadVars, commandVars,
       meshVars
<1>20. CASE Start \/ Complete \/ PublishFails
  BY <1>20, <1>4 DEF Start, Complete, PublishFails, pubOnly, loadVars, commandVars
<1>21. QED
  BY <1>8, <1>9, <1>10, <1>11, <1>12, <1>13, <1>14, <1>15, <1>16, <1>17, <1>18, <1>19, <1>20
     DEF MeshNext, Lane, Bus

\* Every step leaves a route, a term and a retained state.
LEMMA ScopeKept ==
  ASSUME MeshTypeOK, [MeshNext]_meshVars
  PROVE  ScopeTypes'
<1>1. ScopeTypes
  BY DEF MeshTypeOK
<1>2. ASSUME UNCHANGED <<leader, torn, routeVars, wire>> PROVE ScopeTypes'
  BY <1>1, <1>2 DEF ScopeTypes, routeVars
<1>3. CASE Start
  <2>1. PICK i \in DOMAIN pubs : wire' \in {pubs[i].fields, wire} /\ torn' \in {FALSE, torn}
    BY <1>3 DEF Start
  <2>2. pubs[i] \in Publication
    BY <2>1 DEF MeshTypeOK, BridgeTypes
  <2>3. wire' \in StateFields \cup {None}
    BY <1>1, <2>1, <2>2 DEF Publication, ScopeTypes
  <2>4. QED
    BY <1>1, <1>3, <2>1, <2>3 DEF Start, pubOnly, routeVars, ScopeTypes
<1>4. CASE PublishFails
  <2>1. torn' \in BOOLEAN
    BY <1>1, <1>4 DEF PublishFails, ScopeTypes
  <2>2. QED
    BY <1>1, <1>4, <2>1 DEF PublishFails, pubOnly, routeVars, ScopeTypes
<1>5. CASE Complete
  BY <1>5, <1>2 DEF Complete, pubOnly
<1>6. CASE PollRead \/ Polled \/ Push \/ Reconcile \/ Reconnect \/ WithdrawEnds
  BY <1>1, <1>6 DEF PollRead, Polled, Push, Reconcile, Reconnect, Read, WithdrawEnds, elsewhere,
       routeVars, ScopeTypes
<1>7. CASE LoseElection \/ Unsubscribe
  BY <1>1, <1>7 DEF LoseElection, Unsubscribe, elsewhere, ScopeTypes
<1>8. ASSUME NEW t \in Loops, Loop(t) PROVE ScopeTypes'
  BY <1>1, <1>8 DEF Loop, Announced, Configured, Register, Subscribed, elsewhere, routeVars, ScopeTypes
<1>9. ASSUME NEW v \in Values, CommandArrives(v) \/ ByHand(v) PROVE ScopeTypes'
  BY <1>2, <1>9 DEF CommandArrives, ByHand, busOnly
<1>10. CASE Lane
  BY <1>10, <1>2 DEF Lane, DropCommand, HandleCommand, FoldCommand, HandleFolded, DropFolded
<1>11. CASE Bus \/ Fail \/ Timeout \/ Revert
  BY <1>11, <1>2 DEF Bus, IssueWrite, Accept, Reply, Fail, Timeout, Revert, busOnly
<1>12. CASE Stale \/ Confirm \/ Expire \/ UNCHANGED meshVars
  BY <1>12, <1>2 DEF Stale, Confirm, Expire, timerOnly, elsewhere, meshVars
<1>13. QED
  BY <1>3, <1>4, <1>5, <1>6, <1>7, <1>8, <1>9, <1>10, <1>11, <1>12 DEF MeshNext, Election

-----------------------------------------------------------------------------
(* The invariant and the theorems                                          *)

\* A new bridge satisfies the invariant.
LEMMA MeshStarts == MeshInit => MeshInv
<1> SUFFICES ASSUME MeshInit PROVE MeshInv
  OBVIOUS
<1>1. mirror \in Values
  BY ValuesAssumption DEF MeshInit
<1>2. pubs = <<>> /\ rpcs = <<>> /\ pubs \in Seq(Publication) /\ rpcs \in Seq(Writes)
  BY DEF MeshInit
<1>3. BridgeTypes /\ Linked
  BY <1>2 DEF MeshInit, BridgeTypes, Linked
<1>4. LaneTypes
  BY <1>1, <1>2 DEF MeshInit, LaneTypes, NoHandler, Writes
<1>5. LoopTypes /\ ScopeTypes
  BY DEF MeshInit, LoopTypes, ScopeTypes, Loops
<1>6. PublishedInv
  BY <1>2 DEF MeshInit, PublishedInv, InForce, LastIsRetained, Leading, CachedIsRetained,
       Withdrawing, Loops
<1>7. HandlerIsAnswered
  BY <1>2 DEF MeshInit, HandlerIsAnswered, HandlerAwaits, NoHandler
<1>8. QED
  BY <1>3, <1>4, <1>5, <1>6, <1>7 DEF MeshInv, MeshTypeOK

\* The inductive invariant holds in every state.
LEMMA MeshInvariant == MeshSpec => []MeshInv
<1>1. MeshInv /\ [MeshNext]_meshVars => MeshInv'
  BY LoopsKept, LaneKept, BridgeKept, ScopeKept, PublishedKept, AwaitedKept DEF MeshInv, MeshTypeOK
<1>2. QED
  BY <1>1, MeshStarts, PTL DEF MeshSpec

\* Every variable of the bridge holds what its place can hold; a published state is
\* withheld for a pending or an unconfirmed write and for nothing else.
THEOREM MeshTypeCorrect == MeshSpec => []MeshTypeOK
<1>1. MeshInv => MeshTypeOK
  BY DEF MeshInv
<1>2. QED
  BY <1>1, MeshInvariant, PTL

\* On the leader, a pending record is the feedback in force, so that its timer can close it.
THEOREM PendingSettles == MeshSpec => []PendingCanSettle
<1>1. MeshInv => PendingCanSettle
  BY DEF MeshInv, Linked, PublishedInv, Leading, PendingCanSettle, Owns
<1>2. QED
  BY <1>1, MeshInvariant, PTL

\* What the bridge believes the broker retains is what it retains, once no
\* publication is under way.
THEOREM CachedHolds == MeshSpec => []CachedIsRetained
<1>1. MeshInv => CachedIsRetained
  BY DEF MeshInv, PublishedInv
<1>2. QED
  BY <1>1, MeshInvariant, PTL

\* The handler of the lane is busy exactly as long as it awaits the last write to the
\* load: no result is delivered to a handler that has gone, and none waits for a write
\* that nobody answers.
THEOREM HandlerGetsItsAnswer == MeshSpec => []HandlerIsAnswered
<1>1. MeshInv => HandlerIsAnswered
  BY DEF MeshInv
<1>2. QED
  BY <1>1, MeshInvariant, PTL
=============================================================================
