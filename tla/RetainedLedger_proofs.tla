-------------------------- MODULE RetainedLedger_proofs --------------------------
(***************************************************************************)
(* Safety of the ledger, for any number of callers, topics, calls, crashes *)
(* and sessions.                                                           *)
(*                                                                         *)
(* A topic is alive while its value is retained or under way.  What is     *)
(* alive is named by every place that may become the record of what is     *)
(* owned: the file, the write that may replace it, the topics in memory,   *)
(* the manifest, and the manifests under way.                              *)
(***************************************************************************)
EXTENDS RetainedLedger, TLAPS

Messages ==
  [from : Callers, kind : {"value", "tombstone", "manifest"}, topic : Topics \cup {None},
   number : Nat, owned : SUBSET Topics]
Jobs == [kind : {"none", "publish", "clear"}, topic : Topics \cup {None}, number : Nat]

\* The types, with those of calls and of messages under way.
CallsTyped ==
  /\ lock \in Callers \cup {None} /\ doomed \subseteq Callers
  /\ pc \in [Callers -> Awaits] /\ job \in [Callers -> Jobs] /\ calls \in Nat
  /\ \A c \in Callers : pc[c] # "idle" => job[c].kind # "none" /\ job[c].topic \in Topics
WireTyped ==
  /\ wire \in Seq(Messages)
  /\ \A i \in DOMAIN wire : wire[i].kind # "manifest" => wire[i].topic \in Topics
WellTyped == TypeOK /\ CallsTyped /\ WireTyped

Owning == {"owning", "value", "smaller"}
Writing == stalled \/ \E c \in Callers : pc[c] \in OnDisk

\* Who holds the lock, and what is so while he waits.
LockInv ==
  /\ \A c \in Callers : lock = c <=> pc[c] \notin {"idle", "queued", "fast"}
  /\ \A c \in Callers : pc[c] \in {"claim", "owning", "value"} => job[c].kind = "publish"
  /\ \A c \in Callers : pc[c] \in OnDisk => ~stalled /\ ~manifestAck
  /\ \A c \in Callers : pc[c] \in Owning => ~stalled /\ ~staleDisk
  /\ \A c \in Callers : pc[c] = "claim" => job[c].topic \in write
  /\ \A c \in Callers : pc[c] \in {"owning", "value"} => job[c].topic \in topics
  /\ stalled => staleDisk
  /\ Writing => write \subseteq Topics

\* Between two sessions nothing is under way but a write.
SessionInv ==
  ~loaded => /\ wire = <<>> /\ ackTopics = {} /\ ~manifestAck
             /\ \A c \in Callers : /\ pc[c] \in {"idle", "queued"} \cup OnDisk
                                   /\ pc[c] \in OnDisk => c \in doomed

\* What is under way in w: values of t, manifests, a last manifest that c sent, and
\* a tombstone of t that c sent, behind all manifests and values of t.
ManifestAt(w, i) == w[i].kind = "manifest"
ValueAt(w, i, t) == w[i].kind = "value" /\ w[i].topic = t
Carries(w, t) == \E i \in DOMAIN w : ValueAt(w, i, t)
NoManifest(w) == \A i \in DOMAIN w : ~ManifestAt(w, i)
Names(w, t) == \A i \in DOMAIN w : ManifestAt(w, i) => t \in w[i].owned
NamesOnly(w, S) == \A i \in DOMAIN w : ManifestAt(w, i) => w[i].owned \subseteq S
Grows(w) ==
  \A i, j \in DOMAIN w :
    ManifestAt(w, i) /\ ManifestAt(w, j) /\ i < j => w[i].owned \subseteq w[j].owned
EndsWith(w, c, S) ==
  \E i \in DOMAIN w :
    /\ ManifestAt(w, i) /\ w[i].from = c /\ w[i].owned = S
    /\ \A j \in DOMAIN w : ManifestAt(w, j) => j <= i
Buries(w, c, t) ==
  \E i \in DOMAIN w :
    /\ w[i].kind = "tombstone" /\ w[i].topic = t /\ w[i].from = c
    /\ \A j \in DOMAIN w : ManifestAt(w, j) \/ ValueAt(w, j, t) => j < i
Ordered(w, t) ==
  \A i, j \in DOMAIN w :
    ValueAt(w, i, t) /\ ValueAt(w, j, t) /\ i < j => w[i].number <= w[j].number
From(w, t, n) == \A i \in DOMAIN w : ValueAt(w, i, t) => n <= w[i].number
Before(w, t, n) == \A i \in DOMAIN w : ValueAt(w, i, t) => w[i].number < n

\* Manifests under way grow, and name nothing that is not known; the last one that
\* somebody waits for, or had acknowledged, names all that is.
ManifestInv ==
  /\ Grows(wire) /\ NamesOnly(wire, topics) /\ (Writing => NamesOnly(wire, write))
  /\ manifestAck => manifest = topics /\ NoManifest(wire)
  /\ \A c \in Callers : pc[c] \in {"owning", "smaller"} =>
       (manifest = topics /\ NoManifest(wire)) \/ EndsWith(wire, c, topics)

Alive(t) == value[t] # 0 \/ Carries(wire, t)
IsBuried(t) == ~Alive(t) /\ NoManifest(wire)

\* A tombstone is the last message of its topic, and the last but values of others.
ClearInv ==
  \A c \in Callers :
    /\ pc[c] \in {"drain", "tombstone"} => job[c].topic \notin ackTopics
    /\ pc[c] = "tombstone" => Buries(wire, c, job[c].topic) \/ IsBuried(job[c].topic)
    /\ pc[c] = "shrink" => IsBuried(job[c].topic)

\* t is in every place that may become the record of what is owned, except the file.
Held(t) ==
  /\ t \in manifest /\ Names(wire, t)
  /\ loaded \/ lock # None => t \in topics
  /\ Writing => t \in write

\* What is alive or acknowledged is owned.
OwnedInv ==
  /\ ~staleDisk => topics \subseteq file \cup unsynced
  /\ \A t \in Topics \ unsynced : Alive(t) => t \in file /\ Held(t)
  /\ \A t \in ackTopics : Held(t)

\* Calls are numbered, and the holder of the lock came before all who wait.
NumberInv ==
  /\ \A c \in Callers : job[c].number <= calls
  /\ \A c, d \in Callers :
       c # d /\ pc[c] # "idle" /\ pc[d] # "idle" => job[c].number # job[d].number
  /\ \A c, d \in Callers : lock = c /\ pc[d] = "queued" => job[c].number < job[d].number

\* The value of c is still to be sent.
WillSend(c) == pc[c] \in {"queued", "claim", "owning"} /\ job[c].kind = "publish"

\* Values under way are in order, and older than those still to be sent.
OrderInv ==
  /\ \A t \in Topics :
       /\ newest[t] <= calls /\ Before(wire, t, calls + 1)
       /\ Ordered(wire, t) /\ From(wire, t, newest[t])
  /\ \A c \in Callers : WillSend(c) =>
       newest[job[c].topic] < job[c].number /\ Before(wire, job[c].topic, job[c].number)

-----------------------------------------------------------------------------
(* Messages under way. *)

\* What is under way are messages.
LEMMA Elements ==
  ASSUME NEW w \in Seq(Messages), NEW i \in DOMAIN w
  PROVE  w[i] \in Messages /\ w[i].number \in Nat
<1>1. w[i] \in Messages
  OBVIOUS
<1>2. QED
  BY <1>1 DEF Messages

\* A message that is sent goes behind the others.
LEMMA AppendFacts ==
  ASSUME NEW w \in Seq(Messages), NEW m \in Messages
  PROVE  /\ Append(w, m) \in Seq(Messages)
         /\ DOMAIN w = 1 .. Len(w) /\ Len(w) \in Nat
         /\ DOMAIN Append(w, m) = 1 .. Len(w) + 1
         /\ Append(w, m)[Len(w) + 1] = m
         /\ \A i \in DOMAIN w : Append(w, m)[i] = w[i]
OBVIOUS

\* Each message is one of the others or the new one.
LEMMA AppendCases ==
  ASSUME NEW w \in Seq(Messages), NEW m \in Messages, NEW i \in DOMAIN Append(w, m)
  PROVE  \/ i \in DOMAIN w /\ Append(w, m)[i] = w[i]
         \/ i = Len(w) + 1 /\ Append(w, m)[i] = m
<1>1. CASE i = Len(w) + 1
  BY <1>1, AppendFacts
<1>2. CASE i # Len(w) + 1
  <2>1. i \in DOMAIN w
    BY <1>2, AppendFacts
  <2>2. QED
    BY <2>1, AppendFacts
<1>3. QED
  BY <1>1, <1>2

\* Behind the others: a value or a tombstone.
LEMMA AppendOther ==
  ASSUME NEW w \in Seq(Messages), NEW m \in Messages, m.kind # "manifest"
  PROVE  /\ NoManifest(w) => NoManifest(Append(w, m))
         /\ Grows(w) => Grows(Append(w, m))
         /\ \A t : Names(w, t) => Names(Append(w, m), t)
         /\ \A S : NamesOnly(w, S) => NamesOnly(Append(w, m), S)
         /\ \A c, S : EndsWith(w, c, S) => EndsWith(Append(w, m), c, S)
<1> DEFINE v == Append(w, m)
<1>1. /\ v \in Seq(Messages) /\ DOMAIN w = 1 .. Len(w) /\ Len(w) \in Nat
      /\ DOMAIN v = 1 .. Len(w) + 1 /\ v[Len(w) + 1] = m /\ \A i \in DOMAIN w : v[i] = w[i]
  BY AppendFacts
<1> HIDE DEF v
<1>2. \A i \in DOMAIN v : ManifestAt(v, i) => i \in DOMAIN w /\ v[i] = w[i] /\ ManifestAt(w, i)
  BY <1>1 DEF ManifestAt
<1>3. /\ NoManifest(w) => NoManifest(v)
      /\ \A t : Names(w, t) => Names(v, t)
      /\ \A S : NamesOnly(w, S) => NamesOnly(v, S)
  BY <1>2 DEF NoManifest, Names, NamesOnly
<1>4. Grows(w) => Grows(v)
  BY <1>2 DEF Grows
<1>5. ASSUME NEW c, NEW S, EndsWith(w, c, S)
      PROVE  EndsWith(v, c, S)
  <2>1. PICK i \in DOMAIN w :
          /\ ManifestAt(w, i) /\ w[i].from = c /\ w[i].owned = S
          /\ \A j \in DOMAIN w : ManifestAt(w, j) => j <= i
    BY <1>5 DEF EndsWith
  <2>2. i \in DOMAIN v /\ v[i] = w[i] /\ ManifestAt(v, i)
    BY <1>1, <2>1 DEF ManifestAt
  <2>3. QED
    BY <1>2, <2>1, <2>2 DEF EndsWith
<1>6. QED
  BY <1>3, <1>4, <1>5 DEF v

\* A manifest that names no less than those under way.
LEMMA AppendManifest ==
  ASSUME NEW w \in Seq(Messages), NEW m \in Messages, m.kind = "manifest"
  PROVE  /\ Grows(w) /\ NamesOnly(w, m.owned) => Grows(Append(w, m))
         /\ \A t : Names(w, t) /\ t \in m.owned => Names(Append(w, m), t)
         /\ \A S : NamesOnly(w, S) /\ m.owned \subseteq S => NamesOnly(Append(w, m), S)
         /\ EndsWith(Append(w, m), m.from, m.owned)
         /\ \A t : Carries(Append(w, m), t) => Carries(w, t)
<1> DEFINE v == Append(w, m)
<1>1. /\ v \in Seq(Messages) /\ DOMAIN w = 1 .. Len(w) /\ Len(w) \in Nat
      /\ DOMAIN v = 1 .. Len(w) + 1 /\ v[Len(w) + 1] = m /\ \A i \in DOMAIN w : v[i] = w[i]
  BY AppendFacts
<1>2. \A i \in DOMAIN v : (i \in DOMAIN w /\ v[i] = w[i]) \/ (i = Len(w) + 1 /\ v[i] = m)
  BY AppendCases
<1> HIDE DEF v
<1>3. Grows(w) /\ NamesOnly(w, m.owned) => Grows(v)
  BY <1>1, <1>2 DEF Grows, NamesOnly, ManifestAt
<1>4. /\ \A t : Names(w, t) /\ t \in m.owned => Names(v, t)
      /\ \A S : NamesOnly(w, S) /\ m.owned \subseteq S => NamesOnly(v, S)
  BY <1>2 DEF Names, NamesOnly, ManifestAt
<1>5. EndsWith(v, m.from, m.owned)
  BY <1>1, <1>2 DEF EndsWith, ManifestAt
<1>6. \A t : Carries(v, t) => Carries(w, t)
  BY <1>2 DEF Carries, ValueAt
<1>7. QED
  BY <1>3, <1>4, <1>5, <1>6 DEF v

\* A value no older than those of its topic, or a tombstone.
LEMMA AppendValue ==
  ASSUME NEW w \in Seq(Messages), NEW m \in Messages
  PROVE  /\ \A t : Carries(Append(w, m), t) =>
                     Carries(w, t) \/ (m.kind = "value" /\ m.topic = t)
         /\ \A c, t : /\ Buries(w, c, t) /\ m.kind # "manifest"
                      /\ ~(m.kind = "value" /\ m.topic = t)
                      => Buries(Append(w, m), c, t)
         /\ m.kind = "tombstone" => Buries(Append(w, m), m.from, m.topic)
<1> DEFINE v == Append(w, m)
<1>1. /\ v \in Seq(Messages) /\ DOMAIN w = 1 .. Len(w) /\ Len(w) \in Nat
      /\ DOMAIN v = 1 .. Len(w) + 1 /\ v[Len(w) + 1] = m /\ \A i \in DOMAIN w : v[i] = w[i]
  BY AppendFacts
<1>2. \A i \in DOMAIN v : (i \in DOMAIN w /\ v[i] = w[i]) \/ (i = Len(w) + 1 /\ v[i] = m)
  BY AppendCases
<1> HIDE DEF v
<1>3. \A t : Carries(v, t) => Carries(w, t) \/ (m.kind = "value" /\ m.topic = t)
  BY <1>2 DEF Carries, ValueAt
<1>4. ASSUME NEW c, NEW t, Buries(w, c, t), m.kind # "manifest",
             ~(m.kind = "value" /\ m.topic = t)
      PROVE  Buries(v, c, t)
  <2>1. PICK i \in DOMAIN w :
          /\ w[i].kind = "tombstone" /\ w[i].topic = t /\ w[i].from = c
          /\ \A j \in DOMAIN w : ManifestAt(w, j) \/ ValueAt(w, j, t) => j < i
    BY <1>4 DEF Buries
  <2>2. i \in DOMAIN v /\ v[i] = w[i]
    BY <1>1, <2>1
  <2>3. \A j \in DOMAIN v : ManifestAt(v, j) \/ ValueAt(v, j, t) => j < i
    BY <1>2, <1>4, <2>1 DEF ManifestAt, ValueAt
  <2>4. QED
    BY <2>1, <2>2, <2>3 DEF Buries
<1>5. ASSUME m.kind = "tombstone"
      PROVE  Buries(v, m.from, m.topic)
  BY <1>1, <1>2, <1>5 DEF Buries, ManifestAt, ValueAt
<1>6. QED
  BY <1>3, <1>4, <1>5 DEF v

\* The order of values when a message is sent.
LEMMA AppendOrder ==
  ASSUME NEW w \in Seq(Messages), NEW m \in Messages, NEW t
  PROVE  /\ Before(w, t, m.number) /\ Ordered(w, t) => Ordered(Append(w, m), t)
         /\ ~(m.kind = "value" /\ m.topic = t) /\ Ordered(w, t) => Ordered(Append(w, m), t)
         /\ \A n \in Nat : /\ From(w, t, n)
                           /\ m.kind = "value" /\ m.topic = t => n <= m.number
                           => From(Append(w, m), t, n)
         /\ \A n \in Nat : /\ Before(w, t, n)
                           /\ m.kind = "value" /\ m.topic = t => m.number < n
                           => Before(Append(w, m), t, n)
<1> DEFINE v == Append(w, m)
<1>1. /\ v \in Seq(Messages) /\ DOMAIN w = 1 .. Len(w) /\ Len(w) \in Nat
      /\ DOMAIN v = 1 .. Len(w) + 1 /\ v[Len(w) + 1] = m /\ \A i \in DOMAIN w : v[i] = w[i]
  BY AppendFacts
<1>2. m.number \in Nat /\ \A i \in DOMAIN w : w[i].number \in Nat
  BY Elements DEF Messages
<1>3. \A i \in DOMAIN v : (i \in DOMAIN w /\ v[i] = w[i]) \/ (i = Len(w) + 1 /\ v[i] = m)
  BY AppendCases
<1> HIDE DEF v
<1>4. /\ Before(w, t, m.number) /\ Ordered(w, t) => Ordered(v, t)
      /\ ~(m.kind = "value" /\ m.topic = t) /\ Ordered(w, t) => Ordered(v, t)
  BY <1>1, <1>2, <1>3 DEF Before, Ordered, ValueAt
<1>5. /\ \A n \in Nat : /\ From(w, t, n)
                        /\ m.kind = "value" /\ m.topic = t => n <= m.number
                        => From(v, t, n)
      /\ \A n \in Nat : /\ Before(w, t, n)
                        /\ m.kind = "value" /\ m.topic = t => m.number < n
                        => Before(v, t, n)
  BY <1>3 DEF Before, From, ValueAt
<1>6. QED
  BY <1>4, <1>5 DEF v

\* The broker takes the first message; the others move up.
LEMMA TailFacts ==
  ASSUME NEW w \in Seq(Messages), w # <<>>
  PROVE  /\ Tail(w) \in Seq(Messages)
         /\ 1 \in DOMAIN w /\ Head(w) = w[1] /\ w[1] \in Messages
         /\ DOMAIN w = 1 .. Len(w) /\ Len(w) \in Nat
         /\ DOMAIN Tail(w) = 1 .. Len(w) - 1
         /\ \A i \in DOMAIN Tail(w) : i + 1 \in DOMAIN w /\ Tail(w)[i] = w[i + 1]
OBVIOUS

\* What is left names and carries no more.
LEMMA TailLeaves ==
  ASSUME NEW w \in Seq(Messages), w # <<>>
  PROVE  /\ NoManifest(w) => NoManifest(Tail(w))
         /\ Grows(w) => Grows(Tail(w))
         /\ \A t : Names(w, t) => Names(Tail(w), t)
         /\ \A S : NamesOnly(w, S) => NamesOnly(Tail(w), S)
         /\ \A t : Carries(Tail(w), t) => Carries(w, t)
         /\ \A t : Ordered(w, t) => Ordered(Tail(w), t)
         /\ \A t : \A n \in Nat : /\ From(w, t, n) => From(Tail(w), t, n)
                                  /\ Before(w, t, n) => Before(Tail(w), t, n)
<1> DEFINE v == Tail(w)
<1>1. /\ DOMAIN v \subseteq Nat /\ DOMAIN w \subseteq Nat
      /\ \A i \in DOMAIN v : i + 1 \in DOMAIN w /\ v[i] = w[i + 1]
  BY TailFacts
<1> HIDE DEF v
<1>2. /\ NoManifest(w) => NoManifest(v)
      /\ \A t : Names(w, t) => Names(v, t)
      /\ \A S : NamesOnly(w, S) => NamesOnly(v, S)
      /\ \A t : Carries(v, t) => Carries(w, t)
  BY <1>1 DEF NoManifest, Names, NamesOnly, Carries, ManifestAt, ValueAt
<1>3. /\ Grows(w) => Grows(v)
      /\ \A t : Ordered(w, t) => Ordered(v, t)
  <2>1. \A i, j \in DOMAIN v : i < j => i + 1 < j + 1
    BY <1>1
  <2>2. QED
    BY <1>1, <2>1 DEF Grows, Ordered, ManifestAt, ValueAt
<1>4. \A t : \A n \in Nat : /\ From(w, t, n) => From(v, t, n)
                            /\ Before(w, t, n) => Before(v, t, n)
  BY <1>1 DEF From, Before, ValueAt
<1>5. QED
  BY <1>2, <1>3, <1>4 DEF v

\* What the message that is taken says of those that are left.
LEMMA HeadFacts ==
  ASSUME NEW w \in Seq(Messages), w # <<>>
  PROVE  /\ \A c, S : EndsWith(w, c, S) =>
              \/ EndsWith(Tail(w), c, S)
              \/ w[1].kind = "manifest" /\ w[1].owned = S /\ NoManifest(Tail(w))
         /\ \A c, t : Buries(w, c, t) =>
              \/ Buries(Tail(w), c, t)
              \/ /\ w[1].kind = "tombstone" /\ w[1].topic = t
                 /\ ~Carries(Tail(w), t) /\ NoManifest(Tail(w))
         /\ NoManifest(w) => w[1].kind # "manifest"
         /\ \A t : Names(w, t) /\ w[1].kind = "manifest" => t \in w[1].owned
         /\ \A S : NamesOnly(w, S) /\ w[1].kind = "manifest" => w[1].owned \subseteq S
         /\ Grows(w) /\ w[1].kind = "manifest" => \A t \in w[1].owned : Names(Tail(w), t)
         /\ w[1].kind = "value" => Carries(w, w[1].topic)
         /\ \A t : Ordered(w, t) /\ w[1].kind = "value" /\ w[1].topic = t
                     => From(Tail(w), t, w[1].number)
         /\ \A t : \A n \in Nat : w[1].kind = "value" /\ w[1].topic = t =>
              (From(w, t, n) => n <= w[1].number) /\ (Before(w, t, n) => w[1].number < n)
<1> DEFINE v == Tail(w)
<1>1. /\ 1 \in DOMAIN w /\ DOMAIN w = 1 .. Len(w) /\ Len(w) \in Nat
      /\ DOMAIN v = 1 .. Len(w) - 1
      /\ \A i \in DOMAIN v : i + 1 \in DOMAIN w /\ v[i] = w[i + 1]
  BY TailFacts
<1> HIDE DEF v
<1>2. ASSUME NEW c, NEW S, EndsWith(w, c, S)
      PROVE  \/ EndsWith(v, c, S)
             \/ w[1].kind = "manifest" /\ w[1].owned = S /\ NoManifest(v)
  <2>1. PICK i \in DOMAIN w :
          /\ ManifestAt(w, i) /\ w[i].from = c /\ w[i].owned = S
          /\ \A j \in DOMAIN w : ManifestAt(w, j) => j <= i
    BY <1>2 DEF EndsWith
  <2>2. CASE i = 1
    BY <1>1, <2>1, <2>2 DEF NoManifest, ManifestAt
  <2>3. CASE i # 1
    <3>1. i - 1 \in DOMAIN v /\ v[i - 1] = w[i]
      BY <1>1, <2>3
    <3>2. \A j \in DOMAIN v : ManifestAt(v, j) => j <= i - 1
      BY <1>1, <2>1 DEF ManifestAt
    <3>3. QED
      BY <2>1, <3>1, <3>2 DEF EndsWith, ManifestAt
  <2>4. QED
    BY <2>2, <2>3
<1>3. ASSUME NEW c, NEW t, Buries(w, c, t)
      PROVE  \/ Buries(v, c, t)
             \/ w[1].kind = "tombstone" /\ w[1].topic = t /\ ~Carries(v, t) /\ NoManifest(v)
  <2>1. PICK i \in DOMAIN w :
          /\ w[i].kind = "tombstone" /\ w[i].topic = t /\ w[i].from = c
          /\ \A j \in DOMAIN w : ManifestAt(w, j) \/ ValueAt(w, j, t) => j < i
    BY <1>3 DEF Buries
  <2>2. CASE i = 1
    BY <1>1, <2>1, <2>2 DEF Carries, NoManifest, ManifestAt, ValueAt
  <2>3. CASE i # 1
    <3>1. i - 1 \in DOMAIN v /\ v[i - 1] = w[i]
      BY <1>1, <2>3
    <3>2. \A j \in DOMAIN v : ManifestAt(v, j) \/ ValueAt(v, j, t) => j < i - 1
      BY <1>1, <2>1 DEF ManifestAt, ValueAt
    <3>3. QED
      BY <2>1, <3>1, <3>2 DEF Buries
  <2>4. QED
    BY <2>2, <2>3
<1>4. /\ NoManifest(w) => w[1].kind # "manifest"
      /\ \A t : Names(w, t) /\ w[1].kind = "manifest" => t \in w[1].owned
      /\ \A S : NamesOnly(w, S) /\ w[1].kind = "manifest" => w[1].owned \subseteq S
      /\ w[1].kind = "value" => Carries(w, w[1].topic)
  BY <1>1 DEF NoManifest, Names, NamesOnly, Carries, ManifestAt, ValueAt
<1>5. Grows(w) /\ w[1].kind = "manifest" => \A t \in w[1].owned : Names(v, t)
  BY <1>1 DEF Grows, Names, ManifestAt
<1>6. \A t : Ordered(w, t) /\ w[1].kind = "value" /\ w[1].topic = t => From(v, t, w[1].number)
  BY <1>1 DEF Ordered, From, ValueAt
<1>7. \A t : \A n \in Nat : w[1].kind = "value" /\ w[1].topic = t =>
        (From(w, t, n) => n <= w[1].number) /\ (Before(w, t, n) => w[1].number < n)
  BY <1>1 DEF From, Before, ValueAt
<1>8. QED
  BY <1>2, <1>3, <1>4, <1>5, <1>6, <1>7 DEF v

\* Nothing is under way, or nothing of c.
LEMMA NothingUnderWay ==
  /\ NoManifest(<<>>) /\ Grows(<<>>)
  /\ \A t : Names(<<>>, t) /\ ~Carries(<<>>, t) /\ Ordered(<<>>, t)
  /\ \A S : NamesOnly(<<>>, S)
  /\ \A t, n : From(<<>>, t, n) /\ Before(<<>>, t, n)
BY DEF NoManifest, Grows, Names, Carries, Ordered, NamesOnly, From, Before

\* What manifests name, when there is none or there may be more to name.
LEMMA NamesOnlyFacts ==
  ASSUME NEW w
  PROVE  /\ \A S, T : NamesOnly(w, S) /\ S \subseteq T => NamesOnly(w, T)
         /\ \A S : NoManifest(w) => NamesOnly(w, S)
         /\ \A t : NoManifest(w) => Names(w, t)
BY DEF NamesOnly, NoManifest, Names

\* A message of c that landed is not under way.
LEMMA LandedFacts ==
  ASSUME NEW c, Landed(c)
  PROVE  /\ \A S : ~EndsWith(wire, c, S)
         /\ \A t : ~Buries(wire, c, t)
BY DEF Landed, EndsWith, Buries

\* Before grows with its bound.
LEMMA BeforeGrows ==
  ASSUME NEW w \in Seq(Messages), NEW t, NEW m \in Nat, NEW n \in Nat, m <= n, Before(w, t, m)
  PROVE  Before(w, t, n)
BY Elements DEF Before

\* What a message says.
LEMMA MessageFacts ==
  ASSUME CallsTyped, NEW c \in Callers, NEW k \in {"value", "tombstone", "manifest"},
         NEW t \in Topics \cup {None}, NEW S \in SUBSET Topics
  PROVE  /\ Message(c, k, t, S) \in Messages
         /\ Message(c, k, t, S).from = c /\ Message(c, k, t, S).kind = k
         /\ Message(c, k, t, S).topic = t /\ Message(c, k, t, S).number = job[c].number
         /\ Message(c, k, t, S).owned = S
BY DEF Message, Messages, CallsTyped, Jobs

\* m is sent.
Sent(c, m) == m \in Messages /\ m.from = c /\ wire' = Append(wire, m)
SentValue(c, m, t, n) == Sent(c, m) /\ m.kind = "value" /\ m.topic = t /\ m.number = n
SentManifest(c, m, S) == Sent(c, m) /\ m.kind = "manifest" /\ m.owned = S

\* The messages that the steps send.
LEMMA WhatIsSent ==
  ASSUME WellTyped, Writing => write \subseteq Topics, NEW c \in Callers
  PROVE  /\ \A t \in Topics : PublishPast(c, t) => \E m : SentValue(c, m, t, calls')
         /\ Publish(c) \/ Owned(c) => \E m : SentValue(c, m, job[c].topic, job[c].number)
         /\ Own(c) => \E m : SentManifest(c, m, topics)
         /\ WriteLands(c) /\ c \notin doomed => \E m : SentManifest(c, m, write)
         /\ Drained(c) => \E m : /\ Sent(c, m)
                                 /\ m.kind = "tombstone" /\ m.topic = job[c].topic
<1> USE DEF SentValue, SentManifest, Sent, Send
<1>2. ASSUME NEW t \in Topics, PublishPast(c, t)
      PROVE  \E m : SentValue(c, m, t, calls')
  <2> DEFINE m == [from |-> c, kind |-> "value", topic |-> t, number |-> calls', owned |-> {}]
  <2>1. m \in Messages
    BY <1>2 DEF PublishPast, Call, WellTyped, CallsTyped, Messages
  <2>2. QED
    BY <1>2, <2>1 DEF PublishPast
<1>3. ASSUME Publish(c) \/ Owned(c)
      PROVE  \E m : SentValue(c, m, job[c].topic, job[c].number)
  <2>1. job[c].topic \in Topics
    BY <1>3 DEF Publish, Take, Next1st, Owned, WellTyped, CallsTyped
  <2>2. QED
    BY <1>3, <2>1, MessageFacts DEF Publish, Owned, SendValue, WellTyped
<1>4. ASSUME Own(c)
      PROVE  \E m : SentManifest(c, m, topics)
  BY <1>4, MessageFacts DEF Own, SendManifest, WellTyped, TypeOK
<1>5. ASSUME WriteLands(c), c \notin doomed
      PROVE  \E m : SentManifest(c, m, write)
  <2>1. write \in SUBSET Topics
    BY <1>5 DEF WriteLands, Writing
  <2>2. QED
    BY <1>5, <2>1, MessageFacts DEF WriteLands, Persisted, SendManifest, WellTyped
<1>6. ASSUME Drained(c)
      PROVE  \E m : Sent(c, m) /\ m.kind = "tombstone" /\ m.topic = job[c].topic
  <2>1. job[c].topic \in Topics
    BY <1>6 DEF Drained, WellTyped, CallsTyped
  <2>2. QED
    BY <1>6, <2>1, MessageFacts DEF Drained, WellTyped
<1>7. QED
  BY <1>2, <1>3, <1>4, <1>5, <1>6

\* The types of the wire when a message is sent.
LEMMA SendTypes ==
  ASSUME WireTyped, NEW m \in Messages, Send(m), m.kind # "manifest" => m.topic \in Topics
  PROVE  WireTyped'
BY AppendFacts DEF WireTyped, Send

\* A caller begins a call.
LEMMA CallTypes ==
  ASSUME CallsTyped, NEW c \in Callers, NEW k \in {"publish", "clear"}, NEW t \in Topics,
         NEW w \in Awaits, Call(c, k, t), Goes(c, w), UNCHANGED <<lock, doomed>>
  PROVE  CallsTyped'
<1>1. calls' \in Nat
  BY DEF Call, CallsTyped
<1>2. [kind |-> k, topic |-> t, number |-> calls'] \in Jobs
  BY <1>1 DEF Jobs
<1>3. job' \in [Callers -> Jobs] /\ pc' \in [Callers -> Awaits]
  BY <1>2 DEF Call, Goes, CallsTyped
<1>4. QED
  BY <1>1, <1>3 DEF Call, Goes, CallsTyped

\* The call of a caller ends.
LEMMA ReturnTypes ==
  ASSUME CallsTyped, NEW c \in Callers, Returns(c), UNCHANGED calls
  PROVE  CallsTyped'
<1>1. NoJob \in Jobs /\ "idle" \in Awaits
  BY DEF NoJob, Jobs, Awaits
<1>2. QED
  BY <1>1 DEF Returns, CallsTyped

\* A caller goes on.
LEMMA GoesTypes ==
  ASSUME CallsTyped, NEW c \in Callers, NEW w \in Awaits, pc[c] # "idle", Goes(c, w),
         lock' \in {lock, c}, UNCHANGED <<job, doomed, calls>>
  PROVE  CallsTyped'
BY DEF Goes, CallsTyped

\* The steps of a call that has begun keep the types.
LEMMA TypeProceed ==
  ASSUME WellTyped, NEW c \in Callers, Proceed(c)
  PROVE  WellTyped'
<1> USE DEF WellTyped, TypeOK, diskVars, memVars, brokerVars
<1>1. CASE Refuse(c)
  BY <1>1, ReturnTypes DEF Refuse, WireTyped, CallsTyped
<1>2. CASE Claim(c)
  <2>1. CallsTyped'
    BY <1>2, GoesTypes DEF Claim, Take, Next1st, Awaits, OnDisk
  <2>2. job[c].topic \in Topics
    BY <1>2 DEF Claim, Take, Next1st, CallsTyped
  <2>3. QED
    BY <1>2, <2>1, <2>2 DEF Claim, Take, WireTyped, CallsTyped
<1>3. CASE Own(c)
  <2>1. CallsTyped'
    BY <1>3, GoesTypes DEF Own, Take, Next1st, Awaits, OnWire
  <2>2. WireTyped'
    BY <1>3, MessageFacts, SendTypes DEF Own, SendManifest
  <2>3. QED
    BY <1>3, <2>1, <2>2 DEF Own, Take, CallsTyped
<1>4. CASE Publish(c)
  <2>1. CallsTyped'
    BY <1>4, GoesTypes DEF Publish, Take, Next1st, Awaits, OnWire
  <2>2. job[c].topic \in Topics
    BY <1>4 DEF Publish, Take, Next1st, CallsTyped
  <2>3. WireTyped'
    BY <1>4, <2>2, MessageFacts, SendTypes DEF Publish, SendValue
  <2>4. QED
    BY <1>4, <2>1, <2>3 DEF Publish, Take, CallsTyped
<1>5. CASE Owned(c)
  <2>1. CallsTyped'
    BY <1>5, GoesTypes DEF Owned, Awaits, OnWire
  <2>2. job[c].topic \in Topics
    BY <1>5 DEF Owned, CallsTyped
  <2>3. WireTyped'
    BY <1>5, <2>2, MessageFacts, SendTypes DEF Owned, SendValue
  <2>4. QED
    BY <1>5, <2>1, <2>3 DEF Owned, CallsTyped
<1>6. CASE Published(c)
  BY <1>6, ReturnTypes DEF Published, WireTyped, CallsTyped
<1>7. CASE BeginClear(c)
  <2>1. CallsTyped'
    BY <1>7, GoesTypes DEF BeginClear, Take, Next1st, Awaits
  <2>2. QED
    BY <1>7, <2>1 DEF BeginClear, Take, WireTyped, CallsTyped
<1>8. CASE Drained(c)
  <2>1. CallsTyped'
    BY <1>8, GoesTypes DEF Drained, Awaits, OnWire
  <2>2. job[c].topic \in Topics
    BY <1>8 DEF Drained, CallsTyped
  <2>3. WireTyped'
    BY <1>8, <2>2, MessageFacts, SendTypes DEF Drained
  <2>4. QED
    BY <1>8, <2>1, <2>3 DEF Drained, CallsTyped
<1>9. CASE Buried(c)
  <2>1. CallsTyped'
    BY <1>9, GoesTypes, ReturnTypes DEF Buried, Awaits, OnDisk
  <2>2. QED
    BY <1>9, <2>1 DEF Buried, WireTyped, CallsTyped
<1>10. CASE Disowned(c)
  BY <1>10, ReturnTypes DEF Disowned, WireTyped, CallsTyped
<1>11. QED
  BY <1>1, <1>2, <1>3, <1>4, <1>5, <1>6, <1>7, <1>8, <1>9, <1>10 DEF Proceed

\* The other steps keep the types.
LEMMA TypeStep ==
  ASSUME ConstantsAssumption, WellTyped, Writing => write \subseteq Topics, [Next]_vars
  PROVE  WellTyped'
<1> USE DEF WellTyped, TypeOK, diskVars, memVars, brokerVars
<1>1. ASSUME NEW c \in Callers, NEW t \in Topics, PublishPast(c, t)
      PROVE  WellTyped'
  <2>1. CallsTyped'
    BY <1>1, CallTypes DEF PublishPast, Awaits, OnWire
  <2>2. calls' \in Nat
    BY <1>1 DEF PublishPast, Call, CallsTyped
  <2>3. [from |-> c, kind |-> "value", topic |-> t, number |-> calls', owned |-> {}] \in Messages
    BY <2>2 DEF Messages
  <2>4. WireTyped'
    BY <1>1, <2>3, SendTypes DEF PublishPast
  <2>5. QED
    BY <1>1, <2>1, <2>4 DEF PublishPast, CallsTyped
<1>2. ASSUME NEW c \in Callers, NEW t \in Topics, NEW k \in Kinds, Enqueue(c, k, t)
      PROVE  WellTyped'
  <2>1. CallsTyped'
    BY <1>2, CallTypes DEF Enqueue, Awaits, ConstantsAssumption
  <2>2. QED
    BY <1>2, <2>1 DEF Enqueue, CallsTyped, WireTyped
<1>3. ASSUME NEW c \in Callers, Proceed(c)
      PROVE  WellTyped'
  BY <1>3, TypeProceed
<1>4. ASSUME NEW c \in Callers, Abandon(c) \/ PublicationFails(c) \/ DrainCancelled(c)
      PROVE  WellTyped'
  BY <1>4, ReturnTypes DEF Abandon, PublicationFails, DrainCancelled, CallsTyped, WireTyped
<1>5. ASSUME NEW c \in Callers, WriteLands(c)
      PROVE  WellTyped'
  <2>1. write \subseteq Topics /\ pc[c] # "idle"
    BY <1>5 DEF WriteLands, Writing, OnDisk
  <2>2. CASE c \in doomed
    <3>1. CallsTyped'
      BY <1>5, <2>2, ReturnTypes DEF WriteLands, Persisted
    <3>2. QED
      BY <1>5, <2>1, <2>2, <3>1 DEF WriteLands, Persisted, CallsTyped, WireTyped
  <2>3. CASE c \notin doomed
    <3>1. CallsTyped'
      BY <1>5, <2>1, <2>3, GoesTypes DEF WriteLands, Persisted, Awaits, OnWire
    <3>2. WireTyped'
      BY <1>5, <2>1, <2>3, MessageFacts, SendTypes DEF WriteLands, Persisted, SendManifest
    <3>3. QED
      BY <1>5, <2>1, <2>3, <3>1, <3>2 DEF WriteLands, Persisted, CallsTyped
  <2>4. QED
    BY <2>2, <2>3
<1>6. ASSUME NEW c \in Callers, WriteFails(c)
      PROVE  WellTyped'
  <2>1. write \subseteq Topics /\ CallsTyped'
    BY <1>6, ReturnTypes DEF WriteFails, Writing
  <2>2. QED
    BY <1>6, <2>1 DEF WriteFails, FileAfterError, CallsTyped, WireTyped
<1>7. ASSUME NEW c \in Callers, CancelWriter(c)
      PROVE  WellTyped'
  BY <1>7 DEF CancelWriter, CallsTyped, WireTyped
<1>8. ASSUME NEW c \in Callers, Stall(c)
      PROVE  WellTyped'
  BY <1>8, ReturnTypes DEF Stall, CallsTyped, WireTyped
<1>9. CASE LateWrite
  BY <1>9 DEF LateWrite, Writing, CallsTyped, WireTyped
<1>10. CASE Land
  <2>1. WireTyped' /\ wire[1] \in Messages /\ Head(wire) = wire[1]
        /\ (wire[1].kind # "manifest" => wire[1].topic \in Topics)
    BY <1>10, TailFacts DEF Land, WireTyped
  <2>2. wire[1].number \in Nat /\ wire[1].owned \subseteq Topics
    BY <2>1 DEF Messages
  <2>3. QED
    BY <1>10, <2>1, <2>2 DEF Land, CallsTyped
<1>11. CASE Reconnect
  <2>1. NoJob \in Jobs /\ "idle" \in Awaits
    BY DEF NoJob, Jobs, Awaits
  <2>2. CallsTyped'
    BY <1>11, <2>1 DEF Reconnect, CallsTyped, OnDisk
  <2>3. WireTyped'
    BY <1>11 DEF Reconnect, WireTyped
  <2>4. QED
    BY <1>11, <2>2, <2>3 DEF Reconnect, CallsTyped
<1>12. CASE Load
  BY <1>12 DEF Load, CallsTyped, WireTyped
<1>13. CASE Crash
  <2>1. NoJob \in Jobs /\ "idle" \in Awaits
    BY DEF NoJob, Jobs, Awaits
  <2>2. CallsTyped'
    BY <1>13, <2>1 DEF Crash, CallsTyped
  <2>3. WireTyped' /\ UNCHANGED <<file, unsynced, value, newest, manifest>>
    BY <1>13 DEF Crash, WireTyped
  <2>4. QED
    BY <1>13, <2>2, <2>3 DEF Crash, CallsTyped
<1>14. CASE UNCHANGED vars
  BY <1>14 DEF vars, CallsTyped, WireTyped
<1>15. QED
  BY <1>1, <1>2, <1>3, <1>4, <1>5, <1>6, <1>7, <1>8, <1>9, <1>10, <1>11, <1>12, <1>13, <1>14
  DEF Next

\* One caller at a time holds the lock.
LEMMA LockStep ==
  ASSUME ConstantsAssumption, WellTyped, LockInv, SessionInv, WellTyped', [Next]_vars
  PROVE  LockInv'
<1> USE DEF diskVars, memVars, brokerVars, LockInv, WellTyped, TypeOK, CallsTyped, OnDisk, OnWire, Owning, Writing
<1>1. ASSUME NEW c \in Callers, NEW t \in Topics, PublishPast(c, t)
      PROVE  LockInv'
  BY <1>1 DEF PublishPast, Call, Goes
<1>2. ASSUME NEW c \in Callers, NEW t \in Topics, NEW k \in Kinds, Enqueue(c, k, t)
      PROVE  LockInv'
  BY <1>2 DEF Enqueue, Call, Goes
<1>3. ASSUME NEW c \in Callers, Refuse(c)
      PROVE  LockInv'
  BY <1>3 DEF Refuse, Returns, Next1st
<1>4. ASSUME NEW c \in Callers, Claim(c)
      PROVE  LockInv'
  BY <1>4 DEF Claim, Take, Next1st, Goes, NeedsClaim
<1>5. ASSUME NEW c \in Callers, Own(c)
      PROVE  LockInv'
  BY <1>5 DEF Own, Take, Next1st, Goes, NeedsClaim, SendManifest
<1>6. ASSUME NEW c \in Callers, Publish(c)
      PROVE  LockInv'
  BY <1>6 DEF Publish, Take, Next1st, Goes, NeedsClaim, SendValue
<1>7. ASSUME NEW c \in Callers, Owned(c)
      PROVE  LockInv'
  BY <1>7 DEF Owned, Goes, SendValue
<1>8. ASSUME NEW c \in Callers, Published(c)
      PROVE  LockInv'
  BY <1>8 DEF Published, Returns
<1>9. ASSUME NEW c \in Callers, BeginClear(c)
      PROVE  LockInv'
  BY <1>9 DEF BeginClear, Take, Next1st, Goes
<1>10. ASSUME NEW c \in Callers, Drained(c)
      PROVE  LockInv'
  BY <1>10 DEF Drained, Goes
<1>11. ASSUME NEW c \in Callers, Buried(c)
      PROVE  LockInv'
  BY <1>11 DEF Buried, Returns, Goes
<1>12. ASSUME NEW c \in Callers, Disowned(c)
      PROVE  LockInv'
  BY <1>12 DEF Disowned, Returns
<1>13. ASSUME NEW c \in Callers, Abandon(c)
      PROVE  LockInv'
  BY <1>13 DEF Abandon, Returns
<1>14. ASSUME NEW c \in Callers, PublicationFails(c)
      PROVE  LockInv'
  BY <1>14 DEF PublicationFails, Returns
<1>15. ASSUME NEW c \in Callers, DrainCancelled(c)
      PROVE  LockInv'
  BY <1>15 DEF DrainCancelled, Returns
<1>16. ASSUME NEW c \in Callers, WriteLands(c)
      PROVE  LockInv'
  BY <1>16 DEF WriteLands, Returns, Persisted, Goes, NeedsClaim, SendManifest
<1>17. ASSUME NEW c \in Callers, WriteFails(c)
      PROVE  LockInv'
  BY <1>17 DEF WriteFails, Returns, FileAfterError
<1>18. ASSUME NEW c \in Callers, CancelWriter(c)
      PROVE  LockInv'
  BY <1>18 DEF CancelWriter
<1>19. ASSUME NEW c \in Callers, Stall(c)
      PROVE  LockInv'
  BY <1>19 DEF Stall, Returns
<1>20. CASE LateWrite
  BY <1>20 DEF LateWrite
<1>21. CASE Land
  BY <1>21 DEF Land
<1>22. CASE Reconnect
  BY <1>22 DEF Reconnect
<1>23. CASE Load
  BY <1>23 DEF Load
<1>24. CASE Crash
  BY <1>24 DEF Crash
<1>25. CASE UNCHANGED vars
  BY <1>25 DEF vars
<1>26. QED
  BY <1>1, <1>2, <1>3, <1>4, <1>5, <1>6, <1>7, <1>8, <1>9, <1>10, <1>11, <1>12, <1>13, <1>14, <1>15, <1>16, <1>17, <1>18, <1>19, <1>20, <1>21, <1>22, <1>23, <1>24, <1>25
  DEF Next, Proceed
\* A session that has ended leaves nothing but a write.
LEMMA SessionStep ==
  ASSUME ConstantsAssumption, WellTyped, LockInv, SessionInv, WellTyped', [Next]_vars
  PROVE  SessionInv'
<1> USE DEF diskVars, memVars, brokerVars, SessionInv, WellTyped, TypeOK, CallsTyped, OnDisk, OnWire
<1>1. ASSUME NEW c \in Callers, NEW t \in Topics, PublishPast(c, t)
      PROVE  SessionInv'
  BY <1>1 DEF PublishPast, Call, Goes
<1>2. ASSUME NEW c \in Callers, NEW t \in Topics, NEW k \in Kinds, Enqueue(c, k, t)
      PROVE  SessionInv'
  BY <1>2 DEF Enqueue, Call, Goes
<1>3. ASSUME NEW c \in Callers, Refuse(c)
      PROVE  SessionInv'
  BY <1>3 DEF Refuse, Returns, Next1st
<1>4. ASSUME NEW c \in Callers, Claim(c)
      PROVE  SessionInv'
  BY <1>4 DEF Claim, Take, Next1st, Goes
<1>5. ASSUME NEW c \in Callers, Own(c)
      PROVE  SessionInv'
  BY <1>5 DEF Own, Take, Next1st, Goes, SendManifest
<1>6. ASSUME NEW c \in Callers, Publish(c)
      PROVE  SessionInv'
  BY <1>6 DEF Publish, Take, Next1st, Goes, SendValue
<1>7. ASSUME NEW c \in Callers, Owned(c)
      PROVE  SessionInv'
  BY <1>7 DEF Owned, Goes, SendValue
<1>8. ASSUME NEW c \in Callers, Published(c)
      PROVE  SessionInv'
  BY <1>8 DEF Published, Returns
<1>9. ASSUME NEW c \in Callers, BeginClear(c)
      PROVE  SessionInv'
  BY <1>9 DEF BeginClear, Take, Next1st, Goes
<1>10. ASSUME NEW c \in Callers, Drained(c)
      PROVE  SessionInv'
  BY <1>10 DEF Drained, Goes
<1>11. ASSUME NEW c \in Callers, Buried(c)
      PROVE  SessionInv'
  BY <1>11 DEF Buried, Returns, Goes
<1>12. ASSUME NEW c \in Callers, Disowned(c)
      PROVE  SessionInv'
  BY <1>12 DEF Disowned, Returns
<1>13. ASSUME NEW c \in Callers, Abandon(c)
      PROVE  SessionInv'
  BY <1>13 DEF Abandon, Returns
<1>14. ASSUME NEW c \in Callers, PublicationFails(c)
      PROVE  SessionInv'
  BY <1>14 DEF PublicationFails, Returns
<1>15. ASSUME NEW c \in Callers, DrainCancelled(c)
      PROVE  SessionInv'
  BY <1>15 DEF DrainCancelled, Returns
<1>16. ASSUME NEW c \in Callers, WriteLands(c)
      PROVE  SessionInv'
  BY <1>16 DEF WriteLands, Returns, Persisted, Goes, SendManifest
<1>17. ASSUME NEW c \in Callers, WriteFails(c)
      PROVE  SessionInv'
  BY <1>17 DEF WriteFails, Returns, FileAfterError
<1>18. ASSUME NEW c \in Callers, CancelWriter(c)
      PROVE  SessionInv'
  BY <1>18 DEF CancelWriter
<1>19. ASSUME NEW c \in Callers, Stall(c)
      PROVE  SessionInv'
  BY <1>19 DEF Stall, Returns
<1>20. CASE LateWrite
  BY <1>20 DEF LateWrite
<1>21. CASE Land
  BY <1>21 DEF Land
<1>22. CASE Reconnect
  BY <1>22 DEF Reconnect
<1>23. CASE Load
  BY <1>23 DEF Load
<1>24. CASE Crash
  BY <1>24 DEF Crash
<1>25. CASE UNCHANGED vars
  BY <1>25 DEF vars
<1>26. QED
  BY <1>1, <1>2, <1>3, <1>4, <1>5, <1>6, <1>7, <1>8, <1>9, <1>10, <1>11, <1>12, <1>13, <1>14, <1>15, <1>16, <1>17, <1>18, <1>19, <1>20, <1>21, <1>22, <1>23, <1>24, <1>25
  DEF Next, Proceed

\* Manifests stay in order.
LEMMA ManifestStep ==
  ASSUME ConstantsAssumption, WellTyped, LockInv, SessionInv, ManifestInv, ClearInv, WellTyped', [Next]_vars
  PROVE  ManifestInv'
<1> USE DEF diskVars, memVars, brokerVars, WellTyped, TypeOK, CallsTyped, WireTyped, OnDisk, OnWire, LockInv, SessionInv, ManifestInv, ClearInv, IsBuried, Owning, Writing
<1>1. ASSUME NEW c \in Callers, NEW t \in Topics, PublishPast(c, t)
      PROVE  ManifestInv'
  <2>1. PICK m : SentValue(c, m, t, calls')
    BY <1>1, WhatIsSent DEF LockInv
  <2>2. QED
    BY <1>1, <2>1, AppendOther DEF PublishPast, MayGoPast, ClaimPending, QueuedFor, Call, Goes, SentValue, Sent
<1>2. ASSUME NEW c \in Callers, NEW t \in Topics, NEW k \in Kinds, Enqueue(c, k, t)
      PROVE  ManifestInv'
  BY <1>2 DEF Enqueue, Call, Goes
<1>3. ASSUME NEW c \in Callers, Refuse(c) \/ Published(c) \/ Disowned(c) \/ Abandon(c) \/ PublicationFails(c) \/ DrainCancelled(c) \/ CancelWriter(c) \/ Stall(c)
      PROVE  ManifestInv'
  BY <1>3, LandedFacts DEF Refuse, Published, Disowned, Abandon, PublicationFails, DrainCancelled, CancelWriter, Stall, Returns, Next1st
<1>4. ASSUME NEW c \in Callers, Claim(c)
      PROVE  ManifestInv'
  BY <1>4, NamesOnlyFacts DEF Claim, Take, Next1st, Goes, NeedsClaim
<1>5. ASSUME NEW c \in Callers, BeginClear(c)
      PROVE  ManifestInv'
  BY <1>5 DEF BeginClear, Take, Next1st, Goes
<1>6. ASSUME NEW c \in Callers, Own(c)
      PROVE  ManifestInv'
  <2>1. PICK m : SentManifest(c, m, topics)
    BY <1>6, WhatIsSent DEF LockInv
  <2>2. /\ ~Writing' /\ UNCHANGED <<topics, manifest, manifestAck>> /\ ~manifestAck
        /\ \A d \in Callers : pc'[d] \in {"owning", "smaller"} => d = c
    BY <1>6 DEF Own, Take, Next1st, NeedsClaim, Goes
  <2>3. Grows(wire') /\ NamesOnly(wire', topics) /\ EndsWith(wire', c, topics)
    BY <2>1, AppendManifest DEF SentManifest, Sent
  <2>4. QED
    BY <2>2, <2>3
<1>7. ASSUME NEW c \in Callers, Publish(c)
      PROVE  ManifestInv'
  <2>1. PICK m : SentValue(c, m, job[c].topic, job[c].number)
    BY <1>7, WhatIsSent DEF LockInv
  <2>2. QED
    BY <1>7, <2>1, AppendOther DEF Publish, Take, Next1st, NeedsClaim, Goes, SentValue, Sent
<1>8. ASSUME NEW c \in Callers, Owned(c)
      PROVE  ManifestInv'
  <2>1. PICK m : SentValue(c, m, job[c].topic, job[c].number)
    BY <1>8, WhatIsSent DEF LockInv
  <2>2. QED
    BY <1>8, <2>1, AppendOther, LandedFacts DEF Owned, Goes, SentValue, Sent
<1>9. ASSUME NEW c \in Callers, Drained(c)
      PROVE  ManifestInv'
  <2>1. PICK m : Sent(c, m) /\ m.kind = "tombstone" /\ m.topic = job[c].topic
    BY <1>9, WhatIsSent DEF LockInv
  <2>2. QED
    BY <1>9, <2>1, AppendOther DEF Drained, Goes, Sent
<1>10. ASSUME NEW c \in Callers, Buried(c)
      PROVE  ManifestInv'
  <2>1. NoManifest(wire)
    BY <1>10, LandedFacts DEF Buried
  <2>2. \A S : NamesOnly(wire, S)
    BY <2>1, NamesOnlyFacts
  <2>3. QED
    BY <1>10, <2>1, <2>2 DEF Buried, Goes, Returns
<1>11. ASSUME NEW c \in Callers, WriteLands(c)
      PROVE  ManifestInv'
  <2>1. CASE c \in doomed
    BY <1>11, <2>1 DEF WriteLands, Persisted, Returns
  <2>2. CASE c \notin doomed
    <3>1. PICK m : SentManifest(c, m, write)
      BY <1>11, <2>2, WhatIsSent DEF LockInv
    <3>2. /\ ~Writing' /\ topics' = write /\ ~manifestAck'
          /\ \A d \in Callers : pc'[d] \in {"owning", "smaller"} => d = c
      BY <1>11, <2>2 DEF WriteLands, Persisted, Goes
    <3>3. Grows(wire') /\ NamesOnly(wire', write) /\ EndsWith(wire', c, write)
      BY <1>11, <3>1, AppendManifest DEF SentManifest, Sent, WriteLands
    <3>4. QED
      BY <3>2, <3>3
  <2>3. QED
    BY <2>1, <2>2
<1>12. ASSUME NEW c \in Callers, WriteFails(c)
      PROVE  ManifestInv'
  BY <1>12 DEF WriteFails, FileAfterError, Returns
<1>13. CASE LateWrite
  BY <1>13 DEF LateWrite
<1>14. CASE Reconnect
  BY <1>14, NothingUnderWay DEF Reconnect
<1>15. CASE Load
  BY <1>15, NothingUnderWay DEF Load
<1>16. CASE Crash
  BY <1>16, NothingUnderWay DEF Crash
<1>17. CASE Land
  <2>1. wire # <<>> /\ wire' = Tail(wire) /\ wire \in Seq(Messages)
    BY <1>17 DEF Land, WireTyped
  <2>2. QED
    <3>1. UNCHANGED <<topics, write, stalled, pc, manifestAck>>
      BY <1>17 DEF Land, memVars
    <3>2. manifest' = IF wire[1].kind = "manifest" THEN wire[1].owned ELSE manifest
      BY <1>17, <2>1, TailFacts DEF Land
    <3>3. Grows(wire') /\ NamesOnly(wire', topics) /\ (Writing' => NamesOnly(wire', write))
      BY <2>1, <3>1, TailLeaves
    <3>4. manifestAck' => manifest' = topics /\ NoManifest(wire')
      BY <2>1, <3>1, <3>2, TailLeaves, HeadFacts
    <3>5. ASSUME NEW c \in Callers, pc'[c] \in {"owning", "smaller"}
          PROVE  (manifest' = topics /\ NoManifest(wire')) \/ EndsWith(wire', c, topics)
      BY <2>1, <3>1, <3>2, <3>5, TailLeaves, HeadFacts
    <3>6. QED
      BY <3>1, <3>3, <3>4, <3>5
<1>18. CASE UNCHANGED vars
  BY <1>18 DEF vars
<1>19. QED
  BY <1>1, <1>2, <1>3, <1>4, <1>5, <1>6, <1>7, <1>8, <1>9, <1>10, <1>11, <1>12, <1>13, <1>14, <1>15, <1>16, <1>17, <1>18
  DEF Next, Proceed

\* A topic that is being cleared stays so.
LEMMA ClearStep ==
  ASSUME ConstantsAssumption, WellTyped, LockInv, SessionInv, ClearInv, WellTyped', [Next]_vars
  PROVE  ClearInv'
<1> USE DEF diskVars, memVars, brokerVars, WellTyped, TypeOK, CallsTyped, WireTyped, OnDisk, OnWire, LockInv, SessionInv, ClearInv, IsBuried, Alive
<1>1. ASSUME NEW c \in Callers, NEW t \in Topics, PublishPast(c, t)
      PROVE  ClearInv'
  <2>1. \A d \in Callers : pc'[d] \notin {"drain", "tombstone", "shrink"}
    BY <1>1 DEF PublishPast, MayGoPast, ClaimPending, Call, Goes
  <2>2. QED
    BY <2>1
<1>2. ASSUME NEW c \in Callers, NEW t \in Topics, NEW k \in Kinds, Enqueue(c, k, t)
      PROVE  ClearInv'
  BY <1>2 DEF Enqueue, Call, Goes
<1>3. ASSUME NEW c \in Callers, Refuse(c) \/ Published(c) \/ Disowned(c) \/ Abandon(c) \/ PublicationFails(c) \/ DrainCancelled(c) \/ CancelWriter(c) \/ Stall(c)
      PROVE  ClearInv'
  BY <1>3, LandedFacts DEF Refuse, Published, Disowned, Abandon, PublicationFails, DrainCancelled, CancelWriter, Stall, Returns, Next1st
<1>4. ASSUME NEW c \in Callers, Claim(c)
      PROVE  ClearInv'
  BY <1>4 DEF Claim, Take, Next1st, Goes, NeedsClaim
<1>5. ASSUME NEW c \in Callers, BeginClear(c)
      PROVE  ClearInv'
  BY <1>5 DEF BeginClear, Take, Next1st, Goes
<1>6. ASSUME NEW c \in Callers, Own(c)
      PROVE  ClearInv'
  <2>1. \A d \in Callers : pc'[d] \notin {"drain", "tombstone", "shrink"}
    BY <1>6 DEF Own, Take, Next1st, Goes
  <2>2. QED
    BY <2>1
<1>7. ASSUME NEW c \in Callers, Publish(c)
      PROVE  ClearInv'
  <2>1. \A d \in Callers : pc'[d] \notin {"drain", "tombstone", "shrink"}
    BY <1>7 DEF Publish, Take, Next1st, Goes
  <2>2. QED
    BY <2>1
<1>8. ASSUME NEW c \in Callers, Owned(c)
      PROVE  ClearInv'
  <2>1. \A d \in Callers : pc'[d] \notin {"drain", "tombstone", "shrink"}
    BY <1>8 DEF Owned, Goes
  <2>2. QED
    BY <2>1
<1>9. ASSUME NEW c \in Callers, Drained(c)
      PROVE  ClearInv'
  <2>1. PICK m : Sent(c, m) /\ m.kind = "tombstone" /\ m.topic = job[c].topic
    BY <1>9, WhatIsSent DEF LockInv
  <2>2. QED
    BY <1>9, <2>1, AppendOther, AppendValue DEF Drained, Goes, Sent
<1>10. ASSUME NEW c \in Callers, Buried(c)
      PROVE  ClearInv'
  BY <1>10, LandedFacts DEF Buried, Goes, Returns
<1>11. ASSUME NEW c \in Callers, WriteLands(c)
      PROVE  ClearInv'
  <2>1. lock = c /\ pc'[c] \notin {"drain", "tombstone", "shrink"}
        /\ \A d \in Callers : d # c => pc'[d] = pc[d]
    BY <1>11 DEF WriteLands, Persisted, Goes, Returns
  <2>2. \A d \in Callers : pc'[d] \notin {"drain", "tombstone", "shrink"}
    BY <2>1
  <2>3. QED
    BY <2>2
<1>12. ASSUME NEW c \in Callers, WriteFails(c)
      PROVE  ClearInv'
  BY <1>12 DEF WriteFails, FileAfterError, Returns
<1>13. CASE LateWrite
  BY <1>13 DEF LateWrite
<1>14. CASE Reconnect
  BY <1>14, NothingUnderWay DEF Reconnect
<1>15. CASE Load
  BY <1>15 DEF Load
<1>16. CASE Crash
  BY <1>16, NothingUnderWay DEF Crash
<1>17. CASE Land
  <2>1. wire # <<>> /\ wire' = Tail(wire) /\ wire \in Seq(Messages)
        /\ UNCHANGED <<pc, job, ackTopics>>
    BY <1>17 DEF Land
  <2>2. value' = IF wire[1].kind = "manifest" THEN value
                 ELSE [value EXCEPT ![wire[1].topic] =
                         IF wire[1].kind = "value" THEN wire[1].number ELSE 0]
    BY <1>17, <2>1, TailFacts DEF Land
  <2>3. wire[1].kind # "manifest" => wire[1].topic \in Topics
    BY <2>1, TailFacts
  <2>4. ASSUME NEW t \in Topics, IsBuried(t)
        PROVE  IsBuried(t)'
    BY <2>1, <2>2, <2>3, <2>4, TailLeaves, HeadFacts
  <2>5. ASSUME NEW c \in Callers, NEW t \in Topics, Buries(wire, c, t)
        PROVE  Buries(wire', c, t) \/ IsBuried(t)'
    BY <2>1, <2>2, <2>3, <2>5, HeadFacts
  <2>6. \A c \in Callers : pc[c] # "idle" => job[c].topic \in Topics
    OBVIOUS
  <2>7. ASSUME NEW c \in Callers
        PROVE  /\ pc'[c] \in {"drain", "tombstone"} => job'[c].topic \notin ackTopics'
               /\ pc'[c] = "tombstone" => Buries(wire', c, job'[c].topic) \/ IsBuried(job[c].topic)'
               /\ pc'[c] = "shrink" => IsBuried(job[c].topic)'
    BY <2>1, <2>4, <2>5, <2>6
  <2>8. QED
    BY <2>7
<1>18. CASE UNCHANGED vars
  BY <1>18 DEF vars
<1>19. QED
  BY <1>1, <1>2, <1>3, <1>4, <1>5, <1>6, <1>7, <1>8, <1>9, <1>10, <1>11, <1>12, <1>13, <1>14, <1>15, <1>16, <1>17, <1>18
  DEF Next, Proceed

\* What is alive stays owned.
LEMMA OwnedStep ==
  ASSUME ConstantsAssumption, WellTyped, LockInv, SessionInv, ManifestInv, ClearInv, OwnedInv, WellTyped', [Next]_vars
  PROVE  OwnedInv'
<1> USE DEF diskVars, memVars, brokerVars, WellTyped, TypeOK, CallsTyped, WireTyped, OnDisk, OnWire, LockInv, SessionInv, ManifestInv, ClearInv, IsBuried, OwnedInv, Held, Alive, Owning, Writing
<1>1. ASSUME NEW c \in Callers, NEW t \in Topics, PublishPast(c, t)
      PROVE  OwnedInv'
  <2>1. PICK m : SentValue(c, m, t, calls')
    BY <1>1, WhatIsSent DEF LockInv
  <2>2. QED
    BY <1>1, <2>1, AppendOther, AppendValue DEF PublishPast, MayGoPast, ClaimPending, QueuedFor, Call, Goes, SentValue, Sent
<1>2. ASSUME NEW c \in Callers, NEW t \in Topics, NEW k \in Kinds, Enqueue(c, k, t)
      PROVE  OwnedInv'
  BY <1>2 DEF Enqueue, Call, Goes
<1>3. ASSUME NEW c \in Callers, Refuse(c) \/ Published(c) \/ Disowned(c) \/ Abandon(c) \/ PublicationFails(c) \/ DrainCancelled(c) \/ CancelWriter(c) \/ Stall(c)
      PROVE  OwnedInv'
  BY <1>3, LandedFacts DEF Refuse, Published, Disowned, Abandon, PublicationFails, DrainCancelled, CancelWriter, Stall, Returns, Next1st
<1>4. ASSUME NEW c \in Callers, Claim(c)
      PROVE  OwnedInv'
  BY <1>4 DEF Claim, Take, Next1st, Goes, NeedsClaim
<1>5. ASSUME NEW c \in Callers, BeginClear(c)
      PROVE  OwnedInv'
  BY <1>5 DEF BeginClear, Take, Next1st, Goes
<1>6. ASSUME NEW c \in Callers, Own(c)
      PROVE  OwnedInv'
  <2>1. PICK m : SentManifest(c, m, topics)
    BY <1>6, WhatIsSent DEF LockInv
  <2>2. QED
    BY <1>6, <2>1, AppendManifest DEF Own, Take, Next1st, NeedsClaim, Goes, SentManifest, Sent
<1>7. ASSUME NEW c \in Callers, Publish(c)
      PROVE  OwnedInv'
  <2> DEFINE t0 == job[c].topic
  <2>1. PICK m : SentValue(c, m, t0, job[c].number)
    BY <1>7, WhatIsSent DEF LockInv
  <2>2. /\ UNCHANGED <<file, unsynced, topics, loaded, manifest, value, ackTopics, staleDisk>>
        /\ loaded /\ ~staleDisk /\ t0 \in topics /\ ~Writing' /\ ~Writing
        /\ topics = manifest /\ NoManifest(wire)
    BY <1>7 DEF Publish, Take, Next1st, NeedsClaim, Goes
  <2> HIDE DEF t0
  <2>3. /\ \A t : Names(wire, t) => Names(wire', t)
        /\ \A t : Carries(wire', t) => Carries(wire, t) \/ t = t0
    <3>1. /\ wire \in Seq(Messages) /\ m \in Messages /\ wire' = Append(wire, m)
          /\ m.kind = "value" /\ m.topic = t0
      BY <2>1 DEF SentValue, Sent
    <3>2. \A t : Names(wire, t) => Names(wire', t)
      BY <3>1, AppendOther
    <3>3. \A t : Carries(wire', t) => Carries(wire, t) \/ t = t0
      BY <3>1, AppendValue
    <3>4. QED
      BY <3>2, <3>3
  <2>4. Held(t0) /\ \A t : Held(t) => t \in manifest /\ Names(wire', t) /\ t \in topics
    BY <2>2, <2>3, NamesOnlyFacts
  <2>5. t0 \in file \cup unsynced
    BY <2>2
  <2>6. QED
    BY <2>2, <2>3, <2>4, <2>5
<1>8. ASSUME NEW c \in Callers, Owned(c)
      PROVE  OwnedInv'
  <2> DEFINE t0 == job[c].topic
  <2>1. PICK m : SentValue(c, m, t0, job[c].number)
    BY <1>8, WhatIsSent DEF LockInv
  <2>2. /\ UNCHANGED <<file, unsynced, topics, loaded, manifest, value, staleDisk>>
        /\ loaded /\ ~staleDisk /\ t0 \in topics /\ ~Writing' /\ ~Writing /\ ackTopics' = topics
    BY <1>8 DEF Owned, Goes
  <2>3. topics = manifest /\ NoManifest(wire)
    BY <1>8, LandedFacts DEF Owned
  <2> HIDE DEF t0
  <2>4. /\ \A t : Names(wire, t) => Names(wire', t)
        /\ \A t : Carries(wire', t) => Carries(wire, t) \/ t = t0
    <3>1. /\ wire \in Seq(Messages) /\ m \in Messages /\ wire' = Append(wire, m)
          /\ m.kind = "value" /\ m.topic = t0
      BY <2>1 DEF SentValue, Sent
    <3>2. \A t : Names(wire, t) => Names(wire', t)
      BY <3>1, AppendOther
    <3>3. \A t : Carries(wire', t) => Carries(wire, t) \/ t = t0
      BY <3>1, AppendValue
    <3>4. QED
      BY <3>2, <3>3
  <2>5. \A t \in topics : t \in manifest /\ Names(wire', t)
    BY <2>3, <2>4, NamesOnlyFacts
  <2>6. \A t \in topics : Held(t)'
    BY <2>2, <2>5
  <2>7. /\ t0 \in file \cup unsynced
        /\ \A t \in Topics \ unsynced : Alive(t) => t \in file /\ t \in topics
    BY <2>2
  <2>8. QED
    BY <2>2, <2>4, <2>6, <2>7
<1>9. ASSUME NEW c \in Callers, Drained(c)
      PROVE  OwnedInv'
  <2>1. PICK m : Sent(c, m) /\ m.kind = "tombstone" /\ m.topic = job[c].topic
    BY <1>9, WhatIsSent DEF LockInv
  <2>2. QED
    BY <1>9, <2>1, AppendOther, AppendValue DEF Drained, Goes, Sent
<1>10. ASSUME NEW c \in Callers, Buried(c)
      PROVE  OwnedInv'
  BY <1>10, LandedFacts DEF Buried, Goes, Returns
<1>11. ASSUME NEW c \in Callers, WriteLands(c)
      PROVE  OwnedInv'
  <2>1. /\ lock = c /\ Writing /\ file' = write /\ topics' = write
        /\ UNCHANGED <<unsynced, manifest, value, ackTopics>>
    BY <1>11 DEF WriteLands, Persisted
  <2>2. ~Writing'
    <3>1. \A d \in Callers : d # c => pc[d] \notin OnDisk /\ pc'[d] = pc[d]
      BY <1>11, <2>1 DEF WriteLands, Persisted, Goes, Returns
    <3>2. pc'[c] \notin OnDisk /\ ~stalled'
      BY <1>11 DEF WriteLands, Persisted, Goes, Returns
    <3>3. QED
      BY <3>1, <3>2
  <2>3. /\ \A t : Names(wire, t) /\ t \in write => Names(wire', t)
        /\ \A t : Carries(wire', t) => Carries(wire, t)
    <3>1. CASE c \in doomed
      BY <1>11, <3>1 DEF WriteLands, Persisted
    <3>2. CASE c \notin doomed
      <4>1. PICK m : SentManifest(c, m, write)
        BY <1>11, <3>2, WhatIsSent DEF LockInv
      <4>2. QED
        BY <4>1, AppendManifest DEF SentManifest, Sent
    <3>3. QED
      BY <3>1, <3>2
  <2>4. \A t : Held(t) => Held(t)'
    BY <2>1, <2>2, <2>3
  <2>5. \A t \in Topics \ unsynced : Alive(t) => t \in write
    BY <2>1
  <2>6. QED
    BY <2>1, <2>3, <2>4, <2>5
<1>12. ASSUME NEW c \in Callers, WriteFails(c)
      PROVE  OwnedInv'
  BY <1>12 DEF WriteFails, FileAfterError, Returns
<1>13. CASE LateWrite
  BY <1>13 DEF LateWrite
<1>14. CASE Reconnect
  BY <1>14, NothingUnderWay DEF Reconnect
<1>15. CASE Load
  BY <1>15 DEF Load
<1>16. CASE Crash
  BY <1>16, NothingUnderWay DEF Crash
<1>17. CASE Land
  <2>1. wire # <<>> /\ wire' = Tail(wire) /\ wire \in Seq(Messages)
        /\ UNCHANGED <<file, write, stalled, staleDisk, topics, loaded, lock, pc, ackTopics>>
    BY <1>17 DEF Land
  <2>2. /\ value' = IF wire[1].kind = "manifest" THEN value
                    ELSE [value EXCEPT ![wire[1].topic] =
                            IF wire[1].kind = "value" THEN wire[1].number ELSE 0]
        /\ manifest' = IF wire[1].kind = "manifest" THEN wire[1].owned ELSE manifest
        /\ unsynced' = IF wire[1].kind = "manifest" THEN unsynced \ (file \cap wire[1].owned)
                       ELSE unsynced
    BY <1>17, <2>1, TailFacts DEF Land
  <2>3. wire[1].kind # "manifest" => wire[1].topic \in Topics
    BY <2>1, TailFacts
  <2>4. Writing' = Writing
    BY <2>1
  <2>5. \A t : Held(t) => Held(t)'
    BY <2>1, <2>2, <2>4, TailLeaves, HeadFacts
  <2>6. \A t \in Topics : Alive(t)' => Alive(t)
    BY <2>1, <2>2, <2>3, TailLeaves, HeadFacts
  <2>7. ASSUME NEW t \in unsynced, t \notin unsynced'
        PROVE  t \in file /\ Held(t)'
    <3>1. wire[1].kind = "manifest" /\ t \in file /\ t \in wire[1].owned
      BY <2>2, <2>7
    <3>2. t \in manifest' /\ Names(wire', t)
      BY <2>1, <2>2, <3>1, HeadFacts
    <3>3. t \in topics /\ (Writing => t \in write)
      BY <2>1, <3>1, HeadFacts
    <3>4. QED
      BY <2>1, <2>4, <3>1, <3>2, <3>3
  <2>8. ~staleDisk => topics \subseteq file \cup unsynced'
    BY <2>2
  <2>9. QED
    BY <2>1, <2>5, <2>6, <2>7, <2>8
<1>18. CASE UNCHANGED vars
  BY <1>18 DEF vars
<1>19. QED
  BY <1>1, <1>2, <1>3, <1>4, <1>5, <1>6, <1>7, <1>8, <1>9, <1>10, <1>11, <1>12, <1>13, <1>14, <1>15, <1>16, <1>17, <1>18
  DEF Next, Proceed

\* A call has the number of its place among all calls.
LEMMA NumberStep ==
  ASSUME ConstantsAssumption, WellTyped, LockInv, NumberInv, WellTyped', [Next]_vars
  PROVE  NumberInv'
<1> USE DEF NumberInv
<1>1. /\ lock \in Callers \cup {None} /\ calls \in Nat /\ None \notin Callers
      /\ pc \in [Callers -> Awaits] /\ job \in [Callers -> Jobs]
      /\ \A d \in Callers : job[d].number \in Nat
  BY DEF WellTyped, CallsTyped, Jobs, ConstantsAssumption
<1>2. ASSUME NEW c \in Callers, Returns(c), UNCHANGED calls
      PROVE  NumberInv'
  <2>1. /\ pc'[c] = "idle" /\ job'[c].number = 0 /\ lock' \in {lock, None} /\ lock' # c
        /\ \A d \in Callers : d # c => pc'[d] = pc[d] /\ job'[d] = job[d]
    BY <1>1, <1>2 DEF Returns, NoJob
  <2>2. QED
    BY <1>1, <1>2, <2>1
<1>3. ASSUME NEW c \in Callers, NEW w \in Awaits, Goes(c, w), w # "queued", pc[c] # "idle",
             UNCHANGED <<lock, job, calls>>
      PROVE  NumberInv'
  <2>1. pc'[c] = w /\ \A d \in Callers : d # c => pc'[d] = pc[d]
    BY <1>1, <1>3 DEF Goes
  <2>2. QED
    BY <1>1, <1>3, <2>1
<1>4. ASSUME NEW c \in Callers, NEW w \in Awaits, Take(c, w), w # "queued", UNCHANGED calls
      PROVE  NumberInv'
  <2>1. /\ pc'[c] = w /\ \A d \in Callers : d # c => pc'[d] = pc[d]
        /\ pc[c] = "queued" /\ lock' = c /\ job' = job
        /\ \A d \in Callers : pc[d] = "queued" => job[c].number <= job[d].number
    BY <1>1, <1>4 DEF Take, Goes, Next1st
  <2>2. \A d \in Callers : pc'[d] = "queued" => job[c].number < job[d].number
    BY <1>1, <1>4, <2>1
  <2>3. QED
    BY <1>1, <1>4, <2>1, <2>2
<1>5. ASSUME NEW c \in Callers, NEW k, NEW t, NEW w, Call(c, k, t), Goes(c, w), UNCHANGED lock
      PROVE  NumberInv'
  <2>1. /\ calls' = calls + 1 /\ job'[c].number = calls + 1 /\ pc[c] = "idle"
        /\ \A d \in Callers : d # c => pc'[d] = pc[d] /\ job'[d] = job[d]
    BY <1>1, <1>5 DEF Call, Goes
  <2>2. lock # c
    BY <2>1 DEF LockInv
  <2>3. QED
    BY <1>1, <1>5, <2>1, <2>2
<1>6. ASSUME NEW c \in Callers, Proceed(c)
      PROVE  NumberInv'
  <2>1. CASE Refuse(c) \/ Published(c) \/ Disowned(c)
    BY <1>2, <2>1 DEF Refuse, Published, Disowned
  <2>2. CASE Claim(c) \/ Own(c) \/ Publish(c) \/ BeginClear(c)
    BY <1>4, <2>2 DEF Claim, Own, Publish, BeginClear, Take, Awaits, OnDisk, OnWire
  <2>3. CASE Owned(c) \/ Drained(c)
    BY <1>3, <2>3 DEF Owned, Drained, Awaits, OnWire
  <2>4. CASE Buried(c)
    BY <1>2, <1>3, <2>4 DEF Buried, Awaits, OnDisk
  <2>5. QED
    BY <1>6, <2>1, <2>2, <2>3, <2>4 DEF Proceed
<1>7. ASSUME NEW c \in Callers, Abandon(c) \/ PublicationFails(c) \/ DrainCancelled(c)
                                \/ WriteFails(c) \/ Stall(c)
      PROVE  NumberInv'
  BY <1>2, <1>7 DEF Abandon, PublicationFails, DrainCancelled, WriteFails, Stall
<1>8. ASSUME NEW c \in Callers, WriteLands(c)
      PROVE  NumberInv'
  BY <1>2, <1>3, <1>8 DEF WriteLands, Persisted, Awaits, OnDisk, OnWire
<1>9. ASSUME NEW c \in Callers, CancelWriter(c)
      PROVE  NumberInv'
  BY <1>9 DEF CancelWriter
<1>10. ASSUME NEW c \in Callers,
              \/ \E t \in Topics : PublishPast(c, t)
              \/ \E t \in Topics, k \in Kinds : Enqueue(c, k, t)
       PROVE  NumberInv'
  BY <1>5, <1>10 DEF PublishPast, Enqueue
<1>11. CASE Reconnect
  <2>1. /\ calls' = calls
        /\ \A d \in Callers : pc'[d] \in {pc[d], "idle"} /\ pc'[d] # "queued"
                              /\ (job'[d] = job[d] \/ (pc'[d] = "idle" /\ job'[d].number = 0))
    BY <1>1, <1>11 DEF Reconnect, OnDisk, NoJob
  <2>2. QED
    BY <1>1, <2>1
<1>12. CASE Crash
  <2>1. /\ calls' = calls
        /\ \A d \in Callers : pc'[d] = "idle" /\ job'[d].number = 0
    BY <1>12 DEF Crash, NoJob
  <2>2. QED
    BY <1>1, <2>1
<1>13. CASE LateWrite \/ Load \/ Land \/ UNCHANGED vars
  BY <1>13 DEF LateWrite, Load, Land, vars
<1>14. QED
  BY <1>6, <1>7, <1>8, <1>9, <1>10, <1>11, <1>12, <1>13 DEF Next

\* Values stay in order.
LEMMA OrderStep ==
  ASSUME ConstantsAssumption, WellTyped, WellTyped', LockInv, SessionInv, NumberInv, OrderInv,
         [Next]_vars
  PROVE  OrderInv'
<1> DEFINE Later(d) == WillSend(d)' => WillSend(d) /\ job'[d] = job[d]
<1> USE DEF OrderInv
<1>1. /\ lock \in Callers \cup {None} /\ calls \in Nat /\ None \notin Callers
      /\ pc \in [Callers -> Awaits] /\ job \in [Callers -> Jobs] /\ newest \in [Topics -> Nat]
      /\ \A d \in Callers : job[d].number \in Nat
      /\ \A d \in Callers : WillSend(d) => job[d].topic \in Topics
      /\ wire \in Seq(Messages)
  BY DEF WellTyped, TypeOK, CallsTyped, WireTyped, Jobs, ConstantsAssumption, WillSend
<1>2. ASSUME UNCHANGED <<newest, calls>>, \A d \in Callers : Later(d), wire' \in {wire, <<>>}
      PROVE  OrderInv'
  BY <1>1, <1>2, NothingUnderWay
<1>3. ASSUME NEW c \in Callers, NEW m, Sent(c, m), m.kind # "value",
             UNCHANGED <<newest, calls>>, \A d \in Callers : Later(d)
      PROVE  OrderInv'
  <2>1. \A t \in Topics : /\ Before(wire', t, calls + 1) /\ Ordered(wire', t)
                          /\ From(wire', t, newest[t])
    BY <1>1, <1>3, AppendOrder DEF Sent
  <2>2. ASSUME NEW d \in Callers, WillSend(d)
        PROVE  Before(wire', job[d].topic, job[d].number)
    BY <1>1, <1>3, <2>2, AppendOrder DEF Sent
  <2>3. QED
    BY <1>3, <2>1, <2>2
<1>4. ASSUME NEW c \in Callers, NEW m, NEW t \in Topics, NEW n \in Nat, SentValue(c, m, t, n),
             newest' = newest, calls' \in {calls, calls + 1}, n <= calls',
             newest[t] <= n, Before(wire, t, n),
             \A d \in Callers : Later(d) /\ (WillSend(d)' /\ job[d].topic = t => n < job[d].number)
      PROVE  OrderInv'
  <2>1. /\ m \in Messages /\ wire' = Append(wire, m)
        /\ m.kind = "value" /\ m.topic = t /\ m.number = n
    BY <1>4 DEF SentValue, Sent
  <2>2. \A u \in Topics : Ordered(wire', u) /\ From(wire', u, newest[u])
    BY <1>1, <1>4, <2>1, AppendOrder
  <2>3. ASSUME NEW u \in Topics
        PROVE  newest[u] <= calls' /\ Before(wire', u, calls' + 1)
    <3>1. Before(wire, u, calls' + 1)
      BY <1>1, <1>4, BeforeGrows
    <3>2. QED
      BY <1>1, <1>4, <2>1, <3>1, AppendOrder
  <2>4. ASSUME NEW d \in Callers, WillSend(d)'
        PROVE  /\ newest[job'[d].topic] < job'[d].number
               /\ Before(wire', job'[d].topic, job'[d].number)
    <3>1. WillSend(d) /\ job'[d] = job[d] /\ (job[d].topic = t => n < job[d].number)
      BY <1>4, <2>4
    <3>2. newest[job[d].topic] < job[d].number /\ Before(wire, job[d].topic, job[d].number)
      BY <3>1
    <3>3. Before(wire', job[d].topic, job[d].number)
      BY <1>1, <2>1, <3>1, <3>2, AppendOrder
    <3>4. QED
      BY <3>1, <3>2, <3>3
  <2>5. QED
    BY <1>4, <2>2, <2>3, <2>4
<1>5. ASSUME NEW c \in Callers, Returns(c)
      PROVE  \A d \in Callers : Later(d)
  BY <1>1, <1>5 DEF Returns, WillSend
<1>6. ASSUME NEW c \in Callers, NEW t \in Topics, PublishPast(c, t)
      PROVE  OrderInv'
  <2>1. PICK m : SentValue(c, m, t, calls')
    BY <1>6, WhatIsSent DEF LockInv
  <2>2. /\ newest' = newest /\ calls' = calls + 1 /\ pc'[c] = "fast"
        /\ \A d \in Callers : d # c => pc'[d] = pc[d] /\ job'[d] = job[d]
    BY <1>1, <1>6 DEF PublishPast, Call, Goes, brokerVars
  <2>3. \A d \in Callers : Later(d)
    BY <2>2 DEF WillSend
  <2>4. ASSUME NEW d \in Callers, WillSend(d)', job[d].topic = t
        PROVE  FALSE
    <3>1. WillSend(d) /\ (pc[d] = "queued" \/ lock = d)
      BY <2>3, <2>4 DEF WillSend, LockInv
    <3>2. QED
      BY <1>6, <2>4, <3>1 DEF PublishPast, MayGoPast, QueuedFor, WillSend
  <2>5. newest[t] <= calls' /\ Before(wire, t, calls') /\ calls' \in Nat
    BY <1>1, <2>2
  <2>6. QED
    BY <1>4, <2>1, <2>2, <2>3, <2>4, <2>5
<1>7. ASSUME NEW c \in Callers, NEW t \in Topics, NEW k \in Kinds, Enqueue(c, k, t)
      PROVE  OrderInv'
  <2>1. /\ UNCHANGED <<newest, wire>> /\ calls' = calls + 1
        /\ job'[c].topic = t /\ job'[c].number = calls + 1
        /\ \A d \in Callers : d # c => pc'[d] = pc[d] /\ job'[d] = job[d]
    BY <1>1, <1>7 DEF Enqueue, Call, Goes, brokerVars
  <2>2. ASSUME NEW u \in Topics
        PROVE  newest[u] <= calls' /\ Before(wire, u, calls' + 1)
    <3>1. /\ newest[u] \in Nat /\ newest[u] <= calls /\ Before(wire, u, calls + 1)
          /\ calls + 1 \in Nat /\ calls' + 1 \in Nat /\ calls + 1 <= calls' + 1
      BY <1>1, <2>1
    <3>2. QED
      BY <1>1, <2>1, <3>1, BeforeGrows
  <2>3. ASSUME NEW d \in Callers, WillSend(d)'
        PROVE  /\ newest[job'[d].topic] < job'[d].number
               /\ Before(wire, job'[d].topic, job'[d].number)
    <3>1. CASE d = c
      BY <1>1, <2>1, <3>1
    <3>2. CASE d # c
      BY <2>1, <2>3, <3>2 DEF WillSend
    <3>3. QED
      BY <3>1, <3>2
  <2>4. QED
    BY <2>1, <2>2, <2>3
<1>8. ASSUME NEW c \in Callers,
             \/ Refuse(c) \/ Published(c) \/ Disowned(c) \/ Abandon(c) \/ PublicationFails(c)
             \/ DrainCancelled(c) \/ WriteFails(c) \/ Stall(c)
      PROVE  OrderInv'
  BY <1>2, <1>5, <1>8 DEF Refuse, Published, Disowned, Abandon, PublicationFails,
                          DrainCancelled, WriteFails, Stall, brokerVars
<1>9. ASSUME NEW c \in Callers, Claim(c) \/ BeginClear(c) \/ CancelWriter(c)
      PROVE  OrderInv'
  <2>1. UNCHANGED <<newest, calls, wire, job>>
    BY <1>9 DEF Claim, BeginClear, CancelWriter, Take, brokerVars
  <2>2. \A d \in Callers : Later(d)
    BY <1>1, <1>9, <2>1 DEF Claim, BeginClear, CancelWriter, Take, Next1st, Goes, WillSend
  <2>3. QED
    BY <1>2, <2>1, <2>2
<1>10. ASSUME NEW c \in Callers, Buried(c)
       PROVE  OrderInv'
  <2>1. \A d \in Callers : Later(d)
    BY <1>1, <1>5, <1>10 DEF Buried, Goes, WillSend
  <2>2. QED
    BY <1>2, <1>10, <2>1 DEF Buried, brokerVars
<1>11. ASSUME NEW c \in Callers, Own(c)
       PROVE  OrderInv'
  <2>1. PICK m : SentManifest(c, m, topics)
    BY <1>11, WhatIsSent DEF LockInv
  <2>2. UNCHANGED <<newest, calls>> /\ \A d \in Callers : Later(d)
    BY <1>1, <1>11 DEF Own, Take, Next1st, Goes, WillSend, brokerVars
  <2>3. QED
    BY <1>3, <2>1, <2>2 DEF SentManifest
<1>12. ASSUME NEW c \in Callers, Drained(c)
       PROVE  OrderInv'
  <2>1. PICK m : Sent(c, m) /\ m.kind = "tombstone"
    BY <1>12, WhatIsSent DEF LockInv
  <2>2. UNCHANGED <<newest, calls>> /\ \A d \in Callers : Later(d)
    BY <1>1, <1>12 DEF Drained, Goes, WillSend, brokerVars
  <2>3. QED
    BY <1>3, <2>1, <2>2
<1>13. ASSUME NEW c \in Callers, WriteLands(c)
       PROVE  OrderInv'
  <2>1. UNCHANGED <<newest, calls>>
    BY <1>13 DEF WriteLands, brokerVars
  <2>2. CASE c \in doomed
    BY <1>2, <1>5, <1>13, <2>1, <2>2 DEF WriteLands, Persisted
  <2>3. CASE c \notin doomed
    <3>1. PICK m : SentManifest(c, m, write)
      BY <1>13, <2>3, WhatIsSent DEF LockInv
    <3>2. \A d \in Callers : Later(d)
      BY <1>1, <1>13, <2>3 DEF WriteLands, Persisted, Goes, WillSend
    <3>3. QED
      BY <1>3, <2>1, <3>1, <3>2 DEF SentManifest
  <2>4. QED
    BY <2>2, <2>3
<1>14. ASSUME NEW c \in Callers, Publish(c) \/ Owned(c)
       PROVE  OrderInv'
  <2>1. PICK m : SentValue(c, m, job[c].topic, job[c].number)
    BY <1>14, WhatIsSent DEF LockInv
  <2>2. /\ UNCHANGED <<newest, calls, job>> /\ pc'[c] = "value"
        /\ WillSend(c) /\ lock' = c
        /\ \A d \in Callers : d # c => pc'[d] = pc[d]
    BY <1>1, <1>14 DEF Publish, Owned, Take, Next1st, Goes, WillSend, LockInv, brokerVars
  <2>3. ASSUME NEW d \in Callers, WillSend(d)'
        PROVE  WillSend(d) /\ job'[d] = job[d] /\ job[c].number < job[d].number
    <3>1. d # c /\ WillSend(d)
      BY <2>2, <2>3 DEF WillSend
    <3>2. pc[d] = "queued"
      BY <1>14, <2>2, <3>1 DEF WillSend, LockInv, Publish, Owned, Take, Next1st
    <3>3. job[c].number < job[d].number
      BY <1>1, <1>14, <3>1, <3>2 DEF NumberInv, LockInv, Publish, Owned, Take, Next1st
    <3>4. QED
      BY <2>2, <3>1, <3>3
  <2>4. /\ newest[job[c].topic] <= job[c].number /\ Before(wire, job[c].topic, job[c].number)
        /\ job[c].number <= calls
    BY <1>1, <2>2 DEF NumberInv
  <2>5. QED
    BY <1>1, <1>4, <2>1, <2>2, <2>3, <2>4
<1>15. CASE Reconnect \/ Crash
  <2>1. UNCHANGED <<newest, calls>> /\ wire' = <<>>
    BY <1>15 DEF Reconnect, Crash, brokerVars
  <2>2. \A d \in Callers : Later(d)
    BY <1>1, <1>15 DEF Reconnect, Crash, WillSend, OnDisk
  <2>3. QED
    BY <1>2, <2>1, <2>2
<1>16. CASE Land
  <2>1. /\ wire # <<>> /\ wire' = Tail(wire) /\ UNCHANGED <<pc, job, calls>>
        /\ newest' = IF wire[1].kind = "value"
                     THEN [newest EXCEPT ![wire[1].topic] = wire[1].number] ELSE newest
        /\ wire[1].number \in Nat
        /\ (wire[1].kind = "value" => wire[1].topic \in Topics)
    BY <1>1, <1>16, TailFacts, Elements DEF Land, WellTyped, WireTyped
  <2>2. ASSUME NEW t \in Topics
        PROVE  /\ newest'[t] <= calls /\ Before(wire', t, calls + 1)
               /\ Ordered(wire', t) /\ From(wire', t, newest'[t])
    BY <1>1, <2>1, TailLeaves, HeadFacts
  <2>3. ASSUME NEW d \in Callers, WillSend(d)
        PROVE  /\ newest'[job[d].topic] < job[d].number
               /\ Before(wire', job[d].topic, job[d].number)
    BY <1>1, <2>1, <2>3, TailLeaves, HeadFacts
  <2>4. QED
    BY <2>1, <2>2, <2>3 DEF WillSend
<1>17. CASE LateWrite \/ Load \/ UNCHANGED vars
  BY <1>2, <1>17 DEF LateWrite, Load, vars, brokerVars, WillSend
<1>18. QED
  BY <1>6, <1>7, <1>8, <1>9, <1>10, <1>11, <1>12, <1>13, <1>14, <1>15, <1>16, <1>17
  DEF Next, Proceed

-----------------------------------------------------------------------------
(* The theorems. *)

IInv ==
  WellTyped /\ LockInv /\ SessionInv /\ ManifestInv /\ ClearInv /\ OwnedInv /\ NumberInv /\ OrderInv

\* It holds at the start.
LEMMA InitHolds ==
  ASSUME ConstantsAssumption, Init
  PROVE  IInv
<1> USE DEF Init
<1>1. NoJob \in Jobs /\ "idle" \in Awaits
  BY DEF NoJob, Jobs, Awaits
<1>2. WellTyped
  <2>1. CallsTyped
    BY <1>1 DEF CallsTyped
  <2>2. WireTyped
    BY DEF WireTyped
  <2>3. TypeOK
    BY <1>1 DEF TypeOK
  <2>4. QED
    BY <2>1, <2>2, <2>3 DEF WellTyped
<1>3. LockInv /\ SessionInv
  BY DEF LockInv, SessionInv, Writing, OnDisk, Owning, ConstantsAssumption
<1>4. ManifestInv /\ ClearInv /\ OwnedInv
  BY NothingUnderWay DEF ManifestInv, ClearInv, OwnedInv, Writing, OnDisk, Alive
<1>5. NumberInv /\ OrderInv
  BY NothingUnderWay DEF NumberInv, OrderInv, WillSend, NoJob, ConstantsAssumption
<1>6. QED
  BY <1>2, <1>3, <1>4, <1>5 DEF IInv

\* Every step keeps it.
LEMMA StepHolds ==
  ASSUME ConstantsAssumption, IInv, [Next]_vars
  PROVE  IInv'
<1> USE DEF IInv
<1>1. WellTyped'
  BY TypeStep DEF LockInv
<1>2. LockInv' /\ SessionInv'
  BY <1>1, LockStep, SessionStep
<1>3. ManifestInv' /\ ClearInv' /\ OwnedInv'
  BY <1>1, ManifestStep, ClearStep, OwnedStep
<1>4. NumberInv' /\ OrderInv'
  BY <1>1, NumberStep, OrderStep
<1>5. QED
  BY <1>1, <1>2, <1>3, <1>4

\* The inductive invariant always holds.
THEOREM InvariantHolds == Spec => []IInv
BY ConstantsAssumption, InitHolds, StepHolds, PTL DEF Spec

\* The ledger keeps its types.
THEOREM TypeCorrect == Spec => []TypeOK
<1>1. IInv => TypeOK
  BY DEF IInv, WellTyped
<1>2. QED
  BY <1>1, InvariantHolds, PTL

\* What is retained on the broker is recorded in the file and in the manifest, so
\* that no end of the process leaves a value that nothing can find.
THEOREM NothingIsOrphaned == Spec => []RetainedIsOwned
<1>1. IInv => RetainedIsOwned
  BY DEF IInv, OwnedInv, Alive, Held, RetainedIsOwned
<1>2. QED
  BY <1>1, InvariantHolds, PTL

\* The values of a topic reach the broker in the order of their calls.
THEOREM ValuesKeepTheirOrder == Spec => PublishedInOrder
<1>1. ASSUME IInv, [Next]_vars, NEW t \in Topics
      PROVE  newest'[t] >= newest[t]
  <2>1. /\ newest \in [Topics -> Nat] /\ wire \in Seq(Messages)
        /\ \A u \in Topics : From(wire, u, newest[u])
    BY <1>1 DEF IInv, WellTyped, TypeOK, WireTyped, OrderInv
  <2>2. CASE Land
    <3>1. /\ wire # <<>>
          /\ newest' = IF wire[1].kind = "value"
                       THEN [newest EXCEPT ![wire[1].topic] = wire[1].number] ELSE newest
          /\ wire[1].number \in Nat
      BY <2>1, <2>2, TailFacts, Elements DEF Land
    <3>2. QED
      BY <2>1, <3>1, HeadFacts
  <2>3. CASE newest' = newest
    BY <2>1, <2>3
  <2>4. Land \/ newest' = newest
    <3>1. ASSUME NEW c \in Callers, Proceed(c)
          PROVE  newest' = newest
      BY <3>1 DEF Proceed, Refuse, Claim, Own, Publish, Owned, Published, BeginClear, Drained,
                  Buried, Disowned, Take, brokerVars
    <3>2. QED
      BY <1>1, <3>1 DEF Next, PublishPast, Enqueue, Abandon, PublicationFails, DrainCancelled,
         WriteLands, WriteFails, CancelWriter, Stall, LateWrite, Reconnect, Load, Crash, vars, brokerVars
  <2>5. QED
    BY <2>2, <2>3, <2>4
<1>2. IInv /\ [Next]_vars => [\A t \in Topics : newest'[t] >= newest[t]]_vars
  BY <1>1
<1>3. QED
  BY <1>2, InvariantHolds, PTL DEF Spec, PublishedInOrder
=============================================================================
