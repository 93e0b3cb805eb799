--------------------------- MODULE Watchdogs_proofs ---------------------------
(***************************************************************************)
(* Proofs about the two watchdogs of a panel, which do not share a state.  *)
(*                                                                         *)
(* The Wi-Fi watchdog and the guard of the reboots, for every policy,      *)
(* threshold and number of failures: reboots are spaced and capped,        *)
(* whatever happens to clocks, files and processes, and every recovery is  *)
(* earned.                                                                 *)
(*                                                                         *)
(* The bus watchdog and its agent, for every threshold, retention and      *)
(* number of failures: the records stay well typed and honest, and a       *)
(* reboot is attributed to the bus.                                        *)
(***************************************************************************)
EXTENDS WifiWatchdog, BusWatchdog, FunctionTheorems, FiniteSetTheorems, TLAPS

USE GuardAssumption, ThresholdsAssumption

Kept(S) == {e \in S : e.kept}
Entries == [age : 0 .. Window, kept : BOOLEAN]

\* Each of the reboots K has a stamp of its own that is no older.
Holds(st, K) ==
    \E f \in Injection(K, Slots) : \A e \in K : st[f[e]] <= e.age

-----------------------------------------------------------------------------
(* The guard's invariant. *)

GuardTypes ==
    /\ readable \in BOOLEAN /\ writable \in BOOLEAN
    /\ stamps \in [Slots -> Int]
    /\ badFor \in 0 .. None /\ clamp \in Int
    /\ log \subseteq Entries

\* What the memory says of the time that has passed is true of every reboot.
MemoryIsEarned ==
    \A e \in log :
        /\ badFor # None => badFor <= e.age
        /\ clamp # None => Cooldown <= e.age /\ clamp <= e.age

\* A reboot that the file has, or that happened while the file could be read,
\* is no newer than some stamp.
StampsCover == \A e \in log : readable \/ e.kept => \E i \in Slots : stamps[i] <= e.age

GuardInv == GuardTypes /\ MemoryIsEarned /\ StampsCover /\ Holds(stamps, Kept(log))

\* The ages that count are below Far.
LEMMA FarIsFar == Far \in Nat /\ Window < Far /\ None \in Nat /\ Far < None
<1>1. MaxFailures * MaxStep \in Nat
  BY DEF GuardAssumption
<1> QED
  BY <1>1 DEF GuardAssumption, Far, None

\* Ages grow together.
LEMMA OlderTogether ==
    ASSUME NEW a \in Int, NEW b \in Nat, NEW d \in Int, NEW fast \in Nat, d <= fast
    PROVE  /\ OlderBy(a, d) \in Int /\ OlderBy(a, d) <= Far
           /\ OlderBy(b, fast) \in 0 .. Far
           /\ OlderBy(b, fast) <= Window => b <= Window
           /\ a <= b => OlderBy(a, d) <= OlderBy(b, fast)
           /\ a \in Nat /\ d \in Nat => OlderBy(a, d) \in Nat
           /\ b <= Window => b <= OlderBy(b, fast)
BY FarIsFar DEF OlderBy, GuardAssumption

\* Normalized ages keep to what an anchor that is earned says of the reboots.
LEMMA NormalizedFacts ==
    ASSUME GuardTypes, NEW cl \in Int, NEW S \in SUBSET Entries,
           cl \in 0 .. Far => \A e \in S : cl <= e.age
    PROVE  /\ Normalized(cl) \in [Slots -> 0 .. None]
           /\ \A i \in Slots : Normalized(cl)[i] <= Window \/ Normalized(cl)[i] = None
           /\ readable => \A i \in Slots : \A e \in S :
                stamps[i] <= e.age => Normalized(cl)[i] <= e.age
<1> DEFINE Past(age) == IF age >= 0 THEN age ELSE IF cl \in 0 .. Far THEN cl ELSE 0
<1>1. \A a \in Int : Past(a) \in Nat
  OBVIOUS
<1>2. \A a \in Int : \A e \in S : a <= e.age => Past(a) <= e.age
  BY DEF Entries
<1>3. Normalized(cl) = [i \in Slots |-> IF readable /\ Past(stamps[i]) <= Window
                                        THEN Past(stamps[i]) ELSE None]
  BY DEF Normalized
<1>4. \A e \in S : e.age \in 0 .. Window
  BY DEF Entries
<1>5. \A i \in Slots : stamps[i] \in Int
  BY DEF GuardTypes
<1>6. Window \in Nat
  BY DEF GuardAssumption
<1> HIDE DEF Past
<1> QED
  BY <1>1, <1>2, <1>3, <1>4, <1>5, <1>6, FarIsFar DEF GuardTypes

\* What a reading of the file answers is true of every reboot.
LEMMA ReadingFacts ==
    ASSUME GuardInv
    PROVE  /\ Reading.bad \in 0 .. None /\ Reading.clamp \in Int
           /\ Reading.ages \in [Slots -> 0 .. None]
           /\ \A i \in Slots : Reading.ages[i] <= Window \/ Reading.ages[i] = None
           /\ readable => \A i \in Slots : \A e \in log :
                stamps[i] <= e.age => Reading.ages[i] <= e.age
           /\ \A e \in log :
                /\ Reading.bad # None => Reading.bad <= e.age
                /\ Reading.clamp # None => Cooldown <= e.age /\ Reading.clamp <= e.age
           /\ Reading.can => Spaced /\ Free(Reading.ages) # {}
<1> DEFINE clampNow == IF Future /\ ~NewEpisode THEN clamp ELSE None
           begun == IF NewEpisode THEN None ELSE badFor
           bad == ~readable \/ (Future /\ clampNow = None)
           waited == IF bad /\ begun = None THEN 0 ELSE begun
           waiting == waited # None /\ waited < Cooldown
           anchor == IF waited # None /\ ~waiting /\ Future THEN 0 ELSE clampNow
           ages == Normalized(anchor)
<1>1. Reading = [bad |-> IF waiting THEN waited ELSE None,
                 clamp |-> IF waiting THEN clampNow ELSE anchor,
                 lastBad |-> ~readable \/ Future,
                 ages |-> ages,
                 can |-> ~waiting /\ Allows(ages)]
  BY DEF Reading
<1>2. /\ clampNow \in Int /\ waited \in 0 .. None /\ anchor \in Int
      /\ Cooldown \in Nat /\ 0 < Cooldown /\ Cooldown <= Window
  BY FarIsFar DEF GuardInv, GuardTypes, GuardAssumption
<1>3. \A e \in log : e.age \in 0 .. Window /\ e.kept \in BOOLEAN
  BY DEF GuardInv, GuardTypes, Entries
<1>4. \A e \in log :
        /\ waited # None => waited <= e.age
        /\ clampNow # None => Cooldown <= e.age /\ clampNow <= e.age
  BY <1>3 DEF GuardInv, MemoryIsEarned
<1>5. \A e \in log : anchor # None => Cooldown <= e.age /\ anchor <= e.age
  BY <1>2, <1>3, <1>4
<1>6. anchor \in 0 .. Far => anchor # None
  BY FarIsFar
<1>7. bad => waited # None
  BY <1>2, FarIsFar DEF GuardInv, GuardTypes
<1>8. ~bad => readable /\ (Future => clampNow # None)
  BY DEF GuardInv, GuardTypes
<1> HIDE DEF clampNow, begun, bad, waited, waiting, anchor
<1>9. /\ ages \in [Slots -> 0 .. None]
      /\ \A i \in Slots : ages[i] <= Window \/ ages[i] = None
      /\ readable => \A i \in Slots : \A e \in log : stamps[i] <= e.age => ages[i] <= e.age
  BY <1>2, <1>5, <1>6, NormalizedFacts DEF GuardInv, GuardTypes
<1>10. ASSUME ~waiting, Allows(ages) PROVE Spaced /\ Free(ages) # {}
  <2>1. CASE waited # None
    BY <1>2, <1>3, <1>4, <1>10, <2>1 DEF waiting, Spaced, Allows
  <2>2. CASE waited = None
    <3>1. readable /\ (Future => clampNow # None)
      BY <1>7, <1>8, <2>2
    <3>2. \A e \in log : \E i \in Slots : ages[i] <= e.age
      BY <1>9, <3>1 DEF GuardInv, StampsCover
    <3>3. \A i \in Slots : ages[i] >= Cooldown /\ ages[i] \in Int
      BY <1>9, <1>10, FarIsFar DEF Allows
    <3> QED
      BY <1>2, <1>3, <1>10, <3>2, <3>3 DEF Spaced, Allows
  <2> QED
    BY <2>1, <2>2
<1> HIDE DEF ages
<1>11. /\ Reading.bad = IF waiting THEN waited ELSE None
       /\ Reading.clamp = IF waiting THEN clampNow ELSE anchor
       /\ Reading.ages = ages
       /\ Reading.can => ~waiting /\ Allows(ages)
  BY <1>1
<1>12. \A e \in log :
         /\ Reading.bad # None => Reading.bad <= e.age
         /\ Reading.clamp # None => Cooldown <= e.age /\ Reading.clamp <= e.age
  BY <1>4, <1>5, <1>11
<1>13. Reading.bad \in 0 .. None /\ Reading.clamp \in Int
  BY <1>2, <1>11, FarIsFar
<1> QED
  BY <1>9, <1>10, <1>11, <1>12, <1>13

-----------------------------------------------------------------------------
(* The stamps of the reboots. *)

\* Every kept reboot keeps its stamp when reboots and stamps grow older.
LEMMA HoldsOnward ==
    ASSUME NEW st, NEW st2, NEW S, NEW T,
           Holds(st, S), NEW h \in [T -> S],
           \A a, b \in T : h[a] = h[b] => a = b,
           \A e \in T : \A i \in Slots : st[i] <= h[e].age => st2[i] <= e.age
    PROVE  Holds(st2, T)
<1>1. PICK f \in Injection(S, Slots) : \A e \in S : st[f[e]] <= e.age
  BY DEF Holds
<1> DEFINE g == [e \in T |-> f[h[e]]]
<1>2. f \in [S -> Slots] /\ \A a, b \in S : f[a] = f[b] => a = b
  BY <1>1 DEF Injection, IsInjective
<1>3. g \in [T -> Slots] /\ \A a, b \in T : g[a] = g[b] => a = b
  BY <1>2
<1>4. g \in Injection(T, Slots)
  BY <1>3 DEF Injection, IsInjective
<1>5. \A e \in T : st2[g[e]] <= e.age
  BY <1>1, <1>2
<1> QED
  BY <1>4, <1>5 DEF Holds

\* A new stamp takes a free slot: it holds a reboot more.
LEMMA StampedFacts ==
    ASSUME NEW ages \in [Slots -> 0 .. None], Free(ages) # {},
           \A i \in Slots : ages[i] <= Window \/ ages[i] = None
    PROVE  /\ NewlyStamped(ages) \in [Slots -> 0 .. None]
           /\ 1 \in Slots /\ NewlyStamped(ages)[1] = 0
           /\ \A S \in SUBSET Entries : Holds(ages, S) =>
                /\ Holds(NewlyStamped(ages), S)
                /\ Holds(NewlyStamped(ages), S \cup {[age |-> 0, kept |-> TRUE]})
<1> DEFINE hole == CHOOSE i \in Free(ages) : TRUE
           new == [age |-> 0, kept |-> TRUE]
<1>1. hole \in Slots /\ ages[hole] = None
  BY DEF Free
<1> HIDE DEF hole
<1>2. NewlyStamped(ages) = [i \in Slots |-> IF i = 1 THEN 0
                                            ELSE IF i <= hole THEN ages[i - 1] ELSE ages[i]]
  BY DEF NewlyStamped, hole
<1>3. Cap \in Nat /\ 0 < Cap /\ Window \in Nat
  BY DEF GuardAssumption
<1>4. 1 \in Slots
  BY <1>3 DEF Slots
<1>5. (\A i \in Slots : ages[i] \in 0 .. None) /\ 0 \in 0 .. None
  BY FarIsFar
<1>6. NewlyStamped(ages) \in [Slots -> 0 .. None]
  <2>1. \A i \in Slots : i # 1 /\ i <= hole => i - 1 \in Slots
    BY <1>1, <1>3 DEF Slots
  <2> QED
    BY <1>2, <1>5, <2>1
<1>7. ASSUME NEW S \in SUBSET Entries, Holds(ages, S)
      PROVE  Holds(NewlyStamped(ages), S) /\ Holds(NewlyStamped(ages), S \cup {new})
  <2>1. PICK f \in Injection(S, Slots) : \A e \in S : ages[f[e]] <= e.age
    BY <1>7 DEF Holds
  <2>2. f \in [S -> Slots] /\ \A a, b \in S : f[a] = f[b] => a = b
    BY <2>1 DEF Injection, IsInjective
  <2>3. \A e \in S : f[e] # hole
    BY <1>1, <2>1, <2>2, <1>3, FarIsFar DEF Entries
  <2> DEFINE Moved(i) == IF i < hole THEN i + 1 ELSE i
             g == [e \in S |-> Moved(f[e])]
             k == [e \in S \cup {new} |-> IF e = new THEN 1 ELSE Moved(f[e])]
  <2>4. \A i \in Slots : i # hole =>
          Moved(i) \in Slots /\ Moved(i) # 1 /\ NewlyStamped(ages)[Moved(i)] = ages[i]
    BY <1>1, <1>2, <1>3 DEF Slots
  <2>5. \A i, j \in Slots : i # hole /\ j # hole /\ Moved(i) = Moved(j) => i = j
    <3>1. hole \in Int /\ Slots \subseteq Int
      BY <1>1 DEF Slots
    <3>2. \A i, j \in Int : i # hole /\ j # hole /\ Moved(i) = Moved(j) => i = j
      BY <3>1
    <3> QED
      BY <3>1, <3>2
  <2> HIDE DEF Moved
  <2>6. Holds(NewlyStamped(ages), S)
    <3>1. g \in Injection(S, Slots)
      BY <2>2, <2>3, <2>4, <2>5 DEF Injection, IsInjective
    <3> QED
      BY <2>1, <2>2, <2>3, <2>4, <3>1 DEF Holds
  <2>7. Holds(NewlyStamped(ages), S \cup {new})
    <3>1. k \in Injection(S \cup {new}, Slots)
      <4>1. k \in [S \cup {new} -> Slots]
        BY <1>4, <2>2, <2>3, <2>4
      <4>2. \A a, b \in S \cup {new} : k[a] = k[b] => a = b
        BY <2>2, <2>3, <2>4, <2>5
      <4> QED
        BY <4>1, <4>2 DEF Injection, IsInjective
    <3>2. ASSUME NEW e \in S \cup {new} PROVE NewlyStamped(ages)[k[e]] <= e.age
      <4>1. CASE e = new
        BY <1>2, <1>4, <4>1
      <4>2. CASE e # new
        <5>1. e \in S /\ k[e] = Moved(f[e]) /\ f[e] \in Slots /\ f[e] # hole
          BY <2>2, <2>3, <4>2
        <5>2. NewlyStamped(ages)[Moved(f[e])] = ages[f[e]]
          BY <2>4, <5>1
        <5> QED
          BY <2>1, <5>1, <5>2
      <4> QED
        BY <4>1, <4>2
    <3> QED
      BY <3>1, <3>2 DEF Holds
  <2> QED
    BY <2>6, <2>7
<1> QED
  BY <1>2, <1>4, <1>6, <1>7

\* While every reboot has a stamp of its own and one slot is free, the cap is kept.
LEMMA FreeSlotCaps ==
    ASSUME NEW ages \in [Slots -> 0 .. None], Free(ages) # {},
           NEW S \in SUBSET Entries, Holds(ages, S)
    PROVE  Cardinality(S) < Cap
<1>1. PICK hole \in Slots : ages[hole] = None
  BY DEF Free
<1>2. PICK f \in Injection(S, Slots) : \A e \in S : ages[f[e]] <= e.age
  BY DEF Holds
<1>3. f \in [S -> Slots] /\ \A a, b \in S : f[a] = f[b] => a = b
  BY <1>2 DEF Injection, IsInjective
<1>4. Cap \in Nat /\ 0 < Cap /\ Window \in Nat
  BY DEF GuardAssumption
<1>5. \A e \in S : f[e] # hole
  BY <1>1, <1>2, <1>3, <1>4, FarIsFar DEF Entries
<1>6. f \in Injection(S, Slots \ {hole})
  BY <1>3, <1>5 DEF Injection, IsInjective
<1>7. IsFiniteSet(Slots) /\ Cardinality(Slots) = Cap
  <2>1. 1 \in Int /\ Cap \in Int
    BY <1>4
  <2>2. IsFiniteSet(1 .. Cap) /\ Cardinality(1 .. Cap) = IF 1 > Cap THEN 0 ELSE Cap - 1 + 1
    BY <2>1, FS_Interval, Zenon
  <2> QED
    BY <1>4, <2>2 DEF Slots
<1>8. IsFiniteSet(Slots \ {hole}) /\ Cardinality(Slots \ {hole}) = Cap - 1
  BY <1>1, <1>7, FS_RemoveElement
<1>9. IsFiniteSet(S) /\ Cardinality(S) <= Cap - 1
  BY <1>6, <1>8, FS_Injection
<1>10. Cardinality(S) \in Nat
  BY <1>9, FS_CardinalityType
<1> QED
  BY <1>4, <1>9, <1>10

-----------------------------------------------------------------------------
(* The steps of the guard. *)

\* An empty history needs no stamp.
LEMMA HoldsNothing == ASSUME NEW st PROVE Holds(st, {})
<1> DEFINE f == [e \in {} |-> 1]
<1>1. f \in Injection({}, Slots)
  BY DEF Injection, IsInjective
<1> QED
  BY <1>1 DEF Holds

\* A watchdog on a new panel.
LEMMA StartIsGuarded == GuardInit => GuardInv
<1> SUFFICES ASSUME GuardInit PROVE GuardInv
  OBVIOUS
<1>1. GuardTypes
  BY FarIsFar DEF GuardInit, GuardTypes
<1>2. MemoryIsEarned /\ StampsCover
  BY DEF GuardInit, MemoryIsEarned, StampsCover
<1>3. Kept(log) = {}
  BY DEF GuardInit, Kept
<1> QED
  BY <1>1, <1>2, <1>3, HoldsNothing DEF GuardInv

\* What is kept of the history when the file is replaced.
LEMMA StillKeptFacts ==
    ASSUME GuardTypes
    PROVE  /\ StillKept \subseteq Entries
           /\ readable \/ ~writable => StillKept = log
           /\ ~readable /\ writable => Kept(StillKept) = {}
           /\ \A e \in StillKept : \E d \in log : d.age = e.age
<1>1. \A e \in log : /\ [e EXCEPT !.kept = @ /\ (readable \/ ~writable)] \in Entries
                     /\ [e EXCEPT !.kept = @ /\ (readable \/ ~writable)].age = e.age
                     /\ readable \/ ~writable =>
                          [e EXCEPT !.kept = @ /\ (readable \/ ~writable)] = e
                     /\ ~readable /\ writable =>
                          ~[e EXCEPT !.kept = @ /\ (readable \/ ~writable)].kept
  BY DEF GuardTypes, Entries
<1> QED
  BY <1>1 DEF StillKept, Kept

\* A poll remembers what it read.
LEMMA PollKeeps == GuardInv /\ Poll => GuardInv'
<1> SUFFICES ASSUME GuardInv, Poll PROVE GuardInv'
  OBVIOUS
<1>1. badFor' = Reading.bad /\ clamp' = Reading.clamp
  BY DEF Poll, Remember
<1>2. UNCHANGED <<readable, stamps, writable, log>>
  BY DEF Poll, storage
<1>3. GuardTypes'
  BY <1>1, <1>2, ReadingFacts DEF GuardInv, GuardTypes
<1>4. MemoryIsEarned'
  BY <1>1, <1>2, ReadingFacts DEF MemoryIsEarned
<1>5. StampsCover'
  BY <1>2 DEF GuardInv, StampsCover
<1>6. Holds(stamps, Kept(log))'
  BY <1>2 DEF GuardInv, Holds, Kept
<1> QED
  BY <1>3, <1>4, <1>5, <1>6 DEF GuardInv

\* A reboot that is allowed is in the file, unless the file cannot be written: then
\* stamps lie in the future or the file cannot be read.
LEMMA AllowedKeeps ==
    ASSUME GuardInv, Allowed(Reading),
           log' = StillKept \/ log' = StillKept \cup {[age |-> 0, kept |-> writable]}
    PROVE  /\ readable' \in BOOLEAN /\ writable' \in BOOLEAN
           /\ stamps' \in [Slots -> Int]
           /\ stamps' = stamps \/ stamps' \in [Slots -> 0 .. None]
           /\ log' \subseteq Entries
           /\ StampsCover' /\ Holds(stamps', Kept(log'))
<1> DEFINE ages == Reading.ages
           new == [age |-> 0, kept |-> writable]
<1>1. Window \in Nat /\ writable \in BOOLEAN /\ readable \in BOOLEAN /\ log \subseteq Entries
  BY DEF GuardAssumption, GuardInv, GuardTypes
<1>2. new \in Entries
  BY <1>1 DEF Entries
<1>3. log' \subseteq Entries
  BY <1>2, StillKeptFacts DEF GuardInv
<1>4. \A e \in log' : e.age \in 0 .. Window
  BY <1>3 DEF Entries
<1>5. \/ Kept(log') = Kept(StillKept)
      \/ (writable /\ Kept(log') = Kept(StillKept) \cup {new})
  <2>1. new.kept = writable
    OBVIOUS
  <2> HIDE DEF new
  <2>2. CASE log' = StillKept
    BY <2>2
  <2>3. CASE log' = StillKept \cup {new} /\ writable
    BY <2>1, <2>3 DEF Kept
  <2>4. CASE log' = StillKept \cup {new} /\ ~writable
    BY <2>1, <2>4 DEF Kept
  <2> QED
    BY <2>2, <2>3, <2>4 DEF new
<1>6. CASE Record(Reading)
  <2>1. /\ ages \in [Slots -> 0 .. None]
        /\ \A i \in Slots : ages[i] <= Window \/ ages[i] = None
        /\ Free(ages) # {}
    BY ReadingFacts DEF Allowed
  <2>2. writable /\ writable' = writable /\ readable' = TRUE /\ stamps' = NewlyStamped(ages)
    BY <1>6 DEF Record
  <2> HIDE DEF ages
  <2>3. /\ stamps' \in [Slots -> 0 .. None] /\ stamps' \in [Slots -> Int] /\ 1 \in Slots /\ stamps'[1] = 0
        /\ \A S \in SUBSET Entries : Holds(ages, S) =>
             Holds(stamps', S) /\ Holds(stamps', S \cup {[age |-> 0, kept |-> TRUE]})
    BY <2>1, <2>2, StampedFacts
  <2>4. StampsCover'
    BY <1>4, <2>3 DEF StampsCover
  <2>5. Kept(StillKept) \in SUBSET Entries
    BY StillKeptFacts DEF GuardInv, Kept
  <2>6. Holds(ages, Kept(StillKept))
    <3>1. CASE readable
      <4>1. Kept(StillKept) = Kept(log)
        BY <3>1, StillKeptFacts DEF GuardInv
      <4>2. \A e \in Kept(log) : \A i \in Slots : stamps[i] <= e.age => ages[i] <= e.age
        BY <3>1, ReadingFacts DEF Kept, ages
      <4> DEFINE h == [e \in Kept(log) |-> e]
      <4>3. Holds(stamps, Kept(log)) /\ h \in [Kept(log) -> Kept(log)]
        BY DEF GuardInv
      <4>4. \A a, b \in Kept(log) : h[a] = h[b] => a = b
        OBVIOUS
      <4>5. \A e \in Kept(log) : \A i \in Slots : stamps[i] <= h[e].age => ages[i] <= e.age
        BY <4>2
      <4> HIDE DEF h
      <4>6. Holds(ages, Kept(log))
        BY <4>3, <4>4, <4>5, HoldsOnward
      <4> QED
        BY <4>1, <4>6
    <3>2. CASE ~readable
      BY <2>2, <3>2, StillKeptFacts, HoldsNothing DEF GuardInv
    <3> QED
      BY <3>1, <3>2
  <2>7. Holds(stamps', Kept(log'))
    <3>1. new = [age |-> 0, kept |-> TRUE]
      BY <1>1, <2>2
    <3> QED
      BY <1>5, <2>3, <2>5, <2>6, <3>1
  <2> QED
    BY <1>3, <2>2, <2>3, <2>4, <2>7
<1>7. CASE ~writable /\ Reading.lastBad /\ UNCHANGED storage
  <2>1. UNCHANGED <<readable, stamps, writable>>
    BY <1>7 DEF storage
  <2>2. StillKept = log
    BY <1>7, StillKeptFacts DEF GuardInv
  <2>3. Kept(log') = Kept(log)
    BY <1>5, <1>7, <2>2
  <2>4. Reading.lastBad = (~readable \/ Future)
    BY DEF Reading
  <2>5. readable => \E i \in Slots : stamps[i] <= 0
    BY <1>1, <1>7, <2>4 DEF Future, GuardInv, GuardTypes
  <2>6. \A e \in log' : e \in log \/ e = new
    BY <2>2
  <2>7. StampsCover'
    BY <1>7, <2>1, <2>5, <2>6 DEF StampsCover, GuardInv
  <2>8. Holds(stamps', Kept(log'))
    BY <2>1, <2>3 DEF GuardInv
  <2> QED
    BY <1>1, <1>3, <2>1, <2>7, <2>8 DEF GuardInv, GuardTypes
<1> QED
  BY <1>6, <1>7 DEF Allowed

\* A reboot clears the memory.
LEMMA RebootKeeps == GuardInv /\ GuardedReboot => GuardInv'
<1> SUFFICES ASSUME GuardInv, GuardedReboot PROVE GuardInv'
  OBVIOUS
<1>1. /\ readable' \in BOOLEAN /\ writable' \in BOOLEAN
      /\ stamps' \in [Slots -> Int]
      /\ log' \subseteq Entries
      /\ StampsCover' /\ Holds(stamps', Kept(log'))
  BY AllowedKeeps DEF GuardedReboot
<1>2. badFor' = None /\ clamp' = None
  BY DEF GuardedReboot, Forgotten
<1>3. GuardTypes'
  BY <1>1, <1>2, FarIsFar DEF GuardTypes
<1>4. MemoryIsEarned'
  BY <1>2 DEF MemoryIsEarned
<1> QED
  BY <1>1, <1>3, <1>4 DEF GuardInv

\* A request that is lost left its stamp.
LEMMA RequestKeeps == GuardInv /\ RequestLost => GuardInv'
<1> SUFFICES ASSUME GuardInv, RequestLost PROVE GuardInv'
  OBVIOUS
<1>1. /\ readable' \in BOOLEAN /\ writable' \in BOOLEAN
      /\ stamps' \in [Slots -> Int]
      /\ log' \subseteq Entries
      /\ StampsCover' /\ Holds(stamps', Kept(log'))
  BY AllowedKeeps DEF RequestLost
<1>2. badFor' = Reading.bad /\ clamp' = Reading.clamp /\ log' = StillKept
  BY DEF RequestLost
<1>3. GuardTypes'
  BY <1>1, <1>2, ReadingFacts DEF GuardTypes
<1>4. MemoryIsEarned'
  BY <1>2, ReadingFacts, StillKeptFacts DEF MemoryIsEarned, GuardInv
<1> QED
  BY <1>1, <1>3, <1>4 DEF GuardInv

\* Time passes, or the clock is set: a stamp grows older no faster than its reboot.
LEMMA TimeKeeps ==
    ASSUME GuardInv, NEW wall \in Int, NEW fastest \in Nat, wall <= fastest,
           TimesPass(wall, fastest),
           badFor' = badFor \/ (badFor' = Aged(badFor, 1) /\ fastest = 1)
    PROVE  GuardInv'
<1>1. /\ log \subseteq Entries /\ clamp \in Int /\ badFor \in 0 .. None
      /\ stamps \in [Slots -> Int] /\ Window \in Nat
  BY DEF GuardInv, GuardTypes, GuardAssumption
<1>2. \A e \in log : e.age \in Nat /\ e.age <= Window /\ e.kept \in BOOLEAN
  BY <1>1 DEF Entries
<1> DEFINE Grown(e) == [e EXCEPT !.age = OlderBy(@, fastest)]
<1>3. \A e \in log : Grown(e).age = OlderBy(e.age, fastest) /\ Grown(e).kept = e.kept
                     /\ Grown(e) = [age |-> OlderBy(e.age, fastest), kept |-> e.kept]
  BY <1>1 DEF Entries
<1> HIDE DEF Grown
<1>4. \A e \in log' : e.age <= Window /\ \E d \in log : e = Grown(d)
  BY DEF TimesPass, Grown
<1>5. log' \subseteq Entries
  <2>1. \A d \in log : OlderBy(d.age, fastest) \in 0 .. Far
    BY <1>2, OlderTogether
  <2> QED
    BY <1>1, <1>2, <1>3, <1>4, <2>1 DEF Entries
<1>6. \A i \in Slots : \A d \in log :
        stamps[i] <= d.age => stamps'[i] <= OlderBy(d.age, fastest)
  <2> SUFFICES ASSUME NEW i \in Slots, NEW d \in log, stamps[i] <= d.age
               PROVE  stamps'[i] <= OlderBy(d.age, fastest)
    OBVIOUS
  <2>1. stamps'[i] = OlderBy(stamps[i], wall)
    BY <1>1, <1>2, FarIsFar DEF TimesPass, Aged
  <2>2. stamps[i] \in Int
    BY <1>1
  <2> QED
    BY <1>2, <2>1, <2>2, OlderTogether
<1>7. GuardTypes'
  <2>1. /\ readable' = readable /\ writable' = writable
        /\ clamp' = Aged(clamp, wall) /\ stamps' = [i \in Slots |-> Aged(stamps[i], wall)]
    BY DEF TimesPass
  <2>2. \A a \in Int : Aged(a, wall) \in Int
    BY FarIsFar, OlderTogether DEF Aged
  <2>3. badFor' \in 0 .. None
    <3>1. badFor # None => OlderBy(badFor, 1) \in 0 .. Far
      <4>1. badFor \in Nat /\ badFor \in Int /\ 1 \in Nat /\ 1 \in Int /\ 1 <= 1
        BY <1>1
      <4> QED
        BY <4>1, OlderTogether
    <3> QED
      BY <1>1, <3>1, FarIsFar DEF Aged
  <2> QED
    BY <1>1, <1>5, <2>1, <2>2, <2>3 DEF GuardTypes, GuardInv
<1>8. MemoryIsEarned'
  <2> SUFFICES ASSUME NEW e \in log', NEW d \in log, e.age = OlderBy(d.age, fastest),
                      e.age <= Window
               PROVE  /\ badFor' # None => badFor' <= e.age
                      /\ clamp' # None => Cooldown <= e.age /\ clamp' <= e.age
    BY <1>3, <1>4 DEF MemoryIsEarned
  <2>1. /\ badFor # None => badFor <= d.age
        /\ clamp # None => Cooldown <= d.age /\ clamp <= d.age
    BY DEF GuardInv, MemoryIsEarned
  <2>2. d.age <= e.age /\ d.age \in Nat /\ e.age \in Nat
    BY <1>2, OlderTogether
  <2>3. badFor' # None => badFor' <= e.age
    <3>1. CASE badFor' = badFor
      BY <1>1, <2>1, <2>2, <3>1, FarIsFar
    <3>2. CASE badFor' = Aged(badFor, 1) /\ fastest = 1
      <4>1. badFor # None => OlderBy(badFor, 1) <= OlderBy(d.age, 1) /\ OlderBy(badFor, 1) <= Far
        <5>1. badFor \in Int /\ 1 \in Nat /\ 1 \in Int /\ 1 <= 1
          BY <1>1
        <5> QED
          BY <2>1, <2>2, <5>1, OlderTogether
      <4> QED
        BY <1>1, <3>2, <4>1, FarIsFar DEF Aged
    <3> QED
      BY <3>1, <3>2
  <2>4. clamp' # None => Cooldown <= e.age /\ clamp' <= e.age
    <3>1. clamp' = Aged(clamp, wall) /\ Cooldown \in Nat
      BY DEF TimesPass, GuardAssumption
    <3>2. clamp # None => OlderBy(clamp, wall) <= OlderBy(d.age, fastest)
      BY <1>1, <2>1, <2>2, OlderTogether
    <3> QED
      BY <1>1, <2>1, <2>2, <3>1, <3>2, FarIsFar DEF Aged
  <2> QED
    BY <2>3, <2>4
<1>9. StampsCover'
  <2> SUFFICES ASSUME NEW e \in log', NEW d \in log, e = Grown(d), readable' \/ e.kept
               PROVE  \E i \in Slots : stamps'[i] <= e.age
    BY <1>4 DEF StampsCover
  <2>1. e.age = OlderBy(d.age, fastest) /\ (readable \/ d.kept)
    BY <1>3 DEF TimesPass
  <2> QED
    BY <1>6, <2>1 DEF GuardInv, StampsCover
<1>10. Holds(stamps', Kept(log'))
  <2> DEFINE h == [e \in Kept(log') |-> CHOOSE d \in log : e = Grown(d)]
  <2>1. \A e \in Kept(log') : h[e] \in log /\ e = Grown(h[e])
    BY <1>4 DEF Kept
  <2> HIDE DEF h
  <2>2. \A e \in Kept(log') : h[e] \in Kept(log)
    BY <1>3, <2>1 DEF Kept
  <2>3. h \in [Kept(log') -> Kept(log)]
    BY <2>2 DEF h
  <2>4. \A a, b \in Kept(log') : h[a] = h[b] => a = b
    BY <2>1
  <2>5. \A e \in Kept(log') : \A i \in Slots : stamps[i] <= h[e].age => stamps'[i] <= e.age
    BY <1>3, <1>6, <2>1
  <2>6. Holds(stamps, Kept(log))
    BY DEF GuardInv
  <2> QED
    BY <2>3, <2>4, <2>5, <2>6, HoldsOnward
<1> QED
  BY <1>7, <1>8, <1>9, <1>10 DEF GuardInv

\* Failures: the clock, the file and the storage.
LEMMA FailureKeeps == GuardInv /\ Failure => GuardInv'
<1> SUFFICES ASSUME GuardInv, Failure PROVE GuardInv'
  OBVIOUS
<1>1. ASSUME NEW d \in -MaxStep .. MaxStep \ {0}, WallClockSet(d) PROVE GuardInv'
  <2> DEFINE fastest == IF d > 0 THEN d ELSE 0
  <2>1. d \in Int /\ fastest \in Nat /\ d <= fastest
    BY DEF GuardAssumption
  <2>2. TimesPass(d, fastest) /\ badFor' = badFor
    BY <1>1 DEF WallClockSet
  <2> HIDE DEF fastest
  <2> QED
    BY <2>1, <2>2, TimeKeeps
<1>2. CASE ClockLost
  <2>1. /\ stamps' = [i \in Slots |-> IF stamps[i] = None THEN None ELSE -Far]
        /\ clamp' = (IF clamp = None THEN None ELSE -Far)
        /\ UNCHANGED <<readable, writable, badFor, log>>
    BY <1>2 DEF ClockLost
  <2>2. \A e \in log : e.age \in 0 .. Window
    BY DEF GuardInv, GuardTypes, Entries
  <2>3. Far \in Nat /\ None \in Nat /\ Window < Far /\ Far < None /\ Window \in Nat
    BY FarIsFar DEF GuardAssumption
  <2>4. \A i \in Slots : \A e \in log : stamps[i] <= e.age => stamps'[i] <= e.age
    BY <2>1, <2>2, <2>3
  <2>5. GuardTypes'
    BY <2>1, <2>3 DEF GuardInv, GuardTypes
  <2>6. MemoryIsEarned'
    BY <2>1, <2>2, <2>3 DEF GuardInv, MemoryIsEarned
  <2>7. StampsCover'
    BY <2>1, <2>4 DEF GuardInv, StampsCover
  <2>8. Holds(stamps', Kept(log))
    BY <2>4 DEF GuardInv, Holds, Injection, Kept
  <2> QED
    BY <2>1, <2>5, <2>6, <2>7, <2>8 DEF GuardInv
<1>3. CASE FileChanges
  <2>1. /\ readable' = ~readable /\ UNCHANGED <<stamps, writable, badFor, clamp>>
        /\ log' = IF readable THEN log ELSE Kept(log)
    BY <1>3 DEF FileChanges, memory, Kept
  <2>2. log' \subseteq log /\ Kept(log') = Kept(log)
    BY <2>1 DEF Kept
  <2>3. GuardTypes'
    BY <2>1, <2>2 DEF GuardInv, GuardTypes
  <2>4. MemoryIsEarned'
    BY <2>1, <2>2 DEF GuardInv, MemoryIsEarned
  <2>5. StampsCover'
    BY <2>1, <2>2 DEF GuardInv, GuardTypes, StampsCover, Kept
  <2>6. Holds(stamps', Kept(log'))
    BY <2>1, <2>2 DEF GuardInv
  <2> QED
    BY <2>3, <2>4, <2>5, <2>6 DEF GuardInv
<1>4. CASE StorageChanges
  <2>1. writable' = ~writable /\ UNCHANGED <<readable, stamps, badFor, clamp, log>>
    BY <1>4 DEF StorageChanges, memory
  <2>2. GuardTypes' /\ MemoryIsEarned' /\ StampsCover'
    BY <2>1 DEF GuardInv, GuardTypes, MemoryIsEarned, StampsCover
  <2> QED
    BY <2>1, <2>2 DEF GuardInv
<1> QED
  BY <1>1, <1>2, <1>3, <1>4 DEF Failure

\* A restart of the watchdog clears its memory.
LEMMA RestartKeeps == GuardInv /\ GuardRestarts => GuardInv'
<1> SUFFICES ASSUME GuardInv, GuardRestarts PROVE GuardInv'
  OBVIOUS
<1>1. /\ badFor' = None /\ clamp' = None
      /\ UNCHANGED <<readable, stamps, writable, log>>
  BY DEF GuardRestarts, Forgotten, storage
<1>2. GuardTypes' /\ MemoryIsEarned' /\ StampsCover'
  BY <1>1, FarIsFar DEF GuardInv, GuardTypes, MemoryIsEarned, StampsCover
<1> QED
  BY <1>1, <1>2 DEF GuardInv

\* A reboot that is allowed comes a cool-down after the last and under the cap.
LEMMA RebootsEarned == GuardInv /\ GuardedReboot => Spaced /\ Capped
<1> SUFFICES ASSUME GuardInv, GuardedReboot PROVE Spaced /\ Capped
  OBVIOUS
<1>1. Spaced /\ Free(Reading.ages) # {} /\ Reading.ages \in [Slots -> 0 .. None]
  BY ReadingFacts DEF GuardedReboot, Allowed
<1>2. ASSUME readable PROVE Cardinality(Kept(log)) < Cap
  <2>1. \A e \in Kept(log) : \A i \in Slots : stamps[i] <= e.age => Reading.ages[i] <= e.age
    BY <1>2, ReadingFacts DEF Kept
  <2> DEFINE h == [e \in Kept(log) |-> e]
             ages == Reading.ages
  <2>2. /\ Holds(stamps, Kept(log)) /\ h \in [Kept(log) -> Kept(log)]
        /\ \A a, b \in Kept(log) : h[a] = h[b] => a = b
        /\ \A e \in Kept(log) : \A i \in Slots : stamps[i] <= h[e].age => ages[i] <= e.age
    BY <2>1 DEF GuardInv
  <2>3. Kept(log) \in SUBSET Entries
    BY DEF GuardInv, GuardTypes, Kept
  <2>4. ages \in [Slots -> 0 .. None] /\ Free(ages) # {}
    BY <1>1
  <2> HIDE DEF h, ages
  <2>5. Holds(ages, Kept(log))
    BY <2>2, HoldsOnward
  <2> QED
    BY <2>3, <2>4, <2>5, FreeSlotCaps
<1> QED
  BY <1>1, <1>2 DEF Capped, Kept

-----------------------------------------------------------------------------
(* The ladder. *)

\* The clock of an outage is what the probes confirmed of it.
LadderInv ==
    /\ held \in 0 .. Idle /\ gap \in Nat /\ confirmed \in Nat
    /\ held # Idle => confirmed = held
    /\ fired = ran /\ ran \subseteq Cheap

IInv == GuardInv /\ LadderInv

\* Times counted up to the last rung.
LEMMA UptoFacts ==
    /\ RebootAfter \in Nat /\ SoftAfter \in Nat /\ RestartAfter \in Nat
    /\ \A n \in Nat : Upto(n) \in 0 .. RebootAfter /\ Upto(n) # Idle
BY DEF ThresholdsAssumption, Upto, Idle

\* An outage that is over leaves nothing.
LEMMA ResetKeeps == Reset /\ OutageEnds => LadderInv'
BY UptoFacts DEF Reset, OutageEnds, LadderInv, Idle

\* A failed probe runs both clocks.
LEMMA FailedKeeps ==
    ASSUME LadderInv, Failed, fired' = ran', ran' \subseteq Cheap
    PROVE  LadderInv'
<1>1. held \in 0 .. Idle /\ gap \in Nat /\ confirmed \in Nat
  BY DEF LadderInv
<1>2. held = Idle => held' = 0 /\ confirmed' = 0
  BY DEF Failed
<1>3. held # Idle => held' = Upto(held + gap) /\ confirmed' = Upto(held + gap)
  BY DEF Failed, LadderInv
<1>4. gap' = 0 /\ 0 # Idle /\ Idle \in Nat /\ Idle = RebootAfter + 1
  BY UptoFacts DEF Failed, Idle
<1>5. held + gap \in Nat
  BY <1>1, <1>4
<1> QED
  BY <1>2, <1>3, <1>4, <1>5, UptoFacts DEF LadderInv

\* Every step of the watchdog keeps both.
LEMMA StepKeeps == IInv /\ [WifiNext]_wifiVars => IInv'
<1> SUFFICES ASSUME IInv, [WifiNext]_wifiVars PROVE IInv'
  OBVIOUS
<1> USE DEF IInv
<1>1. UNCHANGED guardVars => GuardInv'
  <2> SUFFICES ASSUME UNCHANGED guardVars PROVE GuardInv'
    OBVIOUS
  <2>1. UNCHANGED <<readable, stamps, writable, badFor, clamp, log>>
    BY DEF guardVars
  <2>2. GuardTypes' /\ MemoryIsEarned' /\ StampsCover'
    BY <2>1 DEF GuardInv, GuardTypes, MemoryIsEarned, StampsCover
  <2> QED
    BY <2>1, <2>2 DEF GuardInv
<1>2. UNCHANGED ladder => LadderInv'
  BY DEF ladder, LadderInv
<1>3. CASE Answers
  BY <1>3, PollKeeps, ResetKeeps DEF Answers
<1>4. CASE Inconclusive
  <2>1. LadderInv'
    BY <1>4 DEF Inconclusive, LadderInv
  <2> QED
    BY <1>4, <2>1, PollKeeps DEF Inconclusive
<1>5. CASE Climb
  <2>1. fired' = ran' /\ ran' \subseteq Cheap
    BY <1>5 DEF Climb, LadderInv
  <2> QED
    BY <1>5, <2>1, PollKeeps, FailedKeeps DEF Climb
<1>6. CASE WifiReboot
  BY <1>6, RebootKeeps, ResetKeeps DEF WifiReboot
<1>7. CASE RebootRefused
  <2>1. Failed /\ fired' = ran' /\ ran' \subseteq Cheap
    BY <1>7 DEF RebootRefused, StaysDue, LadderInv
  <2> QED
    BY <1>7, <2>1, PollKeeps, FailedKeeps DEF RebootRefused
<1>8. CASE WifiRequestLost
  <2>1. Failed /\ fired' = ran' /\ ran' \subseteq Cheap
    BY <1>8 DEF WifiRequestLost, StaysDue, LadderInv
  <2> QED
    BY <1>8, <2>1, RequestKeeps, FailedKeeps DEF WifiRequestLost
<1>9. CASE WifiPass
  <2>1. GuardInv'
    <3>1. TimesPass(1, 1) /\ badFor' = Aged(badFor, 1)
      BY <1>9 DEF WifiPass, GuardPass
    <3> QED
      BY <3>1, TimeKeeps
  <2>2. LadderInv'
    <3>1. gap' \in Nat
      BY <1>9, UptoFacts DEF WifiPass, LadderInv
    <3> QED
      BY <1>9, <3>1 DEF WifiPass, LadderInv
  <2> QED
    BY <2>1, <2>2
<1>10. CASE WifiRestarts
  BY <1>10, RestartKeeps, ResetKeeps DEF WifiRestarts
<1>11. CASE GatewayLost
  BY <1>1, <1>2, <1>11 DEF GatewayLost
<1>12. CASE WifiFailure
  BY <1>2, <1>12, FailureKeeps DEF WifiFailure
<1>13. CASE UNCHANGED wifiVars
  BY <1>1, <1>2, <1>13 DEF wifiVars
<1> QED
  BY <1>3, <1>4, <1>5, <1>6, <1>7, <1>8, <1>9, <1>10, <1>11, <1>12, <1>13
  DEF WifiNext, WifiPoll

\* A recovery is due only when the probes confirmed the outage for its time.
LEMMA RunsEarned ==
    ASSUME LadderInv, NEW r \in DOMAIN After, Runs(r)
    PROVE  r \notin ran /\ Upto(confirmed + gap) >= After[r]
<1> DEFINE elapsed == IF held = Idle THEN 0 ELSE Upto(held + gap)
           due == IF fails + 1 < Debounce THEN {}
                  ELSE {x \in DOMAIN After \ fired : elapsed >= After[x]}
<1>1. Choice = CASE "reboot" \in due /\ Reading.can -> "reboot"
                 [] "reboot" \in due /\ ~deferred   -> "notify"
                 [] "restart" \in due               -> "restart"
                 [] "soft" \in due                  -> "soft"
                 [] OTHER                           -> "none"
  BY DEF Choice
<1>2. Choice = r
  BY DEF Runs, WifiReboot
<1>3. r \in {"soft", "restart", "reboot"}
  BY DEF After
<1> HIDE DEF due
<1>4. r \in due
  BY <1>1, <1>2, <1>3
<1> USE DEF due
<1>5. r \notin fired /\ elapsed >= After[r]
  BY <1>4
<1>6. After[r] \in Nat \ {0}
  BY <1>3 DEF After, ThresholdsAssumption
<1>7. held # Idle
  BY <1>5, <1>6
<1> QED
  BY <1>5, <1>7 DEF LadderInv

-----------------------------------------------------------------------------
(* Types. *)

\* An age that n failures could reach: the clock is lost, or was set back at most
\* n times.
Reached(a, n) == a \in -Far .. None /\ (a = -Far \/ a >= -(n * MaxStep))

GuardReached ==
    /\ known \in BOOLEAN /\ failures \in 0 .. MaxFailures
    /\ \A i \in Slots : Reached(stamps[i], failures)
    /\ Reached(clamp, failures) /\ Reached(lastWall, failures)

LadderTypes ==
    /\ fails \in 0 .. Debounce /\ gap \in 0 .. RebootAfter
    /\ confirmed \in 0 .. RebootAfter
    /\ deferred \in BOOLEAN /\ lost \in BOOLEAN

\* Every failure sets the clock back by one step at most.
LEMMA ReachedFacts ==
    ASSUME NEW n \in 0 .. MaxFailures
    PROVE  /\ \A a \in 0 .. None : Reached(a, n)
           /\ Reached(-Far, n)
           /\ \A a : Reached(a, n) => Reached(Aged(a, 1), n)
           /\ n < MaxFailures => \A a : Reached(a, n) =>
                /\ Reached(a, n + 1)
                /\ \A d \in -MaxStep .. MaxStep : Reached(Aged(a, d), n + 1)
<1> DEFINE P == n * MaxStep
           Q == (n + 1) * MaxStep
           All == MaxFailures * MaxStep
<1>1. MaxStep \in Nat /\ MaxFailures \in Nat /\ Window \in Nat /\ n \in Nat /\ n <= MaxFailures
  BY DEF GuardAssumption
<1>2. P \in Nat /\ Q \in Nat /\ All \in Nat /\ Q = P + MaxStep
  BY <1>1
<1>3. P <= All
  <2>1. \A x, y \in Nat : x * y \in Nat
    OBVIOUS
  <2>2. MaxFailures - n \in Nat /\ All - P = (MaxFailures - n) * MaxStep
    BY <1>1
  <2> QED
    BY <1>1, <1>2, <2>1, <2>2
<1>4. n < MaxFailures => Q <= All
  <2>1. \A x, y \in Nat : x * y \in Nat
    OBVIOUS
  <2>2. n < MaxFailures =>
          MaxFailures - n - 1 \in Nat /\ All - Q = (MaxFailures - n - 1) * MaxStep
    BY <1>1
  <2> QED
    BY <1>1, <1>2, <2>1, <2>2
<1>5. Far = Window + 1 + All /\ None = Far + 1
  BY DEF Far, None
<1>6. /\ \A a : Reached(a, n) <=> a \in -Far .. None /\ (a = -Far \/ a >= -P)
      /\ \A a : Reached(a, n + 1) <=> a \in -Far .. None /\ (a = -Far \/ a >= -Q)
  BY DEF Reached
<1> HIDE DEF P, Q, All
<1>7. \A a \in 0 .. None : Reached(a, n)
  BY <1>1, <1>2, <1>5, <1>6
<1>8. Reached(-Far, n)
  BY <1>1, <1>2, <1>5, <1>6
<1>9. \A a : Reached(a, n) => Reached(Aged(a, 1), n)
  BY <1>1, <1>2, <1>3, <1>5, <1>6 DEF Aged, OlderBy
<1>10. n < MaxFailures => \A a : Reached(a, n) => Reached(a, n + 1)
  BY <1>1, <1>2, <1>4, <1>5, <1>6
<1>11. n < MaxFailures => \A a : Reached(a, n) =>
         \A d \in -MaxStep .. MaxStep : Reached(Aged(a, d), n + 1)
  BY <1>1, <1>2, <1>4, <1>5, <1>6 DEF Aged, OlderBy
<1> QED
  BY <1>7, <1>8, <1>9, <1>10, <1>11

\* A reading leaves a clamp that it found, one of its own, or none.
LEMMA ReadingClamp == Reading.clamp \in {None, 0, clamp} /\ (Future => readable)
BY DEF Reading, Future

\* What a step without a failure leaves in file and memory could be reached.
LEMMA ReachedByReading ==
    ASSUME GuardInv, GuardReached, known' \in BOOLEAN,
           clamp' \in {None, 0, clamp}, lastWall' \in {0, None},
           stamps' = stamps \/ stamps' \in [Slots -> 0 .. None],
           failures' = failures \/ (failures < MaxFailures /\ failures' = failures + 1)
    PROVE  GuardReached'
<1>1. failures \in 0 .. MaxFailures /\ MaxFailures \in Nat
  BY DEF GuardReached, GuardAssumption
<1>2. failures' \in 0 .. MaxFailures
  BY <1>1
<1>3. 0 \in 0 .. None /\ None \in 0 .. None
  BY FarIsFar
<1>4. \A a \in 0 .. None : Reached(a, failures')
  BY <1>2, ReachedFacts
<1>5. \A a : Reached(a, failures) => Reached(a, failures')
  BY <1>1, ReachedFacts
<1>6. Reached(clamp', failures') /\ Reached(lastWall', failures')
  BY <1>3, <1>4, <1>5 DEF GuardReached
<1>7. \A i \in Slots : Reached(stamps'[i], failures')
  BY <1>4, <1>5 DEF GuardReached
<1> HIDE DEF Reached
<1> QED
  BY <1>2, <1>6, <1>7 DEF GuardReached

\* Every step of the guard leaves what could be reached.
LEMMA GuardReaches ==
    ASSUME GuardInv, GuardReached,
           \/ Poll \/ GuardedReboot \/ RequestLost \/ GuardPass \/ GuardRestarts \/ Failure
           \/ UNCHANGED guardVars
    PROVE  GuardReached'
<1>1. readable \in BOOLEAN /\ writable \in BOOLEAN /\ known \in BOOLEAN
  BY DEF GuardInv, GuardTypes, GuardReached
<1>2. failures \in 0 .. MaxFailures /\ MaxFailures \in Nat
  BY DEF GuardReached, GuardAssumption
<1>3. Future \in BOOLEAN
  BY <1>1 DEF Future
<1>4. CASE Poll
  BY <1>3, <1>4, ReachedByReading, ReadingClamp DEF Poll, Remember, storage
<1>5. CASE GuardedReboot
  <2>1. stamps' = stamps \/ stamps' \in [Slots -> 0 .. None]
    BY <1>5, AllowedKeeps DEF GuardedReboot
  <2> QED
    BY <1>5, <2>1, ReachedByReading DEF GuardedReboot, Forgotten
<1>6. CASE RequestLost
  <2>1. stamps' = stamps \/ stamps' \in [Slots -> 0 .. None]
    BY <1>6, AllowedKeeps DEF RequestLost
  <2>2. known' = (Future /\ ~writable) /\ clamp' = Reading.clamp /\ lastWall' = 0
    BY <1>6 DEF RequestLost
  <2>3. failures < MaxFailures /\ failures' = failures + 1
    BY <1>6 DEF RequestLost, GuardFault
  <2> QED
    BY <1>1, <1>3, <2>1, <2>2, <2>3, ReachedByReading, ReadingClamp
<1>7. CASE GuardPass
  <2>1. /\ stamps' = [i \in Slots |-> Aged(stamps[i], 1)]
        /\ clamp' = Aged(clamp, 1) /\ lastWall' = Aged(lastWall, 1)
        /\ known' = known /\ failures' = failures
    BY <1>7 DEF GuardPass, TimesPass
  <2>2. \A a : Reached(a, failures) => Reached(Aged(a, 1), failures)
    BY <1>2, ReachedFacts
  <2> QED
    BY <1>1, <1>2, <2>1, <2>2 DEF GuardReached
<1>8. CASE GuardRestarts
  BY <1>8, ReachedByReading DEF GuardRestarts, Forgotten, storage, GuardFault
<1>9. CASE Failure
  <2>1. failures < MaxFailures /\ failures' = failures + 1 /\ failures' \in 0 .. MaxFailures
    BY <1>2, <1>9 DEF Failure, WallClockSet, ClockLost, FileChanges, StorageChanges, GuardFault
  <2>2. \A a : Reached(a, failures) =>
          /\ Reached(a, failures')
          /\ \A d \in -MaxStep .. MaxStep : Reached(Aged(a, d), failures')
    BY <1>2, <2>1, ReachedFacts
  <2>3. Reached(-Far, failures') /\ Reached(None, failures')
    <3>1. None \in 0 .. None
      BY FarIsFar
    <3> QED
      BY <2>1, <3>1, ReachedFacts
  <2>4. ASSUME NEW d \in -MaxStep .. MaxStep \ {0}, WallClockSet(d) PROVE GuardReached'
    <3>1. /\ stamps' = [i \in Slots |-> Aged(stamps[i], d)]
          /\ clamp' = Aged(clamp, d) /\ lastWall' = Aged(lastWall, d) /\ known' = known
      BY <2>4 DEF WallClockSet, TimesPass
    <3> QED
      BY <1>1, <2>1, <2>2, <3>1 DEF GuardReached
  <2>5. CASE ClockLost
    <3>1. /\ stamps' = [i \in Slots |-> IF stamps[i] = None THEN None ELSE -Far]
          /\ clamp' = (IF clamp = None THEN None ELSE -Far)
          /\ lastWall' = (IF lastWall = None THEN None ELSE -Far) /\ known' = known
      BY <2>5 DEF ClockLost
    <3> QED
      BY <1>1, <2>1, <2>3, <3>1 DEF GuardReached
  <2>6. CASE FileChanges \/ StorageChanges
    <3>1. UNCHANGED <<stamps, clamp, lastWall, known>>
      BY <2>6 DEF FileChanges, StorageChanges, memory
    <3> QED
      BY <1>1, <2>1, <2>2, <3>1 DEF GuardReached
  <2> QED
    BY <1>9, <2>4, <2>5, <2>6 DEF Failure
<1>10. CASE UNCHANGED guardVars
  BY <1>10 DEF guardVars, GuardReached
<1> QED
  BY <1>4, <1>5, <1>6, <1>7, <1>8, <1>9, <1>10

\* Every step of the ladder keeps its types.
LEMMA LadderStepTypes ==
    ASSUME LadderTypes, LadderInv, [WifiNext]_wifiVars PROVE LadderTypes'
<1>1. Debounce \in Nat /\ 0 < Debounce /\ RebootAfter \in Nat
  BY DEF ThresholdsAssumption
<1>2. \A n \in Nat : Upto(n) \in 0 .. RebootAfter
  BY UptoFacts
<1>3. held \in Nat /\ gap \in Nat /\ confirmed \in Nat /\ fails \in 0 .. Debounce
  BY <1>1 DEF LadderInv, LadderTypes, Idle
<1>4. deferred \in BOOLEAN /\ lost \in BOOLEAN /\ gap \in 0 .. RebootAfter
  BY DEF LadderTypes
<1>5. ASSUME Reset, OutageEnds, lost' = lost PROVE LadderTypes'
  <2>1. fails' = 0 /\ gap' = 0 /\ confirmed' = 0 /\ deferred' = FALSE
    BY <1>5 DEF Reset, OutageEnds
  <2>2. deferred' \in BOOLEAN /\ lost' \in BOOLEAN
    BY <1>4, <1>5, <2>1
  <2>3. 0 \in 0 .. Debounce /\ 0 \in 0 .. RebootAfter
    BY <1>1
  <2> QED
    BY <2>1, <2>2, <2>3 DEF LadderTypes
<1>6. ASSUME Failed, deferred' \in BOOLEAN, lost' = lost PROVE LadderTypes'
  <2>1. fails' \in 0 .. Debounce
    BY <1>1, <1>3, <1>6 DEF Failed
  <2>2. confirmed' \in 0 .. RebootAfter
    <3>1. confirmed + gap \in Nat
      BY <1>3
    <3> QED
      BY <1>1, <1>2, <1>6, <3>1 DEF Failed
  <2>3. gap' = 0
    BY <1>6 DEF Failed
  <2> QED
    BY <1>1, <1>4, <1>6, <2>1, <2>2, <2>3 DEF LadderTypes
<1>7. CASE Answers /\ UNCHANGED lost
  BY <1>5, <1>7 DEF Answers
<1>8. CASE Inconclusive /\ UNCHANGED lost
  BY <1>1, <1>8 DEF Inconclusive, LadderTypes
<1>9. CASE Climb /\ UNCHANGED lost
  <2>1. Failed /\ deferred' = (deferred \/ Choice = "notify")
    BY <1>9 DEF Climb
  <2>2. deferred' \in BOOLEAN
    BY <1>4, <2>1
  <2> QED
    BY <1>6, <1>9, <2>1, <2>2
<1>10. CASE WifiReboot /\ UNCHANGED lost
  BY <1>5, <1>10 DEF WifiReboot
<1>11. CASE RebootRefused /\ UNCHANGED lost
  BY <1>6, <1>11 DEF RebootRefused, StaysDue
<1>12. CASE WifiRequestLost
  BY <1>6, <1>12 DEF WifiRequestLost, StaysDue
<1>13. CASE WifiPass
  <2>1. gap + 1 \in Nat
    BY <1>3
  <2> QED
    BY <1>2, <1>13, <2>1 DEF WifiPass, LadderTypes
<1>14. CASE WifiRestarts
  BY <1>5, <1>14 DEF WifiRestarts
<1>15. CASE GatewayLost
  BY <1>15 DEF GatewayLost, ladder, LadderTypes
<1>16. CASE WifiFailure \/ UNCHANGED wifiVars
  BY <1>16 DEF WifiFailure, wifiVars, ladder, LadderTypes
<1> QED
  BY <1>7, <1>8, <1>9, <1>10, <1>11, <1>12, <1>13, <1>14, <1>15, <1>16 DEF WifiNext, WifiPoll

-----------------------------------------------------------------------------
(* The theorems. *)

\* The inductive invariant: what the memory, the stamps and the clock of the outage
\* say is true of the reboots and of the outage.
THEOREM InvariantHolds == WifiSpec => []IInv
<1>1. WifiInit => IInv
  <2>1. WifiInit => LadderInv
    BY UptoFacts DEF WifiInit, LadderInv, Idle
  <2> QED
    BY <2>1, StartIsGuarded DEF WifiInit, IInv
<1> QED
  BY <1>1, StepKeeps, PTL DEF WifiSpec

\* Whatever was restarted, unreadable, unwritable or set back: reboots are a cool-down
\* apart and no more than the cap of those the file could keep fall into one window.
THEOREM RebootsStayBounded == WifiSpec => RebootsAreBounded
<1>1. IInv => [GuardedReboot => Spaced /\ Capped]_guardVars
  BY RebootsEarned DEF IInv
<1> QED
  BY <1>1, InvariantHolds, PTL DEF RebootsAreBounded

\* A recovery runs only for an outage that was seen to last as long as its rung asks,
\* and a cheap one once in an outage.
THEOREM LadderIsEarned == WifiSpec => RecoveriesAreEarned
<1>1. IInv => [\A r \in DOMAIN After :
                 Runs(r) => r \notin ran /\ Upto(confirmed + gap) >= After[r]]_wifiVars
  BY RunsEarned DEF IInv
<1> QED
  BY <1>1, InvariantHolds, PTL DEF RecoveriesAreEarned

\* File, memory, clocks and ladder keep their types.
THEOREM TypeCorrect == WifiSpec => []WifiTypeOK
<1>1. WifiInit => GuardReached /\ LadderTypes
  <2> SUFFICES ASSUME WifiInit PROVE GuardReached /\ LadderTypes
    OBVIOUS
  <2>1. GuardInit /\ 0 \in 0 .. MaxFailures /\ None \in 0 .. None
    BY FarIsFar DEF WifiInit, GuardAssumption
  <2>2. Reached(None, 0)
    BY <2>1, ReachedFacts
  <2>3. GuardReached
    BY <2>1, <2>2 DEF GuardInit, GuardReached
  <2>4. LadderTypes
    <3>1. fails = 0 /\ gap = 0 /\ confirmed = 0 /\ deferred = FALSE /\ lost = FALSE
      BY DEF WifiInit
    <3>2. 0 \in 0 .. Debounce /\ 0 \in 0 .. RebootAfter
      BY DEF ThresholdsAssumption
    <3> QED
      BY <3>1, <3>2 DEF LadderTypes
  <2> QED
    BY <2>3, <2>4
<1>2. IInv /\ GuardReached /\ LadderTypes /\ [WifiNext]_wifiVars => GuardReached' /\ LadderTypes'
  <2> SUFFICES ASSUME IInv, GuardReached, LadderTypes, [WifiNext]_wifiVars
               PROVE  GuardReached' /\ LadderTypes'
    OBVIOUS
  <2>1. \/ Poll \/ GuardedReboot \/ RequestLost \/ GuardPass \/ GuardRestarts \/ Failure
        \/ UNCHANGED guardVars
    BY DEF WifiNext, WifiPoll, Answers, Inconclusive, Climb, WifiReboot, RebootRefused,
           WifiRequestLost, WifiPass, WifiRestarts, GatewayLost, WifiFailure, wifiVars
  <2> QED
    BY <2>1, GuardReaches, LadderStepTypes DEF IInv
<1>3. IInv /\ GuardReached /\ LadderTypes => WifiTypeOK
  <2> SUFFICES ASSUME IInv, GuardReached, LadderTypes PROVE WifiTypeOK
    OBVIOUS
  <2>1. \A i \in Slots : stamps[i] \in -Far .. None
    BY DEF GuardReached, Reached
  <2>2. GuardTypeOK
    BY <2>1 DEF IInv, GuardInv, GuardTypes, GuardReached, Reached, GuardTypeOK, Entries
  <2> QED
    BY <2>2 DEF IInv, LadderInv, LadderTypes, WifiTypeOK
<1> QED
  BY <1>1, <1>2, <1>3, InvariantHolds, PTL DEF WifiSpec

-----------------------------------------------------------------------------
(* The bus watchdog and its agent. *)

USE PhaseAssumption

\* The inductive invariant: the records are typed and honest.
BusInv == TypeOK /\ EvidenceIsHonest

\* The flags of the type invariant.
Flags ==
    /\ leased \in BOOLEAN /\ owned \in BOOLEAN /\ dead \in BOOLEAN
    /\ broker \in BOOLEAN /\ revoked \in BOOLEAN /\ hung \in BOOLEAN

\* Ages grow together and stay ages.
LEMMA AgesGrow ==
    ASSUME NEW a \in Age, NEW b \in Age
    PROVE  /\ Older(a) \in Age
           /\ a <= b => Older(a) <= Older(b)
           /\ Older(a) <= Retention => a <= Retention
           /\ a <= Older(a)
BY DEF PhaseAssumption, Age, Old, Older

\* A panel that just started has no records.
LEMMA InitHonest == Init => BusInv
<1> SUFFICES ASSUME Init PROVE BusInv
  OBVIOUS
<1>1. 0 \in Age /\ NoMarker \in Markers
  BY DEF PhaseAssumption, NoMarker, Markers, Age, Old
<1>2. TypeOK
  <2>1. Flags
    BY DEF Init, PhaseInit, Flags
  <2>2. faults \in 0 .. MaxFaults
    BY DEF PhaseAssumption, Init, PhaseInit
  <2> QED
    BY <1>1, <2>1, <2>2 DEF Init, PhaseInit, TypeOK, PhaseTypeOK, Flags
<1>3. EvidenceIsHonest
  BY DEF Init, PhaseInit, NoMarker, EvidenceIsHonest, LeaseIsLive,
         SuccessIsFresh, WaitIsSeen, WaitIsLeftOut, ReadIsSeen, Trusted
<1> QED
  BY <1>2, <1>3 DEF BusInv

\* Time passes over every record alike.
LEMMA PassHonest == BusInv /\ Pass => BusInv'
<1> SUFFICES ASSUME BusInv, Pass PROVE BusInv'
  OBVIOUS
<1>1. TypeOK'
  <2>1. marker' \in Markers
    BY AgesGrow DEF BusInv, TypeOK, PhaseTypeOK, Markers, Pass
  <2>2. /\ beat' \in Age /\ read' \in Age /\ since' \in Age
        /\ away' \in Age /\ quiet' \in Age
    BY AgesGrow DEF BusInv, TypeOK, PhaseTypeOK, Pass, Age, Old
  <2> QED
    BY <2>1, <2>2 DEF BusInv, TypeOK, PhaseTypeOK, Pass
<1>2. LeaseIsLive' /\ SuccessIsFresh'
  BY DEF BusInv, TypeOK, PhaseTypeOK, Markers, Pass, EvidenceIsHonest,
         LeaseIsLive, SuccessIsFresh
<1>3. WaitIsSeen'
  BY AgesGrow DEF BusInv, TypeOK, PhaseTypeOK, Markers, Pass,
                  EvidenceIsHonest, WaitIsSeen
<1>4. WaitIsLeftOut' 
  BY AgesGrow DEF BusInv, TypeOK, PhaseTypeOK, Markers, Pass,
                  EvidenceIsHonest, WaitIsSeen, LeaseIsLive, WaitIsLeftOut,
                  Trusted, Age
<1>5. ReadIsSeen'
  BY AgesGrow DEF BusInv, TypeOK, PhaseTypeOK, Markers, Pass,
                  EvidenceIsHonest, ReadIsSeen, Trusted
<1> QED
  BY <1>1, <1>2, <1>3, <1>4, <1>5 DEF BusInv, EvidenceIsHonest

\* What a write of the marker leaves is well typed.
LEMMA RecordsAreMarkers ==
    ASSUME BusInv, NEW whose \in BOOLEAN, NEW succeeded \in BOOLEAN
    PROVE  /\ PreBusMark(whose) \in Markers /\ BusMark(succeeded) \in Markers
           /\ Unarmed(BusMark(succeeded)) \in Markers /\ NoMarker \in Markers
<1>1. 0 \in Age /\ marker \in Markers
  BY DEF BusInv, TypeOK, PhaseTypeOK, Age, Old
<1>2. PreBusMark(whose) \in Markers
  BY <1>1 DEF PreBusMark, Markers
<1>3. BusMark(succeeded) \in Markers
  BY <1>1 DEF BusMark, Markers
<1>4. Unarmed(BusMark(succeeded)) \in Markers
  BY <1>3 DEF Unarmed, Markers
<1>5. NoMarker \in Markers
  BY <1>1 DEF NoMarker, Markers
<1> QED
  BY <1>2, <1>3, <1>4, <1>5

\* The agent's writes and crashes keep the types.
LEMMA AgentTypes == BusInv /\ AgentStep => TypeOK'
<1> SUFFICES ASSUME BusInv, AgentStep PROVE TypeOK'
  OBVIOUS
<1>0. TypeOK /\ marker \in Markers /\ 0 \in Age
  BY DEF BusInv, TypeOK, PhaseTypeOK, Age, Old
<1>1. hung' \in BOOLEAN /\ revoked' \in BOOLEAN
  BY <1>0 DEF AgentStep, TypeOK
<1>2. since' \in Age /\ away' \in Age /\ quiet' \in Age /\ dead' \in BOOLEAN /\ broker' \in BOOLEAN
  BY <1>0 DEF AgentStep, TypeOK
<1>3. ASSUME NEW whose \in BOOLEAN, WritePreBus(whose)
      PROVE  marker' \in Markers /\ leased' \in BOOLEAN /\ owned' \in BOOLEAN
  BY <1>0, <1>3, RecordsAreMarkers DEF WritePreBus, Marked, Invalidated
<1>4. ASSUME NEW succeeded \in BOOLEAN, WriteBus(succeeded)
      PROVE  marker' \in Markers /\ leased' \in BOOLEAN /\ owned' \in BOOLEAN
  BY <1>0, <1>4, RecordsAreMarkers DEF WriteBus, Marked, Invalidated
<1>5. ASSUME Fault PROVE faults' \in 0 .. MaxFaults
  BY <1>0, <1>5 DEF Fault, TypeOK, PhaseTypeOK
<1>6. /\ stage' \in {"off", "pre", "bus"} /\ beat' \in Age /\ read' \in Age
      /\ wrong' \subseteq {"heartbeat", "marker"}
  BY <1>0 DEF AgentStep, SessionBegins, ProcessStarts, BusAttempt, Beat,
              Crash, Stamped, TypeOK, PhaseTypeOK
<1>7. faults' \in 0 .. MaxFaults
  BY <1>0, <1>5 DEF AgentStep, SessionBegins, ProcessStarts, BusAttempt,
                    Beat, Crash, WritePreBus, WriteBus, MarkSuccess,
                    Invalidated, TypeOK, PhaseTypeOK
<1>8. marker' \in Markers /\ leased' \in BOOLEAN /\ owned' \in BOOLEAN
  <2>1. CASE SessionBegins
    BY <1>0, <1>3, <2>1 DEF SessionBegins, TypeOK, PhaseTypeOK
  <2>2. CASE ProcessStarts
    <3>1. [marker EXCEPT !.mine = FALSE] \in Markers
      BY <1>0 DEF Markers
    <3> QED
      BY <2>2, <3>1, RecordsAreMarkers DEF ProcessStarts, Marked
  <2>3. CASE BusAttempt
    BY <1>4, <2>3 DEF BusAttempt
  <2>4. CASE Beat
    BY <1>0, <1>4, <2>4, RecordsAreMarkers DEF Beat, MarkSuccess, Marked,
                                               Invalidated, TypeOK, PhaseTypeOK
  <2>5. CASE Crash
    BY <1>0, <2>5 DEF Crash
  <2> QED
    BY <2>1, <2>2, <2>3, <2>4, <2>5 DEF AgentStep
<1> QED
  BY <1>1, <1>2, <1>6, <1>7, <1>8 DEF TypeOK, PhaseTypeOK

\* A write by the agent leaves an honest record or one nobody trusts.
LEMMA AgentHonest == BusInv /\ AgentStep => EvidenceIsHonest'
<1> SUFFICES ASSUME BusInv, AgentStep PROVE EvidenceIsHonest'
  OBVIOUS
<1>0. /\ marker \in Markers /\ marker' \in Markers /\ leased' \in BOOLEAN
      /\ read \in Age /\ beat \in Age /\ quiet \in Age /\ quiet' = quiet
      /\ EvidenceIsHonest
  BY AgentTypes DEF BusInv, TypeOK, PhaseTypeOK, AgentStep
<1> USE <1>0 DEF EvidenceIsHonest, LeaseIsLive, SuccessIsFresh, WaitIsSeen,
                 WaitIsLeftOut, ReadIsSeen, Trusted, Age, Old, Markers
<1>1. CASE SessionBegins
  BY <1>1 DEF SessionBegins, AgentStep, WritePreBus, Marked, Invalidated,
              PreBusMark, Inheritable, NoMarker
<1>2. CASE ProcessStarts
  BY <1>2 DEF ProcessStarts, AgentStep, Marked, PreBusMark, Inheritable,
              NoMarker
<1>3. CASE BusAttempt
  <2>1. stage' = "bus" /\ away' = 0 /\ UNCHANGED <<read, beat, wrong>>
    BY <1>3 DEF BusAttempt, AgentStep
  <2>2. CASE Marked(BusMark(FALSE), TRUE, TRUE)
    <3>1. /\ marker'.phase = "bus" /\ marker'.ok = "attempt"
          /\ marker'.fail = 0 \/ (Trusted /\ marker'.fail = marker.fail)
      BY <2>2 DEF Marked, BusMark, Inheritable
    <3> QED
      BY <2>1, <3>1
  <2>3. CASE Marked(Unarmed(BusMark(FALSE)), FALSE, FALSE)
    <3>1. marker'.ok = "unarmed" /\ ~leased'
      BY <2>3 DEF Marked, Unarmed, BusMark
    <3> QED
      BY <2>1, <3>1
  <2>4. CASE Invalidated
    BY <2>1, <2>4 DEF Invalidated, Marked, NoMarker
  <2> QED
    BY <1>3, <2>2, <2>3, <2>4 DEF BusAttempt, WriteBus
<1>4. CASE Beat
  <2>1. /\ stage = "bus" /\ stage' = "bus" /\ away' = 0 /\ read' = 0
        /\ "heartbeat" \notin wrong' => beat' = 0
        /\ "marker" \notin wrong' => leased'
    BY <1>4 DEF Beat, AgentStep, Stamped
  <2>2. CASE Marked(BusMark(TRUE), TRUE, TRUE)
    <3>1. marker'.phase = "bus" /\ marker'.ok = "success" /\ marker'.fail = 0 /\ marker'.upd = 0
      BY <2>2 DEF Marked, BusMark
    <3> QED
      BY <2>1, <3>1
  <2>3. CASE Marked(Unarmed(BusMark(TRUE)), FALSE, FALSE)
    <3>1. marker'.ok = "unarmed" /\ ~leased'
      BY <2>3 DEF Marked, Unarmed, BusMark
    <3> QED
      BY <2>1, <3>1
  <2>4. CASE Invalidated
    <3>1. ~leased' /\ marker' \in {marker, NoMarker}
      BY <2>4 DEF Invalidated, Marked
    <3> QED
      BY <2>1, <3>1 DEF NoMarker
  <2>5. CASE /\ UNCHANGED <<marker, leased>>
             /\ (leased /\ marker.ok = "success" /\ marker.upd = 0) \/ ~leased
    BY <2>1, <2>5
  <2> QED
    BY <1>4, <2>2, <2>3, <2>4, <2>5 DEF Beat, MarkSuccess, WriteBus
<1>5. CASE Crash
  BY <1>5 DEF Crash, AgentStep
<1> QED
  BY <1>1, <1>2, <1>3, <1>4, <1>5 DEF AgentStep

\* The watchdog and the world write no record.
LEMMA OthersHonest ==
    BusInv /\ (Watch \/ Reboot \/ WatchdogRestarts \/ Environment) => BusInv'
<1> SUFFICES ASSUME BusInv, Watch \/ Reboot \/ WatchdogRestarts \/ Environment PROVE BusInv'
  OBVIOUS
<1>0. TypeOK /\ EvidenceIsHonest /\ marker \in Markers /\ 0 \in Age
  BY DEF BusInv, TypeOK, PhaseTypeOK, Age, Old
<1>1. ASSUME NEW b \in BOOLEAN, marker' = [marker EXCEPT !.seen = b],
             UNCHANGED <<stage, leased, beat, read, wrong, away, quiet>>
      PROVE  marker' \in Markers /\ EvidenceIsHonest'
  BY <1>0, <1>1 DEF Markers, EvidenceIsHonest, LeaseIsLive, SuccessIsFresh,
                    WaitIsSeen, WaitIsLeftOut, ReadIsSeen, Trusted
<1>2. ASSUME Fault PROVE faults' \in 0 .. MaxFaults
  BY <1>0, <1>2 DEF Fault, TypeOK, PhaseTypeOK
<1>3. CASE Watch
  <2>1. Revoked \in BOOLEAN /\ (marker.seen \/ (Timed /\ Alive /\ leased)) \in BOOLEAN
    BY DEF Revoked
  <2> QED
    BY <1>0, <1>1, <1>3, <2>1 DEF Watch, Observe, TypeOK, PhaseTypeOK, BusInv
<1>4. CASE Reboot
  <2>1. NoMarker \in Markers
    BY <1>0 DEF NoMarker, Markers
  <2>2. TypeOK'
    BY <1>0, <1>4, <2>1 DEF Reboot, Marked, TypeOK, PhaseTypeOK
  <2>3. EvidenceIsHonest'
    BY <1>4 DEF Reboot, Marked, NoMarker, EvidenceIsHonest, LeaseIsLive,
                SuccessIsFresh, WaitIsSeen, WaitIsLeftOut, ReadIsSeen,
                Trusted
  <2> QED
    BY <2>2, <2>3 DEF BusInv
<1>5. CASE WatchdogRestarts
  BY <1>0, <1>1, <1>2, <1>5 DEF WatchdogRestarts, TypeOK, PhaseTypeOK, BusInv
<1>6. CASE Environment
  <2>1. UNCHANGED <<stage, marker, leased, owned, read, revoked, since, away, quiet>>
    BY <1>6 DEF Environment, ClockSet, BusChanges, BrokerChanges, watchVars
  <2>2. /\ beat' \in Age /\ wrong' \subseteq {"heartbeat", "marker"} /\ faults' \in 0 .. MaxFaults
        /\ (wrong' = wrong /\ beat' = beat) \/ wrong' = wrong \cup {"heartbeat"}
    BY <1>0, <1>2, <1>6 DEF Environment, ClockSet, BusChanges, BrokerChanges,
                            TypeOK, PhaseTypeOK
  <2>3. dead' \in BOOLEAN /\ broker' \in BOOLEAN /\ hung' \in BOOLEAN
    BY <1>0, <1>6 DEF Environment, ClockSet, BusChanges, BrokerChanges,
                      watchVars, TypeOK
  <2>4. TypeOK'
    BY <1>0, <2>1, <2>2, <2>3 DEF TypeOK, PhaseTypeOK
  <2>5. EvidenceIsHonest'
    BY <1>0, <2>1, <2>2 DEF EvidenceIsHonest, LeaseIsLive, SuccessIsFresh,
                            WaitIsSeen, WaitIsLeftOut, ReadIsSeen, Trusted
  <2> QED
    BY <2>4, <2>5 DEF BusInv
<1> QED
  BY <1>3, <1>4, <1>5, <1>6

\* Every step keeps the invariant.
LEMMA StepHonest == BusInv /\ [Next]_vars => BusInv'
<1> SUFFICES ASSUME BusInv, [Next]_vars PROVE BusInv'
  OBVIOUS
<1>1. CASE AgentStep
  BY <1>1, AgentTypes, AgentHonest DEF BusInv
<1>2. CASE Pass
  BY <1>2, PassHonest
<1>3. CASE Watch \/ Reboot \/ WatchdogRestarts \/ Environment
  BY <1>3, OthersHonest
<1>4. CASE UNCHANGED vars
  BY <1>4 DEF vars, BusInv, TypeOK, PhaseTypeOK, EvidenceIsHonest,
              LeaseIsLive, SuccessIsFresh, WaitIsSeen, WaitIsLeftOut,
              ReadIsSeen, Trusted
<1> QED
  BY <1>1, <1>2, <1>3, <1>4 DEF Next

\* The records a watchdog or a next process would trust are honest for every
\* threshold and every number of faults (heartbeat.py, health.py).
THEOREM EvidenceStaysHonest == Spec => [](TypeOK /\ EvidenceIsHonest)
<1>1. Init => BusInv
  BY InitHonest
<1>2. BusInv /\ [Next]_vars => BusInv'
  BY StepHonest
<1>3. BusInv => TypeOK /\ EvidenceIsHonest
  BY DEF BusInv
<1> QED
  BY <1>1, <1>2, <1>3, PTL DEF Spec

\* No reboot without a bus that went unread, or unreadable records, for
\* StaleAfter, all of it time on the bus (run.py:84).
THEOREM RebootsAreAttributed == Spec => RebootIsAttributed
<1>1. BusInv /\ Reboot => ReadsAreCounted /\ quiet >= StaleAfter
  <2> SUFFICES ASSUME BusInv, Reboot PROVE ReadsAreCounted /\ quiet >= StaleAfter
    OBVIOUS
  <2>1. /\ beat >= StaleAfter /\ marker.fail >= StaleAfter /\ Evidence
        /\ beat \in Nat /\ read \in Nat /\ quiet \in Nat /\ marker.fail \in Nat
        /\ wrong \subseteq {"heartbeat", "marker"}
    BY DEF BusInv, TypeOK, PhaseTypeOK, Markers, Age, Old, Reboot,
           Should
  <2>2. Trusted
    BY <2>1 DEF Evidence, Trusted
  <2>3. quiet >= StaleAfter
    BY <2>1, <2>2 DEF BusInv, EvidenceIsHonest, WaitIsLeftOut
  <2>4. CASE "marker" \notin wrong
    BY <2>1, <2>2, <2>3, <2>4 DEF BusInv, EvidenceIsHonest, ReadIsSeen,
                                  ReadsAreCounted
  <2>5. CASE "heartbeat" \notin wrong
    BY <2>1, <2>3, <2>5 DEF BusInv, EvidenceIsHonest, ReadIsSeen, ReadsAreCounted
  <2>6. CASE "marker" \in wrong /\ "heartbeat" \in wrong
    BY <2>1, <2>3, <2>6 DEF ReadsAreCounted
  <2> QED
    BY <2>3, <2>4, <2>5, <2>6
<1>2. BusInv /\ [Next]_vars => [Reboot => ReadsAreCounted /\ quiet >= StaleAfter]_vars
  BY <1>1
<1>3. Spec => []BusInv
  BY InitHonest, StepHonest, PTL DEF Spec
<1> QED
  BY <1>2, <1>3, PTL DEF Spec, RebootIsAttributed
=============================================================================
