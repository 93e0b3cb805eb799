--------------------------- MODULE SceneBridge_proofs ---------------------------
(***************************************************************************)
(* Safety of the scene transport, for every set of commands and every      *)
(* number of executions, messages, restarts and failures.                  *)
(*                                                                         *)
(* Whatever the bridge knows of a command reaches the disk in the order it *)
(* was learnt, since one thread writes the snapshots.  So each invariant   *)
(* speaks of all copies of the state at once: the one in memory, those in  *)
(* the queue of the writer, and the one on disk.                           *)
(***************************************************************************)
EXTENDS SceneBridge, WellFoundedInduction, TLAPS

Known(s) == DOMAIN s.pending \cup DOMAIN s.results
Says(s, c, o) == c \in DOMAIN s.results /\ s.results[c].outcome = o

\* What t adds to s takes nothing back.
Grows(s, t) ==
    /\ Known(s) \subseteq Known(t)
    /\ \A c \in DOMAIN s.results : Says(t, c, s.results[c].outcome)

\* A command is pending or complete, never both.
SoundStates == {s \in States : DOMAIN s.pending \cap DOMAIN s.results = {}}
Snapshots == [doc : SoundStates, holds : SUBSET Items, waiter : Waiters]

\* The states that the steps make of s.
Marked(s, e) == [s EXCEPT !.mark = e]
Applied(s, C, e) ==
    [Answered([s EXCEPT !.mark = e], C, "accepted", e) EXCEPT !.events = Put(@, e, FALSE)]
Recorded(s, c, n) == [s EXCEPT !.pending = Put(@, c, n)]
Dropped(s, c) == [s EXCEPT !.pending = Without(@, {c})]
Replayed(s, c) ==
    LET r == s.results[c]
    IN [s EXCEPT !.results[c] = [r EXCEPT !.delivered = FALSE,
                                          !.event = IF r.delivered THEN NoRun ELSE @]]
EventDelivered(s, e) == [s EXCEPT !.events[e] = TRUE]
ResultDelivered(s, c) == [s EXCEPT !.results[c].delivered = TRUE]

-----------------------------------------------------------------------------
(* Dictionaries, and the operations on a state. *)

\* A dictionary is a function on some of the keys.
LEMMA DictFacts ==
  ASSUME NEW K, NEW V, NEW f
  PROVE  f \in Dict(K, V) <=> DOMAIN f \subseteq K /\ f \in [DOMAIN f -> V]
BY DEF Dict

\* Entering k changes no other key.
LEMMA PutFacts ==
  ASSUME NEW K, NEW V, NEW f \in Dict(K, V), NEW k \in K, NEW v \in V
  PROVE  /\ Put(f, k, v) \in Dict(K, V)
         /\ DOMAIN Put(f, k, v) = DOMAIN f \cup {k}
         /\ Put(f, k, v)[k] = v
         /\ \A x \in DOMAIN f : x # k => Put(f, k, v)[x] = f[x]
<1>1. DOMAIN f \subseteq K /\ f \in [DOMAIN f -> V]
  BY DictFacts
<1>2. /\ DOMAIN Put(f, k, v) \subseteq K
      /\ Put(f, k, v) \in [DOMAIN Put(f, k, v) -> V]
  BY <1>1 DEF Put
<1>3. Put(f, k, v) \in Dict(K, V)
  BY <1>2, DictFacts
<1> QED BY <1>1, <1>3 DEF Put

\* Forgetting the keys S changes no other key.
LEMMA WithoutFacts ==
  ASSUME NEW K, NEW V, NEW f \in Dict(K, V), NEW S
  PROVE  /\ Without(f, S) \in Dict(K, V)
         /\ DOMAIN Without(f, S) = DOMAIN f \ S
         /\ \A x \in DOMAIN f \ S : Without(f, S)[x] = f[x]
<1>1. DOMAIN f \subseteq K /\ f \in [DOMAIN f -> V]
  BY DictFacts
<1>2. /\ DOMAIN Without(f, S) \subseteq K
      /\ Without(f, S) \in [DOMAIN Without(f, S) -> V]
  BY <1>1 DEF Without, Restrict
<1>3. Without(f, S) \in Dict(K, V)
  BY <1>2, DictFacts
<1> QED BY <1>1, <1>3 DEF Without, Restrict

\* The types of the parts of a state and of a result.
LEMMA PartFacts ==
  ASSUME NEW s \in States
  PROVE  /\ s.mark \in 0 .. MaxRuns /\ s.pending \in Dict(Commands, 0 .. MaxRuns)
         /\ s.events \in Dict(Runs, BOOLEAN) /\ s.results \in Dict(Commands, Results)
         /\ DOMAIN s.pending \subseteq Commands /\ s.pending \in [DOMAIN s.pending -> 0 .. MaxRuns]
         /\ DOMAIN s.events \subseteq Runs /\ s.events \in [DOMAIN s.events -> BOOLEAN]
         /\ DOMAIN s.results \subseteq Commands /\ s.results \in [DOMAIN s.results -> Results]
<1>1. /\ s.mark \in 0 .. MaxRuns /\ s.pending \in Dict(Commands, 0 .. MaxRuns)
      /\ s.events \in Dict(Runs, BOOLEAN) /\ s.results \in Dict(Commands, Results)
  BY DEF States
<1> QED BY <1>1, DictFacts

IsAnswered(t, s, C, o, e) ==
    /\ t.mark = s.mark /\ t.events = s.events
    /\ DOMAIN t.pending = DOMAIN s.pending \ C
    /\ \A c \in DOMAIN t.pending : t.pending[c] = s.pending[c]
    /\ DOMAIN t.results = DOMAIN s.results \cup C
    /\ \A c \in C : t.results[c] = [outcome |-> o, delivered |-> FALSE, event |-> e]
    /\ \A c \in DOMAIN s.results \ C : t.results[c] = s.results[c]

\* Answering C moves it from the pending commands to the results.
LEMMA AnsweredFacts ==
  ASSUME NEW s \in States, NEW C \in SUBSET Commands, NEW o \in Outcomes,
         NEW e \in Runs \cup {NoRun},
         NEW t, t = Answered(s, C, o, e)
  PROVE  t \in States /\ IsAnswered(t, s, C, o, e)
<1> DEFINE answer == [outcome |-> o, delivered |-> FALSE, event |-> e]
           P == Without(s.pending, C)
           R == [c \in DOMAIN s.results \cup C |-> IF c \in C THEN answer ELSE s.results[c]]
<1> HIDE DEF P
<1>1. t = [s EXCEPT !.pending = P, !.results = R]
  BY DEF Answered, P
<1> HIDE DEF answer, R
<1>2. /\ P \in Dict(Commands, 0 .. MaxRuns)
      /\ DOMAIN P = DOMAIN s.pending \ C
      /\ \A x \in DOMAIN s.pending \ C : P[x] = s.pending[x]
  <2>1. s.pending \in Dict(Commands, 0 .. MaxRuns)
    BY PartFacts
  <2>2. P \in Dict(Commands, 0 .. MaxRuns)
    BY <2>1, WithoutFacts, Zenon DEF P
  <2>3. DOMAIN P = DOMAIN s.pending \ C
    BY DEF P, Without, Restrict
  <2>4. \A x \in DOMAIN s.pending \ C : P[x] = s.pending[x]
    BY DEF P, Without, Restrict
  <2> QED BY <2>2, <2>3, <2>4
<1>3. answer \in Results
  BY DEF Results, answer
<1>4. R \in [DOMAIN R -> Results] /\ DOMAIN R \subseteq Commands
  BY <1>3, PartFacts DEF R
<1>5. /\ DOMAIN R = DOMAIN s.results \cup C
      /\ \A c \in C : R[c] = answer
      /\ \A c \in DOMAIN s.results \ C : R[c] = s.results[c]
  BY DEF R
<1>6. R \in Dict(Commands, Results)
  BY <1>4, DictFacts
<1>7. /\ t \in States
      /\ t.mark = s.mark /\ t.pending = P /\ t.events = s.events /\ t.results = R
  <2>1. LET u == [s EXCEPT !.pending = P, !.results = R]
        IN  /\ u \in States
            /\ u.mark = s.mark /\ u.pending = P /\ u.events = s.events /\ u.results = R
    BY <1>2, <1>6 DEF States
  <2> QED BY <1>1, <2>1
<1> QED BY <1>2, <1>5, <1>7 DEF IsAnswered, answer

\* Pruning forgets events, and the events of delivered results.
LEMMA PrunedFacts ==
  ASSUME NEW s \in States,
         NEW t, t = Pruned(s)
  PROVE  /\ t \in States
         /\ t.mark = s.mark /\ t.pending = s.pending
         /\ DOMAIN t.events \subseteq DOMAIN s.events
         /\ \A e \in DOMAIN t.events : t.events[e] = s.events[e]
         /\ DOMAIN t.results = DOMAIN s.results
         /\ \A c \in DOMAIN s.results :
              /\ t.results[c].outcome = s.results[c].outcome
              /\ t.results[c].delivered = s.results[c].delivered
              /\ t.results[c].event = IF s.results[c].delivered THEN NoRun
                                      ELSE s.results[c].event
<1> DEFINE free == [c \in DOMAIN s.results |->
                      IF s.results[c].delivered THEN [s.results[c] EXCEPT !.event = NoRun]
                      ELSE s.results[c]]
           needed == {free[c].event : c \in DOMAIN free}
           gone == {e \in DOMAIN s.events : s.events[e] /\ e \notin needed}
           E == Without(s.events, gone)
<1>1. t = [s EXCEPT !.results = free, !.events = E]
  BY DEF Pruned
<1>2. ASSUME NEW c \in DOMAIN s.results
      PROVE  /\ free[c] \in Results
             /\ free[c].outcome = s.results[c].outcome
             /\ free[c].delivered = s.results[c].delivered
             /\ free[c].event = IF s.results[c].delivered THEN NoRun ELSE s.results[c].event
  <2> DEFINE r == s.results[c]
  <2>1. r \in Results
    BY PartFacts
  <2>2. free[c] = IF r.delivered THEN [r EXCEPT !.event = NoRun] ELSE r
    OBVIOUS
  <2> HIDE DEF r, free
  <2>3. [r EXCEPT !.event = NoRun] \in Results
    BY <2>1 DEF Results
  <2>4. LET q == [r EXCEPT !.event = NoRun]
        IN  q.outcome = r.outcome /\ q.delivered = r.delivered /\ q.event = NoRun
    BY <2>1 DEF Results
  <2>5. QED BY <2>1, <2>2, <2>3, <2>4 DEF r
<1>3. free \in [DOMAIN free -> Results] /\ DOMAIN free = DOMAIN s.results
  BY <1>2
<1>4. s.events \in Dict(Runs, BOOLEAN) /\ DOMAIN free \subseteq Commands
  BY <1>3, PartFacts
<1> HIDE DEF free, needed
<1>5. free \in Dict(Commands, Results)
  BY <1>3, <1>4, DictFacts
<1> HIDE DEF gone
<1>6. /\ E \in Dict(Runs, BOOLEAN)
      /\ DOMAIN E = DOMAIN s.events \ gone
      /\ \A x \in DOMAIN s.events \ gone : E[x] = s.events[x]
  BY <1>4, WithoutFacts
<1> HIDE DEF E
<1>7. /\ t \in States
      /\ t.mark = s.mark /\ t.pending = s.pending /\ t.events = E /\ t.results = free
  <2>1. LET u == [s EXCEPT !.results = free, !.events = E]
        IN  /\ u \in States
            /\ u.mark = s.mark /\ u.pending = s.pending /\ u.events = E /\ u.results = free
    BY <1>5, <1>6 DEF States
  <2> QED BY <1>1, <2>1
<1> QED BY <1>2, <1>3, <1>6, <1>7

\* An execution e that is seen first: the watermark moves to it.
LEMMA MarkedFacts ==
  ASSUME NEW s \in SoundStates, NEW e \in Runs,
         NEW t, t = Marked(s, e)
  PROVE  /\ t \in SoundStates
         /\ t.pending = s.pending /\ t.events = s.events /\ t.results = s.results
<1>1. e \in 0 .. MaxRuns
  BY SceneAssumption DEF Runs
<1>2. t \in States /\ t.pending = s.pending /\ t.events = s.events /\ t.results = s.results
  BY <1>1 DEF SoundStates, States, Marked
<1> QED BY <1>2 DEF SoundStates

IsApplied(t, s, C, e) ==
    /\ DOMAIN t.pending = DOMAIN s.pending \ C
    /\ \A c \in DOMAIN t.pending : t.pending[c] = s.pending[c]
    /\ DOMAIN t.events = DOMAIN s.events \cup {e} /\ ~t.events[e]
    /\ \A f \in DOMAIN s.events \ {e} : t.events[f] = s.events[f]
    /\ DOMAIN t.results = DOMAIN s.results \cup C
    /\ \A c \in C : t.results[c] = [outcome |-> "accepted", delivered |-> FALSE, event |-> e]
    /\ \A c \in DOMAIN s.results : t.results[c] = s.results[c]

\* An execution e confirms the pending commands C and becomes an event.
LEMMA AppliedFacts ==
  ASSUME NEW s \in SoundStates, NEW e \in Runs, NEW C, C \subseteq DOMAIN s.pending,
         NEW t, t = Applied(s, C, e)
  PROVE  t \in SoundStates /\ IsApplied(t, s, C, e)
<1> DEFINE m == Marked(s, e)
           a == Answered(m, C, "accepted", e)
           E == Put(a.events, e, FALSE)
<1>1. /\ m \in SoundStates
      /\ m.pending = s.pending /\ m.events = s.events /\ m.results = s.results
  BY MarkedFacts
<1>10. t = [a EXCEPT !.events = E]
  BY DEF Applied, Marked
<1> HIDE DEF m, a, E
<1>2. m \in States /\ C \in SUBSET Commands
  <2>1. m \in States
    BY <1>1 DEF SoundStates
  <2>2. DOMAIN m.pending \subseteq Commands
    BY <2>1, PartFacts
  <2> QED BY <1>1, <2>1, <2>2
<1>3. "accepted" \in Outcomes /\ e \in Runs \cup {NoRun}
  BY DEF Outcomes
<1>4. /\ a \in States
      /\ a.events = m.events
      /\ DOMAIN a.pending = DOMAIN m.pending \ C
      /\ \A c \in DOMAIN a.pending : a.pending[c] = m.pending[c]
      /\ DOMAIN a.results = DOMAIN m.results \cup C
      /\ \A c \in C : a.results[c] = [outcome |-> "accepted", delivered |-> FALSE, event |-> e]
      /\ \A c \in DOMAIN m.results \ C : a.results[c] = m.results[c]
  <2>1. a \in States /\ IsAnswered(a, m, C, "accepted", e)
    BY <1>2, <1>3, AnsweredFacts DEF a
  <2> QED BY <2>1 DEF IsAnswered
<1>5. /\ DOMAIN E = DOMAIN a.events \cup {e} /\ E[e] = FALSE
      /\ \A f \in DOMAIN a.events \ {e} : E[f] = a.events[f]
  BY DEF Put, E
<1>6. E \in Dict(Runs, BOOLEAN)
  <2>1. DOMAIN a.events \subseteq Runs /\ a.events \in [DOMAIN a.events -> BOOLEAN]
    BY <1>4, PartFacts
  <2>2. E \in [DOMAIN E -> BOOLEAN]
    BY <2>1 DEF Put, E
  <2> QED BY <1>5, <2>1, <2>2, DictFacts
<1>7. /\ t \in States
      /\ t.pending = a.pending /\ t.events = E /\ t.results = a.results
  BY <1>4, <1>6, <1>10 DEF States
<1>8. DOMAIN s.pending \cap DOMAIN s.results = {}
  BY DEF SoundStates
<1>9. t \in SoundStates
  BY <1>1, <1>4, <1>7, <1>8 DEF SoundStates
<1> QED BY <1>1, <1>4, <1>5, <1>7, <1>8, <1>9 DEF m, IsApplied

IsSettled(t, s, c, o) ==
    /\ t.events = s.events
    /\ DOMAIN t.pending = DOMAIN s.pending \ {c}
    /\ \A d \in DOMAIN t.pending : t.pending[d] = s.pending[d]
    /\ DOMAIN t.results = DOMAIN s.results \cup {c}
    /\ t.results[c] = [outcome |-> o, delivered |-> FALSE, event |-> NoRun]
    /\ \A d \in DOMAIN s.results : t.results[d] = s.results[d]

\* A command c that is answered: it was pending, or new.
LEMMA SettledFacts ==
  ASSUME NEW s \in SoundStates, NEW c \in Commands, c \notin DOMAIN s.results,
         NEW o \in Outcomes,
         NEW t, t = Answered(s, {c}, o, NoRun)
  PROVE  t \in SoundStates /\ IsSettled(t, s, c, o) /\ Grows(s, t)
<1>1. s \in States /\ {c} \in SUBSET Commands /\ NoRun \in Runs \cup {NoRun}
  BY DEF SoundStates
<1>2. /\ t \in States
      /\ t.events = s.events
      /\ DOMAIN t.pending = DOMAIN s.pending \ {c}
      /\ \A d \in DOMAIN t.pending : t.pending[d] = s.pending[d]
      /\ DOMAIN t.results = DOMAIN s.results \cup {c}
      /\ \A d \in {c} : t.results[d] = [outcome |-> o, delivered |-> FALSE, event |-> NoRun]
      /\ \A d \in DOMAIN s.results \ {c} : t.results[d] = s.results[d]
  <2>1. t \in States /\ IsAnswered(t, s, {c}, o, NoRun)
    BY <1>1, AnsweredFacts
  <2> QED BY <2>1 DEF IsAnswered
<1>3. t \in SoundStates /\ IsSettled(t, s, c, o)
  BY <1>2 DEF SoundStates, IsSettled
<1>4. Grows(s, t)
  BY <1>2 DEF Grows, Says, Known
<1> QED BY <1>3, <1>4

\* A command c that is recorded.
LEMMA AcceptedFacts ==
  ASSUME NEW s \in SoundStates, NEW c \in Commands, c \notin DOMAIN s.results,
         NEW n \in 0 .. MaxRuns,
         NEW t, t = Recorded(s, c, n)
  PROVE  /\ t \in SoundStates
         /\ t.events = s.events /\ t.results = s.results
         /\ DOMAIN t.pending = DOMAIN s.pending \cup {c} /\ t.pending[c] = n
         /\ \A d \in DOMAIN s.pending \ {c} : t.pending[d] = s.pending[d]
<1> DEFINE P == Put(s.pending, c, n)
<1>5. t = [s EXCEPT !.pending = P]
  BY DEF Recorded
<1> HIDE DEF P
<1>1. s \in States /\ DOMAIN s.pending \cap DOMAIN s.results = {}
  BY DEF SoundStates
<1>2. /\ DOMAIN P = DOMAIN s.pending \cup {c} /\ P[c] = n
      /\ \A d \in DOMAIN s.pending \ {c} : P[d] = s.pending[d]
  BY DEF Put, P
<1>3. P \in Dict(Commands, 0 .. MaxRuns)
  <2>1. DOMAIN s.pending \subseteq Commands /\ s.pending \in [DOMAIN s.pending -> 0 .. MaxRuns]
    BY <1>1, PartFacts
  <2>2. P \in [DOMAIN P -> 0 .. MaxRuns]
    BY <2>1 DEF Put, P
  <2> QED BY <1>2, <2>1, <2>2, DictFacts
<1>4. t \in States /\ t.pending = P /\ t.events = s.events /\ t.results = s.results
  BY <1>1, <1>3, <1>5 DEF States
<1> QED BY <1>1, <1>2, <1>4 DEF SoundStates, P

\* A command c that is forgotten.
LEMMA ForgottenFacts ==
  ASSUME NEW s \in SoundStates, NEW c,
         NEW t, t = Dropped(s, c)
  PROVE  /\ t \in SoundStates
         /\ t.events = s.events /\ t.results = s.results
         /\ DOMAIN t.pending = DOMAIN s.pending \ {c}
         /\ \A d \in DOMAIN t.pending : t.pending[d] = s.pending[d]
<1> DEFINE P == Without(s.pending, {c})
<1>5. t = [s EXCEPT !.pending = P]
  BY DEF Dropped
<1> HIDE DEF P
<1>1. s \in States /\ DOMAIN s.pending \cap DOMAIN s.results = {}
  BY DEF SoundStates
<1>2. /\ DOMAIN P = DOMAIN s.pending \ {c}
      /\ \A d \in DOMAIN P : P[d] = s.pending[d]
  BY DEF Without, Restrict, P
<1>3. P \in Dict(Commands, 0 .. MaxRuns)
  <2>1. DOMAIN s.pending \subseteq Commands /\ s.pending \in [DOMAIN s.pending -> 0 .. MaxRuns]
    BY <1>1, PartFacts
  <2>2. P \in [DOMAIN P -> 0 .. MaxRuns]
    BY <2>1 DEF Without, Restrict, P
  <2> QED BY <1>2, <2>1, <2>2, DictFacts
<1>4. t \in States /\ t.pending = P /\ t.events = s.events /\ t.results = s.results
  BY <1>1, <1>3, <1>5 DEF States
<1> QED BY <1>1, <1>2, <1>4 DEF SoundStates, P

\* A complete command c that is to be answered again.
LEMMA ReplayedFacts ==
  ASSUME NEW s \in SoundStates, NEW c \in DOMAIN s.results,
         NEW t, t = Replayed(s, c)
  PROVE  /\ t \in SoundStates
         /\ t.events = s.events /\ t.pending = s.pending
         /\ DOMAIN t.results = DOMAIN s.results
         /\ \A d \in DOMAIN s.results \ {c} : t.results[d] = s.results[d]
         /\ t.results[c].outcome = s.results[c].outcome
         /\ t.results[c].event = IF s.results[c].delivered THEN NoRun ELSE s.results[c].event
         /\ ~t.results[c].delivered
<1> DEFINE r == s.results[c]
           q == [r EXCEPT !.delivered = FALSE, !.event = IF r.delivered THEN NoRun ELSE @]
           R == [s.results EXCEPT ![c] = q]
<1>1. s \in States /\ DOMAIN s.pending \cap DOMAIN s.results = {}
  BY DEF SoundStates
<1>2. t = [s EXCEPT !.results = R]
  BY DEF Replayed
<1>3. r \in Results
  BY <1>1, PartFacts
<1> HIDE DEF r
<1>4. /\ q \in Results
      /\ q.outcome = r.outcome /\ ~q.delivered
      /\ q.event = IF r.delivered THEN NoRun ELSE r.event
  BY <1>3 DEF Results
<1> HIDE DEF q
<1>5. /\ DOMAIN R = DOMAIN s.results /\ R[c] = q
      /\ \A d \in DOMAIN s.results \ {c} : R[d] = s.results[d]
  OBVIOUS
<1>6. R \in Dict(Commands, Results)
  <2>1. DOMAIN s.results \subseteq Commands /\ s.results \in [DOMAIN s.results -> Results]
    BY <1>1, PartFacts
  <2>2. R \in [DOMAIN R -> Results]
    BY <1>4, <2>1
  <2> QED BY <1>5, <2>1, <2>2, DictFacts
<1> HIDE DEF R
<1>7. /\ t \in States
      /\ t.pending = s.pending /\ t.events = s.events /\ t.results = R
  BY <1>1, <1>2, <1>6 DEF States
<1> QED BY <1>1, <1>4, <1>5, <1>7 DEF SoundStates, r

\* The event of an execution e that was delivered.
LEMMA EventDeliveredFacts ==
  ASSUME NEW s \in SoundStates, NEW e,
         NEW t, t = EventDelivered(s, e)
  PROVE  /\ t \in SoundStates
         /\ t.pending = s.pending /\ t.results = s.results
         /\ DOMAIN t.events = DOMAIN s.events
         /\ \A f \in DOMAIN s.events \ {e} : t.events[f] = s.events[f]
<1> DEFINE E == [s.events EXCEPT ![e] = TRUE]
<1>1. s \in States /\ DOMAIN s.pending \cap DOMAIN s.results = {}
  BY DEF SoundStates
<1>2. t = [s EXCEPT !.events = E]
  BY DEF EventDelivered
<1>3. E \in Dict(Runs, BOOLEAN)
  <2>1. DOMAIN s.events \subseteq Runs /\ s.events \in [DOMAIN s.events -> BOOLEAN]
    BY <1>1, PartFacts
  <2>2. E \in [DOMAIN E -> BOOLEAN]
    BY <2>1
  <2> QED BY <2>1, <2>2, DictFacts
<1>4. DOMAIN E = DOMAIN s.events /\ \A f \in DOMAIN s.events \ {e} : E[f] = s.events[f]
  OBVIOUS
<1> HIDE DEF E
<1>5. /\ t \in States
      /\ t.pending = s.pending /\ t.events = E /\ t.results = s.results
  BY <1>1, <1>2, <1>3 DEF States
<1> QED BY <1>1, <1>4, <1>5 DEF SoundStates

\* The result of a command c that was delivered.
LEMMA ResultDeliveredFacts ==
  ASSUME NEW s \in SoundStates, NEW c \in DOMAIN s.results,
         NEW t, t = ResultDelivered(s, c)
  PROVE  /\ t \in SoundStates
         /\ t.pending = s.pending /\ t.events = s.events
         /\ DOMAIN t.results = DOMAIN s.results
         /\ \A d \in DOMAIN s.results \ {c} : t.results[d] = s.results[d]
         /\ t.results[c].outcome = s.results[c].outcome
         /\ t.results[c].event = s.results[c].event
<1> DEFINE r == s.results[c]
           q == [r EXCEPT !.delivered = TRUE]
           R == [s.results EXCEPT ![c] = q]
<1>1. s \in States /\ DOMAIN s.pending \cap DOMAIN s.results = {}
  BY DEF SoundStates
<1>2. t = [s EXCEPT !.results = R]
  BY DEF ResultDelivered
<1>3. r \in Results
  BY <1>1, PartFacts
<1> HIDE DEF r
<1>4. q \in Results /\ q.outcome = r.outcome /\ q.event = r.event
  BY <1>3 DEF Results
<1> HIDE DEF q
<1>5. /\ DOMAIN R = DOMAIN s.results /\ R[c] = q
      /\ \A d \in DOMAIN s.results \ {c} : R[d] = s.results[d]
  OBVIOUS
<1>6. R \in Dict(Commands, Results)
  <2>1. DOMAIN s.results \subseteq Commands /\ s.results \in [DOMAIN s.results -> Results]
    BY <1>1, PartFacts
  <2>2. R \in [DOMAIN R -> Results]
    BY <1>4, <2>1
  <2> QED BY <1>5, <2>1, <2>2, DictFacts
<1> HIDE DEF R
<1>7. /\ t \in States
      /\ t.pending = s.pending /\ t.events = s.events /\ t.results = R
  BY <1>1, <1>2, <1>6 DEF States
<1> QED BY <1>1, <1>4, <1>5, <1>7 DEF SoundStates, r

-----------------------------------------------------------------------------
(* The queue of the writer. *)

\* A snapshot is queued behind the others, which hold the touched items no more.
IsCaptured(T, w) ==
    /\ state' \in SoundStates
    /\ durable' = durable \ T
    /\ queue' \in Seq(Snapshots) /\ Len(queue') = Len(queue) + 1
    /\ \A i \in 1 .. Len(queue) :
          /\ queue'[i].doc = queue[i].doc /\ queue'[i].waiter = queue[i].waiter
          /\ queue'[i].holds = queue[i].holds \ T
    /\ queue'[Len(queue')].doc = state' /\ queue'[Len(queue')].waiter = w
    /\ queue'[Len(queue')].holds = HeldIn(state')

\* Capture queues a snapshot as described.
LEMMA CaptureFacts ==
  ASSUME queue \in Seq(Snapshots), NEW T, NEW w \in Waiters,
         NEW s \in SoundStates, Capture(s, T, w)
  PROVE  state' = s /\ IsCaptured(T, w)
<1> DEFINE n == Len(queue)
           Q == [i \in DOMAIN queue |-> [queue[i] EXCEPT !.holds = @ \ T]]
           q == [doc |-> s, holds |-> HeldIn(s), waiter |-> w]
<1>1. /\ state' = s /\ durable' = durable \ T /\ queue' = Append(Q, q)
  BY DEF Capture
<1>2. n \in Nat /\ DOMAIN queue = 1 .. n
  OBVIOUS
<1>3. ASSUME NEW i \in 1 .. n
      PROVE  /\ Q[i] \in Snapshots
             /\ Q[i].doc = queue[i].doc /\ Q[i].waiter = queue[i].waiter
             /\ Q[i].holds = queue[i].holds \ T
  <2> DEFINE r == queue[i]
  <2>1. r \in Snapshots
    BY <1>2
  <2>2. Q[i] = [r EXCEPT !.holds = @ \ T]
    BY <1>2
  <2> HIDE DEF r, Q
  <2>3. [r EXCEPT !.holds = @ \ T] \in Snapshots
    BY <2>1 DEF Snapshots
  <2>4. LET u == [r EXCEPT !.holds = @ \ T]
        IN  u.doc = r.doc /\ u.waiter = r.waiter /\ u.holds = r.holds \ T
    BY <2>1 DEF Snapshots
  <2> QED BY <2>2, <2>3, <2>4 DEF r
<1>4. DOMAIN Q = 1 .. n
  BY <1>2
<1>5. q \in Snapshots
  <2>1. DOMAIN s.events \subseteq Runs /\ DOMAIN s.results \subseteq Commands
    BY PartFacts DEF SoundStates
  <2>2. HeldIn(s) \in SUBSET Items
    BY <2>1 DEF HeldIn, Items
  <2> QED BY <2>2 DEF Snapshots
<1>6. q.doc = s /\ q.waiter = w /\ q.holds = HeldIn(s)
  OBVIOUS
<1> HIDE DEF Q, q, n
<1>7. Q \in Seq(Snapshots) /\ Len(Q) = n
  <2>1. Q \in [1 .. n -> Snapshots]
    <3>1. Q = [i \in DOMAIN Q |-> Q[i]]
      BY DEF Q
    <3> QED BY <1>3, <1>4, <3>1
  <2>2. Q \in Seq(Snapshots)
    BY <1>2, <2>1
  <2> QED BY <1>2, <1>4, <2>2
<1>8. /\ queue' \in Seq(Snapshots) /\ Len(queue') = n + 1 /\ queue'[n + 1] = q
      /\ \A i \in 1 .. n : queue'[i] = Q[i]
  BY <1>1, <1>2, <1>5, <1>7
<1> QED BY <1>1, <1>3, <1>6, <1>8 DEF IsCaptured, n

\* The first snapshot leaves the queue.
LEMMA TailFacts ==
  ASSUME queue \in Seq(Snapshots), queue # <<>>, queue' = Tail(queue)
  PROVE  /\ 1 \in 1 .. Len(queue) /\ Head(queue) = queue[1] /\ queue[1] \in Snapshots
         /\ queue' \in Seq(Snapshots) /\ Len(queue') = Len(queue) - 1
         /\ \A i \in 1 .. Len(queue') : i + 1 \in 1 .. Len(queue) /\ queue'[i] = queue[i + 1]
<1>1. Len(queue) \in Nat \ {0}
  OBVIOUS
<1> QED BY <1>1

\* Nobody waits for the snapshots of a session that ended.
LEMMA OrphanFacts ==
  ASSUME queue \in Seq(Snapshots),
         queue' = [i \in DOMAIN queue |-> [queue[i] EXCEPT !.waiter = <<"nobody">>]]
  PROVE  /\ queue' \in Seq(Snapshots) /\ Len(queue') = Len(queue)
         /\ \A i \in 1 .. Len(queue) :
              queue'[i].doc = queue[i].doc /\ queue'[i].waiter = <<"nobody">>
<1>1. Len(queue) \in Nat /\ DOMAIN queue = 1 .. Len(queue)
  OBVIOUS
<1>2. ASSUME NEW i \in 1 .. Len(queue)
      PROVE  /\ queue'[i] \in Snapshots
             /\ queue'[i].doc = queue[i].doc /\ queue'[i].waiter = <<"nobody">>
  <2> DEFINE r == queue[i]
             u == [r EXCEPT !.waiter = <<"nobody">>]
  <2>1. r \in Snapshots /\ queue'[i] = u
    BY <1>1
  <2>2. <<"nobody">> \in Waiters
    BY DEF Waiters
  <2> HIDE DEF r
  <2>3. u \in Snapshots /\ u.doc = r.doc /\ u.waiter = <<"nobody">>
    BY <2>1, <2>2 DEF Snapshots
  <2> QED BY <2>1, <2>3 DEF r
<1>3. DOMAIN queue' = 1 .. Len(queue) /\ queue' = [i \in DOMAIN queue' |-> queue'[i]]
  BY <1>1
<1>4. queue' \in [1 .. Len(queue) -> Snapshots]
  BY <1>2, <1>3
<1>5. queue' \in Seq(Snapshots) /\ Len(queue') = Len(queue)
  BY <1>1, <1>3, <1>4
<1> QED BY <1>2, <1>5

-----------------------------------------------------------------------------
(* The steps that queue a snapshot. *)

\* The types of what no snapshot holds.
FieldsInv ==
    /\ phase \in {"down", "loaded", "starting", "up"}
    /\ trusted \in BOOLEAN /\ seeded \in BOOLEAN
    /\ timed \subseteq Commands /\ writing \subseteq timed
    /\ courier \in {<<"idle">>, <<"looking">>, <<"saving">>} \cup Items
    /\ ran \in 0 .. MaxRuns /\ floor \in 0 .. ran
    /\ asked \in Dict(Commands, 0 .. MaxRuns) /\ writes \in [Commands -> Nat]
    /\ heard \subseteq Runs /\ answers \in [Commands -> SUBSET Outcomes]
    /\ messages \in 0 .. MaxMessages
    /\ restarts \in 0 .. MaxRestarts /\ faults \in 0 .. MaxFaults
    /\ phase # "up" => writing = {}
    /\ phase = "down" => courier = <<"idle">>

\* All types.  The writer's waiters belong to the session: a write of a command is
\* awaited while commands are taken.
TypeInv ==
    /\ FieldsInv
    /\ durable \subseteq Items /\ queue \in Seq(Snapshots)
    /\ state \in SoundStates /\ disk \in SoundStates
    /\ phase # "up" => \A i \in 1 .. Len(queue) : queue[i].waiter[1] # "write"
    /\ phase = "down" =>
          durable = {} /\ \A i \in 1 .. Len(queue) : queue[i].waiter = <<"nobody">>
    /\ \A c \in Commands : courier = <<"result", c>> => c \in DOMAIN state.results

\* A step of a session that adds to the state and queues it for the task w.
Records(T, w) ==
    /\ T \subseteq Items /\ w \in Waiters \ {<<"nobody">>} /\ IsCaptured(T, w)
    /\ phase # "down" /\ phase' # "down" /\ (phase = "up" => phase' = "up")
    /\ disk' = disk /\ writes' = writes /\ courier' \in {courier, <<"saving">>}
    /\ Grows(state, state')
    /\ \A c \in Commands : w = <<"write", c>> =>
          phase = "up" /\ c \notin Known(state) /\ c \in Known(state')

\* What an execution e that is seen does to the state.
Advanced(t, s, e) ==
    \/ t = s
    \/ e \in Runs /\ t = Marked(s, e)
    \/ e \in Runs /\ t = Applied(s, Confirmed(s, e), e)

\* Pruning takes nothing back.
LEMMA PrunedGrows ==
  ASSUME NEW s \in SoundStates,
         NEW t, t = Pruned(s)
  PROVE  t \in SoundStates /\ Grows(s, t)
<1>1. s \in States /\ DOMAIN s.pending \cap DOMAIN s.results = {}
  BY DEF SoundStates
<1>2. /\ t \in States /\ t.pending = s.pending /\ DOMAIN t.results = DOMAIN s.results
      /\ \A c \in DOMAIN s.results : t.results[c].outcome = s.results[c].outcome
  BY <1>1, PrunedFacts
<1> QED BY <1>1, <1>2 DEF SoundStates, Grows, Says, Known

\* Nor does seeing an execution.
LEMMA AdvancedGrows ==
  ASSUME NEW s \in SoundStates, NEW e, NEW t, Advanced(t, s, e)
  PROVE  t \in SoundStates /\ Grows(s, t)
<1>1. CASE t = s
  BY <1>1 DEF Grows, Says
<1>2. CASE e \in Runs /\ t = Marked(s, e)
  BY <1>2, MarkedFacts DEF Grows, Says, Known
<1>3. CASE e \in Runs /\ t = Applied(s, Confirmed(s, e), e)
  <2> DEFINE C == Confirmed(s, e)
  <2>1. C \subseteq DOMAIN s.pending /\ e \in Runs /\ t = Applied(s, C, e)
    BY <1>3 DEF Confirmed
  <2> HIDE DEF C
  <2>2. /\ t \in SoundStates
        /\ DOMAIN t.pending = DOMAIN s.pending \ C
        /\ DOMAIN t.results = DOMAIN s.results \cup C
        /\ \A c \in DOMAIN s.results : t.results[c] = s.results[c]
    <3>1. t \in SoundStates /\ IsApplied(t, s, C, e)
      BY <2>1, AppliedFacts
    <3> QED BY <3>1 DEF IsApplied
  <2> QED BY <2>2 DEF Grows, Says, Known
<1> QED BY <1>1, <1>2, <1>3 DEF Advanced

\* An execution that is seen is recorded and moves the state forward.
LEMMA ProcessFacts ==
  ASSUME TypeInv, NEW e \in 0 .. MaxRuns, NEW emit \in BOOLEAN, Process(e, emit)
  PROVE  /\ Advanced(state', state, e)
         /\ \E T \in SUBSET Items : IsCaptured(T, <<"deliver">>)
         /\ seeded' \in BOOLEAN
         /\ timed' \subseteq timed /\ writing' \subseteq timed' /\ writing' \subseteq writing
<1> DEFINE C == Confirmed(state, e)
           T == {<<"event", e>>} \cup ({"result"} \X C)
           publish == (emit /\ ~(~trusted /\ ~seeded)) \/ C # {}
<1>1. /\ state \in SoundStates /\ queue \in Seq(Snapshots) /\ writing \subseteq timed
      /\ trusted \in BOOLEAN /\ seeded \in BOOLEAN
  BY DEF TypeInv, FieldsInv
<1>2. <<"deliver">> \in Waiters
  BY DEF Waiters
<1>3. C \subseteq DOMAIN state.pending /\ DOMAIN state.pending \subseteq Commands
      /\ state.mark \in 0 .. MaxRuns
  BY <1>1, PartFacts DEF Confirmed, SoundStates
<1>4. seeded' \in BOOLEAN
  BY <1>1 DEF Process
<1>5. CASE e > state.mark /\ publish
  <2>1. e \in Runs
    BY <1>3, <1>5, SceneAssumption DEF Runs
  <2>2. /\ Capture(Applied(state, C, e), T, <<"deliver">>)
        /\ timed' = timed \ C /\ writing' = writing \ C
    BY <1>5 DEF Process, Applied
  <2>3. Applied(state, C, e) \in SoundStates
    BY <1>1, <1>3, <2>1, AppliedFacts
  <2>4. T \in SUBSET Items
    BY <1>3, <2>1 DEF Items
  <2> HIDE DEF T, C
  <2>5. state' = Applied(state, C, e) /\ IsCaptured(T, <<"deliver">>)
    BY <1>1, <1>2, <2>2, <2>3, CaptureFacts
  <2> QED BY <1>1, <1>4, <2>1, <2>2, <2>4, <2>5 DEF Advanced, C
<1>6. CASE e > state.mark /\ ~publish
  <2>1. e \in Runs
    BY <1>3, <1>6, SceneAssumption DEF Runs
  <2>2. /\ Capture(Marked(state, e), {}, <<"deliver">>)
        /\ timed' = timed \ C /\ writing' = writing \ C
    BY <1>6 DEF Process, Marked
  <2>3. Marked(state, e) \in SoundStates
    BY <1>1, <2>1, MarkedFacts
  <2> HIDE DEF C
  <2>5. state' = Marked(state, e) /\ IsCaptured({}, <<"deliver">>)
    BY <1>1, <1>2, <2>2, <2>3, CaptureFacts
  <2> QED BY <1>1, <1>4, <2>1, <2>2, <2>5 DEF Advanced
<1>7. CASE ~(e > state.mark)
  <2>1. Capture(state, {}, <<"deliver">>) /\ timed' = timed /\ writing' = writing
    BY <1>7 DEF Process
  <2>2. state' = state /\ IsCaptured({}, <<"deliver">>)
    BY <1>1, <1>2, <2>1, CaptureFacts
  <2> QED BY <1>1, <1>4, <2>1, <2>2 DEF Advanced
<1> QED BY <1>5, <1>6, <1>7

\* Such a step keeps the types of what it queues.
LEMMA RecordsTypes ==
  ASSUME TypeInv, NEW T, NEW w, Records(T, w), FieldsInv'
  PROVE  TypeInv'
<1>1. /\ state' \in SoundStates /\ disk' \in SoundStates
      /\ durable' \subseteq Items /\ queue' \in Seq(Snapshots)
  BY DEF Records, IsCaptured, TypeInv
<1>2. phase' # "down"
  BY DEF Records
<1>3. ASSUME phase' # "up", NEW i \in 1 .. Len(queue')
      PROVE  queue'[i].waiter[1] # "write"
  <2>1. phase # "up"
    BY <1>3 DEF Records
  <2>2. CASE i \in 1 .. Len(queue)
    BY <2>1, <2>2 DEF TypeInv, Records, IsCaptured
  <2>3. CASE i = Len(queue')
    <3>1. queue'[i].waiter = w /\ w \in Waiters
      BY <2>3 DEF Records, IsCaptured
    <3>2. ASSUME NEW c \in Commands PROVE w # <<"write", c>>
      BY <2>1 DEF Records
    <3> QED BY <3>1, <3>2 DEF Waiters
  <2>4. i \in 1 .. Len(queue) \/ i = Len(queue')
    <3>1. Len(queue) \in Nat /\ Len(queue') = Len(queue) + 1
      BY DEF TypeInv, Records, IsCaptured
    <3> QED BY <3>1
  <2> QED BY <2>2, <2>3, <2>4
<1>4. ASSUME NEW c \in Commands, courier' = <<"result", c>>
      PROVE  c \in DOMAIN state'.results
  <2>1. courier = <<"result", c>>
    BY <1>4 DEF Records
  <2>2. c \in DOMAIN state.results
    BY <2>1 DEF TypeInv
  <2> QED BY <2>2 DEF Records, Grows, Says
<1> QED BY <1>1, <1>2, <1>3, <1>4 DEF TypeInv

\* So a push of the bus records, and keeps the types,
LEMMA SeeRecords ==
  ASSUME TypeInv, NEW e \in 0 .. MaxRuns, See(e)
  PROVE  /\ TypeInv' /\ Advanced(state', state, e)
         /\ \E T, w : Records(T, w)
<1>1. phase = "up" /\ Process(e, TRUE) /\ state \in SoundStates
  BY DEF See, TypeInv
<1>2. /\ Advanced(state', state, e)
      /\ \E T \in SUBSET Items : IsCaptured(T, <<"deliver">>)
      /\ seeded' \in BOOLEAN
      /\ timed' \subseteq timed /\ writing' \subseteq timed'
  BY <1>1, ProcessFacts
<1>3. FieldsInv'
  BY <1>1, <1>2 DEF See, TypeInv, FieldsInv
<1>4. Grows(state, state')
  BY <1>1, <1>2, AdvancedGrows
<1>5. PICK T \in SUBSET Items : IsCaptured(T, <<"deliver">>)
  BY <1>2
<1>6. Records(T, <<"deliver">>)
  BY <1>1, <1>4, <1>5 DEF See, Records, Waiters
<1> QED BY <1>2, <1>3, <1>6, RecordsTypes

\* as does the execution that the start of a session reads,
LEMMA ReadHistoryRecords ==
  ASSUME TypeInv, ReadHistory
  PROVE  /\ TypeInv' /\ Advanced(state', state, ran)
         /\ \E T, w : Records(T, w)
<1>1. phase = "loaded" /\ phase' = "starting" /\ Process(ran, FALSE) /\ state \in SoundStates
      /\ ran \in 0 .. MaxRuns /\ FALSE \in BOOLEAN
  BY DEF ReadHistory, TypeInv, FieldsInv
<1>2. /\ Advanced(state', state, ran)
      /\ \E T \in SUBSET Items : IsCaptured(T, <<"deliver">>)
      /\ seeded' \in BOOLEAN
      /\ timed' \subseteq timed /\ writing' \subseteq timed' /\ writing' \subseteq writing
  BY <1>1, ProcessFacts
<1>3. FieldsInv'
  BY <1>1, <1>2 DEF ReadHistory, TypeInv, FieldsInv, world
<1>4. Grows(state, state')
  BY <1>1, <1>2, AdvancedGrows
<1>5. PICK T \in SUBSET Items : IsCaptured(T, <<"deliver">>)
  BY <1>2
<1>6. Records(T, <<"deliver">>)
  BY <1>1, <1>4, <1>5 DEF ReadHistory, Records, Waiters, world
<1> QED BY <1>2, <1>3, <1>6, RecordsTypes

\* What a message of c does to the state: it is answered again, refused or recorded.
Taken(c) ==
    \/ c \in DOMAIN state.results /\ state' = Replayed(state, c) /\ asked' = asked
    \/ /\ c \notin Known(state) /\ state' = Answered(state, {c}, "unknown_scene", NoRun)
       /\ asked' = asked
    \/ /\ c \notin Known(state) /\ state' = Recorded(state, c, ran)
       /\ asked' = IF c \in DOMAIN asked THEN asked ELSE Put(asked, c, ran)

\* a message of a command,
LEMMA DeliverRecords ==
  ASSUME TypeInv, NEW c \in Commands, Deliver(c)
  PROVE  /\ TypeInv' /\ Taken(c)
         /\ \E T, w : Records(T, w)
<1>1. /\ phase = "up" /\ phase' = phase /\ state \in SoundStates /\ queue \in Seq(Snapshots)
      /\ disk' = disk /\ writes' = writes /\ courier' = courier
  BY DEF Deliver, TypeInv
<1>2. <<"result", c>> \in Items /\ ran \in 0 .. MaxRuns
  BY DEF Items, TypeInv, FieldsInv
<1>3. {<<"deliver">>, <<"write", c>>} \subseteq Waiters \ {<<"nobody">>}
  BY DEF Waiters
<1>7. ASSUME asked' = asked \/ asked' \in Dict(Commands, 0 .. MaxRuns),
             faults' = faults \/ (faults < MaxFaults /\ faults' = faults + 1)
      PROVE  FieldsInv'
  <2>1. asked' \in Dict(Commands, 0 .. MaxRuns)
    BY <1>7 DEF TypeInv, FieldsInv
  <2>2. faults' \in 0 .. MaxFaults /\ messages' \in 0 .. MaxMessages
    BY <1>7, SceneAssumption DEF Deliver, TypeInv, FieldsInv
  <2> QED BY <2>1, <2>2 DEF Deliver, TypeInv, FieldsInv
<1>4. CASE Replay(c)
  <2>1. /\ c \in DOMAIN state.results
        /\ Capture(Replayed(state, c), {<<"result", c>>}, <<"deliver">>)
    BY <1>4 DEF Replay, Replayed
  <2>2. /\ Replayed(state, c) \in SoundStates
        /\ Replayed(state, c).pending = state.pending
        /\ DOMAIN Replayed(state, c).results = DOMAIN state.results
        /\ \A d \in DOMAIN state.results \ {c} :
              Replayed(state, c).results[d] = state.results[d]
        /\ Replayed(state, c).results[c].outcome = state.results[c].outcome
    BY <1>1, <2>1, ReplayedFacts
  <2>3. state' = Replayed(state, c) /\ IsCaptured({<<"result", c>>}, <<"deliver">>)
    BY <1>1, <1>3, <2>1, <2>2, CaptureFacts
  <2>4. Grows(state, state')
    BY <2>2, <2>3 DEF Grows, Says, Known
  <2>5. Records({<<"result", c>>}, <<"deliver">>)
    BY <1>1, <1>2, <1>3, <2>3, <2>4 DEF Records
  <2>6. FieldsInv'
    BY <1>4, <1>7 DEF Replay
  <2>7. asked' = asked
    BY <1>4 DEF Replay
  <2> QED BY <2>1, <2>3, <2>5, <2>6, <2>7, RecordsTypes DEF Taken
<1>5. CASE Refuse(c)
  <2> DEFINE t == Answered(state, {c}, "unknown_scene", NoRun)
  <2>1. /\ c \notin Known(state)
        /\ Capture(t, {<<"result", c>>}, <<"deliver">>)
    BY <1>5 DEF Refuse, Known
  <2>2. "unknown_scene" \in Outcomes /\ c \notin DOMAIN state.results
    BY <2>1 DEF Outcomes, Known
  <2>3. t \in SoundStates /\ Grows(state, t)
    BY <1>1, <2>2, SettledFacts
  <2>4. state' = t /\ IsCaptured({<<"result", c>>}, <<"deliver">>)
    BY <1>1, <1>3, <2>1, <2>3, CaptureFacts
  <2> HIDE DEF t
  <2>6. Records({<<"result", c>>}, <<"deliver">>)
    BY <1>1, <1>2, <1>3, <2>3, <2>4 DEF Records
  <2>7. asked' = asked /\ faults < MaxFaults /\ faults' = faults + 1
    BY <1>5 DEF Refuse
  <2>8. FieldsInv'
    BY <1>7, <2>7
  <2> QED BY <2>1, <2>4, <2>6, <2>7, <2>8, RecordsTypes DEF Taken, t
<1>6. CASE Accept(c)
  <2> DEFINE t == Recorded(state, c, ran)
  <2>1. /\ c \notin Known(state)
        /\ Capture(t, {}, <<"write", c>>)
    BY <1>6 DEF Accept, Known, Recorded
  <2>2. c \notin DOMAIN state.results
    BY <2>1 DEF Known
  <2>3. /\ t \in SoundStates /\ t.results = state.results
        /\ DOMAIN t.pending = DOMAIN state.pending \cup {c}
    BY <1>1, <1>2, <2>2, AcceptedFacts
  <2>4. state' = t /\ IsCaptured({}, <<"write", c>>)
    BY <1>1, <1>3, <2>1, <2>3, CaptureFacts
  <2> HIDE DEF t
  <2>5. Grows(state, state') /\ c \in Known(state')
    BY <2>3, <2>4 DEF Grows, Says, Known
  <2>6. Records({}, <<"write", c>>)
    BY <1>1, <1>3, <2>1, <2>4, <2>5 DEF Records
  <2>10. asked' = IF c \in DOMAIN asked THEN asked ELSE Put(asked, c, ran)
    BY <1>6 DEF Accept
  <2>7. asked' \in Dict(Commands, 0 .. MaxRuns)
    <3>2. asked \in Dict(Commands, 0 .. MaxRuns)
      BY DEF TypeInv, FieldsInv
    <3>3. Put(asked, c, ran) \in Dict(Commands, 0 .. MaxRuns)
      BY <1>2, <3>2, PutFacts, Zenon
    <3> QED BY <2>10, <3>2, <3>3
  <2>8. faults' = faults
    BY <1>6 DEF Accept
  <2>9. FieldsInv'
    BY <1>7, <2>7, <2>8
  <2> QED BY <2>1, <2>4, <2>6, <2>9, <2>10, RecordsTypes DEF Taken, t
<1> QED BY <1>4, <1>5, <1>6 DEF Deliver

\* an answer without an execution,
LEMMA SettleRecords ==
  ASSUME TypeInv, NEW c \in Commands, NEW o \in Outcomes, Settle(c, o),
         faults' \in 0 .. MaxFaults
  PROVE  /\ TypeInv' /\ c \in DOMAIN state.pending
         /\ state' = Answered(state, {c}, o, NoRun)
         /\ \E T, w : Records(T, w)
<1> DEFINE t == Answered(state, {c}, o, NoRun)
<1>1. /\ phase = "up" /\ phase' = phase /\ state \in SoundStates /\ queue \in Seq(Snapshots)
      /\ disk' = disk /\ writes' = writes /\ courier' = courier
      /\ c \in DOMAIN state.pending /\ c \notin DOMAIN state.results
      /\ Capture(t, {<<"result", c>>}, <<"deliver">>)
  BY DEF Settle, TypeInv, SoundStates
<1>2. <<"result", c>> \in Items
  BY DEF Items
<1>3. <<"deliver">> \in Waiters \ {<<"nobody">>}
  BY DEF Waiters
<1>4. t \in SoundStates /\ Grows(state, t)
  BY <1>1, SettledFacts
<1>5. state' = t /\ IsCaptured({<<"result", c>>}, <<"deliver">>)
  BY <1>1, <1>3, <1>4, CaptureFacts
<1> HIDE DEF t
<1>7. Records({<<"result", c>>}, <<"deliver">>)
  BY <1>1, <1>2, <1>3, <1>4, <1>5 DEF Records
<1>8. FieldsInv'
  BY DEF Settle, TypeInv, FieldsInv
<1> QED BY <1>1, <1>5, <1>7, <1>8, RecordsTypes DEF t

\* What the broker gets, and what the acknowledgement does to the state.
LEMMA ReceivedFacts ==
  ASSUME TypeInv, courier \in Items, Received
  PROVE  \/ \E e \in Runs : /\ courier = <<"event", e>>
                           /\ heard' = heard \cup {e} /\ answers' = answers
         \/ \E c \in Commands : /\ courier = <<"result", c>> /\ c \in DOMAIN state.results
                               /\ heard' = heard
                               /\ answers' = [answers EXCEPT
                                                ![c] = @ \cup {state.results[c].outcome}]
<1>1. CASE \E e \in Runs : courier = <<"event", e>>
  <2>1. PICK e \in Runs : courier = <<"event", e>>
    BY <1>1
  <2>2. courier[1] = "event" /\ courier[2] = e
    BY <2>1
  <2> QED BY <2>1, <2>2 DEF Received
<1>2. CASE \E c \in Commands : courier = <<"result", c>>
  <2>1. PICK c \in Commands : courier = <<"result", c>>
    BY <1>2
  <2>2. courier[1] = "result" /\ courier[2] = c /\ c \in DOMAIN state.results
    BY <2>1 DEF TypeInv
  <2> QED BY <2>1, <2>2 DEF Received
<1> QED BY <1>1, <1>2 DEF Items

\* The broker's history stays within its types.
LEMMA ReceivedTypes ==
  ASSUME TypeInv, courier \in Items, Received
  PROVE  heard' \subseteq Runs /\ answers' \in [Commands -> SUBSET Outcomes]
<1>1. heard \subseteq Runs /\ answers \in [Commands -> SUBSET Outcomes] /\ state \in States
  BY DEF TypeInv, FieldsInv, SoundStates
<1>2. CASE \E e \in Runs : heard' = heard \cup {e} /\ answers' = answers
  BY <1>1, <1>2
<1>3. ASSUME NEW c \in Commands, c \in DOMAIN state.results, heard' = heard,
             answers' = [answers EXCEPT ![c] = @ \cup {state.results[c].outcome}]
      PROVE  heard' \subseteq Runs /\ answers' \in [Commands -> SUBSET Outcomes]
  <2>1. state.results[c] \in Results
    BY <1>1, <1>3, PartFacts
  <2>2. state.results[c].outcome \in Outcomes
    BY <2>1 DEF Results
  <2> QED BY <1>1, <1>3, <2>2
<1> QED BY <1>2, <1>3, ReceivedFacts

Acknowledged(t, s, x) ==
    \/ \E e \in Runs : x = <<"event", e>> /\ t = Pruned(EventDelivered(s, e))
    \/ \E c \in DOMAIN s.results :
          x = <<"result", c>> /\ t = Pruned(ResultDelivered(s, c))

\* and an acknowledgement of the broker.
LEMMA PublishRecords ==
  ASSUME TypeInv, Publish
  PROVE  /\ TypeInv' /\ Acknowledged(state', state, courier)
         /\ \E T, w : Records(T, w)
<1> DEFINE u == IF courier[1] = "event"
                THEN EventDelivered(state, courier[2]) ELSE ResultDelivered(state, courier[2])
           t == Pruned(u)
<1>1. /\ courier \in Items /\ state \in SoundStates /\ queue \in Seq(Snapshots)
      /\ phase' = phase /\ disk' = disk /\ writes' = writes /\ courier' = <<"saving">>
      /\ Capture(t, {}, <<"loop">>)
  BY DEF Publish, TypeInv, EventDelivered, ResultDelivered
<1>2. phase # "down"
  BY <1>1 DEF TypeInv, FieldsInv, Items
<1>3. <<"loop">> \in Waiters \ {<<"nobody">>}
  BY DEF Waiters
<1>4. ASSUME NEW e \in Runs, courier = <<"event", e>>
      PROVE  u \in SoundStates /\ Grows(state, u) /\ Acknowledged(t, state, courier)
  <2>1. u = EventDelivered(state, e)
    BY <1>4
  <2>2. u \in SoundStates /\ u.pending = state.pending /\ u.results = state.results
    BY <1>1, <2>1, EventDeliveredFacts
  <2>3. Grows(state, u)
    BY <2>2 DEF Grows, Says, Known
  <2> QED BY <1>4, <2>1, <2>2, <2>3 DEF Acknowledged
<1>5. ASSUME NEW c \in Commands, courier = <<"result", c>>
      PROVE  u \in SoundStates /\ Grows(state, u) /\ Acknowledged(t, state, courier)
  <2>1. u = ResultDelivered(state, c) /\ c \in DOMAIN state.results
    BY <1>5 DEF TypeInv
  <2>2. /\ u \in SoundStates /\ u.pending = state.pending
        /\ DOMAIN u.results = DOMAIN state.results
        /\ \A d \in DOMAIN state.results \ {c} : u.results[d] = state.results[d]
        /\ u.results[c].outcome = state.results[c].outcome
    BY <1>1, <2>1, ResultDeliveredFacts
  <2>3. Grows(state, u)
    BY <2>2 DEF Grows, Says, Known
  <2> QED BY <1>5, <2>1, <2>2, <2>3 DEF Acknowledged
<1>6. u \in SoundStates /\ Grows(state, u) /\ Acknowledged(t, state, courier)
  BY <1>1, <1>4, <1>5 DEF Items
<1> HIDE DEF u
<1>7. t \in SoundStates /\ Grows(u, t)
  BY <1>6, PrunedGrows
<1>8. state' = t /\ IsCaptured({}, <<"loop">>)
  BY <1>1, <1>3, <1>7, CaptureFacts
<1> HIDE DEF t
<1>9. Records({}, <<"loop">>)
  <2>1. Grows(state, t)
    BY <1>6, <1>7 DEF Grows, Says
  <2> QED BY <1>1, <1>2, <1>3, <1>8, <2>1 DEF Records
<1>10. FieldsInv'
  <2>1. Received
    BY DEF Publish
  <2>2. heard' \subseteq Runs /\ answers' \in [Commands -> SUBSET Outcomes]
    BY <1>1, <2>1, ReceivedTypes
  <2> QED BY <1>2, <2>2 DEF Publish, TypeInv, FieldsInv
<1> QED BY <1>6, <1>8, <1>9, <1>10, RecordsTypes

-----------------------------------------------------------------------------
(* The other steps, and the types. *)

\* The writer took the first snapshot: what waits for the others is as it was.
LEMMA TailTypes ==
  ASSUME TypeInv, queue # <<>>, queue' = Tail(queue), phase' = phase
  PROVE  /\ queue' \in Seq(Snapshots)
         /\ phase' # "up" => \A i \in 1 .. Len(queue') : queue'[i].waiter[1] # "write"
         /\ phase' = "down" => \A i \in 1 .. Len(queue') : queue'[i].waiter = <<"nobody">>
<1>1. /\ queue' \in Seq(Snapshots)
      /\ \A i \in 1 .. Len(queue') : i + 1 \in 1 .. Len(queue) /\ queue'[i] = queue[i + 1]
  BY TailFacts DEF TypeInv
<1>2. phase' # "up" => \A i \in 1 .. Len(queue') : queue'[i].waiter[1] # "write"
  BY <1>1 DEF TypeInv
<1>3. phase' = "down" => \A i \in 1 .. Len(queue') : queue'[i].waiter = <<"nobody">>
  BY <1>1 DEF TypeInv
<1> QED BY <1>1, <1>2, <1>3

\* What a write that succeeded changes in memory.
LEMMA PersistedFacts ==
  ASSUME TypeInv, NEW q \in Snapshots, q.waiter # <<"nobody">>, Persisted(q)
  PROVE  /\ state' = state /\ durable' = durable \cup q.holds
         /\ trusted' \in BOOLEAN /\ seeded' \in BOOLEAN
         /\ courier' \in {courier, <<"looking">>}
         /\ \/ timed' = timed /\ writing' = writing /\ writes' = writes
            \/ \E c \in Commands : /\ q.waiter = <<"write", c>> /\ c \in DOMAIN state.pending
                                  /\ timed' = timed \cup {c} /\ writing' = writing \cup {c}
                                  /\ writes' = [writes EXCEPT ![c] = @ + 1]
<1>1. q.waiter \in Waiters
  BY DEF Snapshots
<1>2. /\ state' = state /\ durable' = durable \cup q.holds
      /\ trusted' \in BOOLEAN /\ seeded' \in BOOLEAN
      /\ courier' \in {courier, <<"looking">>}
  BY DEF Persisted, Scheduled
<1>3. CASE \E c \in Commands : q.waiter = <<"write", c>>
  <2>1. PICK c \in Commands : q.waiter = <<"write", c>>
    BY <1>3
  <2>2. /\ q.waiter[1] = "write" /\ q.waiter[2] = c
        /\ q.waiter # <<"deliver">> /\ q.waiter # <<"loop">>
    BY <2>1
  <2>3. CASE c \in DOMAIN state.pending
    <3>1. /\ timed' = timed \cup {c} /\ writing' = writing \cup {c}
          /\ writes' = [writes EXCEPT ![c] = @ + 1]
      BY <2>2, <2>3, Zenon DEF Persisted
    <3> QED BY <1>2, <2>1, <2>3, <3>1
  <2>4. CASE c \notin DOMAIN state.pending
    <3>1. timed' = timed /\ writing' = writing /\ writes' = writes
      BY <2>2, <2>4, Zenon DEF Persisted
    <3> QED BY <1>2, <3>1
  <2> QED BY <2>3, <2>4
<1>4. CASE q.waiter = <<"deliver">>
  BY <1>2, <1>4 DEF Persisted
<1>5. CASE q.waiter = <<"loop">>
  BY <1>2, <1>5 DEF Persisted
<1> QED BY <1>1, <1>3, <1>4, <1>5 DEF Waiters

\* What a write that failed changes in memory.
LEMMA NotPersistedFacts ==
  ASSUME TypeInv, NEW q \in Snapshots, q.waiter # <<"nobody">>, NotPersisted(q)
  PROVE  /\ \/ state' = state
            \/ \E c \in Commands : q.waiter = <<"write", c>> /\ state' = Dropped(state, c)
         /\ durable' = durable /\ trusted' \in BOOLEAN /\ seeded' = seeded
         /\ courier' \in {courier, <<"idle">>}
         /\ timed' = timed /\ writing' = writing /\ writes' = writes
<1>1. q.waiter \in Waiters
  BY DEF Snapshots
<1>2. /\ durable' = durable /\ trusted' \in BOOLEAN /\ seeded' = seeded
      /\ courier' \in {courier, <<"idle">>}
      /\ timed' = timed /\ writing' = writing /\ writes' = writes
  BY DEF NotPersisted
<1>3. CASE \E c \in Commands : q.waiter = <<"write", c>>
  <2>1. PICK c \in Commands : q.waiter = <<"write", c>>
    BY <1>3
  <2>2. q.waiter[1] = "write" /\ q.waiter[2] = c
    BY <2>1
  <2>3. state' = Dropped(state, c)
    BY <2>2 DEF NotPersisted, Dropped
  <2> QED BY <1>2, <2>1, <2>3
<1>4. CASE q.waiter = <<"deliver">> \/ q.waiter = <<"loop">>
  <2>1. q.waiter[1] # "write"
    BY <1>4
  <2> QED BY <1>2, <2>1 DEF NotPersisted
<1> QED BY <1>1, <1>3, <1>4 DEF Waiters

\* A snapshot that somebody waits for belongs to a session that runs.
LEMMA WrittenTypes ==
  ASSUME TypeInv, Written
  PROVE  TypeInv'
<1> DEFINE q == Head(queue)
<1>1. queue # <<>> /\ queue' = Tail(queue) /\ disk' = q.doc /\ phase' = phase
  BY DEF Written
<1>2. q \in Snapshots /\ q = queue[1] /\ 1 \in 1 .. Len(queue)
  BY <1>1, TailFacts DEF TypeInv
<1>3. disk' \in SoundStates /\ q.holds \subseteq Items
  BY <1>1, <1>2 DEF Snapshots
<1>4. CASE q.waiter = <<"nobody">>
  <2>1. UNCHANGED <<memory, writes, phase, ran, floor, asked, heard, answers, messages,
                    restarts, faults>>
    BY <1>4 DEF Written
  <2> QED BY <1>1, <1>3, <2>1, TailTypes DEF TypeInv, FieldsInv, memory
<1>5. CASE q.waiter # <<"nobody">>
  <2>1. Persisted(q)
    BY <1>5 DEF Written
  <2> HIDE DEF q
  <2>2. /\ state' = state /\ durable' = durable \cup q.holds
        /\ trusted' \in BOOLEAN /\ seeded' \in BOOLEAN
        /\ courier' \in {courier, <<"looking">>}
        /\ \/ timed' = timed /\ writing' = writing /\ writes' = writes
           \/ \E c \in Commands : /\ q.waiter = <<"write", c>> /\ c \in DOMAIN state.pending
                                 /\ timed' = timed \cup {c} /\ writing' = writing \cup {c}
                                 /\ writes' = [writes EXCEPT ![c] = @ + 1]
    BY <1>2, <1>5, <2>1, PersistedFacts
  <2>3. phase # "down"
    BY <1>2, <1>5 DEF TypeInv
  <2>4. /\ timed' \subseteq Commands /\ writing' \subseteq timed'
        /\ writes' \in [Commands -> Nat] /\ (phase # "up" => writing' = {})
    <3>1. CASE timed' = timed /\ writing' = writing /\ writes' = writes
      BY <3>1 DEF TypeInv, FieldsInv
    <3>2. ASSUME NEW c \in Commands, q.waiter = <<"write", c>>,
                 timed' = timed \cup {c}, writing' = writing \cup {c},
                 writes' = [writes EXCEPT ![c] = @ + 1]
          PROVE  /\ timed' \subseteq Commands /\ writing' \subseteq timed'
                 /\ writes' \in [Commands -> Nat] /\ (phase # "up" => writing' = {})
      <4>1. q.waiter[1] = "write"
        BY <3>2
      <4>2. phase = "up"
        BY <1>2, <4>1 DEF TypeInv
      <4> QED BY <3>2, <4>2 DEF TypeInv, FieldsInv
    <3> QED BY <2>2, <3>1, <3>2
  <2>5. FieldsInv'
    BY <1>1, <2>2, <2>3, <2>4 DEF Written, TypeInv, FieldsInv
  <2>6. \A c \in Commands : courier' = <<"result", c>> => c \in DOMAIN state'.results
    BY <2>2 DEF TypeInv
  <2> QED BY <1>1, <1>3, <2>2, <2>3, <2>5, <2>6, TailTypes DEF TypeInv
<1> QED BY <1>4, <1>5

\* A write that fails takes nothing from the state but a recorded command.
LEMMA WriterFailsTypes ==
  ASSUME TypeInv, WriterFails
  PROVE  TypeInv'
<1> DEFINE q == Head(queue)
<1>1. queue # <<>> /\ queue' = Tail(queue) /\ disk' \in {disk, q.doc} /\ phase' = phase
  BY DEF WriterFails
<1>2. q \in Snapshots /\ q = queue[1] /\ 1 \in 1 .. Len(queue)
  BY <1>1, TailFacts DEF TypeInv
<1>3. disk' \in SoundStates
  BY <1>1, <1>2 DEF Snapshots, TypeInv
<1>4. faults' \in 0 .. MaxFaults
  BY SceneAssumption DEF WriterFails, TypeInv, FieldsInv
<1>5. CASE q.waiter = <<"nobody">>
  <2>1. UNCHANGED <<memory, writes, phase, ran, floor, asked, heard, answers, messages,
                    restarts>>
    BY <1>5 DEF WriterFails
  <2> QED BY <1>1, <1>3, <1>4, <2>1, TailTypes DEF TypeInv, FieldsInv, memory
<1>6. CASE q.waiter # <<"nobody">>
  <2>1. NotPersisted(q)
    BY <1>6 DEF WriterFails
  <2> HIDE DEF q
  <2>2. /\ \/ state' = state
           \/ \E c \in Commands : q.waiter = <<"write", c>> /\ state' = Dropped(state, c)
        /\ durable' = durable /\ trusted' \in BOOLEAN /\ seeded' = seeded
        /\ courier' \in {courier, <<"idle">>}
        /\ timed' = timed /\ writing' = writing /\ writes' = writes
    BY <1>2, <1>6, <2>1, NotPersistedFacts
  <2>3. phase # "down"
    BY <1>2, <1>6 DEF TypeInv
  <2>4. state' \in SoundStates /\ DOMAIN state'.results = DOMAIN state.results
    BY <2>2, ForgottenFacts DEF TypeInv
  <2>5. FieldsInv'
    BY <1>1, <1>4, <2>2, <2>3 DEF WriterFails, TypeInv, FieldsInv
  <2>6. \A c \in Commands : courier' = <<"result", c>> => c \in DOMAIN state'.results
    BY <2>2, <2>4 DEF TypeInv
  <2> QED BY <1>1, <1>3, <2>2, <2>3, <2>4, <2>5, <2>6, TailTypes DEF TypeInv
<1> QED BY <1>5, <1>6

\* A set of numbers has a least one.
LEMMA LeastExists ==
  ASSUME NEW S \in SUBSET Nat, S # {}
  PROVE  \E m \in S : \A n \in S : m <= n
<1>1. IsWellFoundedOn(OpToRel(<, Nat), Nat)
  BY NatLessThanWellFounded
<1>2. PICK m \in S : \A n \in S : ~(<<n, m>> \in OpToRel(<, Nat))
  BY <1>1, WFMin
<1>3. \A n \in S : ~(n < m)
  BY <1>2 DEF OpToRel
<1> QED BY <1>3

\* What may be published is on disk and known.
LEMMA ReadyFacts ==
  ASSUME TypeInv, NEW x \in Ready
  PROVE  /\ x \in Items /\ x \in durable
         /\ \A c \in Commands : x = <<"result", c>> =>
              /\ c \in DOMAIN state.results
              /\ LET e == state.results[c].event
                 IN  e # NoRun => e \in DOMAIN state.events /\ state.events[e]
<1> DEFINE due == {e \in DOMAIN state.events : ~state.events[e] /\ <<"event", e>> \in durable}
           first == CHOOSE e \in due : \A f \in due : e <= f
<1>1. DOMAIN state.events \subseteq Runs /\ DOMAIN state.results \subseteq Commands
  BY PartFacts DEF TypeInv, SoundStates
<1>2. CASE due # {}
  <2>1. x = <<"event", first>>
    BY <1>2 DEF Ready
  <2>2. due \subseteq Nat
    BY <1>1, SceneAssumption DEF Runs
  <2>3. first \in due
    BY <1>2, <2>2, LeastExists, Zenon
  <2> HIDE DEF first
  <2>4. first \in Runs /\ <<"event", first>> \in durable
    BY <1>1, <2>3
  <2>5. x \in Items /\ \A c \in Commands : x # <<"result", c>>
    BY <2>1, <2>4 DEF Items
  <2> QED BY <2>1, <2>4, <2>5
<1>3. CASE due = {}
  <2>1. PICK d \in DOMAIN state.results :
          /\ x = <<"result", d>> /\ <<"result", d>> \in durable
          /\ LET e == state.results[d].event
             IN  e # NoRun => e \in DOMAIN state.events /\ state.events[e]
    BY <1>3 DEF Ready
  <2>2. x \in Items
    BY <1>1, <2>1 DEF Items
  <2> QED BY <2>1, <2>2
<1> QED BY <1>2, <1>3

\* The item that is published next is one that is ready.
LEMMA PickItemTypes ==
  ASSUME TypeInv, PickItem
  PROVE  TypeInv' /\ (courier' = <<"idle">> \/ courier' \in Ready)
<1>1. /\ courier = <<"looking">>
      /\ courier' = <<"idle">> \/ courier' \in Ready
      /\ UNCHANGED <<phase, state, trusted, seeded, durable, timed, writing, queue, disk, world,
                     floor, restarts, faults>>
  BY DEF PickItem
<1>2. phase # "down"
  BY <1>1 DEF TypeInv, FieldsInv
<1>3. courier' \in Items \/ courier' = <<"idle">>
  BY <1>1, ReadyFacts
<1>4. FieldsInv'
  BY <1>1, <1>2, <1>3 DEF TypeInv, FieldsInv, world
<1>5. ASSUME NEW c \in Commands, courier' = <<"result", c>>
      PROVE  c \in DOMAIN state'.results
  <2>1. courier' # <<"idle">>
    BY <1>5
  <2>2. c \in DOMAIN state.results
    BY <1>1, <1>5, <2>1, ReadyFacts
  <2> QED BY <1>1, <2>2
<1> QED BY <1>1, <1>2, <1>4, <1>5 DEF TypeInv

\* A publication that raises changes what the broker knows at most.
LEMMA PublishFailsTypes ==
  ASSUME TypeInv, PublishFails
  PROVE  TypeInv'
<1>1. /\ courier \in Items /\ courier' = <<"looking">>
      /\ Received \/ UNCHANGED <<heard, answers>>
      /\ faults < MaxFaults /\ faults' = faults + 1
      /\ UNCHANGED <<phase, state, trusted, seeded, durable, timed, writing, queue, disk, ran,
                     floor, asked, writes, messages, restarts>>
  BY DEF PublishFails
<1>2. phase # "down"
  <2>1. courier \in Items
    BY <1>1
  <2>2. courier # <<"idle">>
    BY <2>1 DEF Items
  <2> QED BY <2>2 DEF TypeInv, FieldsInv
<1>3. heard' \subseteq Runs /\ answers' \in [Commands -> SUBSET Outcomes]
  BY <1>1, ReceivedTypes DEF TypeInv, FieldsInv
<1>4. faults' \in 0 .. MaxFaults
  BY <1>1, SceneAssumption DEF TypeInv, FieldsInv
<1>5. FieldsInv'
  BY <1>1, <1>2, <1>3, <1>4 DEF TypeInv, FieldsInv
<1> QED BY <1>1, <1>2, <1>5 DEF TypeInv

\* A state is loaded behind an empty queue.
LEMMA LoadTypes ==
  ASSUME TypeInv, Load
  PROVE  TypeInv'
<1>1. /\ phase = "down" /\ queue = <<>> /\ phase' = "loaded"
      /\ state' = Pruned(disk) /\ durable' = HeldIn(state')
      /\ UNCHANGED <<trusted, seeded, timed, writing, courier, queue, disk, world, floor,
                     restarts, faults>>
  BY DEF Load
<1>2. state' \in SoundStates
  BY <1>1, PrunedGrows DEF TypeInv
<1>3. durable' \subseteq Items
  <2>1. DOMAIN state'.events \subseteq Runs /\ DOMAIN state'.results \subseteq Commands
    BY <1>2, PartFacts DEF SoundStates
  <2> QED BY <1>1, <2>1 DEF HeldIn, Items
<1>4. courier' = <<"idle">> /\ Len(queue') = 0
  BY <1>1 DEF TypeInv, FieldsInv
<1>5. FieldsInv'
  BY <1>1, <1>4 DEF TypeInv, FieldsInv, world
<1> QED BY <1>1, <1>2, <1>3, <1>4, <1>5 DEF TypeInv

\* Commands that were restored get their deadlines.
LEMMA UpTypes ==
  ASSUME TypeInv, Up
  PROVE  TypeInv'
<1>1. /\ phase = "starting" /\ queue = <<>> /\ phase' = "up"
      /\ timed' = DOMAIN state.pending /\ courier' = <<"looking">>
      /\ UNCHANGED <<state, trusted, seeded, durable, writing, queue, disk, world, floor,
                     restarts, faults>>
  BY DEF Up
<1>2. DOMAIN state.pending \subseteq Commands
  BY PartFacts DEF TypeInv, SoundStates
<1>3. FieldsInv'
  BY <1>1, <1>2 DEF TypeInv, FieldsInv, world
<1> QED BY <1>1, <1>3 DEF TypeInv

\* The empty state is sound.
LEMMA EmptyIsSound ==
  /\ Empty \in SoundStates
  /\ DOMAIN Empty.pending = {} /\ DOMAIN Empty.results = {} /\ DOMAIN Empty.events = {}
<1>1. ASSUME NEW K, NEW V PROVE <<>> \in Dict(K, V)
  BY DEF Dict
<1>2. 0 \in 0 .. MaxRuns
  BY SceneAssumption
<1> QED BY <1>1, <1>2 DEF Empty, SoundStates, States

\* Nothing of a session survives but the queue and the file.
LEMMA EndTypes ==
  ASSUME TypeInv, SessionEnds \/ Crash
  PROVE  /\ TypeInv' /\ phase' = "down" /\ durable' = {} /\ courier' = <<"idle">>
         /\ UNCHANGED <<disk, world>>
<1>1. /\ restarts < MaxRestarts /\ restarts' = restarts + 1 /\ Forgotten
      /\ UNCHANGED <<disk, world, floor, faults>>
  BY DEF SessionEnds, Crash
<1>2. restarts' \in 0 .. MaxRestarts
  BY <1>1, SceneAssumption DEF TypeInv, FieldsInv
<1>3. FieldsInv'
  BY <1>1, <1>2 DEF Forgotten, TypeInv, FieldsInv, world
<1>4. /\ queue' \in Seq(Snapshots)
      /\ \A i \in 1 .. Len(queue') : queue'[i].waiter = <<"nobody">>
  <2>1. CASE SessionEnds
    BY <2>1, OrphanFacts DEF SessionEnds, TypeInv
  <2>2. CASE Crash
    <3>1. queue' = <<>>
      BY <2>2 DEF Crash
    <3> QED BY <3>1
  <2> QED BY <2>1, <2>2
<1>5. /\ state' = Empty /\ durable' = {} /\ phase' = "down" /\ courier' = <<"idle">>
      /\ disk' = disk
  BY <1>1 DEF Forgotten
<1>6. /\ \A i \in 1 .. Len(queue') : queue'[i].waiter[1] # "write"
      /\ \A c \in Commands : courier' # <<"result", c>>
  BY <1>4, <1>5
<1> QED BY <1>1, <1>3, <1>4, <1>5, <1>6, EmptyIsSound DEF TypeInv

\* Executions are counted up to their bound.
LEMMA RunTypes ==
  ASSUME TypeInv, Run
  PROVE  TypeInv'
<1>1. /\ ran < MaxRuns /\ ran' = ran + 1
      /\ UNCHANGED <<phase, memory, queue, disk, floor, asked, writes, heard, answers, messages,
                     restarts, faults>>
  BY DEF Run
<1>2. ran' \in 0 .. MaxRuns /\ floor \in 0 .. ran'
  BY <1>1, SceneAssumption DEF TypeInv, FieldsInv
<1> QED BY <1>1, <1>2 DEF TypeInv, FieldsInv, memory

\* What the steps of the session record, by what they do to the state.
Recording ==
    \/ \E e \in 0 .. MaxRuns : (See(e) \/ (ReadHistory /\ e = ran)) /\ Advanced(state', state, e)
    \/ \E c \in Commands : Deliver(c) /\ Taken(c)
    \/ \E c \in Commands, o \in {"timeout", "write_failed"} :
          /\ Settle(c, o) /\ c \in DOMAIN state.pending
          /\ state' = Answered(state, {c}, o, NoRun)
    \/ Publish /\ Acknowledged(state', state, courier)

\* Every step keeps the types, and is one of these.
LEMMA StepTypes ==
  ASSUME TypeInv, [Next]_vars
  PROVE  /\ TypeInv'
         /\ \/ Recording /\ \E T, w : Records(T, w)
            \/ Written \/ WriterFails \/ PickItem \/ PublishFails \/ Load \/ Up
            \/ SessionEnds \/ Crash \/ Run \/ UNCHANGED vars
<1>1. ran \in 0 .. MaxRuns
  BY DEF TypeInv, FieldsInv
<1>2. CASE \E e \in 0 .. MaxRuns : See(e)
  BY <1>2, SeeRecords DEF Recording
<1>3. CASE ReadHistory
  BY <1>1, <1>3, ReadHistoryRecords DEF Recording
<1>4. CASE \E c \in Commands : Deliver(c)
  BY <1>4, DeliverRecords DEF Recording
<1>5. ASSUME NEW c \in Commands, Timeout(c)
      PROVE  TypeInv' /\ Recording /\ \E T, w : Records(T, w)
  <2>1. Settle(c, "timeout") /\ faults' = faults
    BY <1>5 DEF Timeout
  <2>2. "timeout" \in Outcomes /\ faults' \in 0 .. MaxFaults
    BY <2>1 DEF Outcomes, TypeInv, FieldsInv
  <2>3. /\ TypeInv' /\ c \in DOMAIN state.pending
        /\ state' = Answered(state, {c}, "timeout", NoRun)
        /\ \E T, w : Records(T, w)
    BY <2>1, <2>2, SettleRecords
  <2> QED BY <2>1, <2>3 DEF Recording
<1>6. ASSUME NEW c \in Commands, WriteFails(c)
      PROVE  TypeInv' /\ Recording /\ \E T, w : Records(T, w)
  <2>1. Settle(c, "write_failed") /\ faults < MaxFaults /\ faults' = faults + 1
    BY <1>6 DEF WriteFails
  <2>2. "write_failed" \in Outcomes /\ faults' \in 0 .. MaxFaults
    BY <2>1, SceneAssumption DEF Outcomes, TypeInv, FieldsInv
  <2>3. /\ TypeInv' /\ c \in DOMAIN state.pending
        /\ state' = Answered(state, {c}, "write_failed", NoRun)
        /\ \E T, w : Records(T, w)
    BY <2>1, <2>2, SettleRecords
  <2> QED BY <2>1, <2>3 DEF Recording
<1>7. CASE Publish
  BY <1>7, PublishRecords DEF Recording
<1>8. CASE UNCHANGED vars
  BY <1>8 DEF vars, TypeInv, FieldsInv
<1> QED BY <1>2, <1>3, <1>4, <1>5, <1>6, <1>7, <1>8, WrittenTypes, WriterFailsTypes,
           PickItemTypes, PublishFailsTypes, LoadTypes, UpTypes, EndTypes, RunTypes
        DEF Next, Commanded

\* At the start there is nothing.
LEMMA InitTypes ==
  ASSUME Init
  PROVE  TypeInv
<1>1. /\ phase = "down" /\ state = Empty /\ disk = Empty /\ trusted = TRUE /\ seeded = FALSE
      /\ durable = {} /\ timed = {} /\ writing = {} /\ courier = <<"idle">>
      /\ queue = <<>> /\ ran = 0 /\ floor = 0
      /\ asked = <<>> /\ writes = [c \in Commands |-> 0]
      /\ heard = {} /\ answers = [c \in Commands |-> {}]
      /\ messages = 0 /\ restarts = 0 /\ faults = 0
  BY DEF Init
<1>2. asked \in Dict(Commands, 0 .. MaxRuns)
  BY <1>1 DEF Dict
<1>3. FieldsInv
  <2>1. /\ 0 \in 0 .. MaxRuns /\ 0 \in 0 .. 0 /\ 0 \in 0 .. MaxMessages
        /\ 0 \in 0 .. MaxRestarts /\ 0 \in 0 .. MaxFaults
    BY SceneAssumption
  <2>2. writes \in [Commands -> Nat] /\ answers \in [Commands -> SUBSET Outcomes]
    BY <1>1
  <2>3. trusted \in BOOLEAN /\ seeded \in BOOLEAN
    BY <1>1
  <2>4. heard \subseteq Runs /\ timed \subseteq Commands /\ writing \subseteq timed
    BY <1>1
  <2> QED BY <1>1, <1>2, <2>1, <2>2, <2>3, <2>4, Zenon DEF FieldsInv
<1> QED BY <1>1, <1>3, EmptyIsSound DEF TypeInv

\* The types hold in every behaviour.
LEMMA TypesHold == Spec => []TypeInv
<1>1. TypeInv /\ [Next]_vars => TypeInv'
  BY StepTypes
<1> QED BY <1>1, InitTypes, PTL DEF Spec

\* The state of the bridge, the file and the queue between them stay within their
\* types, whatever restarts and fails.
THEOREM TypesAreRight == Spec => []TypeOK
<1>1. TypeInv => TypeOK
  <2> SUFFICES ASSUME TypeInv PROVE TypeOK
    OBVIOUS
  <2>1. ASSUME NEW i \in DOMAIN queue
        PROVE  /\ queue[i].doc \in States /\ queue[i].holds \subseteq Items
               /\ queue[i].waiter \in Waiters
    <3>1. queue[i] \in Snapshots
      BY DEF TypeInv
    <3> QED BY <3>1 DEF Snapshots, SoundStates
  <2>2. {state, disk} \subseteq States
    BY DEF TypeInv, SoundStates
  <2> QED BY <2>1, <2>2 DEF TypeInv, FieldsInv, TypeOK
<1> QED BY <1>1, TypesHold, PTL

-----------------------------------------------------------------------------
(* A command is written once. *)

\* A command that was written is known to every copy of the state, and no write of
\* it is awaited; the one task that awaits the record of a command is behind no copy
\* that lacks it.
Once(c) ==
    writes[c] > 0 =>
        /\ writes[c] = 1 /\ c \in Known(disk) /\ (phase # "down" => c \in Known(state))
        /\ \A i \in 1 .. Len(queue) :
              c \in Known(queue[i].doc) /\ queue[i].waiter # <<"write", c>>
Awaited(c) ==
    \A i \in 1 .. Len(queue) : queue[i].waiter = <<"write", c>> =>
        /\ c \in Known(state)
        /\ \A j \in i .. Len(queue) : c \in Known(queue[j].doc)
        /\ \A j \in 1 .. Len(queue) : j # i => queue[j].waiter # <<"write", c>>
WriteInv == \A c \in Commands : Once(c) /\ Awaited(c)

\* A command that is recorded was unknown, so it was neither written nor awaited.
LEMMA RecordsWrites ==
  ASSUME TypeInv, WriteInv, NEW T, NEW w, Records(T, w)
  PROVE  WriteInv'
<1> SUFFICES ASSUME NEW c \in Commands PROVE Once(c)' /\ Awaited(c)'
  BY DEF WriteInv
<1> DEFINE n == Len(queue)
<1>1. /\ n \in Nat /\ Len(queue') = n + 1
      /\ \A i \in 1 .. n : queue'[i].doc = queue[i].doc /\ queue'[i].waiter = queue[i].waiter
      /\ queue'[n + 1].doc = state' /\ queue'[n + 1].waiter = w
  BY DEF TypeInv, Records, IsCaptured
<1>2. /\ phase # "down" /\ disk' = disk /\ writes' = writes
      /\ Known(state) \subseteq Known(state')
      /\ w = <<"write", c>> => c \notin Known(state) /\ c \in Known(state')
  BY DEF Records, Grows
<1>3. Once(c) /\ Awaited(c)
  BY DEF WriteInv
<1> HIDE DEF n
<1>4. \A i \in 1 .. n + 1 : i \in 1 .. n \/ i = n + 1
  BY <1>1
<1>5. Once(c)'
  <2> SUFFICES ASSUME writes[c] > 0
               PROVE  /\ writes[c] = 1 /\ c \in Known(disk') /\ c \in Known(state')
                      /\ \A i \in 1 .. n + 1 :
                            c \in Known(queue'[i].doc) /\ queue'[i].waiter # <<"write", c>>
    BY <1>1, <1>2 DEF Once
  <2>1. /\ writes[c] = 1 /\ c \in Known(disk) /\ c \in Known(state)
        /\ \A i \in 1 .. n :
              c \in Known(queue[i].doc) /\ queue[i].waiter # <<"write", c>>
    BY <1>2, <1>3 DEF Once, n
  <2> QED BY <1>1, <1>2, <1>4, <2>1
<1>6. Awaited(c)'
  <2> SUFFICES ASSUME NEW i \in 1 .. n + 1, queue'[i].waiter = <<"write", c>>
               PROVE  /\ c \in Known(state')
                      /\ \A j \in i .. n + 1 : c \in Known(queue'[j].doc)
                      /\ \A j \in 1 .. n + 1 : j # i => queue'[j].waiter # <<"write", c>>
    BY <1>1 DEF Awaited
  <2>1. CASE i \in 1 .. n
    <3>1. queue[i].waiter = <<"write", c>>
      BY <1>1, <2>1
    <3>2. /\ c \in Known(state)
          /\ \A j \in i .. n : c \in Known(queue[j].doc)
          /\ \A j \in 1 .. n : j # i => queue[j].waiter # <<"write", c>>
      BY <1>3, <2>1, <3>1 DEF Awaited, n
    <3>3. w # <<"write", c>> /\ c \in Known(state')
      BY <1>2, <3>2
    <3>4. ASSUME NEW j \in i .. n + 1 PROVE c \in Known(queue'[j].doc)
      <4>1. (j \in 1 .. n /\ j \in i .. n) \/ j = n + 1
        BY <1>1, <2>1
      <4> QED BY <1>1, <3>2, <3>3, <4>1
    <3>5. ASSUME NEW j \in 1 .. n + 1, j # i PROVE queue'[j].waiter # <<"write", c>>
      BY <1>1, <1>4, <3>2, <3>3, <3>5
    <3> QED BY <3>3, <3>4, <3>5
  <2>2. CASE i = n + 1
    <3>1. w = <<"write", c>>
      BY <1>1, <2>2
    <3>2. c \notin Known(state) /\ c \in Known(state')
      BY <1>2, <3>1
    <3>3. \A j \in 1 .. n : queue[j].waiter # <<"write", c>>
      BY <1>3, <3>2 DEF Awaited, n
    <3>4. \A j \in i .. n + 1 : j = n + 1
      BY <1>1, <2>2
    <3> QED BY <1>1, <1>4, <2>2, <3>2, <3>3, <3>4
  <2> QED BY <1>4, <2>1, <2>2
<1> QED BY <1>5, <1>6

\* The writer takes the first snapshot and c stays known.
LEMMA TailWrites ==
  ASSUME TypeInv, queue # <<>>, queue' = Tail(queue), phase' = phase,
         NEW c \in Commands, Once(c), Awaited(c), writes'[c] = writes[c],
         disk' \in {disk, Head(queue).doc},
         c \in Known(state) => c \in Known(state')
  PROVE  Once(c)' /\ Awaited(c)'
<1> DEFINE n == Len(queue)
<1>1. /\ n \in Nat /\ Len(queue') = n - 1 /\ Head(queue) = queue[1] /\ 1 \in 1 .. n
      /\ \A i \in 1 .. n - 1 : i + 1 \in 1 .. n /\ queue'[i] = queue[i + 1]
  BY TailFacts DEF TypeInv
<1> HIDE DEF n
<1>2. Once(c)'
  <2> SUFFICES ASSUME writes[c] > 0
               PROVE  /\ writes[c] = 1 /\ c \in Known(disk')
                      /\ phase # "down" => c \in Known(state')
                      /\ \A i \in 1 .. n - 1 :
                            c \in Known(queue'[i].doc) /\ queue'[i].waiter # <<"write", c>>
    BY <1>1 DEF Once
  <2>1. /\ writes[c] = 1 /\ c \in Known(disk) /\ (phase # "down" => c \in Known(state))
        /\ \A i \in 1 .. n :
              c \in Known(queue[i].doc) /\ queue[i].waiter # <<"write", c>>
    BY DEF Once, n
  <2> QED BY <1>1, <2>1
<1>3. Awaited(c)'
  <2> SUFFICES ASSUME NEW i \in 1 .. n - 1, queue'[i].waiter = <<"write", c>>
               PROVE  /\ c \in Known(state')
                      /\ \A j \in i .. n - 1 : c \in Known(queue'[j].doc)
                      /\ \A j \in 1 .. n - 1 : j # i => queue'[j].waiter # <<"write", c>>
    BY <1>1 DEF Awaited
  <2>1. i + 1 \in 1 .. n /\ queue[i + 1].waiter = <<"write", c>>
    BY <1>1
  <2>2. /\ c \in Known(state)
        /\ \A j \in i + 1 .. n : c \in Known(queue[j].doc)
        /\ \A j \in 1 .. n : j # i + 1 => queue[j].waiter # <<"write", c>>
    BY <2>1 DEF Awaited, n
  <2>3. ASSUME NEW j \in i .. n - 1 PROVE c \in Known(queue'[j].doc)
    <3>1. j \in 1 .. n - 1 /\ j + 1 \in i + 1 .. n
      BY <1>1
    <3> QED BY <1>1, <2>2, <3>1
  <2>4. ASSUME NEW j \in 1 .. n - 1, j # i PROVE queue'[j].waiter # <<"write", c>>
    <3>1. j + 1 \in 1 .. n /\ j + 1 # i + 1 /\ queue'[j] = queue[j + 1]
      BY <1>1, <2>4
    <3> QED BY <2>2, <3>1
  <2> QED BY <2>2, <2>3, <2>4
<1> QED BY <1>2, <1>3

\* The one task that awaits the record of c leaves the queue, and c was not written.
LEMMA FirstAwaited ==
  ASSUME TypeInv, queue # <<>>, queue' = Tail(queue),
         NEW c \in Commands, Once(c), Awaited(c), Head(queue).waiter = <<"write", c>>
  PROVE  /\ writes[c] = 0 /\ c \in Known(Head(queue).doc)
         /\ \A i \in 1 .. Len(queue') :
              c \in Known(queue'[i].doc) /\ queue'[i].waiter # <<"write", c>>
<1>1. /\ Len(queue) \in Nat /\ Head(queue) = queue[1] /\ 1 \in 1 .. Len(queue)
      /\ Len(queue') = Len(queue) - 1
      /\ \A i \in 1 .. Len(queue') : i + 1 \in 1 .. Len(queue) /\ queue'[i] = queue[i + 1]
  BY TailFacts DEF TypeInv
<1>2. /\ \A j \in 1 .. Len(queue) : c \in Known(queue[j].doc)
      /\ \A j \in 1 .. Len(queue) : j # 1 => queue[j].waiter # <<"write", c>>
  BY <1>1 DEF Awaited
<1>3. writes[c] = 0
  <2>1. writes[c] \in Nat
    BY DEF TypeInv, FieldsInv
  <2>2. ~(writes[c] > 0)
    BY <1>1 DEF Once
  <2> QED BY <2>1, <2>2
<1>4. ASSUME NEW i \in 1 .. Len(queue')
      PROVE  c \in Known(queue'[i].doc) /\ queue'[i].waiter # <<"write", c>>
  <2>1. i + 1 \in 1 .. Len(queue) /\ i + 1 # 1 /\ queue'[i] = queue[i + 1]
    BY <1>1
  <2> QED BY <1>2, <2>1
<1> QED BY <1>1, <1>2, <1>3, <1>4

\* The bus is written for a command that waited alone, and for no other.
LEMMA WrittenWrites ==
  ASSUME TypeInv, WriteInv, Written
  PROVE  WriteInv'
<1> SUFFICES ASSUME NEW c \in Commands PROVE Once(c)' /\ Awaited(c)'
  BY DEF WriteInv
<1> DEFINE q == Head(queue)
<1>1. queue # <<>> /\ queue' = Tail(queue) /\ disk' = q.doc /\ phase' = phase
  BY DEF Written
<1>2. q \in Snapshots
  BY <1>1, TailFacts DEF TypeInv
<1>3. Once(c) /\ Awaited(c)
  BY DEF WriteInv
<1>4. CASE q.waiter = <<"nobody">>
  <2>1. state' = state /\ writes' = writes
    BY <1>4 DEF Written, memory
  <2> QED BY <1>1, <1>3, <2>1, TailWrites
<1>5. CASE q.waiter # <<"nobody">>
  <2>1. Persisted(q)
    BY <1>5 DEF Written
  <2> HIDE DEF q
  <2>2. /\ state' = state
        /\ \/ writes' = writes
           \/ \E d \in Commands : /\ q.waiter = <<"write", d>> /\ d \in DOMAIN state.pending
                                 /\ writes' = [writes EXCEPT ![d] = @ + 1]
    BY <1>2, <1>5, <2>1, PersistedFacts
  <2>3. CASE writes'[c] = writes[c]
    BY <1>1, <1>3, <2>2, <2>3, TailWrites DEF q
  <2>4. CASE writes'[c] # writes[c]
    <3>1. writes \in [Commands -> Nat]
      BY DEF TypeInv, FieldsInv
    <3>2. /\ q.waiter = <<"write", c>> /\ c \in DOMAIN state.pending
          /\ writes'[c] = writes[c] + 1
      BY <2>2, <2>4, <3>1
    <3>3. /\ writes[c] = 0 /\ c \in Known(disk')
          /\ \A i \in 1 .. Len(queue') :
               c \in Known(queue'[i].doc) /\ queue'[i].waiter # <<"write", c>>
      BY <1>1, <1>3, <3>2, FirstAwaited DEF q
    <3>4. c \in Known(state')
      BY <2>2, <3>2 DEF Known
    <3> QED BY <3>2, <3>3, <3>4 DEF Once, Awaited
  <2> QED BY <2>3, <2>4
<1> QED BY <1>4, <1>5

\* A command that is dropped was not written, and nothing awaits it any more.
LEMMA WriterFailsWrites ==
  ASSUME TypeInv, WriteInv, WriterFails
  PROVE  WriteInv'
<1> SUFFICES ASSUME NEW c \in Commands PROVE Once(c)' /\ Awaited(c)'
  BY DEF WriteInv
<1> DEFINE q == Head(queue)
<1>1. queue # <<>> /\ queue' = Tail(queue) /\ disk' \in {disk, q.doc} /\ phase' = phase
  BY DEF WriterFails
<1>2. q \in Snapshots
  BY <1>1, TailFacts DEF TypeInv
<1>3. Once(c) /\ Awaited(c)
  BY DEF WriteInv
<1>4. CASE q.waiter = <<"nobody">>
  <2>1. state' = state /\ writes' = writes
    BY <1>4 DEF WriterFails, memory
  <2> QED BY <1>1, <1>3, <2>1, TailWrites
<1>5. CASE q.waiter # <<"nobody">>
  <2>1. NotPersisted(q)
    BY <1>5 DEF WriterFails
  <2> HIDE DEF q
  <2>2. /\ \/ state' = state
           \/ \E d \in Commands : q.waiter = <<"write", d>> /\ state' = Dropped(state, d)
        /\ writes' = writes
    BY <1>2, <1>5, <2>1, NotPersistedFacts
  <2>3. CASE c \in Known(state) => c \in Known(state')
    BY <1>1, <1>3, <2>2, <2>3, TailWrites DEF q
  <2>4. CASE ~(c \in Known(state) => c \in Known(state'))
    <3>1. PICK d \in Commands : q.waiter = <<"write", d>> /\ state' = Dropped(state, d)
      BY <2>2, <2>4
    <3>2. state'.results = state.results /\ DOMAIN state'.pending = DOMAIN state.pending \ {d}
      BY <3>1, ForgottenFacts DEF TypeInv
    <3>3. q.waiter = <<"write", c>>
      BY <2>4, <3>1, <3>2 DEF Known
    <3>4. /\ writes[c] = 0
          /\ \A i \in 1 .. Len(queue') : queue'[i].waiter # <<"write", c>>
      BY <1>1, <1>3, <3>3, FirstAwaited DEF q
    <3> QED BY <2>2, <3>4 DEF Once, Awaited
  <2> QED BY <2>3, <2>4
<1> QED BY <1>4, <1>5

\* A session that ends awaits nothing, and what it queued still knows the command.
LEMMA EndWrites ==
  ASSUME TypeInv, WriteInv, SessionEnds \/ Crash
  PROVE  WriteInv'
<1>1. phase' = "down" /\ UNCHANGED <<disk, world>>
  BY EndTypes
<1>2. ASSUME NEW c \in Commands, NEW i \in 1 .. Len(queue')
      PROVE  /\ queue'[i].waiter # <<"write", c>>
             /\ writes[c] > 0 => c \in Known(queue'[i].doc)
  <2>1. CASE SessionEnds
    <3>1. i \in 1 .. Len(queue) /\ queue'[i].doc = queue[i].doc
          /\ queue'[i].waiter = <<"nobody">>
      BY <2>1, OrphanFacts DEF SessionEnds, TypeInv
    <3> QED BY <3>1 DEF WriteInv, Once
  <2>2. CASE Crash
    <3>1. queue' = <<>>
      BY <2>2 DEF Crash
    <3> QED BY <3>1
  <2> QED BY <2>1, <2>2
<1> QED BY <1>1, <1>2 DEF WriteInv, Once, Awaited, world

\* A session knows what the file knows.
LEMMA LoadWrites ==
  ASSUME TypeInv, WriteInv, Load
  PROVE  WriteInv'
<1>1. queue = <<>> /\ state' = Pruned(disk) /\ UNCHANGED <<queue, disk, world>>
  BY DEF Load
<1>2. Grows(disk, state')
  BY <1>1, PrunedGrows DEF TypeInv
<1>3. Len(queue') = 0
  BY <1>1
<1> QED BY <1>1, <1>2, <1>3 DEF WriteInv, Once, Awaited, Grows, world

\* So commands are written once in every behaviour.
LEMMA WritesHold == Spec => []WriteInv
<1>1. Init => WriteInv
  <2> SUFFICES ASSUME Init, NEW c \in Commands PROVE Once(c) /\ Awaited(c)
    BY DEF WriteInv
  <2>1. writes[c] = 0 /\ Len(queue) = 0
    BY DEF Init
  <2> QED BY <2>1 DEF Once, Awaited
<1>2. TypeInv /\ WriteInv /\ [Next]_vars => WriteInv'
  <2> SUFFICES ASSUME TypeInv, WriteInv, [Next]_vars PROVE WriteInv'
    OBVIOUS
  <2>1. CASE \E T, w : Records(T, w)
    BY <2>1, RecordsWrites
  <2>2. CASE PickItem \/ PublishFails \/ Run \/ UNCHANGED vars
    <3>1. UNCHANGED <<phase, state, queue, disk, writes>>
      BY <2>2 DEF PickItem, PublishFails, Run, vars, memory, world
    <3> QED BY <3>1 DEF WriteInv, Once, Awaited
  <2>3. CASE Up
    <3>1. UNCHANGED <<state, queue, disk, writes>> /\ phase # "down"
      BY <2>3 DEF Up, world
    <3> QED BY <3>1 DEF WriteInv, Once, Awaited
  <2> QED BY <2>1, <2>2, <2>3, WrittenWrites, WriterFailsWrites, LoadWrites, EndWrites, StepTypes
<1> QED BY <1>1, <1>2, TypesHold, PTL DEF Spec

\* The bus is written at most once for a command, however often it is delivered and
\* whenever the process ends, since the file remembers the command.
THEOREM OneWritePerCommand == Spec => []WritesOnce
<1>1. WriteInv => WritesOnce
  BY DEF WriteInv, Once, WritesOnce, Known
<1> QED BY <1>1, WritesHold, PTL

-----------------------------------------------------------------------------
(* The broker gets one outcome for a command. *)

\* Every copy of the state says o of c.
Agreed(c, o) ==
    /\ Says(disk, c, o) /\ (phase # "down" => Says(state, c, o))
    /\ \A i \in 1 .. Len(queue) : Says(queue[i].doc, c, o)

\* What was published, is being published or may be published is agreed, and what a
\* snapshot in the queue releases will be.
Sure(c) == c \in DOMAIN state.results /\ Agreed(c, state.results[c].outcome)
Promised(c, i) ==
    /\ c \in DOMAIN state.results
    /\ \A j \in i .. Len(queue) : Says(queue[j].doc, c, state.results[c].outcome)
AnswersAgreed(c) == \A o \in answers[c] : Agreed(c, o)
DueAgreed(c) == courier = <<"result", c>> \/ <<"result", c>> \in durable => Sure(c)
QueueAgreed(c) ==
    \A i \in 1 .. Len(queue) :
        <<"result", c>> \in queue[i].holds /\ queue[i].waiter # <<"nobody">> => Promised(c, i)
AgreeInv == \A c \in Commands : AnswersAgreed(c) /\ DueAgreed(c) /\ QueueAgreed(c)

\* What is recorded agrees with what was there.
LEMMA RecordsAgreed ==
  ASSUME TypeInv, NEW T, NEW w, Records(T, w), NEW c \in Commands, NEW o, Agreed(c, o)
  PROVE  Agreed(c, o)'
<1>1. Says(disk, c, o) /\ Says(state, c, o) /\ disk' = disk /\ Grows(state, state')
  BY DEF Agreed, Records
<1>2. Says(state', c, o)
  BY <1>1 DEF Grows, Says
<1>3. /\ Len(queue) \in Nat /\ Len(queue') = Len(queue) + 1
      /\ \A i \in 1 .. Len(queue) : queue'[i].doc = queue[i].doc
      /\ queue'[Len(queue) + 1].doc = state'
  BY DEF TypeInv, Records, IsCaptured
<1>4. ASSUME NEW i \in 1 .. Len(queue') PROVE Says(queue'[i].doc, c, o)
  <2>1. i \in 1 .. Len(queue) \/ i = Len(queue) + 1
    BY <1>3
  <2> QED BY <1>2, <1>3, <2>1 DEF Agreed
<1> QED BY <1>1, <1>2, <1>4 DEF Agreed

\* What is agreed of a result stays agreed.
LEMMA RecordsSure ==
  ASSUME TypeInv, NEW T, NEW w, Records(T, w), NEW c \in Commands, Sure(c)
  PROVE  Sure(c)'
<1>1. PICK o : c \in DOMAIN state.results /\ o = state.results[c].outcome /\ Agreed(c, o)
  BY DEF Sure
<1>2. Says(state', c, o)
  BY <1>1 DEF Records, Grows
<1>3. c \in DOMAIN state'.results /\ state'.results[c].outcome = o
  BY <1>2 DEF Says
<1>4. Agreed(c, o)'
  BY <1>1, RecordsAgreed
<1> QED BY <1>3, <1>4 DEF Sure

\* What is due was due, and the new snapshot says what the state says.
LEMMA RecordsDue ==
  ASSUME TypeInv, AgreeInv, NEW T, NEW w, Records(T, w), NEW c \in Commands
  PROVE  DueAgreed(c)' /\ QueueAgreed(c)'
<1> DEFINE n == Len(queue)
<1>1. DueAgreed(c) /\ QueueAgreed(c)
  BY DEF AgreeInv
<1>2. DueAgreed(c)'
  <2> SUFFICES ASSUME courier' = <<"result", c>> \/ <<"result", c>> \in durable' PROVE Sure(c)'
    BY DEF DueAgreed
  <2>1. courier = <<"result", c>> \/ <<"result", c>> \in durable
    BY DEF Records, IsCaptured
  <2> QED BY <1>1, <2>1, RecordsSure DEF DueAgreed
<1>3. /\ n \in Nat /\ Len(queue') = n + 1
      /\ \A i \in 1 .. n : /\ queue'[i].doc = queue[i].doc /\ queue'[i].waiter = queue[i].waiter
                          /\ queue'[i].holds = queue[i].holds \ T
      /\ queue'[n + 1].doc = state' /\ queue'[n + 1].holds = HeldIn(state')
  BY DEF TypeInv, Records, IsCaptured
<1> HIDE DEF n
<1>4. QueueAgreed(c)'
  <2> SUFFICES ASSUME NEW i \in 1 .. n + 1, <<"result", c>> \in queue'[i].holds,
                      queue'[i].waiter # <<"nobody">>
               PROVE  /\ c \in DOMAIN state'.results
                      /\ \A j \in i .. n + 1 :
                           Says(queue'[j].doc, c, state'.results[c].outcome)
    BY <1>3 DEF QueueAgreed, Promised
  <2>1. CASE i \in 1 .. n
    <3> DEFINE o == state.results[c].outcome
    <3>1. c \in DOMAIN state.results /\ \A j \in i .. n : Says(queue[j].doc, c, o)
      BY <1>1, <1>3, <2>1 DEF QueueAgreed, Promised, n
    <3>2. Says(state', c, o)
      BY <3>1 DEF Records, Grows
    <3>3. c \in DOMAIN state'.results /\ state'.results[c].outcome = o
      BY <3>2 DEF Says
    <3> HIDE DEF o
    <3>4. ASSUME NEW j \in i .. n + 1 PROVE Says(queue'[j].doc, c, o)
      <4>1. (j \in 1 .. n /\ j \in i .. n) \/ j = n + 1
        BY <1>3, <2>1
      <4> QED BY <1>3, <3>1, <3>2, <4>1
    <3> QED BY <3>3, <3>4
  <2>2. CASE i = n + 1
    <3>1. c \in DOMAIN state'.results
      BY <1>3, <2>2 DEF HeldIn
    <3>2. \A j \in i .. n + 1 : j = n + 1
      BY <1>3, <2>2
    <3> QED BY <1>3, <3>1, <3>2 DEF Says
  <2>3. i \in 1 .. n \/ i = n + 1
    BY <1>3
  <2> QED BY <2>1, <2>2, <2>3
<1> QED BY <1>2, <1>4

\* What the broker receives is due.
LEMMA ReceivedAgreed ==
  ASSUME TypeInv, AgreeInv, courier \in Items, Received,
         NEW c \in Commands, NEW o \in answers'[c]
  PROVE  Agreed(c, o)
<1>1. answers \in [Commands -> SUBSET Outcomes] /\ AnswersAgreed(c) /\ DueAgreed(c)
  BY DEF TypeInv, FieldsInv, AgreeInv
<1>2. CASE o \in answers[c]
  BY <1>1, <1>2 DEF AnswersAgreed
<1>3. CASE o \notin answers[c]
  <2>1. courier = <<"result", c>> /\ o = state.results[c].outcome
    BY <1>1, <1>3, ReceivedFacts
  <2> QED BY <1>1, <2>1 DEF DueAgreed, Sure
<1> QED BY <1>2, <1>3

\* A step that records keeps the agreement.
LEMMA RecordsAgree ==
  ASSUME TypeInv, AgreeInv, Recording, NEW T, NEW w, Records(T, w)
  PROVE  AgreeInv'
<1> SUFFICES ASSUME NEW c \in Commands, NEW o \in answers'[c] PROVE Agreed(c, o)
  BY RecordsDue, RecordsAgreed DEF AgreeInv, AnswersAgreed
<1>1. CASE answers' = answers
  BY <1>1 DEF AgreeInv, AnswersAgreed
<1>2. CASE Publish
  BY <1>2, ReceivedAgreed DEF Publish
<1>3. answers' = answers \/ Publish
  BY DEF Recording, See, ReadHistory, Deliver, Settle, world
<1> QED BY <1>1, <1>2, <1>3

\* The writer takes the first snapshot, and no result of the state changes.
LEMMA TailAgreed ==
  ASSUME TypeInv, queue # <<>>, queue' = Tail(queue), phase' = phase,
         disk' \in {disk, Head(queue).doc}, state'.results = state.results,
         NEW c \in Commands, NEW o, Agreed(c, o)
  PROVE  Agreed(c, o)'
<1>1. /\ Head(queue) = queue[1] /\ 1 \in 1 .. Len(queue)
      /\ \A i \in 1 .. Len(queue') : i + 1 \in 1 .. Len(queue) /\ queue'[i] = queue[i + 1]
  BY TailFacts DEF TypeInv
<1>2. \A i \in 1 .. Len(queue') : Says(queue'[i].doc, c, o)
  BY <1>1 DEF Agreed
<1>3. Says(disk', c, o)
  BY <1>1 DEF Agreed
<1>4. phase' # "down" => Says(state', c, o)
  BY DEF Agreed, Says
<1> QED BY <1>2, <1>3, <1>4 DEF Agreed

\* What was due stays due,
LEMMA TailSure ==
  ASSUME TypeInv, queue # <<>>, queue' = Tail(queue), phase' = phase,
         disk' \in {disk, Head(queue).doc}, state'.results = state.results,
         NEW c \in Commands, Sure(c)
  PROVE  Sure(c)'
<1>1. PICK o : c \in DOMAIN state.results /\ o = state.results[c].outcome /\ Agreed(c, o)
  BY DEF Sure
<1>2. Agreed(c, o)'
  BY <1>1, TailAgreed
<1> QED BY <1>1, <1>2 DEF Sure

\* and what the snapshots behind it release is still promised.
LEMMA TailQueue ==
  ASSUME TypeInv, queue # <<>>, queue' = Tail(queue), state'.results = state.results,
         NEW c \in Commands, QueueAgreed(c)
  PROVE  QueueAgreed(c)'
<1> DEFINE n == Len(queue)
<1>1. /\ n \in Nat /\ Len(queue') = n - 1
      /\ \A i \in 1 .. n - 1 : i + 1 \in 1 .. n /\ queue'[i] = queue[i + 1]
  BY TailFacts DEF TypeInv
<1> SUFFICES ASSUME NEW i \in 1 .. n - 1, <<"result", c>> \in queue'[i].holds,
                    queue'[i].waiter # <<"nobody">>
             PROVE  /\ c \in DOMAIN state.results
                    /\ \A j \in i .. n - 1 :
                         Says(queue'[j].doc, c, state.results[c].outcome)
  BY <1>1 DEF QueueAgreed, Promised
<1>2. /\ c \in DOMAIN state.results
      /\ \A j \in i + 1 .. n : Says(queue[j].doc, c, state.results[c].outcome)
  BY <1>1 DEF QueueAgreed, Promised
<1> HIDE DEF n
<1>3. ASSUME NEW j \in i .. n - 1
      PROVE  Says(queue'[j].doc, c, state.results[c].outcome)
  <2>1. j \in 1 .. n - 1 /\ j + 1 \in i + 1 .. n
    BY <1>1
  <2> QED BY <1>1, <1>2, <2>1
<1> QED BY <1>2, <1>3

\* What a snapshot releases once it is written is agreed: the snapshots behind it say
\* the same.
LEMMA FirstSure ==
  ASSUME TypeInv, queue # <<>>, queue' = Tail(queue), phase' = phase,
         disk' = Head(queue).doc, state' = state,
         NEW c \in Commands, QueueAgreed(c),
         <<"result", c>> \in Head(queue).holds, Head(queue).waiter # <<"nobody">>
  PROVE  Sure(c)'
<1>1. /\ Head(queue) = queue[1] /\ 1 \in 1 .. Len(queue) /\ Len(queue) \in Nat
      /\ \A i \in 1 .. Len(queue') : i + 1 \in 1 .. Len(queue) /\ queue'[i] = queue[i + 1]
  BY TailFacts DEF TypeInv
<1>2. PICK o : /\ c \in DOMAIN state.results /\ o = state.results[c].outcome
               /\ \A j \in 1 .. Len(queue) : Says(queue[j].doc, c, o)
  BY <1>1 DEF QueueAgreed, Promised
<1>3. Agreed(c, o)'
  BY <1>1, <1>2 DEF Agreed, Says
<1> QED BY <1>2, <1>3 DEF Sure

\* A snapshot that is written releases what it holds.
LEMMA WrittenAgree ==
  ASSUME TypeInv, AgreeInv, Written
  PROVE  AgreeInv'
<1> SUFFICES ASSUME NEW c \in Commands
             PROVE  AnswersAgreed(c)' /\ DueAgreed(c)' /\ QueueAgreed(c)'
  BY DEF AgreeInv
<1> DEFINE q == Head(queue)
<1>1. /\ queue # <<>> /\ queue' = Tail(queue) /\ disk' = q.doc /\ phase' = phase
      /\ answers' = answers
  BY DEF Written
<1>2. q \in Snapshots
  BY <1>1, TailFacts DEF TypeInv
<1>3. AnswersAgreed(c) /\ DueAgreed(c) /\ QueueAgreed(c)
  BY DEF AgreeInv
<1>4. /\ state' = state
      /\ \/ courier' = courier /\ durable' = durable
         \/ /\ q.waiter # <<"nobody">> /\ durable' = durable \cup q.holds
            /\ courier' \in {courier, <<"looking">>}
  <2>1. CASE q.waiter = <<"nobody">>
    BY <2>1 DEF Written, memory
  <2>2. CASE q.waiter # <<"nobody">>
    <3>1. Persisted(q)
      BY <2>2 DEF Written
    <3> HIDE DEF q
    <3>2. /\ state' = state /\ durable' = durable \cup q.holds
          /\ courier' \in {courier, <<"looking">>}
      BY <1>2, <2>2, <3>1, PersistedFacts
    <3> QED BY <2>2, <3>2
  <2> QED BY <2>1, <2>2
<1>5. AnswersAgreed(c)'
  BY <1>1, <1>3, <1>4, TailAgreed DEF AnswersAgreed
<1>6. QueueAgreed(c)'
  BY <1>1, <1>3, <1>4, TailQueue
<1>7. DueAgreed(c)'
  <2> SUFFICES ASSUME courier' = <<"result", c>> \/ <<"result", c>> \in durable' PROVE Sure(c)'
    BY DEF DueAgreed
  <2>1. CASE courier = <<"result", c>> \/ <<"result", c>> \in durable
    <3>1. Sure(c)
      BY <1>3, <2>1 DEF DueAgreed
    <3> QED BY <1>1, <1>4, <3>1, TailSure
  <2>2. CASE q.waiter # <<"nobody">> /\ <<"result", c>> \in q.holds
    BY <1>1, <1>3, <1>4, <2>2, FirstSure
  <2> HIDE DEF q
  <2> QED BY <1>4, <2>1, <2>2
<1> QED BY <1>5, <1>6, <1>7

\* One that is not written releases nothing.
LEMMA WriterFailsAgree ==
  ASSUME TypeInv, AgreeInv, WriterFails
  PROVE  AgreeInv'
<1> SUFFICES ASSUME NEW c \in Commands
             PROVE  AnswersAgreed(c)' /\ DueAgreed(c)' /\ QueueAgreed(c)'
  BY DEF AgreeInv
<1> DEFINE q == Head(queue)
<1>1. /\ queue # <<>> /\ queue' = Tail(queue) /\ disk' \in {disk, q.doc} /\ phase' = phase
      /\ answers' = answers
  BY DEF WriterFails
<1>2. q \in Snapshots
  BY <1>1, TailFacts DEF TypeInv
<1>3. AnswersAgreed(c) /\ DueAgreed(c) /\ QueueAgreed(c)
  BY DEF AgreeInv
<1>4. /\ state'.results = state.results /\ durable' = durable
      /\ courier' \in {courier, <<"idle">>}
  <2>1. CASE q.waiter = <<"nobody">>
    BY <2>1 DEF WriterFails, memory
  <2>2. CASE q.waiter # <<"nobody">>
    <3>1. NotPersisted(q)
      BY <2>2 DEF WriterFails
    <3> HIDE DEF q
    <3>2. /\ \/ state' = state
             \/ \E d \in Commands : q.waiter = <<"write", d>> /\ state' = Dropped(state, d)
          /\ durable' = durable /\ courier' \in {courier, <<"idle">>}
      BY <1>2, <2>2, <3>1, NotPersistedFacts
    <3>3. state'.results = state.results
      BY <3>2, ForgottenFacts DEF TypeInv
    <3> QED BY <3>2, <3>3
  <2> QED BY <2>1, <2>2
<1>5. AnswersAgreed(c)'
  BY <1>1, <1>3, <1>4, TailAgreed DEF AnswersAgreed
<1>6. QueueAgreed(c)'
  BY <1>1, <1>3, <1>4, TailQueue
<1>7. DueAgreed(c)'
  <2> SUFFICES ASSUME courier' = <<"result", c>> \/ <<"result", c>> \in durable' PROVE Sure(c)'
    BY DEF DueAgreed
  <2>1. courier = <<"result", c>> \/ <<"result", c>> \in durable
    BY <1>4
  <2>2. Sure(c)
    BY <1>3, <2>1 DEF DueAgreed
  <2> QED BY <1>1, <1>4, <2>2, TailSure
<1> QED BY <1>5, <1>6, <1>7

\* What is published next is due.
LEMMA PickItemAgree ==
  ASSUME TypeInv, AgreeInv, PickItem
  PROVE  AgreeInv'
<1> SUFFICES ASSUME NEW c \in Commands
             PROVE  AnswersAgreed(c)' /\ DueAgreed(c)' /\ QueueAgreed(c)'
  BY DEF AgreeInv
<1>1. /\ courier' = <<"idle">> \/ courier' \in Ready
      /\ UNCHANGED <<phase, state, durable, queue, disk, answers>>
  BY DEF PickItem, world
<1>2. AnswersAgreed(c) /\ DueAgreed(c) /\ QueueAgreed(c)
  BY DEF AgreeInv
<1>3. AnswersAgreed(c)' /\ QueueAgreed(c)'
  BY <1>1, <1>2 DEF AnswersAgreed, QueueAgreed, Agreed, Promised
<1>4. DueAgreed(c)'
  <2> SUFFICES ASSUME courier' = <<"result", c>> \/ <<"result", c>> \in durable' PROVE Sure(c)'
    BY DEF DueAgreed
  <2>1. <<"result", c>> \in durable
    <3>1. CASE courier' = <<"result", c>>
      <4>1. courier' # <<"idle">>
        BY <3>1
      <4> QED BY <1>1, <3>1, <4>1, ReadyFacts
    <3> QED BY <1>1, <3>1
  <2>2. Sure(c)
    BY <1>2, <2>1 DEF DueAgreed
  <2> QED BY <1>1, <2>2 DEF Sure, Agreed
<1> QED BY <1>3, <1>4

\* What the broker received is agreed, whether or not it acknowledged.
LEMMA PublishFailsAgree ==
  ASSUME TypeInv, AgreeInv, PublishFails
  PROVE  AgreeInv'
<1> SUFFICES ASSUME NEW c \in Commands
             PROVE  AnswersAgreed(c)' /\ DueAgreed(c)' /\ QueueAgreed(c)'
  BY DEF AgreeInv
<1>1. /\ courier \in Items /\ courier' = <<"looking">>
      /\ Received \/ answers' = answers
      /\ UNCHANGED <<phase, state, durable, queue, disk>>
  BY DEF PublishFails
<1>2. AnswersAgreed(c) /\ DueAgreed(c) /\ QueueAgreed(c)
  BY DEF AgreeInv
<1>3. \A o \in answers'[c] : Agreed(c, o)
  BY <1>1, <1>2, ReceivedAgreed DEF AnswersAgreed
<1>4. AnswersAgreed(c)' /\ QueueAgreed(c)'
  BY <1>1, <1>2, <1>3 DEF AnswersAgreed, QueueAgreed, Agreed, Promised
<1>5. DueAgreed(c)'
  BY <1>1, <1>2 DEF DueAgreed, Sure, Agreed
<1> QED BY <1>4, <1>5

\* A session starts from what the file says.
LEMMA LoadAgree ==
  ASSUME TypeInv, AgreeInv, Load
  PROVE  AgreeInv'
<1> SUFFICES ASSUME NEW c \in Commands
             PROVE  AnswersAgreed(c)' /\ DueAgreed(c)' /\ QueueAgreed(c)'
  BY DEF AgreeInv
<1>1. /\ queue' = <<>> /\ state' = Pruned(disk) /\ durable' = HeldIn(state')
      /\ phase = "down" /\ UNCHANGED <<courier, disk, answers>>
  BY DEF Load, world
<1>2. Len(queue') = 0 /\ courier' = <<"idle">>
  BY <1>1 DEF TypeInv, FieldsInv
<1>3. Grows(disk, state')
  BY <1>1, PrunedGrows DEF TypeInv
<1>4. disk \in States /\ state' = Pruned(disk)
  BY <1>1 DEF TypeInv, SoundStates
<1>5. /\ DOMAIN state'.results = DOMAIN disk.results
      /\ \A d \in DOMAIN disk.results : state'.results[d].outcome = disk.results[d].outcome
  BY <1>4, PrunedFacts
<1>6. AnswersAgreed(c)'
  <2> SUFFICES ASSUME NEW o \in answers[c] PROVE Says(disk, c, o) /\ Says(state', c, o)
    BY <1>1, <1>2 DEF AnswersAgreed, Agreed
  <2>1. Says(disk, c, o)
    BY DEF AgreeInv, AnswersAgreed, Agreed
  <2> QED BY <1>3, <2>1 DEF Grows, Says
<1>7. DueAgreed(c)'
  <2> SUFFICES ASSUME <<"result", c>> \in durable' PROVE Sure(c)'
    BY <1>2 DEF DueAgreed
  <2>1. c \in DOMAIN state'.results
    BY <1>1 DEF HeldIn
  <2> QED BY <1>1, <1>2, <1>5, <2>1 DEF Sure, Agreed, Says
<1> QED BY <1>2, <1>6, <1>7 DEF QueueAgreed

\* Nothing is due when a session ends, and no snapshot takes an answer back.
LEMMA EndAgree ==
  ASSUME TypeInv, AgreeInv, SessionEnds \/ Crash
  PROVE  AgreeInv'
<1> SUFFICES ASSUME NEW c \in Commands
             PROVE  AnswersAgreed(c)' /\ DueAgreed(c)' /\ QueueAgreed(c)'
  BY DEF AgreeInv
<1>1. /\ TypeInv' /\ phase' = "down" /\ durable' = {} /\ courier' = <<"idle">>
      /\ disk' = disk /\ answers' = answers
  BY EndTypes DEF world
<1>2. DueAgreed(c)' /\ QueueAgreed(c)'
  BY <1>1 DEF TypeInv, DueAgreed, QueueAgreed
<1>3. ASSUME NEW o \in answers[c], NEW i \in 1 .. Len(queue')
      PROVE  Says(queue'[i].doc, c, o)
  <2>1. CASE SessionEnds
    <3>1. i \in 1 .. Len(queue) /\ queue'[i].doc = queue[i].doc
      BY <2>1, OrphanFacts DEF SessionEnds, TypeInv
    <3> QED BY <3>1 DEF AgreeInv, AnswersAgreed, Agreed
  <2>2. CASE Crash
    <3>1. queue' = <<>>
      BY <2>2 DEF Crash
    <3> QED BY <3>1
  <2> QED BY <2>1, <2>2
<1>4. AnswersAgreed(c)'
  BY <1>1, <1>3 DEF AgreeInv, AnswersAgreed, Agreed
<1> QED BY <1>2, <1>4

\* So the copies agree in every behaviour.
LEMMA AgreeHolds == Spec => []AgreeInv
<1>1. Init => AgreeInv
  <2> SUFFICES ASSUME Init, NEW c \in Commands
               PROVE  AnswersAgreed(c) /\ DueAgreed(c) /\ QueueAgreed(c)
    BY DEF AgreeInv
  <2>1. answers[c] = {} /\ durable = {} /\ courier = <<"idle">> /\ Len(queue) = 0
    BY DEF Init
  <2> QED BY <2>1 DEF AnswersAgreed, DueAgreed, QueueAgreed
<1>2. TypeInv /\ AgreeInv /\ [Next]_vars => AgreeInv'
  <2> SUFFICES ASSUME TypeInv, AgreeInv, [Next]_vars PROVE AgreeInv'
    OBVIOUS
  <2>1. CASE Recording /\ \E T, w : Records(T, w)
    BY <2>1, RecordsAgree
  <2>2. CASE Run \/ UNCHANGED vars
    <3>1. UNCHANGED <<phase, state, durable, courier, queue, disk, answers>>
      BY <2>2 DEF Run, vars, memory
    <3> QED BY <3>1
        DEF AgreeInv, AnswersAgreed, DueAgreed, QueueAgreed, Sure, Agreed, Promised
  <2>3. CASE Up
    <3>1. /\ UNCHANGED <<state, durable, queue, disk, answers>>
          /\ phase # "down" /\ phase' # "down" /\ courier' = <<"looking">>
      BY <2>3 DEF Up, world
    <3> QED BY <3>1
        DEF AgreeInv, AnswersAgreed, DueAgreed, QueueAgreed, Sure, Agreed, Promised
  <2> QED BY <2>1, <2>2, <2>3, WrittenAgree, WriterFailsAgree, PickItemAgree,
             PublishFailsAgree, LoadAgree, EndAgree, StepTypes
<1> QED BY <1>1, <1>2, TypesHold, PTL DEF Spec

\* The broker never receives two outcomes for one command: an outcome that is published
\* is in the file and in every snapshot that may still be written over it.
THEOREM OneOutcomePerCommand == Spec => []AnswersAgree
<1>1. AgreeInv => AnswersAgree
  BY DEF AgreeInv, AnswersAgreed, Agreed, Says, AnswersAgree
<1> QED BY <1>1, AgreeHolds, PTL

-----------------------------------------------------------------------------
(* A command is accepted for an execution that was heard of. *)

\* With the requests a and the events h that the broker received: an accepted result
\* has an event later than the request, and names no event, or is delivered, only
\* after such an event was received.
Proof(c, a, h) == \E e \in h : e > a[c]
ResultProven(r, c, a, h) ==
    r.outcome = "accepted" =>
        /\ c \in DOMAIN a
        /\ r.event # NoRun => r.event > a[c]
        /\ r.event = NoRun \/ r.delivered => Proof(c, a, h)
Proven(s, a, h) ==
    /\ \A c \in DOMAIN s.pending : c \in DOMAIN a /\ a[c] <= s.pending[c]
    /\ \A c \in DOMAIN s.results : ResultProven(s.results[c], c, a, h)
    /\ \A e \in DOMAIN s.events : s.events[e] => e \in h

\* What is proven stays proven.
LEMMA ProvenStays ==
  ASSUME NEW s, NEW a, NEW h, NEW b, NEW k, Proven(s, a, h), h \subseteq k,
         DOMAIN a \subseteq DOMAIN b, \A c \in DOMAIN a : b[c] = a[c]
  PROVE  Proven(s, b, k)
BY DEF Proven, ResultProven, Proof

\* The commands an execution confirms were requested before it.
LEMMA AdvancedProven ==
  ASSUME NEW s \in SoundStates, NEW e, NEW t, Advanced(t, s, e),
         NEW a \in Dict(Commands, 0 .. MaxRuns), NEW h, Proven(s, a, h)
  PROVE  Proven(t, a, h)
<1>1. CASE t = s
  BY <1>1
<1>2. CASE e \in Runs /\ t = Marked(s, e)
  <2>1. t.pending = s.pending /\ t.events = s.events /\ t.results = s.results
    BY <1>2, MarkedFacts
  <2> QED BY <2>1 DEF Proven
<1>3. CASE e \in Runs /\ t = Applied(s, Confirmed(s, e), e)
  <2> DEFINE C == Confirmed(s, e)
  <2>1. C \subseteq DOMAIN s.pending /\ t = Applied(s, C, e)
        /\ \A c \in C : e > s.pending[c]
    BY <1>3 DEF Confirmed
  <2> HIDE DEF C
  <2>2. IsApplied(t, s, C, e)
    BY <1>3, <2>1, AppliedFacts
  <2>3. s.pending \in [DOMAIN s.pending -> 0 .. MaxRuns] /\ a \in [DOMAIN a -> 0 .. MaxRuns]
        /\ e \in Nat \ {0}
    BY <1>3, PartFacts, DictFacts, SceneAssumption DEF SoundStates, Runs
  <2>4. ASSUME NEW c \in C PROVE ResultProven(t.results[c], c, a, h)
    <3>1. c \in DOMAIN a /\ a[c] <= s.pending[c] /\ e > s.pending[c]
      BY <2>1 DEF Proven
    <3>2. e > a[c]
      BY <2>1, <2>3, <3>1, SceneAssumption
    <3>3. /\ t.results[c].event = e /\ ~t.results[c].delivered
      BY <2>2 DEF IsApplied
    <3> QED BY <2>3, <3>1, <3>2, <3>3 DEF ResultProven, NoRun
  <2>5. \A c \in DOMAIN t.results : ResultProven(t.results[c], c, a, h)
    BY <2>2, <2>4 DEF IsApplied, Proven
  <2>6. \A f \in DOMAIN t.events : t.events[f] => f \in h
    BY <2>2 DEF IsApplied, Proven
  <2>7. \A c \in DOMAIN t.pending : c \in DOMAIN a /\ a[c] <= t.pending[c]
    BY <2>2 DEF IsApplied, Proven
  <2> QED BY <2>5, <2>6, <2>7 DEF Proven
<1> QED BY <1>1, <1>2, <1>3 DEF Advanced

\* Another answer needs no proof.
LEMMA SettledProven ==
  ASSUME NEW s \in SoundStates, NEW c \in Commands, c \notin DOMAIN s.results,
         NEW o \in Outcomes, o # "accepted", NEW t, t = Answered(s, {c}, o, NoRun),
         NEW a, NEW h, Proven(s, a, h)
  PROVE  Proven(t, a, h)
<1>1. IsSettled(t, s, c, o)
  BY SettledFacts
<1>2. t.results[c].outcome = o
  BY <1>1 DEF IsSettled
<1> QED BY <1>1, <1>2 DEF IsSettled, Proven, ResultProven

\* A result that is to be sent again keeps its event, or its proof.
LEMMA ReplayedProven ==
  ASSUME NEW s \in SoundStates, NEW c \in DOMAIN s.results, NEW t, t = Replayed(s, c),
         NEW a, NEW h, Proven(s, a, h)
  PROVE  Proven(t, a, h)
<1>1. /\ t.events = s.events /\ t.pending = s.pending
      /\ DOMAIN t.results = DOMAIN s.results
      /\ \A d \in DOMAIN s.results \ {c} : t.results[d] = s.results[d]
      /\ t.results[c].outcome = s.results[c].outcome
      /\ t.results[c].event = IF s.results[c].delivered THEN NoRun ELSE s.results[c].event
      /\ ~t.results[c].delivered
  BY ReplayedFacts
<1>2. ResultProven(s.results[c], c, a, h)
  BY DEF Proven
<1>3. ResultProven(t.results[c], c, a, h)
  BY <1>1, <1>2 DEF ResultProven
<1> QED BY <1>1, <1>3 DEF Proven

\* A command is recorded with a baseline no earlier than its first request.
LEMMA RecordedProven ==
  ASSUME NEW s \in SoundStates, NEW c \in Commands, c \notin DOMAIN s.results,
         NEW n \in 0 .. MaxRuns, NEW t, t = Recorded(s, c, n),
         NEW a, NEW h, Proven(s, a, h), c \in DOMAIN a, a[c] <= n
  PROVE  Proven(t, a, h)
<1>1. /\ t.events = s.events /\ t.results = s.results
      /\ DOMAIN t.pending = DOMAIN s.pending \cup {c} /\ t.pending[c] = n
      /\ \A d \in DOMAIN s.pending \ {c} : t.pending[d] = s.pending[d]
  BY AcceptedFacts
<1> QED BY <1>1 DEF Proven

\* Forgetting a command needs no proof.
LEMMA DroppedProven ==
  ASSUME NEW s \in SoundStates, NEW c, NEW t, t = Dropped(s, c),
         NEW a, NEW h, Proven(s, a, h)
  PROVE  Proven(t, a, h)
<1>1. /\ t.events = s.events /\ t.results = s.results
      /\ DOMAIN t.pending = DOMAIN s.pending \ {c}
      /\ \A d \in DOMAIN t.pending : t.pending[d] = s.pending[d]
  BY ForgottenFacts
<1> QED BY <1>1 DEF Proven

\* A delivered result loses its event only after the event was received.
LEMMA PrunedProven ==
  ASSUME NEW s \in SoundStates, NEW t, t = Pruned(s),
         NEW a, NEW h, Proven(s, a, h)
  PROVE  Proven(t, a, h)
<1>1. s \in States
  BY DEF SoundStates
<1>2. /\ t.pending = s.pending
      /\ DOMAIN t.events \subseteq DOMAIN s.events
      /\ \A e \in DOMAIN t.events : t.events[e] = s.events[e]
      /\ DOMAIN t.results = DOMAIN s.results
      /\ \A c \in DOMAIN s.results :
           /\ t.results[c].outcome = s.results[c].outcome
           /\ t.results[c].delivered = s.results[c].delivered
           /\ t.results[c].event = IF s.results[c].delivered THEN NoRun
                                   ELSE s.results[c].event
  BY <1>1, PrunedFacts
<1>3. ASSUME NEW c \in DOMAIN s.results PROVE ResultProven(t.results[c], c, a, h)
  <2>1. ResultProven(s.results[c], c, a, h)
    BY DEF Proven
  <2> QED BY <1>2, <2>1 DEF ResultProven
<1> QED BY <1>2, <1>3 DEF Proven

\* What is marked as delivered was received.
LEMMA AcknowledgedProven ==
  ASSUME NEW s \in SoundStates, NEW x, NEW t, Acknowledged(t, s, x),
         NEW a, NEW h, NEW k, Proven(s, a, h), h \subseteq k,
         \A e \in Runs : x = <<"event", e>> => e \in k,
         \A c \in DOMAIN s.results :
            x = <<"result", c>> /\ s.results[c].outcome = "accepted" => Proof(c, a, h)
  PROVE  Proven(t, a, k)
<1>1. Proven(s, a, k)
  BY ProvenStays
<1>2. ASSUME NEW e \in Runs, x = <<"event", e>>, t = Pruned(EventDelivered(s, e))
      PROVE  Proven(t, a, k)
  <2> DEFINE u == EventDelivered(s, e)
  <2>1. /\ u \in SoundStates
        /\ u.pending = s.pending /\ u.results = s.results
        /\ DOMAIN u.events = DOMAIN s.events
        /\ \A f \in DOMAIN s.events \ {e} : u.events[f] = s.events[f]
    BY EventDeliveredFacts
  <2>2. t = Pruned(u) /\ e \in k
    BY <1>2
  <2> HIDE DEF u
  <2>3. Proven(u, a, k)
    BY <1>1, <2>1, <2>2 DEF Proven
  <2> QED BY <2>1, <2>2, <2>3, PrunedProven
<1>3. ASSUME NEW c \in DOMAIN s.results, x = <<"result", c>>,
             t = Pruned(ResultDelivered(s, c))
      PROVE  Proven(t, a, k)
  <2> DEFINE u == ResultDelivered(s, c)
  <2>1. /\ u \in SoundStates
        /\ u.pending = s.pending /\ u.events = s.events
        /\ DOMAIN u.results = DOMAIN s.results
        /\ \A d \in DOMAIN s.results \ {c} : u.results[d] = s.results[d]
        /\ u.results[c].outcome = s.results[c].outcome
        /\ u.results[c].event = s.results[c].event
    BY ResultDeliveredFacts
  <2>2. t = Pruned(u)
    BY <1>3
  <2> HIDE DEF u
  <2>3. ResultProven(s.results[c], c, a, k)
    BY <1>1 DEF Proven
  <2>4. s.results[c].outcome = "accepted" => Proof(c, a, k)
    BY <1>3 DEF Proof
  <2>5. ResultProven(u.results[c], c, a, k)
    BY <2>1, <2>3, <2>4 DEF ResultProven
  <2>6. Proven(u, a, k)
    BY <1>1, <2>1, <2>5 DEF Proven
  <2> QED BY <2>1, <2>2, <2>6, PrunedProven
<1> QED BY <1>2, <1>3 DEF Acknowledged

Requested == \A c \in DOMAIN asked : asked[c] <= ran
CourierProven ==
    \A c \in Commands : courier = <<"result", c>> /\ state.results[c].outcome = "accepted" =>
        c \in DOMAIN asked /\ Proof(c, asked, heard)
ProofInv ==
    /\ Proven(state, asked, heard) /\ Proven(disk, asked, heard)
    /\ \A i \in 1 .. Len(queue) : Proven(queue[i].doc, asked, heard)
    /\ Requested /\ CourierProven /\ AcceptedIsProven

\* Requests and events that the broker received are never forgotten.
HistoryGrows ==
    /\ heard \subseteq heard' /\ ran <= ran'
    /\ DOMAIN asked \subseteq DOMAIN asked' /\ \A c \in DOMAIN asked : asked'[c] = asked[c]

\* What the broker receives is proven.
LEMMA ReceivedProven ==
  ASSUME TypeInv, ProofInv, courier \in Items, Received, asked' = asked
  PROVE  heard \subseteq heard' /\ AcceptedIsProven'
<1>1. heard \subseteq heard'
  BY ReceivedFacts
<1>2. ASSUME NEW c \in Commands, "accepted" \in answers'[c]
      PROVE  c \in DOMAIN asked /\ \E e \in heard' : e > asked[c]
  <2>1. c \in DOMAIN asked /\ \E e \in heard : e > asked[c]
    <3>1. CASE "accepted" \in answers[c]
      BY <3>1 DEF ProofInv, AcceptedIsProven
    <3>2. CASE "accepted" \notin answers[c]
      <4>1. answers \in [Commands -> SUBSET Outcomes]
        BY DEF TypeInv, FieldsInv
      <4>2. courier = <<"result", c>> /\ state.results[c].outcome = "accepted"
        BY <1>2, <3>2, <4>1, ReceivedFacts
      <4> QED BY <4>2 DEF ProofInv, CourierProven, Proof
    <3> QED BY <3>1, <3>2
  <2> QED BY <1>1, <2>1
<1> QED BY <1>1, <1>2 DEF AcceptedIsProven

\* The state that is recorded is proven.
LEMMA RecordingProven ==
  ASSUME TypeInv, ProofInv, Recording
  PROVE  HistoryGrows /\ Proven(state', asked', heard') /\ Requested' /\ AcceptedIsProven'
<1>1. /\ state \in SoundStates /\ ran \in 0 .. MaxRuns
      /\ asked \in Dict(Commands, 0 .. MaxRuns)
      /\ Proven(state, asked, heard) /\ Requested /\ AcceptedIsProven
  BY DEF TypeInv, FieldsInv, ProofInv
<1>2. ran <= ran
  BY <1>1, SceneAssumption
<1>3. ASSUME NEW e, Advanced(state', state, e), UNCHANGED <<asked, heard, answers, ran>>
      PROVE  /\ HistoryGrows /\ Proven(state', asked', heard')
             /\ Requested' /\ AcceptedIsProven'
  BY <1>1, <1>2, <1>3, AdvancedProven DEF HistoryGrows, Requested, AcceptedIsProven
<1>4. ASSUME NEW c \in Commands, Taken(c), UNCHANGED <<heard, answers, ran>>
      PROVE  /\ HistoryGrows /\ Proven(state', asked', heard')
             /\ Requested' /\ AcceptedIsProven'
  <2>1. CASE c \in DOMAIN state.results /\ state' = Replayed(state, c) /\ asked' = asked
    <3>1. Proven(state', asked, heard)
      BY <1>1, <2>1, ReplayedProven
    <3> QED BY <1>1, <1>2, <1>4, <2>1, <3>1 DEF HistoryGrows, Requested, AcceptedIsProven
  <2>2. CASE /\ c \notin Known(state) /\ state' = Answered(state, {c}, "unknown_scene", NoRun)
             /\ asked' = asked
    <3>1. "unknown_scene" \in Outcomes /\ "unknown_scene" # "accepted"
          /\ c \notin DOMAIN state.results
      BY <2>2 DEF Outcomes, Known
    <3>2. Proven(state', asked, heard)
      BY <1>1, <2>2, <3>1, SettledProven
    <3> QED BY <1>1, <1>2, <1>4, <2>2, <3>2 DEF HistoryGrows, Requested, AcceptedIsProven
  <2>3. CASE /\ c \notin Known(state) /\ state' = Recorded(state, c, ran)
             /\ asked' = IF c \in DOMAIN asked THEN asked ELSE Put(asked, c, ran)
    <3>1. /\ DOMAIN asked' = DOMAIN asked \cup {c}
          /\ \A d \in DOMAIN asked : asked'[d] = asked[d]
          /\ \A d \in DOMAIN asked' \ DOMAIN asked : asked'[d] = ran
      BY <2>3 DEF Put
    <3>2. Requested'
      BY <1>1, <1>2, <1>4, <3>1 DEF Requested
    <3>3. HistoryGrows
      BY <1>2, <1>4, <3>1 DEF HistoryGrows
    <3>4. Proven(state, asked', heard)
      BY <1>1, <3>1, ProvenStays
    <3>5. c \in DOMAIN asked' /\ asked'[c] <= ran /\ c \notin DOMAIN state.results
      BY <1>4, <2>3, <3>1, <3>2 DEF Requested, Known
    <3>6. Proven(state', asked', heard)
      BY <1>1, <2>3, <3>4, <3>5, RecordedProven
    <3>7. AcceptedIsProven'
      BY <1>1, <1>4, <3>1 DEF AcceptedIsProven
    <3> QED BY <1>4, <3>2, <3>3, <3>6, <3>7
  <2> QED BY <1>4, <2>1, <2>2, <2>3 DEF Taken
<1>5. ASSUME NEW c \in DOMAIN state.pending, NEW o \in {"timeout", "write_failed"},
             state' = Answered(state, {c}, o, NoRun), UNCHANGED <<asked, heard, answers, ran>>
      PROVE  /\ HistoryGrows /\ Proven(state', asked', heard')
             /\ Requested' /\ AcceptedIsProven'
  <2>1. c \in Commands /\ c \notin DOMAIN state.results
    BY <1>1, PartFacts DEF SoundStates
  <2>2. o \in Outcomes /\ o # "accepted"
    BY DEF Outcomes
  <2>3. Proven(state', asked, heard)
    BY <1>1, <1>5, <2>1, <2>2, SettledProven
  <2> QED BY <1>1, <1>2, <1>5, <2>3 DEF HistoryGrows, Requested, AcceptedIsProven
<1>6. ASSUME Publish, Acknowledged(state', state, courier)
      PROVE  /\ HistoryGrows /\ Proven(state', asked', heard')
             /\ Requested' /\ AcceptedIsProven'
  <2>1. courier \in Items /\ Received /\ UNCHANGED <<ran, asked>>
    BY <1>6 DEF Publish
  <2>2. heard \subseteq heard' /\ AcceptedIsProven'
    BY <2>1, ReceivedProven
  <2>3. \A e \in Runs : courier = <<"event", e>> => e \in heard'
    BY <2>1, ReceivedFacts
  <2>4. \A c \in DOMAIN state.results :
          courier = <<"result", c>> /\ state.results[c].outcome = "accepted"
            => Proof(c, asked, heard)
    <3>1. DOMAIN state.results \subseteq Commands
      BY <1>1, PartFacts DEF SoundStates
    <3> QED BY <3>1 DEF ProofInv, CourierProven
  <2>5. Proven(state', asked, heard')
    BY <1>1, <1>6, <2>2, <2>3, <2>4, AcknowledgedProven
  <2> QED BY <1>1, <1>2, <2>1, <2>2, <2>5 DEF HistoryGrows, Requested
<1>7. CASE \E e \in 0 .. MaxRuns :
             (See(e) \/ (ReadHistory /\ e = ran)) /\ Advanced(state', state, e)
  BY <1>3, <1>7 DEF See, ReadHistory, world
<1>8. CASE \E c \in Commands : Deliver(c) /\ Taken(c)
  BY <1>4, <1>8 DEF Deliver
<1>9. CASE \E c \in Commands, o \in {"timeout", "write_failed"} :
             /\ Settle(c, o) /\ c \in DOMAIN state.pending
             /\ state' = Answered(state, {c}, o, NoRun)
  BY <1>5, <1>9 DEF Settle
<1> QED BY <1>6, <1>7, <1>8, <1>9 DEF Recording

\* A step that records keeps every copy proven.
LEMMA RecordsProven ==
  ASSUME TypeInv, ProofInv, Recording, NEW T, NEW w, Records(T, w)
  PROVE  ProofInv'
<1>1. HistoryGrows /\ Proven(state', asked', heard') /\ Requested' /\ AcceptedIsProven'
  BY RecordingProven
<1>2. Proven(disk', asked', heard')
  <2>1. disk' = disk /\ Proven(disk, asked, heard)
    BY DEF Records, ProofInv
  <2> QED BY <1>1, <2>1, ProvenStays DEF HistoryGrows
<1>3. ASSUME NEW i \in 1 .. Len(queue') PROVE Proven(queue'[i].doc, asked', heard')
  <2>1. /\ Len(queue) \in Nat /\ Len(queue') = Len(queue) + 1
        /\ \A j \in 1 .. Len(queue) : queue'[j].doc = queue[j].doc
        /\ queue'[Len(queue) + 1].doc = state'
    BY DEF TypeInv, Records, IsCaptured
  <2>2. CASE i \in 1 .. Len(queue)
    <3>1. Proven(queue[i].doc, asked, heard) /\ queue'[i].doc = queue[i].doc
      BY <2>1, <2>2 DEF ProofInv
    <3> QED BY <1>1, <3>1, ProvenStays DEF HistoryGrows
  <2>3. CASE i = Len(queue) + 1
    BY <1>1, <2>1, <2>3
  <2> QED BY <2>1, <2>2, <2>3
<1>4. CourierProven'
  <2> SUFFICES ASSUME NEW c \in Commands, courier' = <<"result", c>>,
                      state'.results[c].outcome = "accepted"
               PROVE  c \in DOMAIN asked' /\ Proof(c, asked', heard')
    BY DEF CourierProven
  <2>1. courier = <<"result", c>>
    BY DEF Records
  <2>2. c \in DOMAIN state.results
    BY <2>1 DEF TypeInv
  <2>3. state.results[c].outcome = "accepted"
    BY <2>2 DEF Records, Grows, Says
  <2>4. c \in DOMAIN asked /\ Proof(c, asked, heard)
    BY <2>1, <2>3 DEF ProofInv, CourierProven
  <2> QED BY <1>1, <2>4 DEF HistoryGrows, Proof
<1> QED BY <1>1, <1>2, <1>3, <1>4 DEF ProofInv

\* The writer takes the first snapshot.
LEMMA TailProven ==
  ASSUME TypeInv, ProofInv, queue # <<>>, queue' = Tail(queue),
         disk' \in {disk, Head(queue).doc},
         UNCHANGED <<asked, heard, answers, ran>>,
         Proven(state', asked, heard), state'.results = state.results,
         courier' \in {courier, <<"idle">>, <<"looking">>}
  PROVE  ProofInv'
<1>1. /\ Head(queue) = queue[1] /\ 1 \in 1 .. Len(queue)
      /\ \A i \in 1 .. Len(queue') : i + 1 \in 1 .. Len(queue) /\ queue'[i] = queue[i + 1]
  BY TailFacts DEF TypeInv
<1>2. Proven(disk', asked', heard')
  BY <1>1 DEF ProofInv
<1>3. \A i \in 1 .. Len(queue') : Proven(queue'[i].doc, asked', heard')
  BY <1>1 DEF ProofInv
<1>4. CourierProven'
  BY DEF ProofInv, CourierProven
<1>5. Requested' /\ AcceptedIsProven'
  BY DEF ProofInv, Requested, AcceptedIsProven
<1> QED BY <1>2, <1>3, <1>4, <1>5 DEF ProofInv

\* So does the writer, whether or not it fails.
LEMMA WriterProven ==
  ASSUME TypeInv, ProofInv, Written \/ WriterFails
  PROVE  ProofInv'
<1> DEFINE q == Head(queue)
<1>1. /\ queue # <<>> /\ queue' = Tail(queue) /\ disk' \in {disk, q.doc}
      /\ UNCHANGED <<asked, heard, answers, ran>>
  BY DEF Written, WriterFails
<1>2. q \in Snapshots
  BY <1>1, TailFacts DEF TypeInv
<1>3. Proven(state, asked, heard) /\ state \in SoundStates
  BY DEF ProofInv, TypeInv
<1>4. CASE q.waiter = <<"nobody">>
  <2>1. UNCHANGED memory
    BY <1>4 DEF Written, WriterFails
  <2> QED BY <1>1, <1>3, <2>1, TailProven DEF memory
<1>5. CASE q.waiter # <<"nobody">>
  <2>1. Persisted(q) \/ NotPersisted(q)
    BY <1>5 DEF Written, WriterFails
  <2> HIDE DEF q
  <2>2. /\ \/ state' = state
           \/ \E d \in Commands : q.waiter = <<"write", d>> /\ state' = Dropped(state, d)
        /\ courier' \in {courier, <<"idle">>, <<"looking">>}
    BY <1>2, <1>5, <2>1, PersistedFacts, NotPersistedFacts
  <2>3. Proven(state', asked, heard) /\ state'.results = state.results
    BY <1>3, <2>2, DroppedProven, ForgottenFacts
  <2> QED BY <1>1, <2>2, <2>3, TailProven DEF q
<1> QED BY <1>4, <1>5

\* A result that may be published has no event, or one that was received.
LEMMA PickItemProven ==
  ASSUME TypeInv, ProofInv, PickItem
  PROVE  ProofInv'
<1>1. /\ courier' = <<"idle">> \/ courier' \in Ready
      /\ UNCHANGED <<state, queue, disk, asked, heard, answers, ran>>
  BY DEF PickItem, world
<1>2. Proven(state, asked, heard)
  BY DEF ProofInv
<1>3. CourierProven'
  <2> SUFFICES ASSUME NEW c \in Commands, courier' = <<"result", c>>,
                      state.results[c].outcome = "accepted"
               PROVE  c \in DOMAIN asked /\ Proof(c, asked, heard)
    BY <1>1 DEF CourierProven
  <2>1. courier' # <<"idle">>
    OBVIOUS
  <2> DEFINE e == state.results[c].event
  <2>2. c \in DOMAIN state.results /\ (e # NoRun => e \in DOMAIN state.events /\ state.events[e])
    BY <1>1, <2>1, ReadyFacts
  <2>3. /\ c \in DOMAIN asked /\ (e # NoRun => e > asked[c])
        /\ (e = NoRun => Proof(c, asked, heard))
    BY <1>2, <2>2 DEF Proven, ResultProven
  <2>4. e # NoRun => e \in heard
    BY <1>2, <2>2 DEF Proven
  <2> HIDE DEF e
  <2> QED BY <2>3, <2>4 DEF Proof
<1> QED BY <1>1, <1>3 DEF ProofInv, Requested, AcceptedIsProven

\* The broker may know more than the bridge does.
LEMMA PublishFailsProven ==
  ASSUME TypeInv, ProofInv, PublishFails
  PROVE  ProofInv'
<1>1. /\ courier \in Items /\ courier' = <<"looking">>
      /\ Received \/ UNCHANGED <<heard, answers>>
      /\ UNCHANGED <<state, queue, disk, asked, ran>>
  BY DEF PublishFails
<1>2. heard \subseteq heard' /\ AcceptedIsProven'
  <2>1. CASE Received
    BY <1>1, <2>1, ReceivedProven
  <2>2. CASE UNCHANGED <<heard, answers>>
    BY <1>1, <2>2 DEF ProofInv, AcceptedIsProven
  <2> QED BY <1>1, <2>1, <2>2
<1>3. Proven(state, asked, heard') /\ Proven(disk, asked, heard')
  BY <1>2, ProvenStays DEF ProofInv
<1>4. \A i \in 1 .. Len(queue) : Proven(queue[i].doc, asked, heard')
  BY <1>2, ProvenStays DEF ProofInv
<1>5. CourierProven'
  BY <1>1 DEF CourierProven
<1> QED BY <1>1, <1>2, <1>3, <1>4, <1>5 DEF ProofInv, Requested

\* What the file proves, the session proves.
LEMMA LoadProven ==
  ASSUME TypeInv, ProofInv, Load
  PROVE  ProofInv'
<1>1. /\ queue' = <<>> /\ state' = Pruned(disk) /\ phase = "down"
      /\ UNCHANGED <<courier, disk, asked, heard, answers, ran>>
  BY DEF Load, world
<1>2. Len(queue') = 0 /\ courier' = <<"idle">>
  BY <1>1 DEF TypeInv, FieldsInv
<1>3. Proven(disk, asked, heard) /\ disk \in SoundStates
  BY DEF ProofInv, TypeInv
<1>4. Proven(state', asked, heard)
  BY <1>1, <1>3, PrunedProven
<1>5. CourierProven'
  BY <1>2 DEF CourierProven
<1> QED BY <1>1, <1>2, <1>3, <1>4, <1>5 DEF ProofInv, Requested, AcceptedIsProven

\* The empty state claims nothing.
LEMMA EmptyProven ==
  ASSUME NEW a, NEW h
  PROVE  Proven(Empty, a, h)
BY EmptyIsSound DEF Proven

\* What is left of a session is proven.
LEMMA EndProven ==
  ASSUME TypeInv, ProofInv, SessionEnds \/ Crash
  PROVE  ProofInv'
<1>1. /\ courier' = <<"idle">> /\ UNCHANGED <<disk, asked, heard, answers, ran>>
  BY EndTypes DEF world
<1>2. state' = Empty
  BY DEF SessionEnds, Crash, Forgotten
<1>3. ASSUME NEW i \in 1 .. Len(queue') PROVE Proven(queue'[i].doc, asked, heard)
  <2>1. CASE SessionEnds
    <3>1. i \in 1 .. Len(queue) /\ queue'[i].doc = queue[i].doc
      BY <2>1, OrphanFacts DEF SessionEnds, TypeInv
    <3> QED BY <3>1 DEF ProofInv
  <2>2. CASE Crash
    <3>1. queue' = <<>>
      BY <2>2 DEF Crash
    <3> QED BY <3>1
  <2> QED BY <2>1, <2>2
<1>4. CourierProven'
  BY <1>1 DEF CourierProven
<1> QED BY <1>1, <1>2, <1>3, <1>4, EmptyProven DEF ProofInv, Requested, AcceptedIsProven

\* So the copies are proven in every behaviour.
LEMMA ProofHolds == Spec => []ProofInv
<1>1. Init => ProofInv
  <2> SUFFICES ASSUME Init PROVE ProofInv
    OBVIOUS
  <2>1. /\ state = Empty /\ disk = Empty /\ Len(queue) = 0 /\ courier = <<"idle">>
        /\ DOMAIN asked = {} /\ \A c \in Commands : answers[c] = {}
    BY DEF Init
  <2> QED BY <2>1, EmptyProven DEF ProofInv, Requested, CourierProven, AcceptedIsProven
<1>2. TypeInv /\ ProofInv /\ [Next]_vars => ProofInv'
  <2> SUFFICES ASSUME TypeInv, ProofInv, [Next]_vars PROVE ProofInv'
    OBVIOUS
  <2>1. CASE Recording /\ \E T, w : Records(T, w)
    BY <2>1, RecordsProven
  <2>2. CASE Run
    <3>1. UNCHANGED <<state, courier, queue, disk, asked, heard, answers>> /\ ran' = ran + 1
      BY <2>2 DEF Run, memory
    <3>2. asked \in [DOMAIN asked -> 0 .. MaxRuns] /\ ran \in Nat
      BY DictFacts, SceneAssumption DEF TypeInv, FieldsInv
    <3>3. Requested'
      BY <3>1, <3>2, SceneAssumption DEF ProofInv, Requested
    <3> QED BY <3>1, <3>3 DEF ProofInv, CourierProven, AcceptedIsProven
  <2>3. CASE UNCHANGED vars
    BY <2>3 DEF vars, ProofInv, Requested, CourierProven, AcceptedIsProven
  <2>4. CASE Up
    <3>1. /\ UNCHANGED <<state, queue, disk, asked, heard, answers, ran>>
          /\ courier' = <<"looking">>
      BY <2>4 DEF Up, world
    <3> QED BY <3>1 DEF ProofInv, Requested, CourierProven, AcceptedIsProven
  <2> QED BY <2>1, <2>2, <2>3, <2>4, WriterProven, PickItemProven, PublishFailsProven,
             LoadProven, EndProven, StepTypes
<1> QED BY <1>1, <1>2, TypesHold, PTL DEF Spec

\* A command is reported as accepted only after the broker received the event of an
\* execution later than the request, in whatever session either was.
THEOREM AcceptanceIsProven == Spec => []AcceptedIsProven
<1>1. ProofInv => AcceptedIsProven
  BY DEF ProofInv
<1> QED BY <1>1, ProofHolds, PTL

=============================================================================
