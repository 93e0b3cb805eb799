----------------------- MODULE WriteAdmission_proofs -----------------------
(***************************************************************************)
(* Proofs about WriteAdmission, for every set of writes and devices and    *)
(* every bound: the type invariant, the inductive invariant IInv, that the *)
(* scheduler implements NativeWrites, and that maintenance writes are not  *)
(* starved (MaintenanceOvertaking).                                        *)
(***************************************************************************)
EXTENDS WriteAdmission, FiniteSetTheorems, WellFoundedInduction, TLAPS

-----------------------------------------------------------------------------
\* The scheduler keeps the types of the queue and of the slots.
LEMMA ServeNextTypes ==
  ASSUME TypeOK, NEW d \in Devices, NEW held \in Writes \cup {None},
         NEW S \in SUBSET Writes, NEW order, ServeNext(d, held, S, order)
  PROVE  waiters' \subseteq Writes /\ slot' \in [Devices -> Writes \cup {None}]
BY DEF ServeNext, TypeOK

\* The initial state has the types of TypeOK.
LEMMA InitTypes == Init => TypeOK
<1> SUFFICES ASSUME Init PROVE TypeOK
  OBVIOUS
<1>1. /\ phase \in [Writes -> Phase] /\ outcome \in [Writes -> Outcome]
      /\ result \in [Writes -> Outcome] /\ caller \in [Writes -> Caller]
  BY DEF Init, Phase, Outcome, Caller
<1>2. /\ arrival \in [Writes -> Nat] /\ arrivals \in Nat
      /\ revision \in [Writes -> Nat] /\ native \in [Writes -> Nat]
      /\ bypasses \in [Writes -> Nat] /\ session \in Nat
      /\ bornIn \in [Writes -> Nat]
  BY DEF Init
<1>3. slot \in [Devices -> Writes \cup {None}] /\ lock \in [Devices -> Writes \cup {None}]
  BY DEF Init
<1> QED BY <1>1, <1>2, <1>3 DEF Init, TypeOK

\* Every step of one write keeps the types.
LEMMA WriteStepTypes ==
  ASSUME TypeOK, NEW w \in Writes, WriteStep(w)
  PROVE  TypeOK'
<1> USE ConstantsAssumption DEF TypeOK, Phase, Outcome, Caller,
                                schedVars, callVars, sessVars
<1>1. DeviceOf[w] \in Devices
  OBVIOUS
<1>2. CASE Admit(w)
  <2>1. waiters' \subseteq Writes /\ slot' \in [Devices -> Writes \cup {None}]
    BY <1>1, <1>2, ServeNextTypes DEF Admit
  <2> QED BY <1>2, <2>1 DEF Admit
<1>3. CASE Finish(w)
  <2>1. waiters' \subseteq Writes /\ slot' \in [Devices -> Writes \cup {None}]
    BY <1>1, <1>3, ServeNextTypes DEF Finish
  <2> QED BY <1>3, <2>1 DEF Finish
<1>4. CASE Issue(w)
  BY <1>1, <1>4 DEF Issue
<1>5. CASE Drop(w)
  BY <1>5 DEF Drop
<1>6. CASE \E how \in {"replied", "cancelled"} : RpcReturns(w, how)
  BY <1>1, <1>6 DEF RpcReturns
<1>7. CASE Supersede(w) \/ Adopt(w) \/ CallerReturns(w) \/ Detach(w)
  BY <1>7 DEF Supersede, Adopt, CallerReturns, Detach
<1>8. CASE LaneCancels(w) \/ CancelCaller(w) \/ CancelDelivered(w)
  BY <1>8 DEF LaneCancels, CancelCaller, CancelDelivered, Withdraw
<1>9. CASE Age(w)
  <2>1. bypasses' \in [Writes -> Nat] /\ aged' \subseteq Writes
    BY <1>9 DEF Age
  <2> QED BY <1>9, <2>1 DEF Age
<1>10. CASE Cap(w)
  <2>1. timers' \subseteq Writes /\ latch' \in BOOLEAN
    BY <1>10 DEF Cap
  <2> QED BY <1>10, <2>1 DEF Cap
<1> QED BY <1>2, <1>3, <1>4, <1>5, <1>6, <1>7, <1>8, <1>9, <1>10 DEF WriteStep

\* The end of a session and the start of the next keep the types.
LEMMA SessionStepTypes ==
  ASSUME TypeOK, Shutdown \/ Open
  PROVE  TypeOK'
<1>1. CASE Shutdown
  <2>1. result' \in [Writes -> Outcome]
    BY <1>1 DEF Shutdown, TypeOK, Outcome
  <2>2. cancelling' \subseteq Writes /\ withdrawn' \subseteq Writes /\ tracked' \subseteq Writes
    BY <1>1 DEF Shutdown, TypeOK, Queued
  <2> QED BY <1>1, <2>1, <2>2 DEF Shutdown, TypeOK, schedVars
<1>2. CASE Open
  <2>1. session' \in Nat
    BY <1>2 DEF Open, TypeOK
  <2> QED BY <1>2, <2>1 DEF Open, TypeOK, schedVars, callVars
<1> QED BY <1>1, <1>2

\* Type correctness of the write scheduler: what the queue, the slots, the
\* locks and the futures hold is always a write of the right kind.
THEOREM TypeCorrect == Spec => []TypeOK
<1>1. TypeOK /\ UNCHANGED vars => TypeOK'
  BY DEF TypeOK, vars, schedVars, callVars, sessVars
<1>2. TypeOK /\ [Next]_vars => TypeOK'
  BY <1>1, WriteStepTypes, SessionStepTypes DEF Next
<1> QED BY InitTypes, <1>2, PTL DEF Spec

-----------------------------------------------------------------------------
\* What the scheduler does to the queue: nothing while the device serves a
\* write, otherwise it serves an eligible waiter if there is one.
LEMMA ServeNextEffect ==
  ASSUME TypeOK, NEW d \in Devices, NEW held \in Writes \cup {None},
         NEW S \in SUBSET Writes, NEW order, ServeNext(d, held, S, order)
  PROVE  /\ \A e \in Devices : e # d => slot'[e] = slot[e]
         /\ waiters' \subseteq S /\ S \subseteq waiters' \cup {slot'[d]}
         /\ \/ slot'[d] = held /\ waiters' = S
            \/ /\ held = None /\ slot'[d] \in S \ waiters'
               /\ DeviceOf[slot'[d]] = d /\ Eligible(slot'[d], S, order)
         /\ \A v \in waiters' : DeviceOf[v] = d => slot'[d] # None
<1> DEFINE here == {w \in S : DeviceOf[w] = d}
<1>1. CASE held # None \/ here = {}
  <2>1. slot' = [slot EXCEPT ![d] = held] /\ waiters' = S
    BY <1>1 DEF ServeNext
  <2> QED BY <1>1, <2>1 DEF TypeOK
<1>2. CASE held = None /\ here # {}
  <2>1. PICK w \in here : /\ Eligible(w, S, order)
                          /\ slot' = [slot EXCEPT ![d] = w] /\ waiters' = S \ {w}
    BY <1>2 DEF ServeNext
  <2>2. slot'[d] = w /\ w \in Writes /\ w # None
    BY <2>1, ConstantsAssumption DEF TypeOK
  <2> QED BY <1>2, <2>1, <2>2 DEF TypeOK
<1> QED BY <1>1, <1>2

\* The initial state satisfies the inductive invariant.
LEMMA InitInvariant == Init => IInv
<1> SUFFICES ASSUME Init PROVE IInv
  OBVIOUS
<1>1. TypeOK
  BY InitTypes
<1>2. QueuesAreConsistent /\ NoLostWakeup
  BY ConstantsAssumption DEF Init, QueuesAreConsistent, SlotsAreConsistent, NoLostWakeup, Queued
<1>3. HistoryIsConsistent /\ WithdrawnNeverSent /\ LatestPayloadSent
  BY DEF Init, HistoryIsConsistent, WithdrawnNeverSent, LatestPayloadSent, Queued
<1> QED BY <1>1, <1>2, <1>3 DEF IInv

\* Admission keeps the books: the new write waits, or is served at once, behind
\* every older write of its peripheral.
LEMMA AdmitKeepsQueues ==
  ASSUME IInv, TypeOK', NEW w \in Writes, Admit(w)
  PROVE  QueuesAreConsistent' /\ NoLostWakeup'
<1> DEFINE d == DeviceOf[w]
           S == waiters \cup {w}
<1> USE ConstantsAssumption
<1>1. d \in Devices /\ slot[d] \in Writes \cup {None} /\ S \subseteq Writes
  BY DEF IInv, TypeOK
<1>2. ServeNext(d, slot[d], S, arrival')
  BY DEF Admit
<1>3. /\ \A e \in Devices : e # d => slot'[e] = slot[e]
      /\ waiters' \subseteq S /\ S \subseteq waiters' \cup {slot'[d]}
      /\ \/ slot'[d] = slot[d] /\ waiters' = S
         \/ /\ slot[d] = None /\ slot'[d] \in S \ waiters'
            /\ DeviceOf[slot'[d]] = d /\ Eligible(slot'[d], S, arrival')
      /\ \A v \in waiters' : DeviceOf[v] = d => slot'[d] # None
  BY <1>1, <1>2, ServeNextEffect DEF IInv
<1>4. /\ phase[w] = "new" /\ w \notin waiters /\ \A e \in Devices : slot[e] # w /\ lock[e] # w
  BY DEF Admit, IInv, QueuesAreConsistent, SlotsAreConsistent
<1>5. /\ phase'[w] = "queued" /\ \A v \in Writes \ {w} : phase'[v] = phase[v]
      /\ arrival'[w] = arrivals /\ \A v \in Writes \ {w} : arrival'[v] = arrival[v]
      /\ arrivals' = arrivals + 1 /\ lock' = lock
  BY DEF Admit, IInv, TypeOK
<1>6. NoLostWakeup'
  BY <1>1, <1>3, <1>4 DEF NoLostWakeup, IInv, TypeOK
<1>7. SlotsAreConsistent'
  BY <1>1, <1>3, <1>4, <1>5 DEF SlotsAreConsistent, IInv, TypeOK, QueuesAreConsistent, NoLostWakeup
<1>8. /\ \A v \in waiters' : phase'[v] \in {"queued", "returned"}
      /\ \A v \in Writes : phase'[v] = "queued" => v \in waiters' \/ slot'[DeviceOf[v]] = v
      /\ \A v \in Writes : phase'[v] = "issued" => lock'[DeviceOf[v]] = v
  BY <1>1, <1>3, <1>4, <1>5 DEF IInv, TypeOK, QueuesAreConsistent, Queued
<1>9. \A v \in Writes : arrival[v] \in Nat /\ arrivals \in Nat /\ arrival[v] <= arrivals
  BY DEF IInv, TypeOK, QueuesAreConsistent
<1>10. \A v \in Writes : arrival'[v] <= arrivals'
  BY <1>5, <1>9
<1>11. ASSUME NEW v \in waiters', NEW x \in Writes, slot'[DeviceOf[v]] = x, TargetOf[v] = TargetOf[x]
       PROVE  arrival'[x] <= arrival'[v]
  <2>1. v \in Writes /\ DeviceOf[v] \in Devices /\ v \in S
    BY <1>1, <1>3
  <2>2. CASE slot'[DeviceOf[v]] = slot[DeviceOf[v]]
    <3>1. x # w /\ arrival'[x] = arrival[x]
      BY <1>4, <1>5, <1>11, <2>1, <2>2
    <3>2. CASE v = w
      BY <1>5, <1>9, <3>1, <3>2
    <3>3. CASE v # w
      BY <1>5, <1>11, <2>1, <2>2, <3>1, <3>3 DEF IInv, QueuesAreConsistent
    <3> QED BY <3>2, <3>3
  <2>3. CASE slot'[DeviceOf[v]] # slot[DeviceOf[v]]
    BY <1>3, <1>11, <2>1, <2>3 DEF Eligible
  <2> QED BY <2>2, <2>3
<1> QED BY <1>6, <1>7, <1>8, <1>10, <1>11 DEF QueuesAreConsistent, Queued

\* The done-callback keeps the books: the device it frees serves the oldest
\* waiter of some peripheral.
LEMMA FinishKeepsQueues ==
  ASSUME IInv, TypeOK', NEW w \in Writes, Finish(w)
  PROVE  QueuesAreConsistent' /\ NoLostWakeup'
<1> DEFINE d == DeviceOf[w]
           S == waiters \ {w}
           held == IF slot[d] = w THEN None ELSE slot[d]
<1> USE ConstantsAssumption
<1>1. d \in Devices /\ held \in Writes \cup {None} /\ S \subseteq Writes
  BY DEF IInv, TypeOK
<1>2. ServeNext(d, held, S, arrival)
  BY DEF Finish
<1>3. /\ \A e \in Devices : e # d => slot'[e] = slot[e]
      /\ waiters' \subseteq S /\ S \subseteq waiters' \cup {slot'[d]}
      /\ \/ slot'[d] = held /\ waiters' = S
         \/ /\ held = None /\ slot'[d] \in S \ waiters'
            /\ DeviceOf[slot'[d]] = d /\ Eligible(slot'[d], S, arrival)
      /\ \A v \in waiters' : DeviceOf[v] = d => slot'[d] # None
  <2> HIDE DEF held, S, d
  <2> QED BY <1>1, <1>2, ServeNextEffect DEF IInv
<1>4. /\ phase[w] = "returned" /\ \A e \in Devices : lock[e] # w
      /\ \A e \in Devices : slot[e] = w => e = d
  BY DEF Finish, IInv, QueuesAreConsistent, SlotsAreConsistent
<1>5. /\ phase'[w] = "settled" /\ \A v \in Writes \ {w} : phase'[v] = phase[v]
      /\ lock' = lock /\ arrival' = arrival /\ arrivals' = arrivals
  BY DEF Finish, IInv, TypeOK
<1>6. NoLostWakeup'
  BY <1>1, <1>3, <1>4 DEF NoLostWakeup, IInv, TypeOK
<1>7. SlotsAreConsistent'
  <2> SUFFICES ASSUME NEW e \in Devices
               PROVE  /\ slot'[e] # None =>
                           /\ DeviceOf[slot'[e]] = e /\ slot'[e] \notin waiters'
                           /\ phase'[slot'[e]] \in {"queued", "issued", "returned"}
                      /\ lock'[e] # None => phase'[lock'[e]] = "issued" /\ slot'[e] = lock'[e]
    BY DEF SlotsAreConsistent
  <2>1. CASE e # d
    BY <1>1, <1>3, <1>4, <1>5, <2>1 DEF IInv, TypeOK, QueuesAreConsistent, SlotsAreConsistent
  <2>2. CASE e = d
    BY <1>1, <1>3, <1>4, <1>5, <2>2 DEF IInv, TypeOK, QueuesAreConsistent, SlotsAreConsistent
  <2> QED BY <2>1, <2>2
<1>8. /\ \A v \in waiters' : phase'[v] \in {"queued", "returned"}
      /\ \A v \in Writes : phase'[v] = "queued" => v \in waiters' \/ slot'[DeviceOf[v]] = v
      /\ \A v \in Writes : phase'[v] = "issued" => lock'[DeviceOf[v]] = v
      /\ \A v \in Writes : arrival'[v] <= arrivals'
  <2>1. \A v \in waiters' : phase'[v] \in {"queued", "returned"}
    BY <1>3, <1>5 DEF IInv, TypeOK, QueuesAreConsistent
  <2>2. ASSUME NEW v \in Writes, phase'[v] = "queued" PROVE v \in waiters' \/ slot'[DeviceOf[v]] = v
    <3>1. v # w /\ phase[v] = "queued"
      BY <1>5, <2>2
    <3>2. v \in S \/ slot[DeviceOf[v]] = v
      BY <3>1 DEF IInv, QueuesAreConsistent, Queued
    <3>3. CASE v \in S
      <4>1. v \in waiters' \/ slot'[d] = v
        BY <1>3, <3>3
      <4>2. slot'[d] = v => DeviceOf[v] = d
        BY <1>3, <1>4, <3>1 DEF IInv, QueuesAreConsistent, SlotsAreConsistent
      <4> QED BY <4>1, <4>2
    <3>4. CASE slot[DeviceOf[v]] = v
      <4>1. DeviceOf[v] # d => slot'[DeviceOf[v]] = v
        BY <1>3, <3>4 DEF IInv, TypeOK
      <4>2. DeviceOf[v] = d => held = v /\ v # None
        BY <3>1, <3>4
      <4>3. DeviceOf[v] = d => slot'[d] = held
        BY <1>3, <4>2
      <4> QED BY <4>1, <4>2, <4>3
    <3> QED BY <3>2, <3>3, <3>4
  <2>3. \A v \in Writes : phase'[v] = "issued" => lock'[DeviceOf[v]] = v
    BY <1>5 DEF IInv, TypeOK, QueuesAreConsistent
  <2>4. \A v \in Writes : arrival'[v] <= arrivals'
    BY <1>5 DEF IInv, QueuesAreConsistent
  <2> QED BY <2>1, <2>2, <2>3, <2>4
<1>9. ASSUME NEW v \in waiters', NEW x \in Writes, slot'[DeviceOf[v]] = x, TargetOf[v] = TargetOf[x]
      PROVE  arrival'[x] <= arrival'[v]
  <2>1. v \in Writes /\ DeviceOf[v] \in Devices /\ v \in S
    BY <1>1, <1>3
  <2>2. CASE slot'[DeviceOf[v]] = slot[DeviceOf[v]]
    BY <1>5, <1>9, <2>1, <2>2 DEF IInv, QueuesAreConsistent
  <2>3. CASE slot'[DeviceOf[v]] # slot[DeviceOf[v]]
    BY <1>3, <1>5, <1>9, <2>1, <2>3 DEF Eligible
  <2> QED BY <2>2, <2>3
<1> QED BY <1>6, <1>7, <1>8, <1>9 DEF QueuesAreConsistent, Queued

\* The other steps leave the queue and the slots alone; taking and releasing
\* the lock agree with the phase.
LEMMA WriteStepKeepsQueues ==
  ASSUME IInv, TypeOK', NEW w \in Writes, WriteStep(w)
  PROVE  QueuesAreConsistent' /\ NoLostWakeup'
<1> USE ConstantsAssumption
<1>1. CASE Admit(w)
  BY <1>1, AdmitKeepsQueues
<1>2. CASE Finish(w)
  BY <1>2, FinishKeepsQueues
<1>3. CASE Issue(w)
  <2>1. /\ phase'[w] = "issued" /\ \A v \in Writes \ {w} : phase'[v] = phase[v]
        /\ slot[DeviceOf[w]] = w /\ lock[DeviceOf[w]] = None /\ phase[w] = "queued"
        /\ lock'[DeviceOf[w]] = w
        /\ \A e \in Devices \ {DeviceOf[w]} : lock'[e] = lock[e]
        /\ UNCHANGED <<waiters, arrival, arrivals, slot>>
    BY <1>3 DEF Issue, IInv, TypeOK
  <2>2. SlotsAreConsistent'
    BY <2>1 DEF IInv, TypeOK, QueuesAreConsistent, SlotsAreConsistent
  <2>3. w \notin waiters
    BY <2>1 DEF IInv, QueuesAreConsistent, SlotsAreConsistent
  <2>4. \A v \in waiters' : phase'[v] \in {"queued", "returned"}
    BY <2>1, <2>3 DEF IInv, TypeOK, QueuesAreConsistent
  <2>5. \A v \in Writes : phase'[v] = "queued" => v \in waiters' \/ slot'[DeviceOf[v]] = v
    BY <2>1 DEF IInv, QueuesAreConsistent, Queued
  <2>6. \A v \in Writes : phase'[v] = "issued" => lock'[DeviceOf[v]] = v
    BY <2>1 DEF IInv, QueuesAreConsistent
  <2>7. NoLostWakeup'
    BY <2>1 DEF IInv, NoLostWakeup
  <2> QED BY <2>1, <2>2, <2>4, <2>5, <2>6, <2>7 DEF IInv, QueuesAreConsistent, Queued
<1>4. CASE Drop(w)
  <2>1. /\ phase'[w] = "returned" /\ \A v \in Writes \ {w} : phase'[v] = phase[v]
        /\ phase[w] = "queued" /\ UNCHANGED <<waiters, arrival, arrivals, slot, lock>>
    BY <1>4 DEF Drop, IInv, TypeOK, schedVars
  <2>2. SlotsAreConsistent'
    BY <2>1 DEF IInv, TypeOK, QueuesAreConsistent, SlotsAreConsistent
  <2>3. NoLostWakeup'
    BY <2>1 DEF IInv, NoLostWakeup
  <2> QED BY <2>1, <2>2, <2>3 DEF IInv, TypeOK, QueuesAreConsistent, Queued
<1>5. CASE \E how \in {"replied", "cancelled"} : RpcReturns(w, how)
  <2>1. /\ phase'[w] = "returned" /\ \A v \in Writes \ {w} : phase'[v] = phase[v]
        /\ phase[w] = "issued" /\ lock'[DeviceOf[w]] = None
        /\ \A e \in Devices \ {DeviceOf[w]} : lock'[e] = lock[e]
        /\ UNCHANGED <<waiters, arrival, arrivals, slot>>
    BY <1>5 DEF RpcReturns, IInv, TypeOK, schedVars
  <2>2. SlotsAreConsistent'
    BY <2>1 DEF IInv, TypeOK, QueuesAreConsistent, SlotsAreConsistent
  <2>3. NoLostWakeup'
    BY <2>1 DEF IInv, NoLostWakeup
  <2> QED BY <2>1, <2>2, <2>3 DEF IInv, TypeOK, QueuesAreConsistent, Queued
<1>6. CASE \/ Age(w) \/ Supersede(w) \/ Adopt(w) \/ LaneCancels(w) \/ CallerReturns(w)
           \/ Detach(w) \/ CancelCaller(w) \/ CancelDelivered(w) \/ Cap(w)
  <2>1. UNCHANGED <<phase, waiters, arrival, arrivals, slot, lock>>
    BY <1>6 DEF Age, Supersede, Adopt, LaneCancels, CallerReturns, Detach, CancelCaller,
                CancelDelivered, Cap, schedVars
  <2> QED BY <2>1 DEF IInv, QueuesAreConsistent, SlotsAreConsistent, NoLostWakeup, Queued
<1> QED BY <1>1, <1>2, <1>3, <1>4, <1>5, <1>6 DEF WriteStep

\* What was sent and what was given up stay consistent with the phases: only an
\* issue sends, and it never sends a write that was given up.
LEMMA WriteStepKeepsHistory ==
  ASSUME IInv, TypeOK', NEW w \in Writes, WriteStep(w)
  PROVE  HistoryIsConsistent' /\ WithdrawnNeverSent' /\ LatestPayloadSent'
<1> USE DEF IInv, TypeOK, HistoryIsConsistent, WithdrawnNeverSent, LatestPayloadSent, Queued
<1>1. CASE Admit(w)
  BY <1>1 DEF Admit
<1>2. CASE Issue(w)
  BY <1>2 DEF Issue, Fenced, callVars
<1>3. CASE Finish(w)
  BY <1>3 DEF Finish
<1>4. CASE Drop(w)
  BY <1>4 DEF Drop, callVars
<1>5. CASE \E how \in {"replied", "cancelled"} : RpcReturns(w, how)
  BY <1>5 DEF RpcReturns, callVars
<1>6. CASE Supersede(w)
  BY <1>6 DEF Supersede
<1>7. CASE Age(w) \/ Cap(w)
  BY <1>7 DEF Age, Cap, callVars
<1>8. CASE Adopt(w) \/ CallerReturns(w) \/ Detach(w)
  BY <1>8 DEF Adopt, CallerReturns, Detach
<1>9. CASE LaneCancels(w) \/ CancelCaller(w) \/ CancelDelivered(w)
  BY <1>9 DEF LaneCancels, CancelCaller, CancelDelivered, Withdraw
<1> QED BY <1>1, <1>2, <1>3, <1>4, <1>5, <1>6, <1>7, <1>8, <1>9 DEF WriteStep

\* IInv is inductive.
LEMMA StepInvariant == IInv /\ [Next]_vars => IInv'
<1> SUFFICES ASSUME IInv, [Next]_vars PROVE IInv'
  OBVIOUS
<1>1. ASSUME NEW w \in Writes, WriteStep(w) PROVE IInv'
  <2>1. TypeOK'
    BY <1>1, WriteStepTypes DEF IInv
  <2> QED BY <1>1, <2>1, WriteStepKeepsQueues, WriteStepKeepsHistory DEF IInv
<1>2. CASE Shutdown \/ Open
  <2>1. TypeOK'
    BY <1>2, SessionStepTypes DEF IInv
  <2>2. UNCHANGED <<phase, waiters, arrival, arrivals, slot, lock, revoked, revision, native>>
    BY <1>2 DEF Shutdown, Open, schedVars, callVars
  <2>3. QueuesAreConsistent' /\ NoLostWakeup' /\ LatestPayloadSent'
    BY <2>2 DEF IInv, QueuesAreConsistent, SlotsAreConsistent, NoLostWakeup, LatestPayloadSent, Queued
  <2>4. HistoryIsConsistent' /\ WithdrawnNeverSent'
    BY <1>2, <2>2 DEF IInv, HistoryIsConsistent, WithdrawnNeverSent, Queued, Shutdown, Open
  <2> QED BY <2>1, <2>3, <2>4 DEF IInv
<1>3. CASE UNCHANGED vars
  BY <1>3 DEF IInv, TypeOK, QueuesAreConsistent, SlotsAreConsistent, NoLostWakeup,
              HistoryIsConsistent, WithdrawnNeverSent, LatestPayloadSent, Queued,
              vars, schedVars, callVars, sessVars
<1> QED BY <1>1, <1>2, <1>3 DEF Next

\* The books of the scheduler are consistent in every reachable state.
THEOREM InvariantHolds == Spec => []IInv
BY InitInvariant, StepInvariant, PTL DEF Spec

\* A device never runs two native writes: not when callers give up, not when a
\* session ends under an RPC that is still running.
THEOREM NeverTwoNativeWrites == Spec => []OneNativeWrite
<1>1. IInv => OneNativeWrite
  BY DEF IInv, QueuesAreConsistent, OneNativeWrite
<1> QED BY <1>1, InvariantHolds, PTL

\* A write that was given up before it was issued never reaches the bus.
THEOREM WithdrawnStaysUnsent == Spec => []WithdrawnNeverSent
<1>1. IInv => WithdrawnNeverSent
  BY DEF IInv
<1> QED BY <1>1, InvariantHolds, PTL

\* What a ticket sent is the last payload it was given.
THEOREM SupersededNeverSent == Spec => []LatestPayloadSent
<1>1. IInv => LatestPayloadSent
  BY DEF IInv
<1> QED BY <1>1, InvariantHolds, PTL

\* No device is idle while a write waits for it: every wake-up is delivered.
THEOREM WakeupsDelivered == Spec => []NoLostWakeup
<1>1. IInv => NoLostWakeup
  BY DEF IInv
<1> QED BY <1>1, InvariantHolds, PTL

-----------------------------------------------------------------------------
\* The initial state is one of NativeWrites.
LEMMA InitImplements == Init => Abstract!Init
BY DEF Init, Abstract!Init, Standing

\* Withdrawing writes that were only wanted is a step of NativeWrites, and
\* withdrawing none, or one already withdrawn, is no step.
LEMMA WithdrawImplements ==
  ASSUME IInv, NEW W \in SUBSET Queued, withdrawn' = withdrawn \cup W,
         UNCHANGED <<phase, arrival, arrivals, revision, native>>
  PROVE  [Abstract!Next]_(Abstract!vars)
<1> DEFINE T == {w \in W : w \notin withdrawn}
<1>1. T \in SUBSET Writes /\ \A w \in T : Standing[w] = "wanted"
  BY DEF Standing, Queued
<1>2. Standing' = [w \in Writes |-> IF w \in T THEN "withdrawn" ELSE Standing[w]]
  BY DEF Standing, Queued, IInv, HistoryIsConsistent
<1>3. Abstract!Withdraw(T)
  BY <1>1, <1>2 DEF Abstract!Withdraw
<1> QED BY <1>1, <1>3 DEF Abstract!Next

\* Every step of one write is a step of NativeWrites or none.  An issue is a
\* Run: the lock shows that no other write runs, and the order of the slots
\* that no older write of the peripheral is still wanted.
LEMMA WriteStepImplements ==
  ASSUME IInv, IInv', NEW w \in Writes, WriteStep(w)
  PROVE  [Abstract!Next]_(Abstract!vars)
<1> USE DEF IInv, TypeOK
<1>1. CASE Admit(w)
  <2>1. /\ phase[w] = "new" /\ phase' = [phase EXCEPT ![w] = "queued"]
        /\ w \notin withdrawn /\ UNCHANGED <<native, withdrawn>>
    BY <1>1 DEF Admit, HistoryIsConsistent
  <2>2. Standing[w] = "new" /\ Standing' = [Standing EXCEPT ![w] = "wanted"]
    <3>1. Standing[w] = "new" /\ Standing'[w] = "wanted"
      BY <2>1 DEF Standing
    <3>2. \A v \in Writes \ {w} : Standing'[v] = Standing[v]
      BY <2>1 DEF Standing
    <3> QED BY <3>1, <3>2 DEF Standing
  <2>3. Abstract!Accept(w)
    BY <1>1, <2>2 DEF Admit, Abstract!Accept
  <2> QED BY <2>3 DEF Abstract!Next
<1>2. CASE Issue(w)
  <2>1. /\ phase[w] = "queued" /\ w \notin withdrawn /\ slot[DeviceOf[w]] = w
        /\ lock[DeviceOf[w]] = None
    BY <1>2 DEF Issue, Fenced, HistoryIsConsistent, Queued
  <2>2. Standing[w] = "wanted" /\ Standing' = [Standing EXCEPT ![w] = "running"]
    BY <1>2, <2>1 DEF Issue, Standing
  <2>3. ASSUME NEW v \in Writes, DeviceOf[v] = DeviceOf[w] PROVE Standing[v] # "running"
    BY <2>1, <2>3, ConstantsAssumption DEF Standing, QueuesAreConsistent
  <2>4. ASSUME NEW v \in Writes, DeviceOf[v] = DeviceOf[w], TargetOf[v] = TargetOf[w],
               Standing[v] = "wanted"
        PROVE  arrival[w] <= arrival[v]
    <3>1. phase[v] = "queued"
      BY <2>4 DEF Standing
    <3> QED BY <2>1, <2>4, <3>1 DEF QueuesAreConsistent, Queued
  <2>5. Abstract!Run(w)
    BY <1>2, <2>2, <2>3, <2>4
       DEF Issue, callVars, Abstract!Run, Abstract!SameDevice, Abstract!SameTarget
  <2> QED BY <2>5 DEF Abstract!Next
<1>3. CASE Drop(w)
  <2>1. CASE w \in withdrawn
    <3>1. Standing' = Standing
      BY <1>3, <2>1 DEF Drop, Standing, HistoryIsConsistent
    <3> QED BY <1>3, <3>1 DEF Drop, Abstract!vars, schedVars, callVars
  <2>2. CASE w \notin withdrawn
    <3>1. /\ Standing[w] = "wanted"
          /\ Standing' = [v \in Writes |-> IF v \in {w} THEN "withdrawn" ELSE Standing[v]]
      BY <1>3, <2>2 DEF Drop, Standing, HistoryIsConsistent
    <3>2. Abstract!Withdraw({w})
      BY <1>3, <3>1 DEF Drop, Abstract!Withdraw, schedVars, callVars
    <3> QED BY <3>2 DEF Abstract!Next
  <2> QED BY <2>1, <2>2
<1>4. CASE \E how \in {"replied", "cancelled"} : RpcReturns(w, how)
  <2>1. /\ phase[w] = "issued" /\ phase' = [phase EXCEPT ![w] = "returned"]
        /\ native[w] # 0 /\ UNCHANGED <<native, withdrawn>>
    BY <1>4 DEF RpcReturns, HistoryIsConsistent
  <2>2. Standing[w] = "running" /\ Standing' = [Standing EXCEPT ![w] = "done"]
    BY <2>1 DEF Standing
  <2>3. Abstract!End(w)
    BY <1>4, <2>2 DEF RpcReturns, Abstract!End, schedVars, callVars
  <2> QED BY <2>3 DEF Abstract!Next
<1>5. CASE Finish(w)
  <2>1. Standing' = Standing
    BY <1>5 DEF Finish, Standing
  <2> QED BY <1>5, <2>1 DEF Finish, Abstract!vars
<1>6. CASE Supersede(w)
  <2>1. phase[w] = "queued" /\ w \notin withdrawn
    BY <1>6 DEF Supersede, HistoryIsConsistent, Queued
  <2>2. Standing[w] = "wanted" /\ Standing' = Standing
    BY <1>6, <2>1 DEF Supersede, Standing
  <2>3. Abstract!Revise(w)
    BY <1>6, <2>2 DEF Supersede, Abstract!Revise, schedVars
  <2> QED BY <2>3 DEF Abstract!Next
<1>7. CASE Age(w) \/ Adopt(w) \/ CallerReturns(w) \/ Detach(w) \/ Cap(w)
  <2>1. UNCHANGED <<phase, arrival, arrivals, revision, native, withdrawn>>
    BY <1>7 DEF Age, Adopt, CallerReturns, Detach, Cap, schedVars, callVars
  <2> QED BY <2>1 DEF Abstract!vars, Standing
<1>8. CASE LaneCancels(w) \/ CancelCaller(w) \/ CancelDelivered(w)
  <2>1. UNCHANGED <<phase, arrival, arrivals, revision, native>>
    BY <1>8 DEF LaneCancels, CancelCaller, CancelDelivered, schedVars
  <2>2. \/ withdrawn' = withdrawn
        \/ w \in Queued /\ withdrawn' = withdrawn \cup {w}
    BY <1>8 DEF LaneCancels, CancelCaller, CancelDelivered, Withdraw, Queued
  <2>3. CASE withdrawn' = withdrawn
    BY <2>1, <2>3 DEF Abstract!vars, Standing
  <2>4. CASE w \in Queued /\ withdrawn' = withdrawn \cup {w}
    <3>1. {w} \in SUBSET Queued
      BY <2>4
    <3> QED BY <2>1, <2>4, <3>1, WithdrawImplements
  <2> QED BY <2>2, <2>3, <2>4
<1> QED BY <1>1, <1>2, <1>3, <1>4, <1>5, <1>6, <1>7, <1>8 DEF WriteStep

\* The scheduler keeps the promise of NativeWrites: whatever the classes,
\* cancellations, folds, timeouts and sessions do, a device runs one write at a
\* time, the writes of a peripheral start in the order they were admitted, each
\* once, with its last payload, and none that was withdrawn.
THEOREM ImplementsNativeWrites == Spec => KeepsWritePromise
<1>1. IInv /\ IInv' /\ [Next]_vars => [Abstract!Next]_(Abstract!vars)
  <2> SUFFICES ASSUME IInv, IInv', [Next]_vars PROVE [Abstract!Next]_(Abstract!vars)
    OBVIOUS
  <2>1. ASSUME NEW w \in Writes, WriteStep(w) PROVE [Abstract!Next]_(Abstract!vars)
    BY <2>1, WriteStepImplements
  <2>2. CASE Shutdown
    <3>1. /\ withdrawn' = withdrawn \cup Queued
          /\ UNCHANGED <<phase, arrival, arrivals, revision, native>>
      BY <2>2 DEF Shutdown, schedVars
    <3> QED BY <3>1, WithdrawImplements
  <2>3. CASE Open \/ UNCHANGED vars
    <3>1. UNCHANGED <<phase, arrival, arrivals, revision, native, withdrawn>>
      BY <2>3 DEF Open, vars, schedVars, callVars
    <3> QED BY <3>1 DEF Abstract!vars, Standing
  <2> QED BY <2>1, <2>2, <2>3 DEF Next
<1> QED BY InitImplements, InvariantHolds, <1>1, PTL DEF Spec, KeepsWritePromise, Abstract!Spec
-----------------------------------------------------------------------------
(* Maintenance writes.  A write that is served was preferred to every       *)
(* eligible waiter.  A maintenance write need not be eligible itself: then  *)
(* an older one of its peripheral stands in for it, which was bypassed at   *)
(* least as often.                                                          *)

Maintenance(w) == ClassOf[w] = "maintenance"

\* The interactive writes that arrived after w and were issued.
Overtakers(w) ==
  {v \in Writes : /\ native[v] # 0 /\ DeviceOf[v] = DeviceOf[w]
                  /\ ClassOf[v] # "maintenance" /\ arrival[v] > arrival[w]}

\* A write that was served before an older maintenance write of its device had
\* the right to: that one had bypasses left.
ServedByRight ==
  \A x \in Writes, w \in waiters :
    /\ slot[DeviceOf[w]] = x /\ phase[x] = "queued" /\ ~Maintenance(x)
    /\ Maintenance(w) /\ arrival[x] > arrival[w]
    => bypasses[w] < MaxBypasses

\* An older maintenance write was bypassed at least as often as a younger one.
BypassesAge ==
  /\ \A w \in Writes : phase[w] = "new" => bypasses[w] = 0
  /\ \A v, w \in waiters :
       /\ Maintenance(v) /\ Maintenance(w) /\ DeviceOf[v] = DeviceOf[w]
       /\ arrival[v] < arrival[w]
       => bypasses[w] <= bypasses[v]

\* Every overtaking was counted, and there were not too many.
BypassesCount ==
  \A w \in waiters :
    Maintenance(w) =>
      /\ IsFiniteSet(Overtakers(w))
      /\ Cardinality(Overtakers(w)) <= bypasses[w]
      /\ Cardinality(Overtakers(w)) <= MaxBypasses

BypassInv == ServedByRight /\ BypassesAge /\ BypassesCount

-----------------------------------------------------------------------------
\* A set of writes that is not empty has an oldest one.
LEMMA OldestExists ==
  ASSUME NEW order \in [Writes -> Nat], NEW T \in SUBSET Writes, T # {}
  PROVE  \E v \in T : \A u \in T : order[v] <= order[u]
<1> DEFINE N == {order[u] : u \in T}
<1>1. N \subseteq Nat /\ N # {}
  OBVIOUS
<1>2. \E n \in N : \A k \in N : ~(<<k, n>> \in OpToRel(<, Nat))
  BY <1>1, NatLessThanWellFounded, WFMin
<1>3. PICK n \in N : \A k \in N : ~(<<k, n>> \in OpToRel(<, Nat))
  BY <1>2
<1>4. \A k \in N : ~(k < n)
  BY <1>1, <1>3 DEF OpToRel
<1>5. PICK v \in T : order[v] = n
  OBVIOUS
<1>6. ASSUME NEW u \in T PROVE n <= order[u]
  <2>1. order[u] \in N
    OBVIOUS
  <2> QED BY <1>1, <1>4, <2>1
<1> QED BY <1>5, <1>6

\* A write that is served ahead of an older maintenance write found it, or an
\* older one of the same peripheral, with bypasses left.
LEMMA ServedIsPreferred ==
  ASSUME TypeOK, NEW S \in SUBSET Writes, NEW order \in [Writes -> Nat],
         NEW x \in S, NEW w \in S, DeviceOf[x] = DeviceOf[w],
         ~Maintenance(x), Maintenance(w), order[x] > order[w],
         \A v \in S : DeviceOf[v] = DeviceOf[x] /\ Eligible(v, S, order)
                        => Preferred(x, v, order)
  PROVE  \E v \in S : /\ Maintenance(v) /\ DeviceOf[v] = DeviceOf[w]
                      /\ (v = w \/ order[v] < order[w])
                      /\ bypasses[v] < MaxBypasses
<1> DEFINE T == {u \in S : DeviceOf[u] = DeviceOf[w] /\ TargetOf[u] = TargetOf[w]}
<1>1. PICK v \in T : \A u \in T : order[v] <= order[u]
  <2>1. T \in SUBSET Writes /\ w \in T
    OBVIOUS
  <2> QED BY <2>1, OldestExists
<1>2. Eligible(v, S, order) /\ order[v] <= order[w]
  BY <1>1 DEF Eligible
<1>3. Preferred(x, v, order) /\ ~(order[x] <= order[v])
  BY <1>1, <1>2
<1>4. Deferred(v)
  BY <1>3 DEF Preferred
<1>5. Maintenance(v) /\ bypasses[v] < MaxBypasses
  BY <1>4 DEF Deferred, Maintenance
<1>6. CASE order[v] < order[w]
  BY <1>1, <1>5, <1>6
<1>7. CASE order[v] = order[w]
  <2>1. Eligible(w, S, order)
    BY <1>1, <1>7 DEF Eligible
  <2>2. Deferred(w)
    BY <2>1 DEF Preferred
  <2> QED BY <2>2 DEF Deferred, Maintenance
<1> QED BY <1>2, <1>6, <1>7

\* Whoever is chosen among the waiters S of a device was preferred by right.
LEMMA ChoiceIsByRight ==
  ASSUME TypeOK, NEW S \in SUBSET Writes, NEW order \in [Writes -> Nat], NEW x \in S,
         \A v \in S : DeviceOf[v] = DeviceOf[x] /\ Eligible(v, S, order)
                        => Preferred(x, v, order),
         \A v, u \in S : /\ Maintenance(v) /\ Maintenance(u) /\ DeviceOf[v] = DeviceOf[u]
                         /\ order[v] < order[u]
                         => bypasses[u] <= bypasses[v],
         ~Maintenance(x), NEW w \in S, DeviceOf[w] = DeviceOf[x], Maintenance(w),
         order[x] > order[w]
  PROVE  bypasses[w] < MaxBypasses
<1>1. PICK v \in S : /\ Maintenance(v) /\ DeviceOf[v] = DeviceOf[w]
                     /\ (v = w \/ order[v] < order[w])
                     /\ bypasses[v] < MaxBypasses
  BY ServedIsPreferred
<1>2. bypasses[v] \in Nat /\ bypasses[w] \in Nat /\ MaxBypasses \in Nat
  BY ConstantsAssumption DEF TypeOK
<1>3. v = w \/ bypasses[w] <= bypasses[v]
  BY <1>1
<1> QED BY <1>1, <1>2, <1>3

\* What ServeNext does: nothing, or it chooses the preferred waiter.
LEMMA ServeNextPrefers ==
  ASSUME TypeOK, NEW d \in Devices, NEW held \in Writes \cup {None},
         NEW S \in SUBSET Writes, NEW order, ServeNext(d, held, S, order)
  PROVE  /\ \A e \in Devices : e # d => slot'[e] = slot[e]
         /\ waiters' \subseteq S
         /\ \/ slot'[d] = held
            \/ /\ slot'[d] \in S /\ DeviceOf[slot'[d]] = d
               /\ \A v \in S : DeviceOf[v] = d /\ Eligible(v, S, order)
                                => Preferred(slot'[d], v, order)
<1> DEFINE here == {w \in S : DeviceOf[w] = d}
<1>1. CASE held # None \/ here = {}
  BY <1>1 DEF ServeNext, TypeOK
<1>2. CASE held = None /\ here # {}
  <2>1. PICK w \in here : /\ \A v \in here : Eligible(v, S, order) => Preferred(w, v, order)
                          /\ slot' = [slot EXCEPT ![d] = w] /\ waiters' = S \ {w}
    BY <1>2 DEF ServeNext
  <2> QED BY <2>1 DEF TypeOK
<1> QED BY <1>1, <1>2

-----------------------------------------------------------------------------
\* Nothing was bypassed in the initial state.
LEMMA InitBypasses == Init => BypassInv
BY DEF Init, BypassInv, ServedByRight, BypassesAge, BypassesCount

\* A write that is admitted is the youngest, and overtook nobody.
LEMMA AdmitKeepsBypasses ==
  ASSUME IInv, IInv', BypassInv, NEW w \in Writes, Admit(w)
  PROVE  BypassInv'
<1> DEFINE d == DeviceOf[w]
           S == waiters \cup {w}
<1>1. d \in Devices /\ slot[d] \in Writes \cup {None} /\ S \in SUBSET Writes
  BY ConstantsAssumption DEF IInv, TypeOK
<1>2. /\ \A e \in Devices : e # d => slot'[e] = slot[e]
      /\ waiters' \subseteq S
      /\ \/ slot'[d] = slot[d]
         \/ /\ slot'[d] \in S /\ DeviceOf[slot'[d]] = d
            /\ \A v \in S : DeviceOf[v] = d /\ Eligible(v, S, arrival')
                             => Preferred(slot'[d], v, arrival')
  <2>1. ServeNext(d, slot[d], S, arrival')
    BY DEF Admit
  <2> HIDE DEF d, S
  <2> QED BY <1>1, <2>1, ServeNextPrefers DEF IInv
<1>3. /\ phase[w] = "new" /\ native[w] = 0 /\ bypasses[w] = 0
      /\ w \notin waiters /\ \A e \in Devices : slot[e] # w
  <2>1. phase[w] = "new" /\ w # None
    BY ConstantsAssumption DEF Admit
  <2>2. native[w] = 0 /\ bypasses[w] = 0 /\ w \notin waiters
    BY <2>1 DEF BypassInv, BypassesAge, IInv, HistoryIsConsistent, QueuesAreConsistent
  <2>3. \A e \in Devices : slot[e] # w
    BY <2>1 DEF IInv, QueuesAreConsistent, SlotsAreConsistent
  <2> QED BY <2>1, <2>2, <2>3
<1>4. /\ arrival' \in [Writes -> Nat]
      /\ arrival'[w] = arrivals /\ \A v \in Writes \ {w} : arrival'[v] = arrival[v]
      /\ \A v \in Writes \ {w} : phase'[v] = phase[v]
      /\ phase'[w] = "queued" /\ bypasses' = bypasses /\ native' = native
  BY DEF Admit, IInv, TypeOK
<1>5. \A v \in Writes : arrival[v] <= arrivals /\ arrival'[v] <= arrivals
  BY <1>4 DEF IInv, TypeOK, QueuesAreConsistent
<1>6. \A v \in Writes : bypasses[v] \in Nat /\ arrival[v] \in Nat
  BY DEF IInv, TypeOK
<1>7. \A v, u \in S : /\ Maintenance(v) /\ Maintenance(u) /\ DeviceOf[v] = DeviceOf[u]
                      /\ arrival'[v] < arrival'[u]
                      => bypasses[u] <= bypasses[v]
  <2> SUFFICES ASSUME NEW v \in S, NEW u \in S, Maintenance(v), Maintenance(u),
                      DeviceOf[v] = DeviceOf[u], arrival'[v] < arrival'[u]
               PROVE  bypasses[u] <= bypasses[v]
    OBVIOUS
  <2>1. v \in Writes /\ u \in Writes
    BY <1>1
  <2>2. CASE u = w
    BY <1>3, <1>6, <2>1, <2>2
  <2>3. CASE u # w
    <3>1. v # w
      BY <1>4, <1>5, <1>6, <2>1, <2>3 DEF IInv, TypeOK
    <3> QED BY <1>4, <2>1, <2>3, <3>1 DEF BypassInv, BypassesAge
  <2> QED BY <2>2, <2>3
<1>8. ServedByRight'
  <2> SUFFICES ASSUME NEW x \in Writes, NEW y \in waiters',
                      slot'[DeviceOf[y]] = x, phase'[x] = "queued", ~Maintenance(x),
                      Maintenance(y), arrival'[x] > arrival'[y]
               PROVE  bypasses[y] < MaxBypasses
    BY <1>4 DEF ServedByRight, Maintenance
  <2>1. y \in S /\ y \in Writes /\ DeviceOf[y] \in Devices
    BY <1>1, <1>2, ConstantsAssumption
  <2>2. y # w
    BY <1>4, <1>5, <1>6, <2>1 DEF IInv, TypeOK
  <2>3. CASE slot'[DeviceOf[y]] = slot[DeviceOf[y]]
    <3>1. x # w
      BY <1>3, <2>1, <2>3
    <3> QED BY <1>4, <2>1, <2>2, <2>3, <3>1 DEF BypassInv, ServedByRight
  <2>4. CASE slot'[DeviceOf[y]] # slot[DeviceOf[y]]
    <3>1. /\ DeviceOf[y] = d /\ x \in S /\ DeviceOf[x] = d
          /\ \A v \in S : DeviceOf[v] = d /\ Eligible(v, S, arrival')
                           => Preferred(x, v, arrival')
      BY <1>2, <2>1, <2>4
    <3> HIDE DEF d, S
    <3> QED BY <1>1, <1>4, <1>7, <2>1, <3>1, ChoiceIsByRight DEF IInv
  <2> QED BY <2>3, <2>4
<1>9. BypassesAge'
  BY <1>2, <1>4, <1>7 DEF BypassInv, BypassesAge, Maintenance
<1>10. BypassesCount'
  <2> SUFFICES ASSUME NEW y \in waiters', Maintenance(y)
               PROVE  /\ IsFiniteSet(Overtakers(y)')
                      /\ Cardinality(Overtakers(y)') <= bypasses[y]
                      /\ Cardinality(Overtakers(y)') <= MaxBypasses
    BY <1>4 DEF BypassesCount, Maintenance
  <2>1. y \in S /\ y \in Writes
    BY <1>1, <1>2
  <2>2. CASE y = w
    <3>1. Overtakers(y)' = {}
      BY <1>3, <1>4, <1>5, <1>6, <2>2 DEF Overtakers, IInv, TypeOK
    <3> QED BY <1>6, <2>1, <3>1, FS_EmptySet, ConstantsAssumption
  <2>3. CASE y # w
    <3>1. Overtakers(y)' = Overtakers(y)
      BY <1>3, <1>4, <2>1, <2>3 DEF Overtakers
    <3> QED BY <2>1, <2>3, <3>1 DEF BypassInv, BypassesCount
  <2> QED BY <2>2, <2>3
<1> QED BY <1>8, <1>9, <1>10 DEF BypassInv

\* The device a write leaves is given on by right.
LEMMA FinishKeepsBypasses ==
  ASSUME IInv, IInv', BypassInv, NEW w \in Writes, Finish(w)
  PROVE  BypassInv'
<1> DEFINE d == DeviceOf[w]
           S == waiters \ {w}
           held == IF slot[d] = w THEN None ELSE slot[d]
<1>1. d \in Devices /\ held \in Writes \cup {None} /\ S \in SUBSET Writes
  BY ConstantsAssumption DEF IInv, TypeOK
<1>2. /\ \A e \in Devices : e # d => slot'[e] = slot[e]
      /\ waiters' \subseteq S
      /\ \/ slot'[d] = held
         \/ /\ slot'[d] \in S /\ DeviceOf[slot'[d]] = d
            /\ \A v \in S : DeviceOf[v] = d /\ Eligible(v, S, arrival)
                             => Preferred(slot'[d], v, arrival)
  <2>1. ServeNext(d, held, S, arrival)
    BY DEF Finish
  <2> HIDE DEF d, S, held
  <2> QED BY <1>1, <2>1, ServeNextPrefers DEF IInv
<1>3. /\ arrival \in [Writes -> Nat] /\ arrival' = arrival
      /\ bypasses' = bypasses /\ native' = native
      /\ phase[w] = "returned" /\ phase'[w] = "settled"
      /\ \A v \in Writes \ {w} : phase'[v] = phase[v]
  BY DEF Finish, IInv, TypeOK
<1>4. ServedByRight'
  <2> SUFFICES ASSUME NEW x \in Writes, NEW y \in waiters',
                      slot'[DeviceOf[y]] = x, phase'[x] = "queued", ~Maintenance(x),
                      Maintenance(y), arrival[x] > arrival[y]
               PROVE  bypasses[y] < MaxBypasses
    BY <1>3 DEF ServedByRight, Maintenance
  <2>1. y \in S /\ y \in Writes /\ DeviceOf[y] \in Devices /\ x # None /\ x # w
    BY <1>1, <1>2, <1>3, ConstantsAssumption
  <2>2. CASE slot'[DeviceOf[y]] = slot[DeviceOf[y]]
    BY <1>3, <2>1, <2>2 DEF BypassInv, ServedByRight
  <2>3. CASE slot'[DeviceOf[y]] # slot[DeviceOf[y]]
    <3>1. /\ DeviceOf[y] = d /\ x \in S /\ DeviceOf[x] = d
          /\ \A v \in S : DeviceOf[v] = d /\ Eligible(v, S, arrival)
                           => Preferred(x, v, arrival)
      BY <1>2, <2>1, <2>3
    <3>2. \A v, u \in S : /\ Maintenance(v) /\ Maintenance(u) /\ DeviceOf[v] = DeviceOf[u]
                          /\ arrival[v] < arrival[u]
                          => bypasses[u] <= bypasses[v]
      BY DEF BypassInv, BypassesAge
    <3> HIDE DEF d, S
    <3> QED BY <1>1, <1>3, <2>1, <3>1, <3>2, ChoiceIsByRight DEF IInv
  <2> QED BY <2>2, <2>3
<1>5. BypassesAge'
  BY <1>2, <1>3 DEF BypassInv, BypassesAge, Maintenance
<1>6. BypassesCount'
  <2>1. \A y \in Writes : Overtakers(y)' = Overtakers(y)
    BY <1>3 DEF Overtakers
  <2> QED BY <1>1, <1>2, <1>3, <2>1 DEF BypassInv, BypassesCount, Maintenance
<1> QED BY <1>4, <1>5, <1>6 DEF BypassInv

\* An issue counts as a bypass of every maintenance write that waits for the
\* device, and as an overtaking only if it was served by right.
LEMMA IssueKeepsBypasses ==
  ASSUME IInv, IInv', BypassInv, NEW w \in Writes, Issue(w)
  PROVE  BypassInv'
<1> DEFINE d == DeviceOf[w]
           bypassed(v) == v \in waiters /\ DeviceOf[v] = d /\ Maintenance(v) /\ ~Maintenance(w)
<1>1. /\ d \in Devices /\ w # None /\ MaxBypasses \in Nat
      /\ phase[w] = "queued" /\ slot[d] = w /\ w \notin waiters /\ native[w] = 0
      /\ waiters' = waiters /\ slot' = slot /\ arrival' = arrival
      /\ waiters \subseteq Writes
  BY ConstantsAssumption DEF Issue, IInv, TypeOK, QueuesAreConsistent, SlotsAreConsistent,
                             HistoryIsConsistent
<1>2. /\ \A v \in Writes : bypasses[v] \in Nat /\ arrival[v] \in Nat
      /\ \A v \in Writes : bypasses'[v] = IF bypassed(v) THEN bypasses[v] + 1 ELSE bypasses[v]
  BY DEF Issue, Maintenance, IInv, TypeOK
<1>3. /\ phase'[w] = "issued" /\ \A v \in Writes \ {w} : phase'[v] = phase[v]
      /\ \A v \in Writes \ {w} : native'[v] = native[v]
      /\ native'[w] = revision[w]
  BY DEF Issue, IInv, TypeOK
<1>4. ServedByRight'
  <2> SUFFICES ASSUME NEW x \in Writes, NEW y \in waiters,
                      slot[DeviceOf[y]] = x, phase'[x] = "queued", ~Maintenance(x),
                      Maintenance(y), arrival[x] > arrival[y]
               PROVE  bypasses'[y] < MaxBypasses
    BY <1>1 DEF ServedByRight, Maintenance
  <2>1. x # w /\ DeviceOf[y] # d
    BY <1>1, <1>3
  <2>2. bypasses'[y] = bypasses[y]
    BY <1>1, <1>2, <2>1
  <2> QED BY <1>3, <2>1, <2>2 DEF BypassInv, ServedByRight
<1>5. BypassesAge'
  <2>1. ASSUME NEW v \in Writes, phase'[v] = "new" PROVE bypasses'[v] = 0
    <3>1. phase[v] = "new" /\ v \notin waiters
      BY <1>3, <2>1 DEF IInv, QueuesAreConsistent
    <3> QED BY <1>2, <3>1 DEF BypassInv, BypassesAge
  <2>2. ASSUME NEW v \in waiters, NEW u \in waiters, Maintenance(v), Maintenance(u),
               DeviceOf[v] = DeviceOf[u], arrival[v] < arrival[u]
        PROVE  bypasses'[u] <= bypasses'[v]
    <3>1. bypasses[u] <= bypasses[v]
      BY <2>2 DEF BypassInv, BypassesAge
    <3>2. bypassed(u) <=> bypassed(v)
      BY <2>2
    <3>3. v \in Writes /\ u \in Writes
      BY <1>1
    <3> HIDE DEF bypassed
    <3> QED BY <1>2, <3>1, <3>2, <3>3
  <2> QED BY <1>1, <2>1, <2>2 DEF BypassesAge, Maintenance
<1>6. BypassesCount'
  <2> SUFFICES ASSUME NEW y \in waiters, Maintenance(y)
               PROVE  /\ IsFiniteSet(Overtakers(y)')
                      /\ Cardinality(Overtakers(y)') <= bypasses'[y]
                      /\ Cardinality(Overtakers(y)') <= MaxBypasses
    BY <1>1 DEF BypassesCount, Maintenance
  <2>1. /\ y \in Writes /\ IsFiniteSet(Overtakers(y))
        /\ Cardinality(Overtakers(y)) <= bypasses[y]
        /\ Cardinality(Overtakers(y)) <= MaxBypasses
    BY <1>1 DEF BypassInv, BypassesCount
  <2>2. Cardinality(Overtakers(y)) \in Nat /\ bypasses[y] <= bypasses'[y] /\ bypasses'[y] \in Nat
    BY <1>2, <2>1, FS_CardinalityType
  <2>3. CASE DeviceOf[y] = d /\ ~Maintenance(w) /\ arrival[w] > arrival[y]
    <3>1. bypasses[y] < MaxBypasses
      BY <1>1, <2>1, <2>3 DEF BypassInv, ServedByRight
    <3>2. bypasses'[y] = bypasses[y] + 1
      BY <1>2, <2>1, <2>3
    <3>3. Overtakers(y)' \in SUBSET (Overtakers(y) \cup {w})
      BY <1>1, <1>3 DEF Overtakers
    <3>4. /\ IsFiniteSet(Overtakers(y) \cup {w})
          /\ Cardinality(Overtakers(y) \cup {w}) <= Cardinality(Overtakers(y)) + 1
      <4> DEFINE O == Overtakers(y)
      <4>1. IsFiniteSet(O) /\ Cardinality(O) \in Nat
        BY <2>1, <2>2
      <4> HIDE DEF O
      <4>2. /\ IsFiniteSet(O \cup {w})
            /\ \/ Cardinality(O \cup {w}) = Cardinality(O)
               \/ Cardinality(O \cup {w}) = Cardinality(O) + 1
        BY <4>1, FS_AddElement
      <4>3. IsFiniteSet(O \cup {w}) /\ Cardinality(O \cup {w}) <= Cardinality(O) + 1
        BY <4>1, <4>2
      <4> QED BY <4>3 DEF O
    <3>5. /\ IsFiniteSet(Overtakers(y)')
          /\ Cardinality(Overtakers(y)') <= Cardinality(Overtakers(y) \cup {w})
      BY <3>3, <3>4, FS_Subset
    <3>6. Cardinality(Overtakers(y)') \in Nat /\ Cardinality(Overtakers(y) \cup {w}) \in Nat
      BY <3>4, <3>5, FS_CardinalityType
    <3> QED BY <1>1, <1>2, <2>1, <2>2, <3>1, <3>2, <3>4, <3>5, <3>6
  <2>4. CASE ~(DeviceOf[y] = d /\ ~Maintenance(w) /\ arrival[w] > arrival[y])
    <3>1. Overtakers(y)' = Overtakers(y)
      BY <1>1, <1>3, <2>1, <2>4 DEF Overtakers, Maintenance
    <3> QED BY <1>2, <2>1, <2>2, <3>1
  <2> QED BY <2>3, <2>4
<1> QED BY <1>4, <1>5, <1>6 DEF BypassInv

\* The other steps leave the queue alone and send nothing.
LEMMA OtherStepsKeepBypasses ==
  ASSUME BypassInv, IInv,
         UNCHANGED <<waiters, slot, arrival, bypasses, native>>,
         \A v \in Writes : phase'[v] \in {"new", "queued"} => phase[v] = phase'[v]
  PROVE  BypassInv'
<1>1. \A y \in Writes : Overtakers(y)' = Overtakers(y)
  BY DEF Overtakers
<1>2. waiters \subseteq Writes
  BY DEF IInv, TypeOK
<1>3. ServedByRight'
  BY DEF BypassInv, ServedByRight, Maintenance
<1>4. BypassesAge'
  BY DEF BypassInv, BypassesAge, Maintenance
<1>5. BypassesCount'
  BY <1>1, <1>2 DEF BypassInv, BypassesCount, Maintenance
<1> QED BY <1>3, <1>4, <1>5 DEF BypassInv

\* BypassInv is inductive relative to IInv.
LEMMA StepKeepsBypasses == IInv /\ IInv' /\ BypassInv /\ [Next]_vars => BypassInv'
<1> SUFFICES ASSUME IInv, IInv', BypassInv, [Next]_vars PROVE BypassInv'
  OBVIOUS
<1> DEFINE quiet == /\ UNCHANGED <<waiters, slot, arrival, bypasses, native>>
                    /\ \A v \in Writes : phase'[v] \in {"new", "queued"} => phase[v] = phase'[v]
<1>1. ASSUME NEW w \in Writes, WriteStep(w) PROVE BypassInv'
  <2>1. CASE Admit(w)
    BY <2>1, AdmitKeepsBypasses
  <2>2. CASE Finish(w)
    BY <2>2, FinishKeepsBypasses
  <2>3. CASE Issue(w)
    BY <2>3, IssueKeepsBypasses
  <2>4. CASE Drop(w) \/ \E how \in {"replied", "cancelled"} : RpcReturns(w, how)
    <3>1. quiet
      BY <2>4 DEF Drop, RpcReturns, schedVars, IInv, TypeOK
    <3> QED BY <3>1, OtherStepsKeepBypasses
  <2>5. CASE \/ Age(w) \/ Supersede(w) \/ Adopt(w) \/ LaneCancels(w) \/ CallerReturns(w)
             \/ Detach(w) \/ CancelCaller(w) \/ CancelDelivered(w) \/ Cap(w)
    <3>1. quiet
      BY <2>5 DEF Age, Supersede, Adopt, LaneCancels, CallerReturns, Detach, CancelCaller,
                  CancelDelivered, Cap, schedVars
    <3> QED BY <3>1, OtherStepsKeepBypasses
  <2> QED BY <1>1, <2>1, <2>2, <2>3, <2>4, <2>5 DEF WriteStep
<1>2. CASE Shutdown \/ Open \/ UNCHANGED vars
  <2>1. quiet
    BY <1>2 DEF Shutdown, Open, vars, schedVars
  <2> QED BY <2>1, OtherStepsKeepBypasses
<1> QED BY <1>1, <1>2 DEF Next

\* While a maintenance write waits, at most MaxBypasses of the interactive writes
\* that arrived after it are issued, whatever is cancelled, folded or timed out
\* and however many sessions the adapter serves.
THEOREM MaintenanceIsNotStarved == Spec => []MaintenanceOvertaking
<1>1. BypassInv => MaintenanceOvertaking
  BY DEF BypassInv, BypassesCount, MaintenanceOvertaking, Overtakers, Maintenance
<1> QED BY <1>1, InitBypasses, StepKeepsBypasses, InvariantHolds, PTL DEF Spec
=============================================================================
