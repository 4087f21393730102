--------------------------- MODULE BompBarrierProofs ---------------------------
(***************************************************************************)
(* Proofs about BompBarrier for every finite set of threads and every      *)
(* number of episodes.  The invariant IInv is inductive; the properties    *)
(* of the barrier follow from it.                                          *)
(***************************************************************************)
EXTENDS BompBarrier, FiniteSetTheorems, TLAPS

(* Arrived is a finite set, so counter can be compared with its size, and   *)
(* it holds as many threads as the barrier only when it holds them all.     *)
LEMMA ArrivedFinite ==
  /\ IsFiniteSet(Arrived)
  /\ Cardinality(Arrived) \in Nat
  /\ max \in Nat
  /\ Cardinality(Arrived) <= max
  /\ Cardinality(Arrived) = max => Arrived = Thread
<1>1. Arrived \subseteq Thread
  BY DEF Arrived
<1>2. QED
  BY <1>1, ThreadAssumption, FS_Subset, FS_CardinalityType DEF max

(* One more arrival makes the set of the arrived larger by one. *)
LEMMA AddArrival ==
  ASSUME NEW t \in Thread, t \notin Arrived
  PROVE  /\ Cardinality(Arrived \cup {t}) = Cardinality(Arrived) + 1
         /\ Cardinality(Arrived) < max
         /\ Cardinality(Arrived) + 1 = max => Arrived \cup {t} = Thread
<1>1. IsFiniteSet(Arrived)
  BY ArrivedFinite
<1>2. Cardinality(Arrived \cup {t}) = Cardinality(Arrived) + 1
  BY <1>1, FS_AddElement
<1>3. Arrived \cup {t} \subseteq Thread
  BY DEF Arrived
<1>4. /\ Cardinality(Arrived \cup {t}) <= max
      /\ Cardinality(Arrived \cup {t}) = max => Arrived \cup {t} = Thread
  BY <1>3, ThreadAssumption, FS_Subset DEF max
<1>5. QED
  BY <1>2, <1>4, ArrivedFinite

LEMMA InitIInv == Init => IInv
<1> SUFFICES ASSUME Init PROVE IInv
  OBVIOUS
<1>1. Arrived = {}
  BY DEF Init, Arrived
<1>2. Cardinality(Arrived) = 0
  BY <1>1, FS_EmptySet
<1>3. QED
  BY <1>1, <1>2 DEF Init, IInv, TypeOK, PC, CycleIsParity, Position,
                    CounterCountsArrivals, LastIsAlone
-----------------------------------------------------------------------------
(* Each action preserves the invariant.  An action that leaves Arrived and   *)
(* counter alone keeps their agreement; FetchAdd adds one to both.           *)

LEMMA ReadCycleIInv ==
  ASSUME IInv, NEW t \in Thread, ReadCycle(t)
  PROVE  IInv'
<1> USE DEF IInv, ReadCycle, Goto
<1>1. TypeOK'
  BY DEF TypeOK, PC
<1>2. CycleIsParity' /\ \A u \in Thread : Position(u)'
  BY DEF TypeOK, PC, CycleIsParity, Position
<1>3. Arrived' = Arrived
  BY DEF TypeOK, PC, Arrived
<1>4. CounterCountsArrivals' /\ LastIsAlone'
  BY <1>3 DEF TypeOK, PC, CounterCountsArrivals, LastIsAlone
<1>5. QED
  BY <1>1, <1>2, <1>4

LEMMA FetchAddIInv ==
  ASSUME IInv, NEW t \in Thread, FetchAdd(t)
  PROVE  IInv'
<1> USE DEF IInv, FetchAdd, Goto
<1>1. t \notin Arrived
  BY DEF Arrived
<1>2. \A u \in Thread : pc[u] \notin {"reset", "flip"}
  BY <1>1 DEF LastIsAlone
<1>3. counter = Cardinality(Arrived)
  BY <1>2 DEF CounterCountsArrivals
<1>4. Arrived' = Arrived \cup {t}
  BY <1>1 DEF TypeOK, PC, Arrived, Position
<1>5. counter' = Cardinality(Arrived')
  BY <1>1, <1>3, <1>4, AddArrival
<1>6. TypeOK'
  BY <1>3, ArrivedFinite DEF TypeOK, PC
<1>7. CycleIsParity' /\ \A u \in Thread : Position(u)'
  BY DEF TypeOK, PC, CycleIsParity, Position
<1>8. CounterCountsArrivals'
  BY <1>2, <1>5 DEF TypeOK, PC, CounterCountsArrivals
<1>9. LastIsAlone'
  <2>1. CASE counter = max - 1
    <3>1. Arrived' = Thread
      BY <2>1, <1>1, <1>3, <1>4, AddArrival, ArrivedFinite
    <3>2. QED
      BY <3>1, <2>1, <1>2 DEF TypeOK, PC, LastIsAlone
  <2>2. CASE counter # max - 1
    BY <2>2, <1>2 DEF TypeOK, PC, LastIsAlone
  <2>3. QED
    BY <2>1, <2>2
<1>10. QED
  BY <1>6, <1>7, <1>8, <1>9

LEMMA ResetIInv ==
  ASSUME IInv, NEW t \in Thread, Reset(t)
  PROVE  IInv'
<1> USE DEF IInv, Reset, Goto
<1>1. TypeOK'
  BY DEF TypeOK, PC
<1>2. CycleIsParity' /\ \A u \in Thread : Position(u)'
  BY DEF TypeOK, PC, CycleIsParity, Position
<1>3. Arrived' = Arrived
  BY DEF TypeOK, PC, Arrived
<1>4. CounterCountsArrivals' /\ LastIsAlone'
  BY <1>3 DEF TypeOK, PC, CounterCountsArrivals, LastIsAlone
<1>5. QED
  BY <1>1, <1>2, <1>4

LEMMA FlipIInv ==
  ASSUME IInv, NEW t \in Thread, Flip(t)
  PROVE  IInv'
<1> USE DEF IInv, Flip, Return, Goto
<1>1. /\ counter = 0
      /\ \A u \in Thread : done[u] = flips
      /\ \A u \in Thread \ {t} : pc[u] = "spin" /\ seen[u] = cycle
  BY DEF TypeOK, PC, LastIsAlone, CounterCountsArrivals, Arrived, Position
<1>2. TypeOK'
  BY DEF TypeOK, PC
<1>3. CycleIsParity'
  BY DEF TypeOK, CycleIsParity
<1>4. \A u \in Thread : Position(u)'
  BY <1>1 DEF TypeOK, PC, Position
<1>5. Arrived' = {}
  BY <1>1 DEF TypeOK, PC, Arrived
<1>6. Cardinality(Arrived') = 0
  BY <1>5, FS_EmptySet
<1>7. \A u \in Thread : pc'[u] \notin {"reset", "flip"}
  BY <1>1 DEF TypeOK
<1>8. CounterCountsArrivals' /\ LastIsAlone'
  BY <1>1, <1>6, <1>7 DEF CounterCountsArrivals, LastIsAlone
<1>9. QED
  BY <1>2, <1>3, <1>4, <1>8

LEMMA LeaveIInv ==
  ASSUME IInv, NEW t \in Thread, Leave(t)
  PROVE  IInv'
<1> USE DEF IInv, Leave, Return, Goto
<1>1. done[t] + 1 = flips /\ t \notin Arrived
  BY DEF TypeOK, Position, Arrived
<1>2. TypeOK'
  BY DEF TypeOK, PC
<1>3. CycleIsParity' /\ \A u \in Thread : Position(u)'
  BY <1>1 DEF TypeOK, PC, CycleIsParity, Position
<1>4. Arrived' = Arrived
  BY <1>1 DEF TypeOK, PC, Arrived
<1>5. CounterCountsArrivals' /\ LastIsAlone'
  BY <1>4 DEF TypeOK, PC, CounterCountsArrivals, LastIsAlone
<1>6. QED
  BY <1>2, <1>3, <1>5

LEMMA NextIInv == IInv /\ [Next]_vars => IInv'
<1> SUFFICES ASSUME IInv, [Next]_vars PROVE IInv'
  OBVIOUS
<1>1. CASE UNCHANGED vars
  BY <1>1 DEF vars, IInv, TypeOK, PC, CycleIsParity, Position, Arrived,
              CounterCountsArrivals, LastIsAlone
<1>2. CASE \E t \in Thread : ReadCycle(t) \/ Wait(t)
  BY <1>2, ReadCycleIInv, FetchAddIInv, ResetIInv, FlipIInv, LeaveIInv
     DEF Wait, Release
<1>3. QED
  BY <1>1, <1>2 DEF Next, Stop

(* IInv holds throughout every behaviour, with any number of threads. *)
THEOREM Invariance == Spec => []IInv
BY InitIInv, NextIInv, PTL DEF Spec

-----------------------------------------------------------------------------
(* No thread is released from bomp_barrier_wait before all have called it    *)
(* as often: spin.h, lines 69-90.                                            *)
THEOREM EarlyReleaseImpossible == Spec => []NoEarlyRelease
<1>1. IInv => NoEarlyRelease
  BY DEF IInv, TypeOK, Position, NoEarlyRelease
<1>2. QED
  BY <1>1, Invariance, PTL

(* An arriving thread finds counter below max, so exactly one thread of an   *)
(* episode sees max - 1 and releases the others.                             *)
THEOREM RoomOnArrival == Spec => []ArrivalFindsRoom
<1>1. ASSUME IInv, NEW t \in Thread, pc[t] = "add"
      PROVE  counter < max
  <2>1. t \notin Arrived
    BY <1>1 DEF Arrived
  <2>2. \A u \in Thread : pc[u] # "flip"
    BY <1>1, <2>1 DEF IInv, LastIsAlone
  <2>3. QED
    BY <1>1, <2>1, <2>2, AddArrival DEF IInv, CounterCountsArrivals
<1>2. IInv => ArrivalFindsRoom
  BY <1>1 DEF ArrivalFindsRoom
<1>3. QED
  BY <1>2, Invariance, PTL

(* counter is cleared only when it holds everybody's arrival. *)
THEOREM ArrivalsKept == Spec => NoArrivalLost
<1>1. ASSUME IInv, [Next]_vars, counter' < counter
      PROVE  counter = max
  <2>1. counter \in Int
    BY <1>1 DEF IInv, TypeOK
  <2>2. PICK t \in Thread : Reset(t)
    BY <1>1, <2>1 DEF Next, Stop, Wait, Release, vars,
                      ReadCycle, FetchAdd, Flip, Leave
  <2>3. Arrived = Thread /\ \A u \in Thread : pc[u] # "flip"
    BY <1>1, <2>2 DEF IInv, LastIsAlone, Reset
  <2>4. QED
    BY <1>1, <2>3 DEF IInv, CounterCountsArrivals, max
<1>2. IInv /\ [Next]_vars => [counter' < counter => counter = max]_vars
  BY <1>1
<1>3. QED
  BY <1>2, Invariance, PTL DEF Spec, NoArrivalLost
-----------------------------------------------------------------------------
(* The refinement: reading cycle is the abstract arrival, the flip or the    *)
(* read that ends the spinning is the abstract departure, and the accesses   *)
(* to counter do not show.                                                   *)

inside == [t \in Thread |-> pc[t] # "out"]

LEMMA InitRefines == Init => Abstract!Init
BY DEF Init, Abstract!Init

LEMMA DepartureRefines ==
  ASSUME IInv, NEW t \in Thread, pc[t] # "out", Return(t),
         \A u \in Thread : pc[u] # "out" \/ done[u] > done[t],
         \A u \in Thread : done[u] >= done[t]
  PROVE  Abstract!Leave(t)
<1>1. inside[t] /\ inside' = [inside EXCEPT ![t] = FALSE]
  BY DEF Return, Goto, inside, IInv, TypeOK
<1>2. ASSUME NEW u \in Thread
      PROVE  Abstract!Arrivals(u) > done[t]
  <2>1. done[u] \in Nat /\ done[t] \in Nat
    BY DEF IInv, TypeOK
  <2>2. Abstract!Arrivals(u) = IF pc[u] # "out" THEN done[u] + 1 ELSE done[u]
    BY DEF Abstract!Arrivals
  <2>3. QED
    BY <2>1, <2>2
<1>3. QED
  BY <1>1, <1>2 DEF Abstract!Leave, Return, inside

LEMMA StepRefines == IInv /\ [Next]_vars => [Abstract!Next]_(Abstract!vars)
<1> SUFFICES ASSUME IInv, [Next]_vars
             PROVE  Abstract!Next \/ UNCHANGED Abstract!vars
  OBVIOUS
<1>1. ASSUME NEW t \in Thread, ReadCycle(t)
      PROVE  Abstract!Arrive(t)
  <2>1. ~inside[t] /\ inside' = [inside EXCEPT ![t] = TRUE]
    BY <1>1 DEF ReadCycle, Goto, inside, IInv, TypeOK
  <2>2. QED
    BY <1>1, <2>1 DEF Abstract!Arrive, inside, ReadCycle
<1>2. ASSUME NEW t \in Thread, FetchAdd(t) \/ Reset(t)
      PROVE  UNCHANGED Abstract!vars
  <2>1. inside' = inside
    BY <1>2 DEF FetchAdd, Reset, Goto, inside, IInv, TypeOK
  <2>2. QED
    BY <1>2, <2>1 DEF Abstract!vars, inside, FetchAdd, Reset
<1>3. ASSUME NEW t \in Thread, Flip(t)
      PROVE  Abstract!Leave(t)
  <2>1. \A u \in Thread : pc[u] # "out" /\ done[u] = done[t]
    BY <1>3 DEF Flip, IInv, LastIsAlone, Arrived
  <2>2. pc[t] # "out" /\ Return(t)
    BY <1>3 DEF Flip
  <2>3. QED
    BY <2>1, <2>2, DepartureRefines DEF IInv, TypeOK
<1>4. ASSUME NEW t \in Thread, Leave(t)
      PROVE  Abstract!Leave(t)
  <2>1. pc[t] # "out" /\ Return(t) /\ done[t] + 1 = flips
    BY <1>4 DEF Leave, IInv, TypeOK, Position
  <2>2. \A u \in Thread : done[u] = flips \/ (pc[u] = "spin" /\ done[u] + 1 = flips)
    BY DEF IInv, Position
  <2>3. QED
    BY <2>1, <2>2, DepartureRefines DEF IInv, TypeOK
<1>5. CASE UNCHANGED vars
  BY <1>5 DEF vars, Abstract!vars
<1>6. QED
  BY <1>1, <1>2, <1>3, <1>4, <1>5 DEF Next, Stop, Wait, Release, Abstract!Next

(* spin.h implements the abstract barrier. *)
THEOREM Refinement == Spec => ImplementsBarrier
BY InitRefines, StepRefines, Invariance, PTL
   DEF Spec, ImplementsBarrier, Abstract!Spec
-----------------------------------------------------------------------------
(* Nobody waits in vain.  CanStep(t) is the condition on which the next      *)
(* access of t does not wait: it is the guard of t's actions.                *)

CanStep(t) == /\ pc[t] = "out" => done[t] < MaxEpisodes
              /\ pc[t] = "spin" => seen[t] # cycle

(* Who waits has a wait to make, and when all have arrived one of them is    *)
(* the last, who does not spin.                                              *)
Entitled == \A t \in Thread : done[t] <= MaxEpisodes /\ (pc[t] # "out" => done[t] < MaxEpisodes)
LastCloses == Arrived = Thread => \E t \in Thread : pc[t] \in {"reset", "flip"}

PInv == IInv /\ Entitled /\ LastCloses

LEMMA LastClosesStep ==
  ASSUME IInv, LastCloses, [Next]_vars
  PROVE  LastCloses'
<1> USE DEF IInv, TypeOK, Goto
<1>1. ASSUME NEW t \in Thread, ReadCycle(t)
      PROVE  LastCloses'
  BY <1>1 DEF ReadCycle, LastCloses, Arrived
<1>2. ASSUME NEW t \in Thread, FetchAdd(t)
      PROVE  LastCloses'
  <2>1. CASE counter = max - 1
    BY <1>2, <2>1 DEF FetchAdd, LastCloses
  <2>2. CASE counter # max - 1
    <3>1. t \notin Arrived /\ \A u \in Thread : pc[u] # "flip"
      BY <1>2 DEF FetchAdd, LastIsAlone, Arrived
    <3>2. Arrived' = Arrived \cup {t}
      BY <1>2 DEF FetchAdd, Position, Arrived
    <3>3. counter = Cardinality(Arrived) /\ counter \in Nat /\ max \in Nat
      BY <3>1, ArrivedFinite DEF CounterCountsArrivals
    <3>4. Arrived \cup {t} # Thread
      <4>1. SUFFICES ASSUME Arrived \cup {t} = Thread PROVE FALSE
        OBVIOUS
      <4>2. max = Cardinality(Arrived) + 1
        BY <3>1, <4>1, AddArrival DEF max
      <4>3. QED
        BY <2>2, <3>3, <4>2
    <3>5. QED
      BY <3>2, <3>4 DEF LastCloses
  <2>3. QED
    BY <2>1, <2>2
<1>3. ASSUME NEW t \in Thread, Reset(t)
      PROVE  LastCloses'
  BY <1>3 DEF Reset, LastCloses
<1>4. ASSUME NEW t \in Thread, Flip(t)
      PROVE  LastCloses'
  <2>1. \A u \in Thread : done[u] = flips
    BY <1>4 DEF Flip, LastIsAlone, Arrived
  <2>2. t \notin Arrived'
    BY <1>4 DEF Flip, Return, Arrived
  <2>3. QED
    BY <2>2 DEF LastCloses
<1>5. ASSUME NEW t \in Thread, Leave(t)
      PROVE  LastCloses'
  <2>1. t \notin Arrived'
    BY <1>5 DEF Leave, Return, Arrived
  <2>2. QED
    BY <2>1 DEF LastCloses
<1>6. CASE UNCHANGED vars
  BY <1>6 DEF vars, LastCloses, Arrived
<1>7. QED
  BY <1>1, <1>2, <1>3, <1>4, <1>5, <1>6 DEF Next, Stop, Wait, Release

LEMMA PInvAlways == Spec => []PInv
<1>1. Init => PInv
  <2>1. Init => Entitled
    BY MaxEpisodesAssumption DEF Init, Entitled
  <2>2. Init => LastCloses
    BY ThreadAssumption DEF Init, LastCloses, Arrived
  <2>3. QED
    BY <2>1, <2>2, InitIInv DEF PInv
<1>2. PInv /\ [Next]_vars => PInv'
  <2> SUFFICES ASSUME PInv, [Next]_vars PROVE PInv'
    OBVIOUS
  <2>1. IInv' /\ LastCloses'
    BY NextIInv, LastClosesStep DEF PInv
  <2>2. Entitled'
    BY MaxEpisodesAssumption
       DEF PInv, IInv, TypeOK, Entitled, Next, Stop, Wait, Release, vars, Goto, Return,
           ReadCycle, FetchAdd, Reset, Flip, Leave
  <2>3. QED
    BY <2>1, <2>2 DEF PInv
<1>3. QED
  BY <1>1, <1>2, PTL DEF Spec

(* The threads never wait for each other, all of them: unless every call has *)
(* been made, one of them can make its next access.                          *)
NoDeadlock == Finished \/ \E t \in Thread : CanStep(t)

(* Who spins does so for one that has still to arrive, and may, or for the   *)
(* last, who is about to flip cycle.                                         *)
THEOREM SomebodyGoesOn == Spec => []NoDeadlock
<1>1. ASSUME PInv, \A t \in Thread : ~CanStep(t)
      PROVE  Finished
  <2> USE DEF PInv, IInv, TypeOK, PC
  <2>1. \A t \in Thread : \/ pc[t] = "out" /\ done[t] = MaxEpisodes /\ done[t] = flips
                          \/ pc[t] = "spin" /\ done[t] = flips
    BY <1>1, MaxEpisodesAssumption DEF CanStep, Entitled, Position
  <2>2. CASE \E t \in Thread : pc[t] = "out"
    <3>1. flips = MaxEpisodes
      BY <2>1, <2>2
    <3>2. \A t \in Thread : done[t] = MaxEpisodes
      BY <2>1, <3>1
    <3>3. \A t \in Thread : pc[t] = "out"
      BY <1>1, <3>2, MaxEpisodesAssumption DEF Entitled
    <3>4. QED
      BY <3>2, <3>3 DEF Finished
  <2>3. CASE \A t \in Thread : pc[t] # "out"
    <3>1. Arrived = Thread
      BY <2>1, <2>3 DEF Arrived
    <3>2. QED
      <4>1. PICK t \in Thread : pc[t] \in {"reset", "flip"}
        BY <1>1, <3>1 DEF LastCloses
      <4>2. QED
        BY <2>1, <4>1
  <2>4. QED
    BY <2>2, <2>3
<1>2. PInv => NoDeadlock
  BY <1>1 DEF NoDeadlock
<1>3. QED
  BY <1>2, PInvAlways, PTL

(* The word cycle has one bit, and is still safe to spin on: who has been    *)
(* released stays released, however late it looks at cycle again.            *)
ReleaseStays == [][\A t \in Thread :
  pc[t] = "spin" /\ seen[t] # cycle /\ pc'[t] = "spin" => seen'[t] # cycle']_vars

(* The next flip waits for everybody who was released by the last one. *)
THEOREM ReleaseIsNotTakenBack == Spec => ReleaseStays
<1>1. ASSUME IInv, [Next]_vars, NEW t \in Thread, pc[t] = "spin", seen[t] # cycle, pc'[t] = "spin"
      PROVE  seen'[t] # cycle'
  <2> USE DEF IInv, TypeOK, Goto, Return
  <2>1. ASSUME NEW u \in Thread, Flip(u) PROVE FALSE
    BY <1>1, <2>1 DEF Flip, LastIsAlone, Arrived, Position
  <2>2. cycle' = cycle
    BY <1>1, <2>1 DEF Next, Stop, Wait, Release, vars, ReadCycle, FetchAdd, Reset, Leave
  <2>3. seen'[t] = seen[t]
    BY <1>1 DEF Next, Stop, Wait, Release, vars, ReadCycle, FetchAdd, Reset, Flip, Leave
  <2>4. QED
    BY <1>1, <2>2, <2>3
<1>2. IInv /\ [Next]_vars =>
        [\A t \in Thread :
           pc[t] = "spin" /\ seen[t] # cycle /\ pc'[t] = "spin" => seen'[t] # cycle']_vars
  BY <1>1
<1>3. QED
  BY <1>2, Invariance, PTL DEF Spec, ReleaseStays

(* Weak fairness for t, with the guard in the place of ENABLED. *)
Scheduled(t) == []([]CanStep(t) => <><<ReadCycle(t) \/ Wait(t)>>_vars)

(* Once the last thread u has arrived, every thread t returns from the wait, *)
(* if no more than these two are scheduled: nobody else is waited for.       *)
THEOREM ReleaseReachesAll ==
  ASSUME NEW t \in Thread, NEW u \in Thread, NEW e \in Nat
  PROVE  Spec /\ Scheduled(t) /\ Scheduled(u) =>
           (pc[u] = "reset" /\ flips = e ~> done[t] > e)
<1> DEFINE Last == pc[u] = "reset" /\ flips = e
           Empty == pc[u] = "flip" /\ flips = e
           Free == pc[t] = "spin" /\ done[t] = e /\ flips = e + 1
           Gone == done[t] > e
           Act(v) == ReadCycle(v) \/ Wait(v)
<1>0. ASSUME IInv, NEW v \in Thread, NEW w \in Thread, pc[w] \in {"reset", "flip"}, v # w,
             Act(v) \/ UNCHANGED vars
      PROVE  pc'[w] = pc[w] /\ flips' = flips
  BY <1>0 DEF IInv, TypeOK, LastIsAlone, vars, Wait, Release, ReadCycle, FetchAdd, Reset,
              Flip, Leave, Goto, Return
<1>1. /\ IInv /\ [Next]_vars /\ Last => Last' \/ Empty'
      /\ IInv /\ <<Act(u)>>_vars /\ Last => Empty'
      /\ Last => CanStep(u)
  <2>1. ASSUME IInv, [Next]_vars, Last PROVE Last' \/ Empty'
    <3>1. PICK v \in Thread : Act(v) \/ UNCHANGED vars
      BY <2>1 DEF Next, Stop
    <3>2. CASE v = u
      BY <2>1, <3>1, <3>2 DEF IInv, TypeOK, Wait, Release, ReadCycle, FetchAdd, Reset, Flip,
                              Leave, Goto, vars
    <3>3. CASE v # u
      BY <1>0, <2>1, <3>1, <3>3
    <3>4. QED
      BY <3>2, <3>3
  <2>2. ASSUME IInv, Act(u), Last PROVE Empty'
    BY <2>2 DEF IInv, TypeOK, Wait, Release, ReadCycle, FetchAdd, Reset, Flip, Leave, Goto
  <2>3. QED
    BY <2>1, <2>2 DEF CanStep
<1>2. /\ IInv /\ [Next]_vars /\ Empty => Empty' \/ Free' \/ Gone'
      /\ IInv /\ <<Act(u)>>_vars /\ Empty => Free' \/ Gone'
      /\ Empty => CanStep(u)
  <2>1. ASSUME IInv, Act(u), Empty PROVE Free' \/ Gone'
    <3>1. Flip(u) /\ done[t] = e /\ pc[t] \in {"spin", "reset", "flip"}
      BY <2>1 DEF Wait, Release, ReadCycle, FetchAdd, Reset, Flip, Leave, IInv, LastIsAlone, Arrived
    <3>2. CASE t = u
      BY <2>1, <3>1, <3>2 DEF Flip, Return, IInv, TypeOK
    <3>3. CASE t # u
      <4>1. pc[t] = "spin"
        BY <2>1, <3>1, <3>3 DEF Flip, IInv, LastIsAlone
      <4>2. QED
        BY <2>1, <3>1, <3>3, <4>1 DEF Flip, Return, Goto, IInv, TypeOK
    <3>4. QED
      BY <3>2, <3>3
  <2>2. ASSUME IInv, [Next]_vars, Empty PROVE Empty' \/ Free' \/ Gone'
    <3>1. PICK v \in Thread : Act(v) \/ UNCHANGED vars
      BY <2>2 DEF Next, Stop
    <3>2. CASE v = u
      BY <2>1, <2>2, <3>1, <3>2 DEF vars
    <3>3. CASE v # u
      BY <1>0, <2>2, <3>1, <3>3
    <3>4. QED
      BY <3>2, <3>3
  <2>3. QED
    BY <2>1, <2>2 DEF CanStep
<1>3. /\ IInv /\ [Next]_vars /\ Free => Free' \/ Gone'
      /\ IInv /\ <<Act(t)>>_vars /\ Free => Gone'
      /\ IInv /\ Free => CanStep(t)
  <2>1. ASSUME IInv, [Next]_vars, Free PROVE Free' \/ Gone'
    <3>1. PICK v \in Thread : Act(v) \/ UNCHANGED vars
      BY <2>1 DEF Next, Stop
    <3>2. ~Flip(v)
      BY <2>1 DEF Flip, IInv, LastIsAlone, Arrived
    <3>3. QED
      BY <2>1, <3>1, <3>2 DEF IInv, TypeOK, Wait, Release, ReadCycle, FetchAdd, Reset, Leave,
                              Goto, Return, vars
  <2>2. ASSUME IInv, Act(t), Free PROVE Gone'
    BY <2>2 DEF IInv, TypeOK, LastIsAlone, Arrived, Wait, Release, ReadCycle, FetchAdd, Reset,
                Flip, Leave, Goto, Return
  <2>3. IInv /\ Free => CanStep(t)
    BY DEF IInv, TypeOK, Position, CanStep
  <2>4. QED
    BY <2>1, <2>2, <2>3
<1> HIDE DEF Last, Empty, Free, Gone, Act
<1>4. Spec /\ []([]CanStep(t) => <><<Act(t)>>_vars) /\ []([]CanStep(u) => <><<Act(u)>>_vars)
      => (Last ~> Gone)
  BY <1>1, <1>2, <1>3, Invariance, PTL DEF Spec
<1>5. QED
  BY <1>4 DEF Last, Gone, Act, Scheduled
=============================================================================
