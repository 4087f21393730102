----------------------------- MODULE BompBarrier -----------------------------
(***************************************************************************)
(* The centralised barrier of the OpenMP runtime, src/bomp/lib/spin.h.     *)
(* One action is one access to the shared structure: reading cycle, the    *)
(* atomic fetch-and-add on counter, the two stores of the last arriver,    *)
(* and the read of cycle that ends the spinning.                           *)
(*                                                                         *)
(* The barrier is one block of shared memory used again and again: by      *)
(* GOMP_barrier inside a parallel region and, for its end, by the workers  *)
(* and the master.  Thread t calls bomp_barrier_wait at most MaxEpisodes   *)
(* times, which only bounds the model.                                     *)
(***************************************************************************)
EXTENDS Integers, Team

CONSTANT MaxEpisodes   \* how often each thread calls bomp_barrier_wait

ASSUME MaxEpisodesAssumption == MaxEpisodes \in Nat

VARIABLES
  cycle,    \* barrier->cycle, 0 or 1
  counter,  \* barrier->counter
  pc,       \* where each thread is in bomp_barrier_wait
  seen,     \* the local variable cycle of each thread
  done,     \* history: the waits each thread has returned from
  flips     \* history: the times cycle was complemented

vars == <<cycle, counter, pc, seen, done, flips>>

max == Cardinality(Thread)  \* barrier->max

PC == {"out", "add", "spin", "reset", "flip"}

(* bomp_barrier_init *)
Init == /\ cycle = 0
        /\ counter = 0
        /\ pc = [t \in Thread |-> "out"]
        /\ seen = [t \in Thread |-> 0]
        /\ done = [t \in Thread |-> 0]
        /\ flips = 0

Goto(t, l) == pc' = [pc EXCEPT ![t] = l]

Return(t) == /\ Goto(t, "out")
             /\ done' = [done EXCEPT ![t] = @ + 1]

-----------------------------------------------------------------------------
(* Variants of definitions below, each a bug this code could have had.  The  *)
(* properties at the end of the module tell them from the real definitions.  *)

FetchAddOneEarly(t) == /\ pc[t] = "add"
                       /\ counter' = counter + 1
                       /\ Goto(t, IF counter + 1 >= max - 1 THEN "reset" ELSE "spin")
                       /\ UNCHANGED <<cycle, seen, done, flips>>

FetchAddOneLate(t) == /\ pc[t] = "add"
                      /\ counter' = counter + 1
                      /\ Goto(t, IF counter = max THEN "reset" ELSE "spin")
                      /\ UNCHANGED <<cycle, seen, done, flips>>

ReleaseBeforeReset(t) ==
  \/ /\ pc[t] = "reset"
     /\ cycle' = 1 - cycle
     /\ flips' = flips + 1
     /\ Goto(t, "flip")
     /\ UNCHANGED <<counter, seen, done>>
  \/ /\ pc[t] = "flip"
     /\ counter' = 0
     /\ Return(t)
     /\ UNCHANGED <<cycle, seen, flips>>

LeaveOnReset(t) == /\ pc[t] = "spin"
                   /\ seen[t] # cycle \/ counter = 0
                   /\ Return(t)
                   /\ UNCHANGED <<cycle, counter, seen, flips>>

-----------------------------------------------------------------------------
(* int cycle = barrier->cycle; *)
ReadCycle(t) == /\ pc[t] = "out"
                /\ done[t] < MaxEpisodes
                /\ seen' = [seen EXCEPT ![t] = cycle]
                /\ Goto(t, "add")
                /\ UNCHANGED <<cycle, counter, done, flips>>

(* The atomic __sync_fetch_and_add and the test of its result. *)
FetchAdd(t) == /\ pc[t] = "add"
               /\ counter' = counter + 1
               /\ Goto(t, IF counter = max - 1 THEN "reset" ELSE "spin")
               /\ UNCHANGED <<cycle, seen, done, flips>>

(* barrier->counter = 0; *)
Reset(t) == /\ pc[t] = "reset"
            /\ counter' = 0
            /\ Goto(t, "flip")
            /\ UNCHANGED <<cycle, seen, done, flips>>

(* barrier->cycle = !barrier->cycle; and return. *)
Flip(t) == /\ pc[t] = "flip"
           /\ cycle' = 1 - cycle
           /\ flips' = flips + 1
           /\ Return(t)
           /\ UNCHANGED <<counter, seen>>

(* The read of barrier->cycle that ends while (cycle == barrier->cycle). *)
Leave(t) == /\ pc[t] = "spin"
            /\ seen[t] # cycle
            /\ Return(t)
            /\ UNCHANGED <<cycle, counter, seen, flips>>

(* The two stores of the thread that arrives last. *)
Release(t) == Reset(t) \/ Flip(t)

Wait(t) == FetchAdd(t) \/ Release(t) \/ Leave(t)

(* Every thread has made its calls. *)
Finished == \A t \in Thread : pc[t] = "out" /\ done[t] = MaxEpisodes

Stop == Finished /\ UNCHANGED vars

Next == \/ \E t \in Thread : ReadCycle(t) \/ Wait(t)
        \/ Stop

Spec == Init /\ [][Next]_vars
-----------------------------------------------------------------------------
(* The threads whose increment of counter belongs to the current episode. *)
Arrived == {t \in Thread : pc[t] \in {"spin", "reset", "flip"} /\ done[t] = flips}

TypeOK == /\ cycle \in {0, 1}
          /\ counter \in Nat
          /\ pc \in [Thread -> PC]
          /\ seen \in [Thread -> {0, 1}]
          /\ done \in [Thread -> Nat]
          /\ flips \in Nat

(* cycle is the parity of the episodes completed. *)
CycleIsParity == cycle = flips % 2

(* Where a thread is tells which episode it is in, and seen whether the     *)
(* episode it waits for is still open.                                      *)
Position(t) ==
  /\ pc[t] # "spin" => done[t] = flips
  /\ pc[t] = "add"  => seen[t] = cycle
  /\ pc[t] = "spin" => \/ done[t] = flips /\ seen[t] = cycle
                       \/ done[t] + 1 = flips /\ seen[t] # cycle

(* counter counts the arrivals of the open episode until it is cleared. *)
CounterCountsArrivals ==
  counter = IF \E t \in Thread : pc[t] = "flip" THEN 0 ELSE Cardinality(Arrived)

(* One thread closes an episode, when all have arrived. *)
LastIsAlone == \A t \in Thread : pc[t] \in {"reset", "flip"} =>
                 /\ Arrived = Thread
                 /\ \A u \in Thread : pc[u] \in {"reset", "flip"} => u = t

IInv == /\ TypeOK
        /\ CycleIsParity
        /\ \A t \in Thread : Position(t)
        /\ CounterCountsArrivals
        /\ LastIsAlone

(* Nobody runs ahead: a thread that has returned from one wait more than    *)
(* another finds that one still spinning inside bomp_barrier_wait.  This is *)
(* what the code after a GOMP_barrier relies on.                            *)
NoEarlyRelease == \A t, u \in Thread :
                    done[t] > done[u] => done[t] = done[u] + 1 /\ pc[u] = "spin"

(* The barrier can be used again at once: whoever is about to add to        *)
(* counter finds it below max, even while slow threads still spin in the    *)
(* previous episode.                                                        *)
ArrivalFindsRoom == \A t \in Thread : pc[t] = "add" => counter < max

(* counter goes down only when everybody's arrival has been counted, so no  *)
(* increment of the next episode is wiped out.                              *)
NoArrivalLost == [][counter' < counter => counter = max]_vars

(* Every call of bomp_barrier_wait returns, for every thread. *)
EveryWaitReturns == \A t \in Thread : pc[t] = "add" ~> pc[t] = "out"

(* The code implements the barrier of module Barrier. *)
Abstract == INSTANCE Barrier WITH inside <- [t \in Thread |-> pc[t] # "out"]
ImplementsBarrier == Abstract!Spec
=============================================================================
