------------------------------- MODULE Checksum -------------------------------
(***************************************************************************)
(* The OpenMP benchmarks where they lean on libbomp most.  In checksum()   *)
(* of ft.c, called by every member of a team in each iteration, a member   *)
(* adds its part to a shared sum in a critical section, waits at a         *)
(* GOMP_barrier, and one of them goes on with the sum in a single, which   *)
(* ends with another GOMP_barrier.  The loops of cg.c do the same with a   *)
(* reduction, for which gcc takes the atomic lock.                         *)
(*                                                                         *)
(* The module composes the two parts of spin.h: the lock of BompLock and   *)
(* the barrier of BompBarrier, both step by step, in the order in which    *)
(* the programs call them.  An iteration is one section and two waits.     *)
(***************************************************************************)
EXTENDS BompBarrier, BompLock

LOCAL INSTANCE FiniteSetsExt

CONSTANT LockOf  \* LockOf[n]: the lock under which iteration n adds

ASSUME IterationsAssumption == /\ MaxEpisodes = 2 * MaxSections
                               /\ LockOf \in [1..MaxSections -> Lock]

allVars == <<vars, lockVars>>

(* The iterations in which t has added its part. *)
Added(t) == MaxSections - left[t]

(* A variant of AddPart, a bug this code could have had: the single has no  *)
(* barrier at its end.                                                      *)
AddPartNoWait(t) == /\ pc[t] = "out"
                    /\ done[t] >= 2 * Added(t) - 1
                    /\ Added(t) + 1 \in DOMAIN LockOf
                    /\ Start(t, LockOf[Added(t) + 1])
                    /\ UNCHANGED vars

(* It adds once all its waits of the iterations before are over, ... *)
AddPart(t) == /\ pc[t] = "out"
              /\ done[t] = 2 * Added(t)
              /\ Added(t) + 1 \in DOMAIN LockOf
              /\ Start(t, LockOf[Added(t) + 1])
              /\ UNCHANGED vars

InSection(t) == LockStep(t) /\ UNCHANGED vars

(* ... and waits twice once it has added. *)
CallBarrier(t) == /\ at[t] = "out"
                  /\ done[t] < 2 * Added(t)
                  /\ ReadCycle(t)
                  /\ UNCHANGED lockVars

InBarrier(t) == Wait(t) /\ UNCHANGED lockVars

Member(t) == AddPart(t) \/ InSection(t) \/ CallBarrier(t) \/ InBarrier(t)

ChecksumInit == Init /\ LockInit

ChecksumNext == \/ \E t \in Thread : Member(t)
                \/ Finished /\ LockFinished /\ UNCHANGED allVars

ChecksumSpec == ChecksumInit /\ [][ChecksumNext]_allVars

(* The operating system keeps scheduling every thread.  The lock itself is  *)
(* not fair.                                                                *)
Fairness == \A t \in Thread : WF_allVars(Member(t))

FairSpec == ChecksumSpec /\ Fairness
-----------------------------------------------------------------------------
(* What the members have added in all iterations, under whichever lock. *)
Total == MapThenSumSet(LAMBDA l : data[l], Lock)

(* t is in the single of an iteration, or could be. *)
BetweenWaits(t) == pc[t] = "out" /\ done[t] = 2 * Added(t) - 1

(* Whoever comes to the single finds the part of every member in the sum,   *)
(* and no part of a later iteration is added before all have left it.       *)
SumsWhole == \A t \in Thread : BetweenWaits(t) => Total = Added(t) * max
=============================================================================
