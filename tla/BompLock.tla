------------------------------- MODULE BompLock -------------------------------
(***************************************************************************)
(* The spinlock of src/bomp/lib/spin.h and the two global locks parallel.c *)
(* builds on it: critical_lock, taken by GOMP_critical_start, and          *)
(* atomic_lock, taken by GOMP_atomic_start.  A thread runs sections that   *)
(* update a shared word with a plain load and store, the reason why gcc    *)
(* brackets them with these calls.  A word is updated under one lock only, *)
(* as the two locks do not exclude each other.                             *)
(*                                                                         *)
(* One action is one instruction that touches shared memory: the cmpq that *)
(* spins, the locked btsq, the load and the store of the section, and the  *)
(* store of zero that unlocks.                                             *)
(***************************************************************************)
EXTENDS Integers, Team

CONSTANTS Lock,         \* the locks, "critical" and "atomic"
          MaxSections   \* how many sections each thread runs

ASSUME MaxSectionsAssumption == MaxSections \in Nat

VARIABLES
  lock,  \* lock[l]: the word of lock l
  at,    \* where each thread is
  want,  \* want[t]: the lock t has asked for last
  data,  \* data[l]: the word that is updated under lock l
  reg,   \* reg[t]: the value t has loaded
  left,  \* left[t]: the sections t has still to run
  ended  \* history: ended[l], the updates stored under lock l

lockVars == <<lock, at, want, data, reg, left, ended>>

LockPC == {"out", "cmp", "bts", "load", "store", "unlock"}

(* bomp_lock_init is empty: the locks are free because they are static data. *)
LockInit == /\ lock = [l \in Lock |-> 0]
            /\ at = [t \in Thread |-> "out"]
            /\ want \in [Thread -> Lock]
            /\ data = [l \in Lock |-> 0]
            /\ reg = [t \in Thread |-> 0]
            /\ left = [t \in Thread |-> MaxSections]
            /\ ended = [l \in Lock |-> 0]

Move(t, p) == at' = [at EXCEPT ![t] = p]

-----------------------------------------------------------------------------
(* Variants of definitions below, each a bug this code could have had. *)

BtsIgnoresCarry(t) == /\ at[t] = "bts"
                      /\ lock' = [lock EXCEPT ![want[t]] = 1]
                      /\ Move(t, "load")
                      /\ UNCHANGED <<want, data, reg, left, ended>>

CmpTakesLock(t) == /\ at[t] = "cmp"
                   /\ lock[want[t]] = 0
                   /\ Move(t, "load")
                   /\ UNCHANGED <<lock, want, data, reg, left, ended>>

UnlockForgotten(t) == /\ at[t] = "unlock"
                      /\ left' = [left EXCEPT ![t] = @ - 1]
                      /\ Move(t, "out")
                      /\ UNCHANGED <<lock, want, data, reg, ended>>

-----------------------------------------------------------------------------
(* GOMP_critical_start or GOMP_atomic_start is called. *)
Start(t, l) == /\ at[t] = "out"
               /\ left[t] > 0
               /\ want' = [want EXCEPT ![t] = l]
               /\ Move(t, "cmp")
               /\ UNCHANGED <<lock, data, reg, left, ended>>

(* The cmpq that finds the lock free and leaves the pause loop. *)
Cmp(t) == /\ at[t] = "cmp"
          /\ lock[want[t]] = 0
          /\ Move(t, "bts")
          /\ UNCHANGED <<lock, want, data, reg, left, ended>>

(* lock btsq sets the bit and jc tests what it was: back to cmpq if set. *)
Bts(t) == /\ at[t] = "bts"
          /\ lock' = [lock EXCEPT ![want[t]] = 1]
          /\ Move(t, IF lock[want[t]] = 0 THEN "load" ELSE "cmp")
          /\ UNCHANGED <<want, data, reg, left, ended>>

(* The section loads the word and stores it incremented. *)
Load(t) == /\ at[t] = "load"
           /\ reg' = [reg EXCEPT ![t] = data[want[t]]]
           /\ Move(t, "store")
           /\ UNCHANGED <<lock, want, data, left, ended>>

Store(t) == /\ at[t] = "store"
            /\ data' = [data EXCEPT ![want[t]] = reg[t] + 1]
            /\ ended' = [ended EXCEPT ![want[t]] = @ + 1]
            /\ Move(t, "unlock")
            /\ UNCHANGED <<lock, want, reg, left>>

(* *lock = 0; *)
Unlock(t) == /\ at[t] = "unlock"
             /\ lock' = [lock EXCEPT ![want[t]] = 0]
             /\ left' = [left EXCEPT ![t] = @ - 1]
             /\ Move(t, "out")
             /\ UNCHANGED <<want, data, reg, ended>>

LockStep(t) == Cmp(t) \/ Bts(t) \/ Load(t) \/ Store(t) \/ Unlock(t)

LockFinished == \A t \in Thread : at[t] = "out" /\ left[t] = 0

LockStop == LockFinished /\ UNCHANGED lockVars

LockNext == \/ \E t \in Thread : (\E l \in Lock : Start(t, l)) \/ LockStep(t)
            \/ LockStop

LockSpec == LockInit /\ [][LockNext]_lockVars
-----------------------------------------------------------------------------
Holders(l) == {t \in Thread : want[t] = l /\ at[t] \in {"load", "store", "unlock"}}

LockTypeOK == /\ lock \in [Lock -> {0, 1}]
              /\ at \in [Thread -> LockPC]
              /\ want \in [Thread -> Lock]
              /\ data \in [Lock -> Nat]
              /\ reg \in [Thread -> Nat]
              /\ left \in [Thread -> Nat]
              /\ ended \in [Lock -> Nat]

(* The word of a lock is set exactly while some thread is inside. *)
WordTellsHolder == \A l \in Lock : lock[l] = 1 <=> Holders(l) # {}

(* At most one thread is inside the sections of a lock, although several    *)
(* may have seen it free at the same time.                                  *)
MutualExclusion == \A l \in Lock : \A t, u \in Holders(l) : t = u

(* A holder that is about to store has loaded the current value. *)
LoadedIsCurrent == \A t \in Thread : at[t] = "store" => reg[t] = data[want[t]]

(* Whoever has asked for a lock has a section left to run. *)
Working == \A t \in Thread : at[t] # "out" => left[t] > 0

LockIInv == LockTypeOK /\ WordTellsHolder /\ MutualExclusion /\ LoadedIsCurrent /\ Working

(* No update of the shared word is overwritten: as many are visible as      *)
(* sections have stored one.                                                *)
NoLostUpdate == \A l \in Lock : data[l] = ended[l]

(* While threads ask for a lock, one of them gets it.  That it is always a   *)
(* given one is not promised: the btsq of a thread may always come too late. *)
LockGranted == \A l \in Lock :
  (\E t \in Thread : at[t] = "cmp" /\ want[t] = l) ~> Holders(l) # {}

(* The code implements the locks of module Mutex. *)
AbstractLock == INSTANCE Mutex WITH holders <- [l \in Lock |-> Holders(l)]
ImplementsMutex == AbstractLock!Spec
=============================================================================
