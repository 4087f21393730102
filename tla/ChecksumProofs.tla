---------------------------- MODULE ChecksumProofs ----------------------------
(***************************************************************************)
(* Proofs about BompLock for every set of threads and of locks, and about  *)
(* Checksum, the program that uses it together with the barrier, for any   *)
(* number of iterations.                                                   *)
(***************************************************************************)
EXTENDS Checksum, BompBarrierProofs

(* The words agree with the sections stored: with LockIInv this is inductive. *)
LInv == LockIInv /\ NoLostUpdate

LEMMA InitLInv == LockInit => LInv
BY MaxSectionsAssumption DEF LockInit, LInv, LockIInv, LockTypeOK, LockPC, WordTellsHolder, MutualExclusion,
       LoadedIsCurrent, Working, NoLostUpdate, Holders

(* The steps outside the sections change no holder, no word and no load. *)
LEMMA OutsideLInv ==
  ASSUME LInv, NEW t \in Thread, Cmp(t) \/ (\E l \in Lock : Start(t, l))
  PROVE  LInv'
<1>1. /\ at[t] \in {"out", "cmp"} /\ at' = [at EXCEPT ![t] = at'[t]]
      /\ at'[t] \in {"cmp", "bts"}
      /\ want' \in [Thread -> Lock] /\ \A u \in Thread \ {t} : want'[u] = want[u]
      /\ left[t] > 0
      /\ UNCHANGED <<lock, data, reg, left, ended>>
  BY DEF Start, Cmp, Move, LInv, LockIInv, LockTypeOK, LockPC, Working
<1>2. \A l \in Lock : Holders(l)' = Holders(l)
  BY <1>1 DEF Holders, LInv, LockIInv, LockTypeOK
<1>3. LockTypeOK' /\ WordTellsHolder' /\ MutualExclusion' /\ NoLostUpdate'
  BY <1>1, <1>2 DEF LInv, LockIInv, LockTypeOK, LockPC, WordTellsHolder, MutualExclusion, NoLostUpdate
<1>4. LoadedIsCurrent' /\ Working'
  BY <1>1 DEF LInv, LockIInv, LockTypeOK, LoadedIsCurrent, Working
<1>5. QED
  BY <1>3, <1>4 DEF LInv, LockIInv

LEMMA BtsLInv ==
  ASSUME LInv, NEW t \in Thread, Bts(t)
  PROVE  LInv'
<1> USE DEF LInv, LockIInv, Bts, Move
<1>1. LockTypeOK' /\ LoadedIsCurrent' /\ Working' /\ NoLostUpdate'
  BY DEF LockTypeOK, LockPC, LoadedIsCurrent, Working, NoLostUpdate
<1>2. CASE lock[want[t]] = 0
  <2>1. Holders(want[t]) = {}
    BY <1>2 DEF WordTellsHolder, LockTypeOK
  <2>2. \A l \in Lock : Holders(l)' = IF l = want[t] THEN {t} ELSE Holders(l)
    BY <1>2, <2>1 DEF Holders, LockTypeOK
  <2>3. \A l \in Lock : lock'[l] = IF l = want[t] THEN 1 ELSE lock[l]
    BY DEF LockTypeOK
  <2>4. WordTellsHolder'
    BY <2>2, <2>3 DEF WordTellsHolder
  <2>5. MutualExclusion'
    BY <2>2 DEF MutualExclusion
  <2>6. QED
    BY <1>1, <2>4, <2>5
<1>3. CASE lock[want[t]] = 1
  <2>1. lock' = lock /\ \A l \in Lock : Holders(l)' = Holders(l)
    BY <1>3 DEF Holders, LockTypeOK
  <2>2. WordTellsHolder' /\ MutualExclusion'
    BY <2>1 DEF WordTellsHolder, MutualExclusion
  <2>3. QED
    BY <1>1, <2>2
<1>4. QED
  BY <1>2, <1>3 DEF LockTypeOK

(* Load and Store happen inside a section that excludes every other one. *)
LEMMA InsideLInv ==
  ASSUME LInv, NEW t \in Thread, Load(t) \/ Store(t)
  PROVE  LInv'
<1> USE DEF LInv, LockIInv, Load, Store, Move
<1>1. LockTypeOK' /\ Working'
  BY DEF LockTypeOK, LockPC, Working
<1>2. \A l \in Lock : Holders(l)' = Holders(l)
  BY DEF Holders, LockTypeOK
<1>3. WordTellsHolder' /\ MutualExclusion'
  BY <1>2 DEF WordTellsHolder, MutualExclusion
<1>4. t \in Holders(want[t])
  BY DEF Holders
<1>5. \A u \in Thread \ {t} : at[u] = "store" => want[u] # want[t]
  BY <1>4 DEF Holders, MutualExclusion, LockTypeOK
<1>6. LoadedIsCurrent'
  BY <1>5 DEF LoadedIsCurrent, LockTypeOK
<1>7. NoLostUpdate'
  BY DEF LoadedIsCurrent, NoLostUpdate, LockTypeOK
<1>8. QED
  BY <1>1, <1>3, <1>6, <1>7

LEMMA UnlockLInv ==
  ASSUME LInv, NEW t \in Thread, Unlock(t)
  PROVE  LInv'
<1> USE DEF LInv, LockIInv, Unlock, Move
<1>1. LockTypeOK' /\ LoadedIsCurrent' /\ Working' /\ NoLostUpdate'
  BY DEF LockTypeOK, LockPC, LoadedIsCurrent, Working, NoLostUpdate
<1>2. Holders(want[t]) = {t}
  BY DEF Holders, MutualExclusion, LockTypeOK
<1>3. \A l \in Lock : Holders(l)' = IF l = want[t] THEN {} ELSE Holders(l)
  BY <1>2 DEF Holders, LockTypeOK
<1>4. WordTellsHolder' /\ MutualExclusion'
  BY <1>3 DEF WordTellsHolder, MutualExclusion, LockTypeOK
<1>5. QED
  BY <1>1, <1>4

LEMMA NextLInv == LInv /\ [LockNext]_lockVars => LInv'
<1> SUFFICES ASSUME LInv, [LockNext]_lockVars PROVE LInv'
  OBVIOUS
<1>1. CASE UNCHANGED lockVars
  BY <1>1 DEF lockVars, LInv, LockIInv, LockTypeOK, WordTellsHolder, MutualExclusion,
              LoadedIsCurrent, Working, NoLostUpdate, Holders
<1>2. CASE \E t \in Thread : (\E l \in Lock : Start(t, l)) \/ LockStep(t)
  BY <1>2, OutsideLInv, BtsLInv, InsideLInv, UnlockLInv DEF LockStep
<1>3. QED
  BY <1>1, <1>2 DEF LockNext, LockStop

(* Mutual exclusion, and all that it rests on: spin.h, lines 26-42. *)
THEOREM LockInvariance == LockSpec => []LockIInv
<1>1. LInv => LockIInv
  BY DEF LInv
<1>2. QED
  BY <1>1, InitLInv, NextLInv, PTL DEF LockSpec

(* Sections of one lock lose no update of the word they share. *)
THEOREM UpdatesKept == LockSpec => []NoLostUpdate
<1>1. LInv => NoLostUpdate
  BY DEF LInv
<1>2. QED
  BY <1>1, InitLInv, NextLInv, PTL DEF LockSpec

-----------------------------------------------------------------------------
(* The refinement: the btsq that finds the bit clear is the acquisition, the *)
(* store of zero the release, and nothing else shows.                        *)

holders == [l \in Lock |-> Holders(l)]

LEMMA LockRefines == LockIInv /\ [LockNext]_lockVars => [AbstractLock!Next]_holders
<1> SUFFICES ASSUME LockIInv, [LockNext]_lockVars
             PROVE  AbstractLock!Next \/ holders' = holders
  OBVIOUS
<1> USE DEF LockIInv, Move
<1>1. ASSUME NEW t \in Thread, Bts(t), lock[want[t]] = 0
      PROVE  AbstractLock!Acquire(t, want[t])
  <2>1. Holders(want[t]) = {}
    BY <1>1 DEF WordTellsHolder, LockTypeOK
  <2>2. \A l \in Lock : Holders(l)' = IF l = want[t] THEN {t} ELSE Holders(l)
    BY <1>1, <2>1 DEF Bts, Holders, LockTypeOK
  <2>3. holders' = [holders EXCEPT ![want[t]] = {t}]
    BY <2>2 DEF holders
  <2>4. QED
    BY <2>1, <2>3 DEF AbstractLock!Acquire, holders, LockTypeOK
<1>2. ASSUME NEW t \in Thread, Unlock(t)
      PROVE  AbstractLock!Release(t, want[t])
  <2>1. Holders(want[t]) = {t}
    BY <1>2 DEF Unlock, Holders, MutualExclusion, LockTypeOK
  <2>2. \A l \in Lock : Holders(l)' = IF l = want[t] THEN {} ELSE Holders(l)
    BY <1>2, <2>1 DEF Unlock, Holders, LockTypeOK
  <2>3. holders' = [holders EXCEPT ![want[t]] = {}]
    BY <2>2 DEF holders
  <2>4. QED
    BY <2>1, <2>3 DEF AbstractLock!Release, holders, LockTypeOK
<1>3. ASSUME NEW t \in Thread,
             \/ \E l \in Lock : Start(t, l)
             \/ Cmp(t) \/ Load(t) \/ Store(t)
             \/ Bts(t) /\ lock[want[t]] = 1
      PROVE  holders' = holders
  <2>1. \A l \in Lock : Holders(l)' = Holders(l)
    BY <1>3 DEF Start, Cmp, Load, Store, Bts, Holders, LockTypeOK
  <2>2. QED
    BY <2>1 DEF holders
<1>4. CASE UNCHANGED lockVars
  BY <1>4 DEF lockVars, holders, Holders
<1>5. \A t \in Thread : lock[want[t]] \in {0, 1} /\ want[t] \in Lock
  BY DEF LockTypeOK
<1>6. QED
  BY <1>1, <1>2, <1>3, <1>4, <1>5 DEF LockNext, LockStop, LockStep, AbstractLock!Next

(* spin.h implements the abstract lock. *)
THEOREM LockRefinement == LockSpec => ImplementsMutex
<1>1. LockInit => AbstractLock!Init
  BY DEF LockInit, Holders, AbstractLock!Init
<1>2. QED
  BY <1>1, LockRefines, LockInvariance, PTL
     DEF LockSpec, ImplementsMutex, AbstractLock!Spec, holders
-----------------------------------------------------------------------------
(* Nobody waits in vain.  LockCanStep(t) is the condition on which the next      *)
(* instruction of t does not wait: it is the guard of LockStep(t).               *)

LockCanStep(t) == at[t] # "out" /\ (at[t] = "cmp" => lock[want[t]] = 0)
MayStart(t) == at[t] = "out" /\ left[t] > 0

(* Unless every section has been run, a thread can start one or go on.       *)
LockNoDeadlock == LockFinished \/ \E t \in Thread : MayStart(t) \/ LockCanStep(t)

(* Whoever finds the word at 1 waits for a holder, and no holder waits.      *)
THEOREM SomebodyGoesIn == LockSpec => []LockNoDeadlock
<1>1. ASSUME LockIInv, \A t \in Thread : ~MayStart(t) /\ ~LockCanStep(t)
      PROVE  LockFinished
  <2>1. ASSUME NEW t \in Thread PROVE at[t] = "out"
    <3>1. SUFFICES ASSUME at[t] # "out" PROVE FALSE
      OBVIOUS
    <3>2. want[t] \in Lock /\ lock[want[t]] = 1
      BY <1>1, <3>1 DEF LockCanStep, LockIInv, LockTypeOK
    <3>3. PICK u \in Thread : u \in Holders(want[t])
      BY <1>1, <3>2 DEF LockIInv, WordTellsHolder, Holders
    <3>4. LockCanStep(u)
      BY <3>3 DEF Holders, LockCanStep
    <3>5. QED
      BY <1>1, <3>4
  <2>2. QED
    <3>1. ASSUME NEW t \in Thread PROVE left[t] = 0
      <4>1. ~(left[t] > 0)
        BY <1>1, <2>1 DEF MayStart
      <4>2. left[t] \in Nat
        BY <1>1 DEF LockIInv, LockTypeOK
      <4>3. QED
        BY <4>1, <4>2
    <3>2. QED
      BY <2>1, <3>1 DEF LockFinished
<1>2. LockIInv => LockNoDeadlock
  BY <1>1 DEF LockNoDeadlock
<1>3. QED
  BY <1>2, LockInvariance, PTL

(* Weak fairness for t, with the guard in the place of ENABLED.              *)
LockScheduled(t) == []([]LockCanStep(t) => <><<LockStep(t)>>_lockVars)

(* The steps of other threads leave a thread where it is. *)
LEMMA OthersStay ==
  ASSUME LockIInv, [LockNext]_lockVars, NEW t \in Thread, ~LockStep(t), at[t] # "out"
  PROVE  at'[t] = at[t] /\ want'[t] = want[t]
BY DEF LockIInv, LockTypeOK, LockNext, LockStop, Start, LockStep, Cmp, Bts, Load, Store, Unlock, Move, lockVars

(* A thread that asks for a lock makes somebody hold it, itself or one that  *)
(* comes first, if it is scheduled: LockGranted for each thread.             *)
THEOREM Granted ==
  ASSUME NEW t \in Thread, NEW l \in Lock
  PROVE  LockSpec /\ LockScheduled(t) => (at[t] = "cmp" /\ want[t] = l ~> Holders(l) # {})
<1> DEFINE Asks == at[t] = "cmp" /\ want[t] = l
           Tries == at[t] = "bts" /\ want[t] = l
           Held == Holders(l) # {}
<1>1. ASSUME LockIInv, ~Held PROVE lock[l] = 0
  BY <1>1 DEF LockIInv, LockTypeOK, WordTellsHolder
<1>2. /\ LockIInv /\ [LockNext]_lockVars /\ Asks => Asks' \/ Tries'
      /\ LockIInv /\ <<LockStep(t)>>_lockVars /\ Asks => Tries'
      /\ LockIInv /\ Asks => LockCanStep(t) \/ Held
  <2>1. LockIInv /\ LockStep(t) /\ Asks => Tries'
    BY DEF LockIInv, LockTypeOK, LockStep, Cmp, Bts, Load, Store, Unlock, Move
  <2>2. LockIInv /\ [LockNext]_lockVars /\ Asks => Asks' \/ Tries'
    BY <2>1, OthersStay
  <2>3. QED
    BY <1>1, <2>1, <2>2 DEF LockCanStep
<1>3. /\ LockIInv /\ [LockNext]_lockVars /\ Tries => Tries' \/ Held \/ Held'
      /\ LockIInv /\ <<LockStep(t)>>_lockVars /\ Tries => Held \/ Held'
      /\ Tries => LockCanStep(t)
  <2>1. ASSUME LockIInv, LockStep(t), Tries, ~Held PROVE Held'
    <3>1. Bts(t) /\ lock[want[t]] = 0
      BY <1>1, <2>1 DEF LockStep, Cmp, Bts, Load, Store, Unlock
    <3>2. t \in Holders(l)'
      BY <2>1, <3>1 DEF Bts, Move, Holders, LockIInv, LockTypeOK
    <3>3. QED
      BY <3>2
  <2>2. LockIInv /\ [LockNext]_lockVars /\ Tries => Tries' \/ Held \/ Held'
    BY <2>1, OthersStay
  <2>3. QED
    BY <2>1, <2>2 DEF LockCanStep
<1> HIDE DEF Asks, Tries, Held
<1>4. LockSpec /\ LockScheduled(t) => (Asks ~> Held)
  BY <1>2, <1>3, LockInvariance, PTL DEF LockSpec, LockScheduled
<1>5. QED
  BY <1>4 DEF Asks, Held
-----------------------------------------------------------------------------
(* The program of both.  Each of its steps is a step of one part that leaves *)
(* the other alone, so all that was proved about the parts holds in it.      *)

LEMMA OneAtATime == [ChecksumNext]_allVars => [Next]_vars /\ [LockNext]_lockVars
<1> SUFFICES ASSUME [ChecksumNext]_allVars
             PROVE  (Next \/ vars' = vars) /\ (LockNext \/ lockVars' = lockVars)
  OBVIOUS
<1>1. CASE UNCHANGED allVars
  BY <1>1 DEF allVars
<1>2. ASSUME NEW t \in Thread, CallBarrier(t) \/ InBarrier(t)
      PROVE  Next /\ lockVars' = lockVars
  BY <1>2 DEF CallBarrier, InBarrier, Next
<1>3. ASSUME NEW t \in Thread, InSection(t)
      PROVE  LockNext /\ vars' = vars
  BY <1>3 DEF InSection, LockNext
<1>4. ASSUME NEW t \in Thread, AddPart(t)
      PROVE  LockNext /\ vars' = vars
  <2>1. LockOf[Added(t) + 1] \in Lock
    <3>1. Added(t) + 1 \in DOMAIN LockOf
      BY <1>4 DEF AddPart
    <3>2. QED
      BY <3>1, IterationsAssumption
  <2>2. QED
    BY <1>4, <2>1 DEF AddPart, LockNext
<1>5. QED
  BY <1>1, <1>2, <1>3, <1>4 DEF ChecksumNext, Member, allVars

LEMMA Composed == ChecksumSpec => Spec /\ LockSpec
BY OneAtATime, PTL DEF ChecksumSpec, ChecksumInit, Spec, LockSpec

(* A member is in one place at a time, and where it is tells how many waits  *)
(* it has behind it: two for each part it has added, less those it still has *)
(* to make for the last one.                                                 *)
Places(t) ==
  /\ left[t] <= MaxSections
  /\ done[t] <= 2 * Added(t) /\ 2 * Added(t) <= done[t] + 2
  /\ at[t] # "out" => pc[t] = "out" /\ done[t] = 2 * Added(t)
  /\ pc[t] # "out" => done[t] < 2 * Added(t)

CInv == IInv /\ LInv /\ \A t \in Thread : Places(t)

LEMMA InitCInv == ChecksumInit => CInv
<1>1. ASSUME ChecksumInit, NEW t \in Thread PROVE Places(t)
  BY <1>1, MaxSectionsAssumption DEF ChecksumInit, Init, LockInit, Places, Added
<1>2. QED
  BY <1>1, InitIInv, InitLInv DEF ChecksumInit, CInv

LEMMA NextCInv == CInv /\ [ChecksumNext]_allVars => CInv'
<1> SUFFICES ASSUME CInv, [ChecksumNext]_allVars PROVE CInv'
  OBVIOUS
<1>0. /\ IInv' /\ LInv' /\ MaxSections \in Nat
      /\ pc \in [Thread -> PC] /\ done \in [Thread -> Nat]
      /\ at \in [Thread -> LockPC] /\ left \in [Thread -> Nat]
  BY OneAtATime, NextIInv, NextLInv, MaxSectionsAssumption
     DEF CInv, IInv, TypeOK, LInv, LockIInv, LockTypeOK
<1>1. SUFFICES ASSUME NEW u \in Thread PROVE Places(u)'
  BY <1>0 DEF CInv
<1>2. Places(u)
  BY DEF CInv
<1>3. ASSUME done'[u] = done[u], pc'[u] = pc[u], at'[u] = at[u], left'[u] = left[u]
      PROVE  Places(u)'
  BY <1>2, <1>3 DEF Places, Added
<1>4. CASE UNCHANGED allVars
  BY <1>3, <1>4 DEF allVars, vars, lockVars
<1>5. ASSUME NEW t \in Thread, AddPart(t) PROVE Places(u)'
  <2>1. /\ pc' = pc /\ done' = done /\ left' = left /\ at' = [at EXCEPT ![t] = "cmp"]
        /\ pc[t] = "out" /\ done[t] = 2 * Added(t)
    BY <1>5 DEF AddPart, Start, Move, vars
  <2>2. QED
    BY <1>0, <1>2, <1>3, <2>1 DEF Places, Added
<1>6. ASSUME NEW t \in Thread, InSection(t) PROVE Places(u)'
  <2>1. pc' = pc /\ done' = done /\ at[t] # "out"
    BY <1>6 DEF InSection, LockStep, Cmp, Bts, Load, Store, Unlock, vars
  <2>2. CASE Unlock(t)
    <3>1. left' = [left EXCEPT ![t] = @ - 1] /\ at' = [at EXCEPT ![t] = "out"] /\ left[t] > 0
      BY <2>1, <2>2 DEF Unlock, Move, CInv, LInv, LockIInv, Working
    <3>2. QED
      BY <1>0, <1>2, <1>3, <2>1, <3>1 DEF Places, Added
  <2>3. CASE ~Unlock(t)
    <3>1. left' = left /\ \A v \in Thread \ {t} : at'[v] = at[v]
      BY <1>0, <1>6, <2>3 DEF InSection, LockStep, Cmp, Bts, Load, Store, Move
    <3>2. QED
      BY <1>2, <1>3, <2>1, <3>1 DEF Places, Added
  <2>4. QED
    BY <2>2, <2>3
<1>7. ASSUME NEW t \in Thread, CallBarrier(t) PROVE Places(u)'
  <2>1. /\ pc' = [pc EXCEPT ![t] = "add"] /\ done' = done /\ left' = left /\ at' = at
        /\ at[t] = "out" /\ done[t] < 2 * Added(t)
    BY <1>7 DEF CallBarrier, ReadCycle, Goto, lockVars
  <2>2. QED
    BY <1>0, <1>2, <1>3, <2>1 DEF Places, Added
<1>8. ASSUME NEW t \in Thread, InBarrier(t) PROVE Places(u)'
  <2>1. /\ left' = left /\ at' = at /\ pc[t] # "out"
        /\ \/ done' = done
           \/ done' = [done EXCEPT ![t] = @ + 1] /\ pc' = [pc EXCEPT ![t] = "out"]
        /\ \A v \in Thread \ {t} : pc'[v] = pc[v]
    BY <1>0, <1>8 DEF InBarrier, Wait, FetchAdd, Release, Reset, Flip, Leave, Return, Goto, lockVars
  <2>2. QED
    BY <1>0, <1>2, <1>3, <2>1 DEF Places, Added
<1>9. QED
  BY <1>4, <1>5, <1>6, <1>7, <1>8 DEF ChecksumNext, Member

(* Whoever is in the single of an iteration finds that every member has      *)
(* added its part and is out of the section, and that none has begun to add  *)
(* for the next one; with NoLostUpdate, that the sum is complete.            *)
AllAdded == \A t \in Thread : BetweenWaits(t) =>
  \A u \in Thread : at[u] = "out" /\ Added(u) = Added(t)

(* The section comes before one barrier and after another, so the two locks  *)
(* and the one barrier together keep the iterations apart: ft.c, lines       *)
(* 879-894.                                                                  *)
THEOREM SumsComplete == ChecksumSpec => [](AllAdded /\ NoLostUpdate)
<1>1. ASSUME CInv, NEW t \in Thread, BetweenWaits(t), NEW u \in Thread
      PROVE  at[u] = "out" /\ Added(u) = Added(t)
  <2>1. /\ Places(t) /\ Places(u) /\ Position(t) /\ Position(u)
        /\ flips \in Nat /\ done \in [Thread -> Nat] /\ left \in [Thread -> Nat]
    BY <1>1 DEF CInv, IInv, TypeOK, LInv, LockIInv, LockTypeOK
  <2>2. Added(t) \in Int /\ Added(u) \in Int
    BY <2>1, MaxSectionsAssumption DEF Added
  <2>3. flips = 2 * Added(t) - 1
    BY <1>1, <2>1 DEF BetweenWaits, Position
  <2>4. done[u] \in Nat /\ (done[u] = flips \/ (done[u] + 1 = flips /\ pc[u] = "spin"))
    BY <2>1 DEF Position
  <2>5. Added(u) = Added(t)
    BY <2>1, <2>2, <2>3, <2>4 DEF Places
  <2>6. done[u] # 2 * Added(u) /\ (pc[u] # "out" => at[u] = "out")
    BY <2>1, <2>2, <2>3, <2>4, <2>5 DEF Places
  <2>7. QED
    BY <2>1, <2>5, <2>6 DEF Places
<1>2. CInv => AllAdded /\ NoLostUpdate
  BY <1>1 DEF AllAdded, CInv, LInv
<1>3. QED
  BY <1>2, InitCInv, NextCInv, PTL DEF ChecksumSpec
=============================================================================
