-------------------------------- MODULE Mutex --------------------------------
(***************************************************************************)
(* What a lock promises: one holder at a time, and only the holder gives   *)
(* it back.  BompLock, the code of src/bomp/lib/spin.h, implements it.     *)
(***************************************************************************)
CONSTANTS Thread, Lock

VARIABLE holders  \* holders[l]: the threads that hold lock l, at most one

Init == holders = [l \in Lock |-> {}]

Acquire(t, l) == /\ holders[l] = {}
                 /\ holders' = [holders EXCEPT ![l] = {t}]

Release(t, l) == /\ holders[l] = {t}
                 /\ holders' = [holders EXCEPT ![l] = {}]

Next == \E t \in Thread, l \in Lock : Acquire(t, l) \/ Release(t, l)

Spec == Init /\ [][Next]_holders
=============================================================================
