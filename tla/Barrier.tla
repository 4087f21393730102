------------------------------- MODULE Barrier -------------------------------
(***************************************************************************)
(* What a barrier promises to the threads that share it.  A thread arrives *)
(* and leaves; it may leave its k-th episode only once every thread has    *)
(* arrived at its own k-th episode.  BompBarrier, the code of              *)
(* src/bomp/lib/spin.h, is shown to implement this specification.          *)
(***************************************************************************)
EXTENDS Naturals

CONSTANT Thread  \* the threads that share the barrier

VARIABLES done,    \* done[t]: the episodes t has left
          inside   \* inside[t]: t has arrived and not left yet

vars == <<done, inside>>

Init == /\ done = [t \in Thread |-> 0]
        /\ inside = [t \in Thread |-> FALSE]

(* The number of episodes t has arrived at. *)
Arrivals(t) == IF inside[t] THEN done[t] + 1 ELSE done[t]

Arrive(t) == /\ ~inside[t]
             /\ inside' = [inside EXCEPT ![t] = TRUE]
             /\ UNCHANGED done

Leave(t) == /\ inside[t]
            /\ \A u \in Thread : Arrivals(u) > done[t]
            /\ inside' = [inside EXCEPT ![t] = FALSE]
            /\ done' = [done EXCEPT ![t] = @ + 1]

Next == \E t \in Thread : Arrive(t) \/ Leave(t)

Spec == Init /\ [][Next]_vars
=============================================================================
