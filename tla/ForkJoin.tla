------------------------------- MODULE ForkJoin -------------------------------
(***************************************************************************)
(* What a parallel region promises to the program: the master forks a team,*)
(* every member runs the body of the region once, and the program goes on  *)
(* after the region only when all of them have.  BompParallel, the code of *)
(* src/bomp/lib, is checked against it.                                    *)
(***************************************************************************)
EXTENDS Naturals

CONSTANT Sizes  \* the sizes a team may have

VARIABLES phase,  \* "serial", "parallel" or "over"
          todo    \* the members of the team that have not run the body yet

vars == <<phase, todo>>

Init == phase = "serial" /\ todo = {}

Fork(n) == /\ phase = "serial"
           /\ phase' = "parallel"
           /\ todo' = 0..(n - 1)

Finish(i) == /\ i \in todo
             /\ todo' = todo \ {i}
             /\ UNCHANGED phase

Join == /\ phase = "parallel"
        /\ todo = {}
        /\ phase' = "serial"
        /\ UNCHANGED todo

Exit == /\ phase = "serial"
        /\ phase' = "over"
        /\ UNCHANGED todo

Next == \/ \E n \in Sizes : Fork(n)
        \/ \E i \in todo : Finish(i)
        \/ Join
        \/ Exit

Spec == Init /\ [][Next]_vars
=============================================================================
