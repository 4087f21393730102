--------------------------------- MODULE Team ---------------------------------
(* The threads that share the barrier and the locks of spin.h: the members of *)
(* one team of the OpenMP runtime.                                            *)
EXTENDS FiniteSets

CONSTANT Thread

ASSUME ThreadAssumption == IsFiniteSet(Thread) /\ Thread # {}
=============================================================================
