---------------------------- MODULE MCBootSequence ----------------------------
(* Instances of BootSequence for TLC. *)
EXTENDS BootSequence

(* The second address needs the byte, the third does not fit into it. *)
Addresses == <<1, 6, 8>>
Lengths == <<2, 3, 1>>

AnyBoot == {e \in Environment : /\ e.soon \/ e.stale => e.netcheck
                                /\ e.fails \/ e.hangs => e.prompt}
=============================================================================
