------------------------------ MODULE MCChecksum ------------------------------
(* Instances of Checksum for TLC. *)
EXTENDS Checksum

(* The first iteration takes the one lock, the second the other. *)
BothLocks == <<"critical", "atomic">>
=============================================================================
