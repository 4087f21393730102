------------------------------- MODULE MCShmRpc -------------------------------
(* An instance of ShmRpc for TLC. *)
EXTENDS ShmRpc
=============================================================================
