------------------------------ MODULE MCCthread ------------------------------
(* An instance of Cthread for TLC. *)
EXTENDS Cthread
=============================================================================
