------------------------------- MODULE MCTunnel -------------------------------
(* Instances of Tunnel for TLC.  Kernel k has the address .(k + 1). *)
EXTENDS Tunnel, TLC

Two == {0, 1}
Three == {0, 1, 2}
None == {}

(* Who sends to whom: two to a third. *)
ToZero == (0 :> {}) @@ (1 :> {1}) @@ (2 :> {1})

(* One to the other, and to addresses below the area, above it, and with a *)
(* last octet that does not fit a signed char.                             *)
ToOne == (0 :> {2, 0, 127, 255}) @@ (1 :> {})
=============================================================================
