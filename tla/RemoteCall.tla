------------------------------ MODULE RemoteCall ------------------------------
(***************************************************************************)
(* What a remote call promises, however it is made: a call is executed     *)
(* once and returns after that.  A caller may be gone before it has the    *)
(* result (Forget); a party that dies in the middle of a call may leave    *)
(* the connection broken (Break), and nothing is promised from then on.    *)
(***************************************************************************)
EXTENDS Naturals

VARIABLES
  phase,      \* "idle", "called", "served" or "broken"
  served,     \* how many calls have been executed
  returned    \* how many calls have returned

vars == <<phase, served, returned>>

Init == phase = "idle" /\ served = 0 /\ returned = 0

Call == phase = "idle" /\ phase' = "called" /\ UNCHANGED <<served, returned>>

Serve == /\ phase = "called"
         /\ phase' = "served"
         /\ served' = served + 1
         /\ UNCHANGED returned

Return == /\ phase = "served"
          /\ phase' = "idle"
          /\ returned' = returned + 1
          /\ UNCHANGED served

Forget == phase = "served" /\ phase' = "idle" /\ UNCHANGED <<served, returned>>

Break == /\ phase \in {"called", "served"}
         /\ phase' = "broken"
         /\ served' = 0
         /\ returned' = 0

Next == Call \/ Serve \/ Return \/ Forget \/ Break

Spec == Init /\ [][Next]_vars

FairSpec == Spec /\ WF_vars(Serve) /\ WF_vars(Return)
=============================================================================
