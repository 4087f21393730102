--------------------------------- MODULE Link ---------------------------------
(***************************************************************************)
(* What the tunnel promises, killed and started again as it may be: each   *)
(* destination has room for one packet.  What is sent into it is received  *)
(* once, or lost when the destination opens again; nothing else takes it   *)
(* away and nothing else is received.                                      *)
(***************************************************************************)
EXTENDS Naturals, Sequences

CONSTANT Endpoint  \* the destinations

VARIABLES open,     \* the destinations that are there to receive
          known,    \* the destinations that have been open once
          queue,    \* queue[d]: the packet on its way to d, or none
          received  \* received[d]: the packets d has received, in order

vars == <<open, known, queue, received>>

Init == /\ open = {}
        /\ known = {}
        /\ queue = [d \in Endpoint |-> <<>>]
        /\ received = [d \in Endpoint |-> <<>>]

(* Opening loses what was on its way, known to senders or not. *)
Open(d) == /\ d \notin open
           /\ open' = open \cup {d}
           /\ queue' = [queue EXCEPT ![d] = <<>>]
           /\ UNCHANGED <<known, received>>

Announce(d) == /\ d \in open
               /\ known' = known \cup {d}
               /\ UNCHANGED <<open, queue, received>>

Close(d) == /\ d \in open
            /\ open' = open \ {d}
            /\ UNCHANGED <<known, queue, received>>

(* Some packet is sent to d. *)
Send(d) == /\ d \in known
           /\ queue[d] = <<>>
           /\ Len(queue'[d]) = 1
           /\ queue' = [queue EXCEPT ![d] = queue'[d]]
           /\ UNCHANGED <<open, known, received>>

Receive(d) == /\ d \in open
              /\ queue[d] # <<>>
              /\ received' = [received EXCEPT ![d] = @ \o queue[d]]
              /\ queue' = [queue EXCEPT ![d] = <<>>]
              /\ UNCHANGED <<open, known>>

Next == \E d \in Endpoint :
  Open(d) \/ Announce(d) \/ Close(d) \/ Send(d) \/ Receive(d)

Spec == Init /\ [][Next]_vars

FairSpec == Spec /\ \A d \in Endpoint : WF_vars(Receive(d))
=============================================================================
