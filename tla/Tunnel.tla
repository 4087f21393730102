-------------------------------- MODULE Tunnel --------------------------------
(***************************************************************************)
(* tunnel.c: IP packets between the kernels of one machine, through memory *)
(* they share.  Every kernel owns a slot of the shared area.  The thread   *)
(* pop_send of a kernel reads packets from its tun device and writes them  *)
(* into the slot of their destination; its pop_recv polls its own slot and *)
(* hands what it finds to the tun device.  main opens the area and starts  *)
(* both.  The processes never stop by themselves (the assignment stop = 1  *)
(* comes after an endless loop), they can only be killed.                  *)
(*                                                                         *)
(* One action is one access to a field of a slot.  A packet is copied in   *)
(* two halves, so that a copy can be seen half done.  The length of a      *)
(* packet stands for the packet: field i holds it, or Empty for zero.      *)
(***************************************************************************)
EXTENDS Integers, Sequences

CONSTANTS
  MaxIp,        \* the number of slots, MAX_IP
  Kernel,       \* the kernels that run a tunnel, by cpuid
  Octets,       \* Octets[k]: last address bytes k sends to
  Killable,     \* the kernels whose tunnel process may be killed
  MaxPackets,   \* a bound on the packets each kernel sends
  MaxStarts     \* a bound on the times each tunnel process is started

ASSUME KernelAssumption == MaxIp \in Nat /\ Kernel \subseteq 0..(MaxIp - 1)
ASSUME OctetsAssumption == Octets \in [Kernel -> SUBSET (0..255)]
ASSUME BoundsAssumption == MaxPackets \in Nat /\ MaxStarts \in Nat \ {0}

Slots == 0..(MaxIp - 1)
Packet == [src : Kernel, seq : 1..MaxPackets, octet : 0..255]
Empty == [src |-> -1, seq |-> 0, octet |-> 0]  \* the length 0: no packet
Junk == [src |-> -1, seq |-> 1, octet |-> 0]   \* what memory held at boot

VARIABLES
  slot,       \* the shared area: fields magic, status, lock, i and buffer
  main,       \* main[k]: where main is, "down" when k runs no tunnel
  spc,        \* spc[k]: where pop_send is
  pkt,        \* pkt[k]: the packet pop_send has read
  rpc,        \* rpc[k]: where pop_recv is
  byte,       \* byte[k]: the length pop_recv has read
  half,       \* half[k]: the first half of what pop_recv has handed over
  sent,       \* history: sent[d], the packets published in slot d, in order
  delivered,  \* history: delivered[k], what k has handed to its tun device
  next,       \* next[k]: the number of the next packet of k
  starts      \* starts[k]: how often the tunnel of k was started

local == <<main, spc, pkt, rpc, byte, half>>
history == <<sent, delivered>>
vars == <<slot, local, history, next, starts>>

MainPC == {"down", "i", "magic", "lock", "up"}
SendPC == {"off", "read", "magic", "spin", "lock", "copy", "copyRest", "publish",
           "unlock", "wild"}
RecvPC == {"off", "connect", "poll", "take", "write", "writeRest", "clear"}

(* At boot the memory of a slot holds anything that is not the magic number. *)
Init ==
  /\ slot \in [Slots -> [magic : {FALSE}, status : {"none"}, lock : {0, 1},
                         i : {Empty, Junk}, buffer : {<<Junk, Junk>>}]]
  /\ main = [k \in Kernel |-> "down"]
  /\ spc = [k \in Kernel |-> "off"]
  /\ pkt = [k \in Kernel |-> Junk]
  /\ rpc = [k \in Kernel |-> "off"]
  /\ byte = [k \in Kernel |-> Empty]
  /\ half = [k \in Kernel |-> Junk]
  /\ sent = [d \in Slots |-> <<>>]
  /\ delivered = [k \in Kernel |-> <<>>]
  /\ next = [k \in Kernel |-> 1]
  /\ starts = [k \in Kernel |-> 0]

-----------------------------------------------------------------------------
(* Variants of definitions below, each a bug this code could have had. *)

OpenKeepsI(k) ==
  /\ main[k] = "i"
  /\ main' = [main EXCEPT ![k] = "magic"]
  /\ UNCHANGED <<slot, spc, pkt, rpc, byte, half, history, next, starts>>

PublishFirst(k) ==
  LET d == pkt[k].octet - 1 IN
  /\ \/ /\ spc[k] = "copy"
        /\ spc' = [spc EXCEPT ![k] = "copyRest"]
        /\ slot' = [slot EXCEPT ![d].buffer[1] = pkt[k], ![d].i = pkt[k]]
     \/ /\ spc[k] = "copyRest"
        /\ spc' = [spc EXCEPT ![k] = "publish"]
        /\ slot' = [slot EXCEPT ![d].buffer[2] = pkt[k]]
  /\ UNCHANGED <<main, pkt, rpc, byte, half, history, next, starts>>

PublishOwnSlot(k) ==
  /\ spc[k] = "publish"
  /\ spc' = [spc EXCEPT ![k] = "unlock"]
  /\ slot' = [slot EXCEPT ![k].i = pkt[k]]
  /\ sent' = [sent EXCEPT ![k] = Append(@, pkt[k])]
  /\ UNCHANGED <<main, pkt, rpc, byte, half, delivered, next, starts>>

UnlockForgotten(k) ==
  /\ spc[k] = "unlock"
  /\ spc' = [spc EXCEPT ![k] = "read"]
  /\ UNCHANGED <<slot, main, pkt, rpc, byte, half, history, next, starts>>

ClearForgotten(k) ==
  /\ rpc[k] = "clear"
  /\ rpc' = [rpc EXCEPT ![k] = "poll"]
  /\ UNCHANGED <<slot, main, spc, pkt, byte, half, history, next, starts>>

-----------------------------------------------------------------------------
(* main and open_shm.                                                        *)

Main(k, from, to) == main[k] = from /\ main' = [main EXCEPT ![k] = to]

Start(k) ==
  /\ starts[k] < MaxStarts
  /\ Main(k, "down", "i")
  /\ starts' = [starts EXCEPT ![k] = @ + 1]
  /\ UNCHANGED <<slot, spc, pkt, rpc, byte, half, history, next>>

OpenI(k) ==
  /\ Main(k, "i", "magic")
  /\ slot' = [slot EXCEPT ![k].i = Empty]
  /\ UNCHANGED <<spc, pkt, rpc, byte, half, history, next, starts>>

OpenMagic(k) ==
  /\ Main(k, "magic", "lock")
  /\ slot' = [slot EXCEPT ![k].magic = TRUE]
  /\ UNCHANGED <<spc, pkt, rpc, byte, half, history, next, starts>>

(* The last store of open_shm; then main creates the two threads. *)
OpenLock(k) ==
  /\ Main(k, "lock", "up")
  /\ slot' = [slot EXCEPT ![k].lock = 0]
  /\ spc' = [spc EXCEPT ![k] = "read"]
  /\ rpc' = [rpc EXCEPT ![k] = "connect"]
  /\ UNCHANGED <<pkt, byte, half, history, next, starts>>

Open(k) == OpenI(k) \/ OpenMagic(k) \/ OpenLock(k)

(* The process is killed: the shared area stays as it is. *)
Die(k) ==
  /\ main' = [main EXCEPT ![k] = "down"]
  /\ spc' = [spc EXCEPT ![k] = "off"]
  /\ rpc' = [rpc EXCEPT ![k] = "off"]
  /\ UNCHANGED <<slot, pkt, byte, half, history, next, starts>>

Kill(k) == main[k] # "down" /\ k \in Killable /\ starts[k] < MaxStarts /\ Die(k)

-----------------------------------------------------------------------------
(* pop_send.                                                                 *)

Send(k, from, to) == spc[k] = from /\ spc' = [spc EXCEPT ![k] = to]

(* buffer[19] is a char, signed on this machine; the slot is that minus 1. *)
Signed(b) == IF b < 128 THEN b ELSE b - 256
Index(b) == Signed(b) - 1
Dest(k) == Index(pkt[k].octet)

(* The test that drops packets for addresses not on this network. *)
OnNetwork(b) == Index(b) < MaxIp

(* tun_read returns a packet; the test of its address.  A read that fails   *)
(* returns -1, which the code takes for a length; that is left out, and so  *)
(* the device always has a packet or none.                                  *)
Read(k, b) ==
  /\ next[k] <= MaxPackets
  /\ Send(k, "read", IF ~OnNetwork(b) THEN "read"
                     ELSE IF Index(b) \in Slots THEN "magic" ELSE "wild")
  /\ pkt' = [pkt EXCEPT ![k] = [src |-> k, seq |-> next[k], octet |-> b]]
  /\ next' = [next EXCEPT ![k] = @ + 1]
  /\ UNCHANGED <<slot, main, rpc, byte, half, history, starts>>

(* my_buf points outside the area: a fault, or memory without the magic.    *)
Wild(k) ==
  \/ spc[k] = "wild" /\ Die(k)
  \/ /\ Send(k, "wild", "read")
     /\ UNCHANGED <<slot, main, pkt, rpc, byte, half, history, next, starts>>

CheckMagic(k) ==
  /\ Send(k, "magic", IF slot[Dest(k)].magic THEN "spin" ELSE "read")
  /\ UNCHANGED <<slot, main, pkt, rpc, byte, half, history, next, starts>>

(* The loop at _mimmo ends when the slot is empty. *)
SpinEmpty(k) ==
  /\ Send(k, "spin", "lock")
  /\ slot[Dest(k)].i = Empty
  /\ UNCHANGED <<slot, main, pkt, rpc, byte, half, history, next, starts>>

(* __sync_lock_test_and_set: who finds the lock taken goes back to _mimmo. *)
TestAndSet(k) ==
  /\ Send(k, "lock", IF slot[Dest(k)].lock = 1 THEN "spin" ELSE "copy")
  /\ slot' = [slot EXCEPT ![Dest(k)].lock = 1]
  /\ UNCHANGED <<main, pkt, rpc, byte, half, history, next, starts>>

(* memcpy(my_buf->buffer, buffer, byte); *)
Copy(k) ==
  /\ \/ /\ Send(k, "copy", "copyRest")
        /\ slot' = [slot EXCEPT ![Dest(k)].buffer[1] = pkt[k]]
     \/ /\ Send(k, "copyRest", "publish")
        /\ slot' = [slot EXCEPT ![Dest(k)].buffer[2] = pkt[k]]
  /\ UNCHANGED <<main, pkt, rpc, byte, half, history, next, starts>>

(* my_buf->i = byte; *)
Publish(k) ==
  /\ Send(k, "publish", "unlock")
  /\ slot' = [slot EXCEPT ![Dest(k)].i = pkt[k]]
  /\ sent' = [sent EXCEPT ![Dest(k)] = Append(@, pkt[k])]
  /\ UNCHANGED <<main, pkt, rpc, byte, half, delivered, next, starts>>

(* my_buf->lock = 0; *)
Unlock(k) ==
  /\ Send(k, "unlock", "read")
  /\ slot' = [slot EXCEPT ![Dest(k)].lock = 0]
  /\ UNCHANGED <<main, pkt, rpc, byte, half, history, next, starts>>
-----------------------------------------------------------------------------
(* pop_recv.                                                                 *)

Recv(k, from, to) == rpc[k] = from /\ rpc' = [rpc EXCEPT ![k] = to]

(* my_buf->status = STATUS_CON; *)
Connect(k) ==
  /\ Recv(k, "connect", "poll")
  /\ slot' = [slot EXCEPT ![k].status = "connected"]
  /\ UNCHANGED <<main, spc, pkt, byte, half, history, next, starts>>

(* The polling loop sees a length, which is then read again.  That the magic *)
(* number is missing is only logged.                                         *)
Poll(k) ==
  /\ Recv(k, "poll", "take")
  /\ slot[k].i # Empty
  /\ UNCHANGED <<slot, main, spc, pkt, byte, half, history, next, starts>>

Take(k) ==
  /\ Recv(k, "take", "write")
  /\ byte' = [byte EXCEPT ![k] = slot[k].i]
  /\ UNCHANGED <<slot, main, spc, pkt, half, history, next, starts>>

(* tun_write(fd, buffer, byte), straight from the slot.  The code does not  *)
(* look at its result: delivered is what was handed to the device, which    *)
(* may yet fail to take it.                                                 *)
Write(k) ==
  /\ \/ /\ Recv(k, "write", "writeRest")
        /\ half' = [half EXCEPT ![k] = slot[k].buffer[1]]
        /\ UNCHANGED delivered
     \/ /\ Recv(k, "writeRest", "clear")
        /\ delivered' = [delivered EXCEPT ![k] = Append(@,
             [length |-> byte[k], first |-> half[k], rest |-> slot[k].buffer[2]])]
        /\ UNCHANGED half
  /\ UNCHANGED <<slot, main, spc, pkt, byte, sent, next, starts>>

(* my_buf->i = 0; *)
Clear(k) ==
  /\ Recv(k, "clear", "poll")
  /\ slot' = [slot EXCEPT ![k].i = Empty]
  /\ UNCHANGED <<main, spc, pkt, byte, half, history, next, starts>>

-----------------------------------------------------------------------------
PopSend(k) == \/ Wild(k) \/ CheckMagic(k) \/ SpinEmpty(k) \/ TestAndSet(k)
              \/ Copy(k) \/ Publish(k) \/ Unlock(k)

PopRecv(k) == Connect(k) \/ Poll(k) \/ Take(k) \/ Write(k) \/ Clear(k)

(* Every packet was sent and received, and all threads only poll. *)
Idle == \A k \in Kernel : /\ main[k] = "up" /\ starts[k] = MaxStarts
                         /\ spc[k] = "read" /\ (next[k] > MaxPackets \/ Octets[k] = {})
                         /\ rpc[k] = "poll" /\ slot[k].i = Empty

Next == \/ \E k \in Kernel : \/ Start(k) \/ Open(k) \/ Kill(k)
                             \/ \E b \in Octets[k] : Read(k, b)
                             \/ PopSend(k) \/ PopRecv(k)
        \/ Idle /\ UNCHANGED vars

Spec == Init /\ [][Next]_vars

(* The same system seen from a moment when every tunnel has been started and *)
(* nothing was sent yet.                                                     *)
InitUp ==
  /\ slot = [d \in Slots |-> [magic |-> d \in Kernel, status |-> "none", lock |-> 0,
                              i |-> Empty, buffer |-> <<Junk, Junk>>]]
  /\ main = [k \in Kernel |-> "up"]
  /\ spc = [k \in Kernel |-> "read"]
  /\ pkt = [k \in Kernel |-> Junk]
  /\ rpc = [k \in Kernel |-> "connect"]
  /\ byte = [k \in Kernel |-> Empty]
  /\ half = [k \in Kernel |-> Junk]
  /\ sent = [d \in Slots |-> <<>>]
  /\ delivered = [k \in Kernel |-> <<>>]
  /\ next = [k \in Kernel |-> 1]
  /\ starts = [k \in Kernel |-> 1]

UpSpec == InitUp /\ [][Next]_vars

(* The threads keep being scheduled, and a tunnel that was killed is started *)
(* again.                                                                    *)
Fairness == \A k \in Kernel :
  WF_vars(Start(k)) /\ WF_vars(Open(k)) /\ WF_vars(PopSend(k)) /\ WF_vars(PopRecv(k))

FairSpec == Spec /\ Fairness
-----------------------------------------------------------------------------
Word == Packet \cup {Junk, Empty}

TypeSlots ==
  slot \in [Slots -> [magic : BOOLEAN, status : {"none", "connected"}, lock : {0, 1},
                    i : Word, buffer : [1..2 -> Word]]]

TypeOK ==
  /\ TypeSlots
  /\ main \in [Kernel -> MainPC]
  /\ spc \in [Kernel -> SendPC]
  /\ pkt \in [Kernel -> Word]
  /\ rpc \in [Kernel -> RecvPC]
  /\ byte \in [Kernel -> Word]
  /\ half \in [Kernel -> Word]
  /\ delivered \in [Kernel -> Seq([length : Word, first : Word, rest : Word])]
  /\ next \in [Kernel -> 1..(MaxPackets + 1)]
  /\ starts \in [Kernel -> 0..MaxStarts]

(* The kernels that hold the lock of slot d. *)
Writers(d) == {k \in Kernel :
  spc[k] \in {"copy", "copyRest", "publish", "unlock"} /\ Dest(k) = d}

(* The sender has a packet for a slot of the area. *)
Busy(k) == spc[k] \in SendPC \ {"off", "read", "wild"}
Addressed == \A k \in Kernel :
  Busy(k) => Dest(k) \in Slots /\ pkt[k].octet \in Octets[k]

(* The lock of a slot admits one writer at a time. *)
OneWriter == \A d \in Slots : \A j, k \in Writers(d) : j = k

(* A writer fills an empty slot: it does not overwrite a packet the          *)
(* destination has not taken yet.                                            *)
NoOverwrite == \A d \in Slots : \A k \in Writers(d) :
  spc[k] # "unlock" => slot[d].i = Empty

(* What a kernel receives is a packet as it was sent, not parts of several. *)
NothingTorn == \A k \in Kernel : \A n \in DOMAIN delivered[k] :
  LET m == delivered[k][n] IN m.length = m.first /\ m.first = m.rest

(* Why nothing is torn if no slot has two senders: threads run only while   *)
(* the process is up; a sender fills an empty slot half by half; a slot     *)
(* with a length holds one whole packet; and the receiver keeps it full     *)
(* while it hands it over.                                                  *)
ThreadsUp == \A k \in Kernel : (rpc[k] # "off" \/ spc[k] # "off") => main[k] = "up"

Filling == \A k \in Kernel :
  /\ spc[k] \in {"lock", "copy", "copyRest", "publish"} => slot[Dest(k)].i = Empty
  /\ spc[k] \in {"copyRest", "publish"} => slot[Dest(k)].buffer[1] = pkt[k]
  /\ spc[k] = "publish" => slot[Dest(k)].buffer[2] = pkt[k]

Whole == \A d \in Slots : slot[d].i # Empty =>
  slot[d].buffer[1] = slot[d].i /\ slot[d].buffer[2] = slot[d].i

Taking == \A k \in Kernel :
  /\ rpc[k] \in {"take", "write", "writeRest", "clear"} => slot[k].i # Empty
  /\ rpc[k] \in {"write", "writeRest", "clear"} => byte[k] = slot[k].i
  /\ rpc[k] = "writeRest" => half[k] = slot[k].i

WholeInv == /\ TypeOK /\ Addressed /\ ThreadsUp
            /\ Filling /\ Whole /\ Taking /\ NothingTorn

(* No two kernels send to the same slot. *)
Exclusive == \A j, k \in Kernel : \A a \in Octets[j], b \in Octets[k] :
  Index(a) = Index(b) => j = k

(* Why the lock admits one writer once all tunnels are up, if none is       *)
(* started again: open_shm runs no more, and who writes holds the lock.     *)
Opened == \A k \in Kernel : main[k] \in {"up", "down"} /\ starts[k] = 1
HoldsLock == \A d \in Slots : \A k \in Writers(d) : slot[d].lock = 1

LockInv == TypeOK /\ Addressed /\ Opened /\ HoldsLock /\ OneWriter

(* Packets of one sender arrive in the order they were sent and only once,  *)
(* whichever tunnels were killed and started again.                         *)
InOrder == \A k \in Kernel : \A m, n \in DOMAIN delivered[k] :
  LET p == delivered[k][m].length
      q == delivered[k][n].length IN m < n /\ p.src = q.src => p.seq < q.seq

(* A kernel receives only packets with its own address. *)
RightAddressee == \A k \in Kernel : \A n \in DOMAIN delivered[k] :
  Index(delivered[k][n].length.octet) = k

(* Why, with any number of senders to a slot: what a slot holds once it was *)
(* opened, what pop_recv has read and what it has handed over is a packet   *)
(* with the slot's address; a sender numbers its packets upwards, so that   *)
(* one that is not published yet is later than all its packets there; and   *)
(* what the slot holds is later than what was handed over, until pop_recv   *)
(* is about to clear it.                                                    *)
PacketsTo(d) == {p \in Packet : Index(p.octet) = d}
Given(d) == {delivered[d][n].length : n \in DOMAIN delivered[d]}
Reading(d) == rpc[d] \in {"write", "writeRest", "clear"}
Held(d) == Given(d) \cup {slot[d].i} \cup (IF Reading(d) THEN {byte[d]} ELSE {})
After(S, p) == \A q \in S : q.src = p.src => q.seq < p.seq
IsOpen(d) == main[d] \in {"magic", "lock", "up"}
Pending(k) == spc[k] \in {"magic", "spin", "lock", "copy", "copyRest", "publish"}

Carried == \A d \in Kernel :
  /\ IsOpen(d) => slot[d].i \in PacketsTo(d) \cup {Empty}
  /\ rpc[d] = "take" => slot[d].i # Empty
  /\ Reading(d) => byte[d] \in PacketsTo(d)
  /\ Given(d) \subseteq PacketsTo(d)

Numbered ==
  /\ \A k \in Kernel : Busy(k) =>
       pkt[k] \in Packet /\ pkt[k].src = k /\ pkt[k].seq < next[k]
  /\ \A d \in Kernel : \A p \in Held(d) : p.src \in Kernel => p.seq < next[p.src]
  /\ \A k \in Kernel : Pending(k) /\ Dest(k) \in Kernel => After(Held(Dest(k)), pkt[k])

NotYetGiven == \A d \in Kernel :
  /\ IsOpen(d) /\ rpc[d] # "clear" /\ slot[d].i # Empty => After(Given(d), slot[d].i)
  /\ rpc[d] \in {"write", "writeRest"} => After(Given(d), byte[d])

OrderInv == /\ TypeOK /\ Addressed /\ ThreadsUp
            /\ Carried /\ Numbered /\ NotYetGiven /\ InOrder

(* A sender that has found the magic number gets its packet through, even   *)
(* if the other tunnel is killed and started again meanwhile; unless a      *)
(* sender was killed, which may leave the lock set for ever.                *)
SenderKilled == \E j \in Kernel :
  Octets[j] # {} /\ (starts[j] > 1 \/ (starts[j] = 1 /\ main[j] = "down"))
SenderGetsThrough == \A k \in Kernel :
  spc[k] = "spin" ~> spc[k] = "read" \/ SenderKilled

(* A packet is on its way from the store of its length until it was handed   *)
(* over, which is before pop_recv clears the length.                         *)
OnItsWay(d) == slot[d].i \in Packet /\ slot[d].i \notin Given(d)

(* Each slot of a kernel is a link that loses only what it holds when        *)
(* open_shm runs again, and hands over nothing twice.                        *)
Abstract == INSTANCE Link WITH
  Endpoint <- Kernel,
  open <- {k \in Kernel : IsOpen(k)},
  known <- {k \in Kernel : slot[k].magic},
  queue <- [d \in Kernel |-> IF OnItsWay(d) THEN <<slot[d].i>> ELSE <<>>],
  received <- [k \in Kernel |-> [n \in DOMAIN delivered[k] |-> delivered[k][n].rest]]
ImplementsLink == Abstract!FairSpec
=============================================================================
