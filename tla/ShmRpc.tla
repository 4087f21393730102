-------------------------------- MODULE ShmRpc --------------------------------
(***************************************************************************)
(* The latency test: client.c asks server.c, through a packet in a shared  *)
(* memory segment, to add two numbers, N times.  The ready bit of ctl is   *)
(* the only order between them; syscall.h has it set by one and cleared by *)
(* the other.  ctl has no other bit, so that an update of it can be one    *)
(* step: what it loads does not matter to what it stores.                  *)
(*                                                                         *)
(* Either program may be killed between any two accesses and started       *)
(* again.  The segment has a fixed key, nobody removes it, and what it     *)
(* holds outlives both.  The time stamps are left out.                     *)
(***************************************************************************)
EXTENDS Integers

CONSTANTS
  N,          \* the calls of a client
  MaxKills    \* a bound on the kills

ASSUME NAssumption == N \in Nat \ {0}
ASSUME MaxKillsAssumption == MaxKills \in Nat

VARIABLES
  exists,     \* whether the segment has been created
  pkt,        \* the packet: three of its registers and the ready bit
  cpc, spc,   \* where client and server are
  i,          \* the client's loop variable
  a, b,       \* the arguments of add_nums
  kills,      \* how many kills there were
  spoiled,    \* history: a kill that the packet does not survive
  served,     \* history: the sums computed
  returned    \* history: the calls that were found right

shared == <<exists, pkt>>
client == <<cpc, i>>
server == <<spc, a, b>>
history == <<kills, spoiled, served, returned>>
vars == <<shared, client, server, history>>

Init == /\ exists = FALSE
        /\ pkt = [rax |-> 0, rdi |-> 0, rsi |-> 0, ready |-> FALSE]
        /\ cpc = "off" /\ spc = "off"
        /\ i = 0 /\ a = 0 /\ b = 0
        /\ kills = 0 /\ spoiled = FALSE /\ served = 0 /\ returned = 0
-----------------------------------------------------------------------------
(* Variants of definitions below, each a bug this code could have had. *)

SetBeforeArguments ==
  /\ cpc = "rdi"
  /\ pkt' = [pkt EXCEPT !.ready = TRUE]
  /\ cpc' = "wait"
  /\ UNCHANGED <<exists, i, server, history>>

SumAfterClear ==
  /\ spc = "loadB"
  /\ b' = pkt.rsi
  /\ pkt' = [pkt EXCEPT !.ready = FALSE]
  /\ spc' = "sum"
  /\ UNCHANGED <<exists, client, a, history>>

ClearForgotten ==
  /\ spc = "clear"
  /\ spc' = "wait"
  /\ UNCHANGED <<shared, client, a, b, history>>
-----------------------------------------------------------------------------
(* client.c *)

(* main: shmget finds the segment, or the client exits. *)
StartClient ==
  /\ cpc \in {"off", "exited"}
  /\ cpc' = IF exists THEN "rax" ELSE "exited"
  /\ i' = 0
  /\ UNCHANGED <<shared, server, history>>

Put(from, to, new) ==
  /\ cpc = from
  /\ pkt' = new
  /\ cpc' = to
  /\ UNCHANGED <<exists, i, server, history>>

PutRax == Put("rax", "rdi", [pkt EXCEPT !.rax = 1])
PutRdi == Put("rdi", "rsi", [pkt EXCEPT !.rdi = 10])
PutRsi == Put("rsi", "set", [pkt EXCEPT !.rsi = 20])
SetReady == Put("set", "wait", [pkt EXCEPT !.ready = TRUE])

Answered ==
  /\ cpc = "wait"
  /\ ~pkt.ready
  /\ cpc' = "check"
  /\ UNCHANGED <<shared, i, server, history>>

Check ==
  /\ cpc = "check"
  /\ IF pkt.rax # 30 THEN cpc' = "failed" /\ UNCHANGED <<i, returned>>
     ELSE /\ i' = i + 1
          /\ returned' = returned + 1
          /\ cpc' = IF i' < N THEN "rax" ELSE "done"
  /\ UNCHANGED <<shared, server, kills, spoiled, served>>
-----------------------------------------------------------------------------
(* server.c *)

(* main: shmget creates the segment, filled with zero, if there is none. *)
StartServer ==
  /\ spc = "off"
  /\ exists' = TRUE
  /\ spc' = "wait"
  /\ UNCHANGED <<pkt, client, a, b, history>>

Asked ==
  /\ spc = "wait"
  /\ pkt.ready
  /\ spc' = "receive"
  /\ UNCHANGED <<shared, client, a, b, history>>

Receive ==
  /\ spc = "receive"
  /\ spc' = IF pkt.rax # 1 THEN "failed" ELSE "loadA"
  /\ UNCHANGED <<shared, client, a, b, history>>

LoadA ==
  /\ spc = "loadA"
  /\ a' = pkt.rdi
  /\ spc' = "loadB"
  /\ UNCHANGED <<shared, client, b, history>>

LoadB ==
  /\ spc = "loadB"
  /\ b' = pkt.rsi
  /\ spc' = "sum"
  /\ UNCHANGED <<shared, client, a, history>>

Sum ==
  /\ spc = "sum"
  /\ pkt' = [pkt EXCEPT !.rax = a + b]
  /\ spc' = "clear"
  /\ served' = served + 1
  /\ UNCHANGED <<exists, client, a, b, kills, spoiled, returned>>

ClearReady ==
  /\ spc = "clear"
  /\ pkt' = [pkt EXCEPT !.ready = FALSE]
  /\ spc' = "wait"
  /\ UNCHANGED <<exists, client, a, b, history>>
-----------------------------------------------------------------------------
(* A kill that somebody who starts anew cannot know of: the client's while  *)
(* its call is with the server, the server's between the sum and the end of *)
(* the call.                                                                *)
KillClient ==
  /\ kills < MaxKills
  /\ cpc \in {"rax", "rdi", "rsi", "set", "wait", "check"}
  /\ cpc' = "off"
  /\ kills' = kills + 1
  /\ spoiled' = (spoiled \/ pkt.ready)
  /\ UNCHANGED <<shared, i, server, served, returned>>

KillServer ==
  /\ kills < MaxKills
  /\ spc \in {"wait", "receive", "loadA", "loadB", "sum", "clear"}
  /\ spc' = "off"
  /\ kills' = kills + 1
  /\ spoiled' = (spoiled \/ spc = "clear")
  /\ UNCHANGED <<shared, client, a, b, served, returned>>

Client == PutRax \/ PutRdi \/ PutRsi \/ SetReady \/ Answered \/ Check
Server == Asked \/ Receive \/ LoadA \/ LoadB \/ Sum \/ ClearReady

Next == StartClient \/ Client \/ StartServer \/ Server \/ KillClient \/ KillServer

Spec == Init /\ [][Next]_vars

(* Both programs are scheduled, and the server is started (again). *)
FairSpec == Spec /\ WF_vars(Client) /\ WF_vars(Server) /\ WF_vars(StartServer)
-----------------------------------------------------------------------------
TypeOK ==
  /\ exists \in BOOLEAN /\ spoiled \in BOOLEAN
  /\ pkt \in [rax : Int, rdi : Int, rsi : Int, ready : BOOLEAN]
  /\ cpc \in {"off", "exited", "rax", "rdi", "rsi", "set", "wait", "check", "failed", "done"}
  /\ spc \in {"off", "wait", "receive", "loadA", "loadB", "sum", "clear", "failed"}
  /\ i \in Nat /\ a \in Int /\ b \in Int
  /\ kills \in Nat /\ served \in Nat /\ returned \in Nat

(* "message send failed" and "message receive failed" are never printed,   *)
(* unless a program was killed where the other cannot know.                *)
MessagesUnderstood == cpc = "failed" \/ spc = "failed" => spoiled

(* Why: while the bit is set the packet is the server's and holds the call *)
(* or, before it clears the bit, the sum; while it is not, the server      *)
(* keeps out of the packet.                                                *)
ClientSide ==
  /\ cpc \in {"rdi", "rsi", "set"} => pkt.rax = 1
  /\ cpc \in {"rsi", "set"} => pkt.rdi = 10
  /\ cpc = "set" => pkt.rsi = 20
  /\ cpc = "check" \/ (cpc = "wait" /\ ~pkt.ready) => pkt.rax = 30
  /\ pkt.ready => cpc = "wait" /\ pkt.rdi = 10 /\ pkt.rsi = 20

ServerSide ==
  /\ spc \in {"receive", "loadA", "loadB", "sum", "clear"} => pkt.ready
  /\ spc \in {"loadB", "sum"} => a = 10
  /\ spc = "sum" => b = 20
  /\ pkt.ready => pkt.rax = IF spc = "clear" THEN 30 ELSE 1

IInv == TypeOK /\ MessagesUnderstood /\ (~spoiled => ClientSide /\ ServerSide)

(* Client and server make remote calls: each is executed once and returns, *)
(* over kills and restarts, until one comes at the wrong time.             *)
Phase == IF spoiled THEN "broken"
         ELSE IF pkt.ready THEN (IF spc = "clear" THEN "served" ELSE "called")
         ELSE IF cpc \in {"wait", "check"} THEN "served" ELSE "idle"

Abstract == INSTANCE RemoteCall WITH
  phase <- Phase,
  served <- IF spoiled THEN 0 ELSE served,
  returned <- IF spoiled THEN 0 ELSE returned
ImplementsRemoteCall == Abstract!FairSpec
=============================================================================
