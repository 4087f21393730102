-------------------------- MODULE BompParallelProofs --------------------------
(***************************************************************************)
(* Proofs about BompParallel for every flat program, any number of         *)
(* workers, both backends and any failures to create a thread.  A program  *)
(* with a region inside a region may lose an update of nested; what holds  *)
(* of those is left to TLC.                                                *)
(***************************************************************************)
EXTENDS BompParallel, FunctionTheorems, FiniteSetTheorems, TLAPS

CONSTANTS SerialStmt, BodyStmt, MemberStmt

ProgramsFlat == Flat(Programs, SerialStmt, BodyStmt, MemberStmt)

-----------------------------------------------------------------------------
(* Sequences of statements, and how many barriers are in them.               *)

(* The innermost body of a stack is replaced. *)
LEMMA Replace ==
  ASSUME NEW X, NEW st \in Seq(Seq(X)), st # <<>>, NEW x \in Seq(X)
  PROVE  LET new == <<x>> \o Tail(st) IN
         /\ new \in Seq(Seq(X))
         /\ Len(new) = Len(st)
         /\ Head(new) = x /\ new[1] = x
         /\ \A i \in 2..Len(st) : new[i] = st[i]
         /\ Tail(new) = Tail(st)
<1> DEFINE Y == Seq(X)
<1>1. st \in Seq(Y) /\ x \in Y
  OBVIOUS
<1> HIDE DEF Y
<1>2. /\ Tail(st) \in Seq(Y) /\ Len(Tail(st)) = Len(st) - 1 /\ Len(st) \in Nat \ {0}
      /\ \A i \in 1..(Len(st) - 1) : Tail(st)[i] = st[i + 1]
  BY <1>1
<1> DEFINE new == <<x>> \o Tail(st)
<1>3. /\ new \in Seq(Y) /\ Len(new) = Len(st) /\ new[1] = x
      /\ \A i \in 2..Len(st) : new[i] = Tail(st)[i - 1]
  BY <1>1, <1>2
<1>4. \A i \in 2..Len(st) : new[i] = st[i]
  BY <1>2, <1>3
<1>5. Head(new) = x
  BY <1>3
<1>6. Tail(new) \in Seq(Y) /\ Len(Tail(new)) = Len(st) - 1
      /\ \A i \in 1..(Len(st) - 1) : Tail(new)[i] = new[i + 1]
  BY <1>2, <1>3
<1>7. \A i \in 1..(Len(st) - 1) : Tail(new)[i] = Tail(st)[i]
  BY <1>2, <1>4, <1>6
<1>8. Tail(new) = Tail(st)
  BY <1>2, <1>6, <1>7, SMTT(30)
<1>9. QED
  BY <1>3, <1>4, <1>5, <1>8 DEF Y

LEMMA OneBody ==
  ASSUME NEW Y, NEW st \in Seq(Y), Len(st) = 1
  PROVE  Tail(st) = <<>>
<1>1. st # <<>>
  OBVIOUS
<1>2. Tail(st) \in Seq(Y) /\ Len(Tail(st)) = Len(st) - 1
  BY <1>1
<1> DEFINE r == Tail(st)
<1>3. r \in Seq(Y) /\ Len(r) = 0
  BY <1>2
<1> HIDE DEF r
<1>4. r = <<>>
  BY <1>3
<1>5. QED
  BY <1>4 DEF r

(* A finite set and its image under an injection are of the same size. *)
LEMMA SameSize ==
  ASSUME NEW S, NEW T, IsFiniteSet(S), NEW f \in [S -> T],
         \A i, j \in S : f[i] = f[j] => i = j, \A y \in T : \E i \in S : f[i] = y
  PROVE  IsFiniteSet(T) /\ Cardinality(T) = Cardinality(S)
<1>1. f \in Bijection(S, T)
  BY Fun_IsBij
<1>2. ExistsBijection(S, T)
  BY <1>1 DEF ExistsBijection
<1>3. QED
  BY <1>2, FS_Bijection

(* The barriers of a sequence of statements. *)
Barriers(s) == {i \in DOMAIN s : s[i].op = "barrier"}
Bars(s) == Cardinality(Barriers(s))

LEMMA BarsFinite ==
  ASSUME NEW X, NEW s \in Seq(X)
  PROVE  IsFiniteSet(Barriers(s)) /\ Barriers(s) \in SUBSET Int /\ Bars(s) \in Nat
<1>1. Barriers(s) \in SUBSET (1..Len(s)) /\ Len(s) \in Int
  BY DEF Barriers
<1>2. IsFiniteSet(Barriers(s))
  BY <1>1, FS_Interval, FS_Subset
<1>3. QED
  BY <1>1, <1>2, FS_CardinalityType DEF Bars

LEMMA BarsOfNothing ==
  Bars(<<>>) = 0
<1>1. Barriers(<<>>) = {}
  BY DEF Barriers
<1>2. QED
  BY <1>1, FS_EmptySet DEF Bars

(* Passing a statement takes away a barrier if it is one. *)
LEMMA BarsOfTail ==
  ASSUME NEW X, NEW s \in Seq(X), s # <<>>
  PROVE  Bars(s) = Bars(Tail(s)) + (IF s[1].op = "barrier" THEN 1 ELSE 0)
<1> DEFINE r == Tail(s)
<1>1. /\ r \in Seq(X) /\ Len(r) = Len(s) - 1 /\ Len(s) \in Nat \ {0}
      /\ \A i \in 1..Len(r) : r[i] = s[i + 1]
  OBVIOUS
<1> DEFINE R == Barriers(s) \ {1}
<1>2. \A i \in Barriers(r) : i + 1 \in R
  BY <1>1 DEF Barriers
<1>3. \A j \in R : j - 1 \in Barriers(r)
  <2> SUFFICES ASSUME NEW j \in R PROVE j - 1 \in Barriers(r)
    OBVIOUS
  <2>1. j \in 2..Len(s) /\ s[j].op = "barrier"
    BY <1>1 DEF Barriers
  <2>2. j - 1 \in 1..Len(r) /\ r[j - 1] = s[j]
    BY <1>1, <2>1
  <2>3. QED
    BY <1>1, <2>1, <2>2 DEF Barriers
<1>4. 1 \in Barriers(s) <=> s[1].op = "barrier"
  BY <1>1 DEF Barriers
<1>5. IsFiniteSet(R) /\ Cardinality(R) = Bars(r) /\ Bars(r) \in Nat
  <2>1. /\ IsFiniteSet(Barriers(r)) /\ Barriers(r) \in SUBSET Int /\ Bars(r) \in Nat
        /\ R \in SUBSET Int
    BY <1>1, BarsFinite
  <2> DEFINE S == Barriers(r)
             f == [i \in S |-> i + 1]
  <2>2. f \in [S -> R] /\ \A i, j \in S : f[i] = f[j] => i = j
    BY <1>2, <2>1
  <2>3. \A y \in R : y - 1 \in S /\ f[y - 1] = y
    BY <1>3, <2>1
  <2>4. (\A y \in R : \E i \in S : f[i] = y) /\ IsFiniteSet(S)
    BY <2>1, <2>3
  <2> HIDE DEF R, S, f
  <2>5. IsFiniteSet(R) /\ Cardinality(R) = Cardinality(S)
    BY <2>2, <2>4, SameSize
  <2>6. QED
    BY <2>1, <2>5 DEF S, Bars
<1>6. CASE s[1].op = "barrier"
  <2>1. Barriers(s) = R \cup {1}
    BY <1>4, <1>6
  <2>2. Bars(s) = Bars(r) + 1
    BY <1>5, <2>1, FS_AddElement DEF Bars
  <2>3. QED
    BY <1>6, <2>2
<1>7. CASE s[1].op # "barrier"
  <2>1. Barriers(s) = R
    BY <1>4, <1>7
  <2>2. Bars(s) = Bars(r)
    BY <1>5, <2>1 DEF Bars
  <2>3. QED
    BY <1>5, <1>7, <2>2
<1>8. QED
  BY <1>6, <1>7

(* Statements of one member have no barrier. *)
LEMMA BarsBehind ==
  ASSUME NEW X, NEW s \in Seq(X), NEW r \in Seq(X), \A i \in DOMAIN s : s[i].op # "barrier"
  PROVE  Bars(s \o r) = Bars(r)
<1> DEFINE c == s \o r
<1>1. /\ c \in Seq(X) /\ Len(c) = Len(s) + Len(r) /\ Len(s) \in Nat /\ Len(r) \in Nat
      /\ \A i \in 1..Len(s) : c[i] = s[i]
      /\ \A i \in 1..Len(r) : c[i + Len(s)] = r[i]
  OBVIOUS
<1>2. \A i \in Barriers(r) : i + Len(s) \in Barriers(c)
  BY <1>1 DEF Barriers
<1>3. \A j \in Barriers(c) : j - Len(s) \in Barriers(r)
  <2> SUFFICES ASSUME NEW j \in Barriers(c) PROVE j - Len(s) \in Barriers(r)
    OBVIOUS
  <2>1. j \in 1..Len(c) /\ c[j].op = "barrier"
    BY <1>1 DEF Barriers
  <2>2. j > Len(s)
    BY <1>1, <2>1
  <2>3. j - Len(s) \in 1..Len(r) /\ c[j] = r[j - Len(s)]
    BY <1>1, <2>1, <2>2
  <2>4. QED
    BY <1>1, <2>1, <2>3 DEF Barriers
<1>4. /\ IsFiniteSet(Barriers(r)) /\ Barriers(r) \in SUBSET Int
      /\ Barriers(c) \in SUBSET Int
  BY <1>1, BarsFinite
<1> DEFINE S == Barriers(r)
           T == Barriers(c)
           f == [i \in S |-> i + Len(s)]
<1>5. f \in [S -> T] /\ \A i, j \in S : f[i] = f[j] => i = j
  BY <1>1, <1>2, <1>4
<1>6. \A y \in T : y - Len(s) \in S /\ f[y - Len(s)] = y
  BY <1>1, <1>3, <1>4
<1>7. (\A y \in T : \E i \in S : f[i] = y) /\ IsFiniteSet(S)
  BY <1>4, <1>6
<1> HIDE DEF S, T, f
<1>8. Cardinality(T) = Cardinality(S)
  BY <1>5, <1>7, SameSize
<1>9. QED
  BY <1>8 DEF Bars, S, T
-----------------------------------------------------------------------------
(* What is invariant.                                                        *)

(* The main thread and the workers created so far. *)
Crew == {Main} \cup (1..workers)

(* The block of the last region t belongs to, and its number in the team. *)
Own(t) == IF t = Main THEN team ELSE work[t].block
Id(t) == IF t = Main THEN 0 ELSE work[t].id

(* t has arrived at the barrier of block b, which is not released yet. *)
WaitsAt(t, b) == /\ pc[t] \in {"barrier", "endBarrier", "exitBarrier"}
                 /\ at[t] = b
                 /\ reg[t] = block[b].cycle

Arrived(b) == {i \in 0..(block[b].max - 1) : \E t \in Tid : WaitsAt(t, b) /\ Id(t) = i}

(* A region is open from GOMP_parallel_start to the release at its end. *)
Forking == pc[Main] \in {"spawn", "inc", "incremented"}
Open == \/ Forking
        \/ /\ Len(stack[Main]) = 2
           /\ \/ pc[Main] \in {"run", "single", "barrier", "end"}
              \/ pc[Main] = "endBarrier" /\ reg[Main] = block[team].cycle

(* What t has still to run of the body, and the barriers in it that the     *)
(* team has still to pass.                                                  *)
Ahead(t) == IF t = Main /\ Forking THEN Stmt(t).body ELSE Todo(t)
Rem(t) == Bars(Ahead(t)) + (IF pc[t] = "barrier" /\ reg[t] = block[team].cycle THEN 1 ELSE 0)

(* The barrier at the end of its region holds w or is still ahead of it. *)
Busy(w) == \/ pc[w] \in {"born", "run", "single", "barrier"}
           \/ pc[w] = "exitBarrier" /\ reg[w] = block[work[w].block].cycle

TableOf == UNION {[0..n -> Int] : n \in Nat}
BlockOf == [max : Nat \ {0}, cycle : {0, 1}, counter : Nat, table : TableOf]
Place == [block : Nat, id : Nat]

Types ==
  /\ status \in {"running", "exited", "crashed"}
  /\ nested \in Int /\ gThreads \in Nat
  /\ numThreads \in Nat \ {0} /\ dynamic \in BOOLEAN /\ mode \in Modes
  /\ workers \in 0..MaxWorkers
  /\ block \in Seq(BlockOf) /\ team = Len(block) /\ gArray \in 0..team
  /\ pc \in [Tid -> PC]
  /\ work \in [Tid -> Place] /\ tls \in [Tid -> Place]
  /\ reg \in [Tid -> Int] /\ at \in [Tid -> Nat]
  /\ \A t \in Tid : work[t].block <= team /\ tls[t].block <= team /\ at[t] <= team

(* Only the main thread has started a region, and none inside a region. *)
Code ==
  /\ stack \in [Tid -> Seq(Seq(BodyStmt \cup SerialStmt))]
  /\ Len(stack[Main]) \in {1, 2}
  /\ Len(stack[Main]) = 1 => stack[Main][1] \in Seq(SerialStmt)
  /\ Len(stack[Main]) = 2 => /\ stack[Main][1] \in Seq(BodyStmt)
                             /\ stack[Main][2] \in Seq(SerialStmt)
  /\ \A w \in 1..workers : Len(stack[w]) = 1 /\ stack[w][1] \in Seq(BodyStmt)

(* The globals of the runtime by where the main thread is. *)
MainPlace ==
  /\ Len(stack[Main]) = 1 =>
       /\ pc[Main] \in {"run", "single", "barrier", "spawn", "inc", "incremented"}
       /\ nested = 0
  /\ Len(stack[Main]) = 2 =>
       /\ pc[Main] \in {"run", "single", "barrier", "end", "endBarrier", "clear",
                        "restore", "dec", "decremented"}
       /\ nested = 1
  /\ Serial => gThreads = 1 /\ gArray = Null
  /\ Forking => /\ stack[Main][1] # <<>>
                /\ stack[Main][1][1].op = "parallel"
                /\ stack[Main][1][1].body \in Seq(BodyStmt)
  /\ Open \/ pc[Main] \in {"endBarrier", "clear"} =>
       team # Null /\ gArray = team /\ gThreads = block[team].max
  /\ pc[Main] \in {"end", "endBarrier"} => stack[Main][1] = <<>>
  /\ pc[Main] \in {"restore", "dec", "decremented"} => gArray = Null /\ team # Null
  /\ pc[Main] \in {"dec", "decremented"} => gThreads = 1
  /\ pc[Main] = "incremented" => reg[Main] = 0
  /\ pc[Main] = "decremented" => reg[Main] = 1
  /\ tls[Main] = IF team = Null THEN NoTls ELSE [block |-> team, id |-> 0]
  /\ pc[Main] \in {"barrier", "endBarrier"} => team # Null /\ at[Main] = team

(* The loop that creates the workers has room for those that are missing. *)
SpawnLoop == pc[Main] = "spawn" =>
  /\ reg[Main] \in 1..block[team].max
  /\ workers + block[team].max - reg[Main] <= MaxWorkers
  /\ \A w \in 1..workers : work[w].block = team => work[w].id < reg[Main]

WorkerPlace ==
  /\ \A w \in Tid : w > workers => pc[w] = "unborn"
  /\ \A w \in 1..workers :
       /\ work[w].block \in 1..team
       /\ work[w].id \in 1..(block[work[w].block].max - 1)
       /\ pc[w] \in {"born", "run", "single", "barrier", "exitBarrier", "exit", "dead"}
       /\ pc[w] \in {"run", "single", "barrier"} =>
            tls[w] = work[w] /\ block[work[w].block].table[work[w].id] = w
       /\ pc[w] \in {"barrier", "exitBarrier"} => at[w] = work[w].block
       /\ pc[w] = "exitBarrier" => stack[w][1] = <<>>

(* The workers of the open region, and no others, are in the body. *)
BusyInOpen == \A w \in 1..workers : Busy(w) <=> Open /\ work[w].block = team

Distinct == \A v, w \in 1..workers :
  v # w /\ work[v].block = work[w].block => work[v].id # work[w].id

TablesFit == \A b \in 1..Len(block) : block[b].table \in [0..(block[b].max - 1) -> Int]

(* counter is the number of members that wait at the barrier. *)
CounterCounts == \A b \in 1..Len(block) :
  block[b].counter = Cardinality(Arrived(b)) /\ block[b].counter < block[b].max

(* The members of the team have the same barriers before them. *)
InStep == Open => \A w \in 1..workers : work[w].block = team => Rem(w) = Rem(Main)

(* ran holds those who have run the body; of a region that is over, all. *)
RanBody ==
  /\ \A b, i : <<b, i>> \in ran => b \in 0..team
  /\ \A w \in 1..workers :
       <<work[w].block, work[w].id>> \in ran <=> pc[w] \in {"exitBarrier", "exit", "dead"}
  /\ Open => (<<team, 0>> \in ran <=> pc[Main] \in {"end", "endBarrier"})
  /\ team # Null /\ ~Open => \A i \in 0..(block[team].max - 1) : <<team, i>> \in ran

Created(b, i) == \E w \in 1..workers : work[w] = [block |-> b, id |-> i]

(* Every member is created, or the process ends. *)
Reliable == mode.backend = "popcorn" \/ ~mode.lossy
WholeTeam == Reliable =>
  /\ pc[Main] = "spawn" => \A i \in 1..(reg[Main] - 1) : Created(team, i)
  /\ pc[Main] \in {"inc", "incremented"} \/ Len(stack[Main]) = 2 =>
       \A i \in 1..(block[team].max - 1) : Created(team, i)

IInv == /\ Types /\ Code /\ MainPlace /\ SpawnLoop /\ WorkerPlace /\ BusyInOpen
        /\ Distinct /\ TablesFit /\ CounterCounts /\ InStep /\ RanBody /\ WholeTeam

-----------------------------------------------------------------------------
(* Members of a team and its barrier.                                        *)

USE MaxWorkersAssumption DEF Main, Tid, Null, Reliable

LEMMA Blocks ==
  ASSUME IInv
  PROVE  /\ team = Len(block) /\ team \in Nat /\ block \in Seq(BlockOf)
         /\ workers \in 0..MaxWorkers /\ 1..workers \subseteq Tid
         /\ \A b \in 1..Len(block) : /\ block[b] \in BlockOf
                                     /\ block[b].max \in Nat \ {0}
                                     /\ block[b].cycle \in {0, 1}
                                     /\ block[b].counter \in Nat
<1>1. team = Len(block) /\ block \in Seq(BlockOf) /\ workers \in 0..MaxWorkers
  BY DEF IInv, Types
<1>2. team \in Nat /\ \A b \in 1..Len(block) : block[b] \in BlockOf
  BY <1>1
<1>3. QED
  BY <1>1, <1>2 DEF BlockOf

LEMMA Workers ==
  ASSUME IInv, NEW w \in 1..workers
  PROVE  /\ w \in Tid /\ w # Main /\ w \in Crew /\ Own(w) = work[w].block
         /\ work[w].block \in 1..Len(block)
         /\ work[w].id \in 1..(block[work[w].block].max - 1)
         /\ pc[w] \in {"born", "run", "single", "barrier", "exitBarrier", "exit", "dead"}
         /\ pc[w] \in {"run", "single", "barrier"} =>
              tls[w] = work[w] /\ block[work[w].block].table[work[w].id] = w
         /\ pc[w] \in {"barrier", "exitBarrier"} => at[w] = work[w].block
         /\ pc[w] = "exitBarrier" => stack[w][1] = <<>>
         /\ Busy(w) <=> Open /\ work[w].block = team
BY Blocks DEF IInv, WorkerPlace, BusyInOpen, Crew, Own

(* Two threads of a team have different numbers, below the size of the team. *)
LEMMA Numbers ==
  ASSUME IInv, NEW t \in Crew, Own(t) # Null
  PROVE  /\ t \in Tid
         /\ Own(t) \in 1..Len(block) /\ Id(t) \in 0..(block[Own(t)].max - 1)
         /\ \A u \in Crew : Own(u) = Own(t) /\ Id(u) = Id(t) => u = t
<1>1. team = Len(block) /\ team \in Nat /\ workers \in 0..MaxWorkers
      /\ \A b \in 1..team : block[b].max \in Nat \ {0}
  BY Blocks
<1>2. /\ t \in Tid
      /\ Own(t) \in 1..Len(block) /\ Id(t) \in 0..(block[Own(t)].max - 1)
  BY <1>1 DEF IInv, WorkerPlace, Crew, Own, Id
<1>3. \A u \in Crew : Own(u) = Own(t) /\ Id(u) = Id(t) => u = t
  BY <1>1 DEF IInv, WorkerPlace, Distinct, Crew, Own, Id
<1>4. QED
  BY <1>2, <1>3

(* Whoever waits at the barrier of a block is of its team. *)
LEMMA WaitersBelong ==
  ASSUME IInv, NEW t \in Tid, pc[t] \in {"barrier", "endBarrier", "exitBarrier"}
  PROVE  t \in Crew /\ at[t] = Own(t) /\ Own(t) \in 1..Len(block)
<1>1. CASE t = Main
  <2>1. pc[Main] \in {"barrier", "endBarrier"}
    BY <1>1 DEF IInv, MainPlace, Code
  <2>2. team # Null /\ at[Main] = team
    BY <2>1 DEF IInv, MainPlace
  <2>3. QED
    BY <1>1, <2>2, Blocks DEF Crew, Own
<1>2. CASE t # Main
  <2>1. t \in 1..workers
    BY <1>2, Blocks DEF IInv, WorkerPlace
  <2>2. at[t] = work[t].block /\ work[t].block \in 1..team
    BY <2>1 DEF IInv, WorkerPlace
  <2>3. QED
    BY <1>2, <2>1, <2>2, Blocks DEF Crew, Own
<1>3. QED
  BY <1>1, <1>2

LEMMA ArrivedFinite ==
  ASSUME IInv, NEW b \in 1..Len(block)
  PROVE  /\ block[b].max \in Nat \ {0}
         /\ IsFiniteSet(Arrived(b)) /\ Arrived(b) \in SUBSET (0..(block[b].max - 1))
         /\ Cardinality(Arrived(b)) \in Nat
         /\ IsFiniteSet(0..(block[b].max - 1))
         /\ Cardinality(0..(block[b].max - 1)) = block[b].max
<1>1. block[b].max \in Nat \ {0} /\ 0 \in Int /\ block[b].max - 1 \in Int
  BY Blocks
<1>2. /\ IsFiniteSet(0..(block[b].max - 1))
      /\ Cardinality(0..(block[b].max - 1)) = block[b].max
  <2> DEFINE n == block[b].max - 1
  <2>1. n \in Int /\ n >= 0 /\ n + 1 = block[b].max
    BY <1>1
  <2> HIDE DEF n
  <2>2. IsFiniteSet(0..n) /\ Cardinality(0..n) = IF 0 > n THEN 0 ELSE n - 0 + 1
    BY <2>1, <1>1, FS_Interval
  <2>3. QED
    BY <2>1, <2>2 DEF n
<1>3. Arrived(b) \in SUBSET (0..(block[b].max - 1))
  BY DEF Arrived
<1>4. QED
  BY <1>1, <1>2, <1>3, FS_Subset, FS_CardinalityType

(* Who waits does not change: neither does the set of the arrived. *)
LEMMA SameArrived ==
  ASSUME NEW b, block'[b].max = block[b].max,
         \A t \in Tid : /\ WaitsAt(t, b)' <=> WaitsAt(t, b)
                        /\ WaitsAt(t, b) => Id(t)' = Id(t)
  PROVE  Arrived(b)' = Arrived(b)
BY DEF Arrived

LEMMA InitIInv == ProgramsFlat /\ Init => IInv
<1> SUFFICES ASSUME ProgramsFlat, Init PROVE IInv
  OBVIOUS
<1>1. PICK p \in Programs : stack = [t \in Tid |-> IF t = Main THEN <<p>> ELSE <<>>]
  BY DEF Init
<1>2. p \in Seq(SerialStmt) /\ p \in Seq(BodyStmt \cup SerialStmt)
  BY <1>1 DEF ProgramsFlat, Flat
<1>3. Types
  BY DEF Init, Types, PC, Place, NoTls
<1>4. Code
  <2> DEFINE Y == Seq(BodyStmt \cup SerialStmt)
  <2>1. p \in Y
    BY <1>2
  <2> HIDE DEF Y
  <2>2. <<p>> \in Seq(Y) /\ <<>> \in Seq(Y) /\ Len(<<p>>) = 1 /\ <<p>>[1] = p
    BY <2>1
  <2>3. stack \in [Tid -> Seq(Y)] /\ stack[Main] = <<p>>
    BY <1>1, <2>2
  <2>4. stack \in [Tid -> Seq(Seq(BodyStmt \cup SerialStmt))] /\ workers = 0
    BY <2>3 DEF Init, Y
  <2>5. QED
    BY <1>2, <2>2, <2>3, <2>4 DEF Code
<1>5. Len(stack[Main]) = 1 /\ ~Open /\ workers = 0 /\ Len(block) = 0
  BY <1>1 DEF Init, Open, Forking
<1>6. MainPlace /\ SpawnLoop
  BY <1>5 DEF Init, MainPlace, SpawnLoop, Serial, Forking
<1>7. WorkerPlace /\ BusyInOpen /\ Distinct /\ TablesFit /\ CounterCounts /\ InStep
  BY <1>5 DEF Init, WorkerPlace, BusyInOpen, Distinct, TablesFit, CounterCounts, InStep
<1>8. RanBody /\ WholeTeam
  BY <1>5 DEF Init, RanBody, WholeTeam
<1>9. QED
  BY <1>3, <1>4, <1>6, <1>7, <1>8 DEF IInv

(* The end of the process leaves everything as it is. *)
LEMMA UnchangedIInv ==
  ASSUME IInv, status' \in {"running", "exited", "crashed"},
         UNCHANGED <<globals, settings, block, workers, pc, stack, work, tls, reg, at, history>>
  PROVE  IInv'
<1> USE DEF globals, settings, history
<1>1. /\ Crew' = Crew /\ Open' = Open /\ Forking' = Forking /\ Serial' = Serial
      /\ \A t : Own(t)' = Own(t) /\ Id(t)' = Id(t) /\ Rem(t)' = Rem(t) /\ Busy(t)' = Busy(t)
      /\ \A b : Arrived(b)' = Arrived(b)
      /\ \A b, i : Created(b, i)' = Created(b, i)
  BY DEF Crew, Open, Forking, Serial, Own, Id, Rem, Ahead, Todo, Stmt, Busy, Arrived, WaitsAt, Created
<1>2. Types'
  BY DEF IInv, Types
<1>3. Code' /\ SpawnLoop' /\ Distinct' /\ TablesFit'
  BY DEF IInv, Code, SpawnLoop, Distinct, TablesFit
<1>4. WorkerPlace'
  BY DEF IInv, WorkerPlace
<1>5. MainPlace' /\ BusyInOpen' /\ CounterCounts' /\ InStep' /\ RanBody' /\ WholeTeam'
  BY <1>1 DEF IInv, MainPlace, BusyInOpen, CounterCounts, InStep, RanBody, WholeTeam
<1>6. QED
  BY <1>2, <1>3, <1>4, <1>5 DEF IInv

-----------------------------------------------------------------------------
(* Steps within the code of a thread.                                        *)

(* The stack of a member of the crew. *)
LEMMA Stacks ==
  ASSUME IInv, NEW t \in Crew
  PROVE  /\ t \in Tid
         /\ stack[t] \in Seq(Seq(BodyStmt \cup SerialStmt)) /\ stack[t] # <<>>
         /\ Len(stack[t]) \in Nat \ {0}
         /\ Todo(t) = stack[t][1]
         /\ Todo(t) \in Seq(BodyStmt \cup SerialStmt)
         /\ IF t = Main /\ Len(stack[Main]) = 1
            THEN Todo(t) \in Seq(SerialStmt) ELSE Todo(t) \in Seq(BodyStmt)
<1> DEFINE Y == Seq(BodyStmt \cup SerialStmt)
<1>1. t \in Tid
  BY Blocks DEF Crew
<1>2. stack[t] \in Seq(Y) /\ Len(stack[t]) \in {1, 2}
  BY <1>1, Blocks DEF IInv, Code, Crew
<1>3. IF t = Main /\ Len(stack[Main]) = 1
      THEN stack[t][1] \in Seq(SerialStmt) ELSE stack[t][1] \in Seq(BodyStmt)
  BY <1>1 DEF IInv, Code, Crew
<1> HIDE DEF Y
<1>4. stack[t] # <<>> /\ Todo(t) = stack[t][1] /\ Todo(t) \in Y
  BY <1>2 DEF Todo
<1>5. QED
  BY <1>1, <1>2, <1>3, <1>4 DEF Y

(* What t has to run is replaced by x. *)
LEMMA Replaced ==
  ASSUME IInv, NEW t \in Crew, NEW x \in Seq(BodyStmt \cup SerialStmt),
         stack' = [stack EXCEPT ![t] = <<x>> \o Tail(@)], workers' = workers,
         IF t = Main /\ Len(stack[Main]) = 1 THEN x \in Seq(SerialStmt) ELSE x \in Seq(BodyStmt)
  PROVE  /\ \A u \in Tid \ {t} : stack'[u] = stack[u]
         /\ stack'[t][1] = x /\ Head(stack'[t]) = x
         /\ Len(stack'[Main]) = Len(stack[Main])
         /\ Code'
<1>1. /\ stack' \in [Tid -> Seq(Seq(BodyStmt \cup SerialStmt))]
      /\ \A u \in Tid \ {t} : stack'[u] = stack[u]
      /\ Len(stack'[t]) = Len(stack[t]) /\ stack'[t][1] = x /\ Head(stack'[t]) = x
      /\ Len(stack[t]) = 2 => stack'[t][2] = stack[t][2]
  <2> DEFINE new == <<x>> \o Tail(stack[t])
             Y == Seq(BodyStmt \cup SerialStmt)
  <2>1. /\ new \in Seq(Y)
        /\ Len(new) = Len(stack[t]) /\ Head(new) = x /\ new[1] = x
        /\ \A i \in 2..Len(stack[t]) : new[i] = stack[t][i]
    BY Stacks, Replace
  <2>2. /\ stack' = [stack EXCEPT ![t] = new] /\ t \in Tid
        /\ stack \in [Tid -> Seq(Y)]
    BY Stacks DEF IInv, Code
  <2> HIDE DEF new, Y
  <2>3. /\ stack' \in [Tid -> Seq(Y)] /\ stack'[t] = new
        /\ \A u \in Tid \ {t} : stack'[u] = stack[u]
    BY <2>1, <2>2
  <2>4. Len(stack[t]) = 2 => stack'[t][2] = stack[t][2]
    BY <2>1, <2>3
  <2>5. QED
    BY <2>1, <2>3, <2>4 DEF Y
<1>2. Code'
  <2>1. \A w \in 1..workers : Len(stack'[w]) = 1 /\ stack'[w][1] \in Seq(BodyStmt)
    <3> SUFFICES ASSUME NEW w \in 1..workers
                 PROVE  Len(stack'[w]) = 1 /\ stack'[w][1] \in Seq(BodyStmt)
      OBVIOUS
    <3>1. w \in Tid /\ w # Main /\ Len(stack[w]) = 1 /\ stack[w][1] \in Seq(BodyStmt)
      BY Blocks, SMTT(30) DEF IInv, Code
    <3>2. QED
      BY <1>1, <3>1
  <2>2. /\ Len(stack'[Main]) = Len(stack[Main])
        /\ Len(stack[Main]) = 1 => stack'[Main][1] \in Seq(SerialStmt)
        /\ Len(stack[Main]) = 2 => /\ stack'[Main][1] \in Seq(BodyStmt)
                                   /\ stack'[Main][2] \in Seq(SerialStmt)
    BY <1>1, Stacks DEF IInv, Code
  <2>3. QED
    BY <1>1, <2>1, <2>2 DEF IInv, Code
<1>3. Len(stack'[Main]) = Len(stack[Main])
  BY <1>1 DEF Crew
<1>4. QED
  BY <1>1, <1>2, <1>3

(* The step replaces what t has to run by x, in a region with the same      *)
(* barriers.                                                                *)
LEMMA QuietIInv ==
  ASSUME IInv, NEW t \in Crew, NEW q \in {"run", "single"},
         NEW x \in Seq(BodyStmt \cup SerialStmt),
         pc[t] \in {"run", "single"} \/ (pc[t] = "barrier" /\ reg[t] # block[at[t]].cycle),
         pc' = [pc EXCEPT ![t] = q],
         stack' = [stack EXCEPT ![t] = <<x>> \o Tail(@)],
         Open => Bars(x) = Bars(Todo(t)),
         IF t = Main /\ Len(stack[Main]) = 1 THEN x \in Seq(SerialStmt) ELSE x \in Seq(BodyStmt),
         numThreads' \in Nat \ {0}, dynamic' \in BOOLEAN,
         UNCHANGED <<status, globals, mode, block, workers, work, tls, reg, at, history>>
  PROVE  IInv'
<1> USE DEF globals, history
<1>1. /\ \A u \in Tid \ {t} : stack'[u] = stack[u]
      /\ stack'[t][1] = x /\ Head(stack'[t]) = x
      /\ Len(stack'[Main]) = Len(stack[Main])
      /\ Code'
  BY Replaced
<1>2. /\ pc' \in [Tid -> PC] /\ pc'[t] = q /\ \A u \in Tid \ {t} : pc'[u] = pc[u]
      /\ t \in Tid /\ Main \in Tid
  BY Stacks, SMTT(30) DEF IInv, Types, PC
<1>3. Types'
  BY <1>2 DEF IInv, Types
<1>5. /\ Len(stack'[Main]) = Len(stack[Main])
      /\ (Open' <=> Open) /\ (Forking' <=> Forking) /\ (Serial' <=> Serial)
      /\ t = Main => ~Forking /\ (Len(stack[Main]) = 1 => Serial)
  <2>1. Len(stack'[Main]) = Len(stack[Main])
    BY <1>1
  <2>2. CASE t = Main
    BY <1>2, <2>1, <2>2 DEF Open, Forking, Serial
  <2>3. CASE t # Main
    BY <1>2, <2>1, <2>3 DEF Open, Forking, Serial
  <2>4. QED
    BY <2>1, <2>2, <2>3
<1>6. MainPlace'
  <2>1. CASE t = Main
    BY <1>1, <1>2, <1>5, <2>1 DEF IInv, MainPlace, Code, Forking, Open
  <2>2. CASE t # Main
    <3>1. stack'[Main] = stack[Main] /\ pc'[Main] = pc[Main]
      BY <1>1, <1>2, <2>2
    <3>2. QED
      BY <1>5, <3>1 DEF IInv, MainPlace
  <2>3. QED
    BY <2>1, <2>2
<1>7. \A u \in Tid : \A b : /\ WaitsAt(u, b)' <=> WaitsAt(u, b)
                            /\ Id(u)' = Id(u)
  BY <1>2 DEF WaitsAt, Id
<1>8. CounterCounts'
  BY <1>7, SameArrived DEF IInv, CounterCounts
<1>9. WorkerPlace' /\ BusyInOpen' /\ RanBody'
  <2>1. ASSUME NEW w \in 1..workers
        PROVE  /\ Busy(w)' = Busy(w)
               /\ pc'[w] \in {"exitBarrier", "exit", "dead"} <=> pc[w] \in {"exitBarrier", "exit", "dead"}
               /\ pc'[w] = "exitBarrier" => pc[w] = "exitBarrier" /\ stack'[w] = stack[w]
               /\ pc'[w] \in {"run", "single", "barrier"} => pc[w] \in {"run", "single", "barrier"}
    BY <1>1, <1>2, Blocks DEF Busy
  <2>2. WorkerPlace'
    <3>1. t # Main => t \in 1..workers
      BY DEF Crew
    <3>2. \A w \in Tid : w > workers => pc'[w] = "unborn"
      BY <1>2, <3>1, Blocks DEF IInv, WorkerPlace
    <3>3. \A w \in 1..workers : pc'[w] \in {"born", "run", "single", "barrier", "exitBarrier", "exit", "dead"}
      BY <1>2, Blocks DEF IInv, WorkerPlace
    <3>4. \A w \in 1..workers : pc'[w] \in {"barrier", "exitBarrier"} => pc[w] \in {"barrier", "exitBarrier"}
      BY <1>2, Blocks DEF IInv, WorkerPlace
    <3>5. QED
      BY <2>1, <3>2, <3>3, <3>4 DEF IInv, WorkerPlace
  <2>3. BusyInOpen'
    BY <1>5, <2>1 DEF IInv, BusyInOpen
  <2>4. RanBody'
    <3>1. Open => (pc'[Main] \in {"end", "endBarrier"} <=> pc[Main] \in {"end", "endBarrier"})
      BY <1>2
    <3>2. QED
      BY <1>5, <2>1, <3>1 DEF IInv, RanBody
  <2>5. QED
    BY <2>2, <2>3, <2>4
<1>10. SpawnLoop' /\ WholeTeam'
  <2>1. /\ pc'[Main] = "spawn" => pc[Main] = "spawn"
        /\ pc'[Main] \in {"inc", "incremented"} => pc[Main] \in {"inc", "incremented"}
    BY <1>2
  <2>2. SpawnLoop'
    BY <2>1 DEF IInv, SpawnLoop
  <2>3. \A b, i : Created(b, i)' = Created(b, i)
    BY DEF Created
  <2>4. WholeTeam'
    BY <1>5, <2>1, <2>3 DEF IInv, WholeTeam
  <2>5. QED
    BY <2>2, <2>4
<1>11. InStep'
  <2>1. ASSUME Open, NEW u \in Crew, Own(u) = team
        PROVE  Rem(u)' = Rem(u)
    <3>1. u \in Tid
      BY Stacks
    <3>2. CASE u = t
      <4>1. Ahead(u)' = x
        BY <1>1, <1>2, <1>5, <3>2 DEF Ahead, Todo
      <4>2. Ahead(u) = Todo(t)
        BY <1>5, <3>2 DEF Ahead
      <4>3. ~(pc[t] = "barrier" /\ reg[t] = block[team].cycle)
        BY <2>1, <3>2, <1>2, WaitersBelong
      <4>4. QED
        BY <1>2, <2>1, <3>2, <4>1, <4>2, <4>3 DEF Rem
    <3>3. CASE u # t
      <4>1. stack'[u] = stack[u] /\ pc'[u] = pc[u]
        BY <1>1, <1>2, <3>1, <3>3
      <4>2. Ahead(u)' = Ahead(u)
        <5>1. Todo(u)' = Todo(u) /\ Stmt(u)' = Stmt(u)
          BY <4>1 DEF Todo, Stmt
        <5>2. (u = Main /\ Forking)' <=> (u = Main /\ Forking)
          BY <1>5
        <5>3. QED
          BY <5>1, <5>2, Zenon DEF Ahead
      <4>3. QED
        BY <4>1, <4>2 DEF Rem
    <3>4. QED
      BY <3>2, <3>3
  <2>2. Main \in Crew /\ Own(Main) = team /\ \A w \in 1..workers : w \in Crew /\ Own(w) = work[w].block
    BY Blocks DEF Crew, Own
  <2>3. QED
    BY <1>5, <2>1, <2>2 DEF IInv, InStep
<1>12. Distinct' /\ TablesFit'
  BY DEF IInv, Distinct, TablesFit
<1>13. QED
  BY <1>1, <1>3, <1>6, <1>8, <1>9, <1>10, <1>11, <1>12 DEF IInv

LEMMA BornBelong ==
  ASSUME IInv, NEW t \in Tid, pc[t] # "unborn"
  PROVE  t \in Crew
<1>1. ~(t > workers)
  BY DEF IInv, WorkerPlace
<1>2. QED
  BY <1>1, Blocks DEF Crew

(* The statement t is about to execute. *)
LEMMA NextStmt ==
  ASSUME ProgramsFlat, IInv, NEW t \in Tid, NEW op, At(t, op)
  PROVE  /\ t \in Crew /\ pc[t] = "run" /\ Stmt(t).op = op
         /\ Tail(Todo(t)) \in Seq(BodyStmt \cup SerialStmt)
         /\ Bars(Todo(t)) = Bars(Tail(Todo(t))) + (IF op = "barrier" THEN 1 ELSE 0)
         /\ Bars(Tail(Todo(t))) \in Nat
         /\ IF t = Main /\ Len(stack[Main]) = 1
            THEN Stmt(t) \in SerialStmt /\ Tail(Todo(t)) \in Seq(SerialStmt)
            ELSE Stmt(t) \in BodyStmt /\ Tail(Todo(t)) \in Seq(BodyStmt)
         /\ op = "parallel" =>
              /\ t = Main /\ Len(stack[Main]) = 1
              /\ Stmt(t).n \in Nat /\ Stmt(t).body \in Seq(BodyStmt)
<1>1. pc[t] = "run" /\ Todo(t) # <<>> /\ Stmt(t).op = op /\ Stmt(t) = Todo(t)[1]
  BY Stacks, BornBelong DEF At, Stmt
<1>2. t \in Crew
  BY <1>1, BornBelong
<1>3. /\ Todo(t) \in Seq(BodyStmt \cup SerialStmt)
      /\ IF t = Main /\ Len(stack[Main]) = 1
         THEN Todo(t) \in Seq(SerialStmt) ELSE Todo(t) \in Seq(BodyStmt)
  BY <1>2, Stacks
<1>4. /\ Tail(Todo(t)) \in Seq(BodyStmt \cup SerialStmt)
      /\ IF t = Main /\ Len(stack[Main]) = 1
         THEN Stmt(t) \in SerialStmt /\ Tail(Todo(t)) \in Seq(SerialStmt)
         ELSE Stmt(t) \in BodyStmt /\ Tail(Todo(t)) \in Seq(BodyStmt)
  BY <1>1, <1>3
<1>5. /\ Bars(Todo(t)) = Bars(Tail(Todo(t))) + (IF op = "barrier" THEN 1 ELSE 0)
      /\ Bars(Tail(Todo(t))) \in Nat
  BY <1>1, <1>3, <1>4, BarsOfTail, BarsFinite
<1>6. op = "parallel" => /\ t = Main /\ Len(stack[Main]) = 1
                         /\ Stmt(t).n \in Nat /\ Stmt(t).body \in Seq(BodyStmt)
  BY <1>1, <1>4 DEF ProgramsFlat, Flat
<1>7. QED
  BY <1>1, <1>2, <1>4, <1>5, <1>6

(* Settings, single constructs and code for one member. *)
LEMMA QuietSteps ==
  ASSUME ProgramsFlat, IInv, NEW t \in Tid,
         \/ SetNumThreads(t) \/ SetDynamic(t) \/ SetNested(t)
         \/ Single(t) \/ EndSingle(t) \/ Only(t) \/ Leave(t, "barrier", "run")
  PROVE  IInv'
<1>1. /\ numThreads \in Nat \ {0} /\ dynamic \in BOOLEAN /\ pc \in [Tid -> PC]
      /\ stack \in [Tid -> Seq(Seq(BodyStmt \cup SerialStmt))]
  BY DEF IInv, Types, Code
<1>2. CASE SetNumThreads(t) \/ SetDynamic(t) \/ SetNested(t) \/ Single(t)
  <2>1. PICK op : op \in {"num_threads", "dynamic", "nested", "single"} /\ At(t, op)
    BY <1>2 DEF SetNumThreads, SetDynamic, SetNested, Single
  <2>2. /\ t \in Crew /\ pc[t] = "run"
        /\ Tail(Todo(t)) \in Seq(BodyStmt \cup SerialStmt)
        /\ Bars(Tail(Todo(t))) = Bars(Todo(t))
        /\ IF t = Main /\ Len(stack[Main]) = 1
           THEN Tail(Todo(t)) \in Seq(SerialStmt) ELSE Tail(Todo(t)) \in Seq(BodyStmt)
    BY <2>1, NextStmt
  <2>3. SetNumThreads(t) => Stmt(t).n \in Int
    BY NextStmt DEF SetNumThreads, ProgramsFlat, Flat
  <2>4. numThreads' \in Nat \ {0} /\ dynamic' \in BOOLEAN
    <3>1. CASE SetNumThreads(t)
      BY <1>1, <2>3, <3>1 DEF SetNumThreads
    <3>2. CASE SetDynamic(t)
      BY <1>1, <3>2 DEF SetDynamic
    <3>3. CASE SetNested(t) \/ Single(t)
      BY <1>1, <3>3 DEF SetNested, Single, settings
    <3>4. QED
      BY <1>2, <3>1, <3>2, <3>3
  <2>5. /\ stack' = [stack EXCEPT ![t] = <<Tail(Todo(t))>> \o Tail(@)]
        /\ UNCHANGED <<status, globals, mode, block, workers, work, tls, reg, at, history>>
    BY <1>2 DEF SetNumThreads, SetDynamic, SetNested, Single, Advance, settings
  <2>6. PICK q \in {"run", "single"} : pc' = [pc EXCEPT ![t] = q]
    BY <1>1, <1>2, <2>2 DEF SetNumThreads, SetDynamic, SetNested, Single, Goto
  <2>7. QED
    BY <2>2, <2>4, <2>5, <2>6, QuietIInv
<1>3. CASE EndSingle(t) \/ Leave(t, "barrier", "run")
  <2>1. /\ pc[t] = "single" \/ (pc[t] = "barrier" /\ reg[t] # block[at[t]].cycle)
        /\ pc' = [pc EXCEPT ![t] = "run"]
        /\ UNCHANGED <<status, globals, settings, block, workers, stack, work, tls, reg, at, history>>
    BY <1>3 DEF EndSingle, Leave, Is, Goto
  <2>2. t \in Crew
    BY <2>1, BornBelong
  <2>3. <<Todo(t)>> \o Tail(stack[t]) = stack[t]
    <3> DEFINE Y == Seq(BodyStmt \cup SerialStmt)
    <3>1. stack[t] \in Seq(Y) /\ stack[t] # <<>> /\ Todo(t) = stack[t][1] /\ Todo(t) \in Y
      BY <2>2, Stacks
    <3> HIDE DEF Y
    <3>2. QED
      BY <3>1
  <2>4. stack' = [stack EXCEPT ![t] = <<Todo(t)>> \o Tail(@)]
    BY <1>1, <2>1, <2>3
  <2>5. /\ Todo(t) \in Seq(BodyStmt \cup SerialStmt)
        /\ IF t = Main /\ Len(stack[Main]) = 1
           THEN Todo(t) \in Seq(SerialStmt) ELSE Todo(t) \in Seq(BodyStmt)
    BY <2>2, Stacks
  <2>6. QED
    BY <1>1, <2>1, <2>2, <2>4, <2>5, QuietIInv DEF settings
<1>4. CASE Only(t)
  <2> DEFINE s == IF ThreadNum(t) = Stmt(t).n THEN Stmt(t).body ELSE <<>>
             x == s \o Tail(Todo(t))
  <2>1. At(t, "only")
    BY <1>4 DEF Only
  <2>2. t \in Crew /\ pc[t] = "run" /\ Stmt(t).op = "only"
    BY <2>1, NextStmt
  <2>3. CASE t = Main /\ Len(stack[Main]) = 1
    <3>1. Tail(Todo(t)) \in Seq(SerialStmt) /\ s \in Seq(SerialStmt)
      BY <2>1, <2>2, <2>3, NextStmt DEF ProgramsFlat, Flat
    <3>2. x \in Seq(SerialStmt) /\ x \in Seq(BodyStmt \cup SerialStmt)
      BY <3>1
    <3>3. ~Open
      BY <2>2, <2>3 DEF Open, Forking
    <3> HIDE DEF x
    <3>4. stack' = [stack EXCEPT ![t] = <<x>> \o Tail(@)] /\ pc' = [pc EXCEPT ![t] = "run"]
      BY <1>1, <1>4, <2>2 DEF Only, x
    <3>5. QED
      BY <1>1, <1>4, <2>2, <2>3, <3>2, <3>3, <3>4, QuietIInv DEF Only, settings
  <2>4. CASE ~(t = Main /\ Len(stack[Main]) = 1)
    <3>1. /\ Tail(Todo(t)) \in Seq(BodyStmt) /\ s \in Seq(MemberStmt)
          /\ Tail(Todo(t)) \in Seq(BodyStmt \cup SerialStmt)
          /\ Bars(Tail(Todo(t))) = Bars(Todo(t))
      BY <2>1, <2>2, <2>4, NextStmt DEF ProgramsFlat, Flat
    <3>2. /\ s \in Seq(BodyStmt) /\ s \in Seq(BodyStmt \cup SerialStmt)
          /\ \A i \in DOMAIN s : s[i].op # "barrier"
      <4> HIDE DEF s
      <4>1. QED
        BY <3>1 DEF ProgramsFlat, Flat
    <3> HIDE DEF s
    <3>3. Bars(x) = Bars(Todo(t)) /\ x \in Seq(BodyStmt) /\ x \in Seq(BodyStmt \cup SerialStmt)
      <4> DEFINE r == Tail(Todo(t))
                 Y == BodyStmt \cup SerialStmt
      <4>1. /\ r \in Seq(BodyStmt) /\ s \in Seq(BodyStmt) /\ r \in Seq(Y) /\ s \in Seq(Y)
            /\ Bars(r) = Bars(Todo(t)) /\ \A i \in DOMAIN s : s[i].op # "barrier"
        BY <3>1, <3>2
      <4> HIDE DEF r, Y
      <4>2. s \o r \in Seq(BodyStmt) /\ s \o r \in Seq(Y)
        BY <4>1
      <4>3. Bars(s \o r) = Bars(r)
        BY <4>1, BarsBehind
      <4>4. QED
        BY <4>1, <4>2, <4>3 DEF r, Y
    <3> HIDE DEF x
    <3>4. stack' = [stack EXCEPT ![t] = <<x>> \o Tail(@)] /\ pc' = [pc EXCEPT ![t] = "run"]
      BY <1>1, <1>4, <2>2 DEF Only, x, s
    <3>5. QED
      BY <1>1, <1>4, <2>2, <2>4, <3>3, <3>4, QuietIInv DEF Only, settings
  <2>5. QED
    BY <2>3, <2>4
<1>5. QED
  BY <1>2, <1>3, <1>4

-----------------------------------------------------------------------------
(* Arriving at a barrier.                                                    *)

(* The update of the block. *)
LEMMA ArriveBlock ==
  ASSUME IInv, NEW t \in Crew, NEW b \in 1..Len(block),
         NEW waiting, NEW released, Arrive(t, b, waiting, released)
  PROVE  LET last == block[b].counter = block[b].max - 1 IN
         /\ block' \in Seq(BlockOf) /\ Len(block') = Len(block)
         /\ \A c \in 1..Len(block) :
              /\ c # b => block'[c] = block[c]
              /\ block'[c].max = block[c].max /\ block'[c].table = block[c].table
         /\ block'[b].counter = IF last THEN 0 ELSE block[b].counter + 1
         /\ block'[b].cycle = IF last THEN 1 - block[b].cycle ELSE block[b].cycle
<1> DEFINE last == block[b].counter = block[b].max - 1
           n == IF last THEN 0 ELSE block[b].counter + 1
           c == IF last THEN 1 - block[b].cycle ELSE block[b].cycle
<1>1. n \in Nat /\ c \in {0, 1} /\ block \in Seq(BlockOf) /\ block[b] \in BlockOf
  BY Blocks
<1>2. block' = [block EXCEPT ![b].counter = n, ![b].cycle = c]
  BY DEF Arrive
<1> HIDE DEF n, c
<1> DEFINE new == [block[b] EXCEPT !.counter = n, !.cycle = c]
<1>3. /\ new \in BlockOf /\ new.max = block[b].max /\ new.table = block[b].table
      /\ new.counter = n /\ new.cycle = c
  BY <1>1 DEF BlockOf
<1>4. block' = [block EXCEPT ![b] = new]
  BY <1>1, <1>2
<1> HIDE DEF new
<1>5. /\ block' \in Seq(BlockOf) /\ Len(block') = Len(block) /\ block'[b] = new
      /\ \A d \in 1..Len(block) : d # b => block'[d] = block[d]
  BY <1>1, <1>3, <1>4
<1>6. QED
  BY <1>3, <1>5 DEF n, c

LEMMA ArriveCounts ==
  ASSUME IInv, NEW t \in Crew, NEW b \in 1..Len(block), Own(t) = b,
         pc[t] \notin {"barrier", "endBarrier", "exitBarrier"},
         NEW waiting \in {"barrier", "endBarrier", "exitBarrier"},
         NEW released \in {"run", "clear", "exit"},
         Arrive(t, b, waiting, released), UNCHANGED <<team, work, workers>>
  PROVE  /\ block[b].counter = block[b].max - 1 =>
              /\ \A u \in Crew : Own(u) = b /\ u # t => WaitsAt(u, b)
              /\ \A i \in 0..(block[b].max - 1) : \E u \in Crew : Own(u) = b /\ Id(u) = i
         /\ CounterCounts'
<1> DEFINE last == block[b].counter = block[b].max - 1
           j == Id(t)
           top == block[b].max - 1
<1>1. /\ t \in Tid /\ pc' = [pc EXCEPT ![t] = IF last THEN released ELSE waiting]
      /\ reg' = [reg EXCEPT ![t] = block[b].cycle] /\ at' = [at EXCEPT ![t] = b]
      /\ pc \in [Tid -> PC] /\ reg \in [Tid -> Int] /\ at \in [Tid -> Nat]
  BY Stacks DEF Arrive, Goto, Keep, IInv, Types
<1>2. /\ Len(block') = Len(block)
      /\ \A c \in 1..Len(block) : /\ c # b => block'[c] = block[c]
                                  /\ block'[c].max = block[c].max
      /\ block'[b].counter = IF last THEN 0 ELSE block[b].counter + 1
      /\ block'[b].cycle = IF last THEN 1 - block[b].cycle ELSE block[b].cycle
  BY ArriveBlock
<1>3. /\ \A u \in Tid \ {t} : pc'[u] = pc[u] /\ reg'[u] = reg[u] /\ at'[u] = at[u]
      /\ pc'[t] = (IF last THEN released ELSE waiting) /\ reg'[t] = block[b].cycle /\ at'[t] = b
  BY <1>1
<1>4. \A u \in Tid : Id(u)' = Id(u)
  BY DEF Id
<1>5. Own(t) # Null /\ j \in 0..top
      /\ \A u \in Crew : Own(u) = b /\ Id(u) = j => u = t
  BY Numbers
<1>6. j \notin Arrived(b)
  <2> SUFFICES ASSUME NEW u \in Tid, WaitsAt(u, b), Id(u) = j PROVE FALSE
    BY DEF Arrived
  <2>1. u \in Crew /\ Own(u) = b
    BY WaitersBelong DEF WaitsAt
  <2>2. u = t
    BY <1>5, <2>1
  <2>3. QED
    BY <2>2 DEF WaitsAt
<1>7. /\ block[b].counter = Cardinality(Arrived(b)) /\ block[b].counter < block[b].max
      /\ IsFiniteSet(Arrived(b)) /\ Arrived(b) \in SUBSET (0..top)
      /\ IsFiniteSet(0..top) /\ Cardinality(0..top) = block[b].max
      /\ block[b].max \in Nat \ {0} /\ block[b].cycle \in {0, 1}
      /\ Cardinality(Arrived(b)) \in Nat
  BY ArrivedFinite, Blocks DEF IInv, CounterCounts
<1>8. Cardinality(Arrived(b) \cup {j}) = block[b].counter + 1
  <2>1. IsFiniteSet(Arrived(b)) /\ block[b].counter = Cardinality(Arrived(b))
    BY <1>7
  <2> HIDE DEF j
  <2>2. Cardinality(Arrived(b) \cup {j}) = Cardinality(Arrived(b)) + 1
    BY <1>6, <2>1, FS_AddElement
  <2>3. QED
    BY <2>1, <2>2
<1>9. last => Arrived(b) \cup {j} = 0..top
  <2>1. Arrived(b) \cup {j} \in SUBSET (0..top)
    BY <1>5, <1>7
  <2>2. last => Cardinality(Arrived(b) \cup {j}) = Cardinality(0..top)
    BY <1>7, <1>8
  <2> HIDE DEF last, top, j
  <2>3. QED
    BY <1>7, <2>1, <2>2, FS_Subset
<1>10. last => \A i \in 0..top : \E u \in Crew : Own(u) = b /\ Id(u) = i /\ (u = t \/ WaitsAt(u, b))
  <2> SUFFICES ASSUME last, NEW i \in 0..top
               PROVE  \E u \in Crew : Own(u) = b /\ Id(u) = i /\ (u = t \/ WaitsAt(u, b))
    OBVIOUS
  <2>1. CASE i = j
    BY <2>1
  <2>2. CASE i # j
    <3>1. i \in Arrived(b)
      BY <1>9, <2>2
    <3>2. PICK u \in Tid : WaitsAt(u, b) /\ Id(u) = i
      BY <3>1 DEF Arrived
    <3>3. u \in Crew /\ Own(u) = b
      BY <3>2, WaitersBelong DEF WaitsAt
    <3>4. QED
      BY <3>2, <3>3
  <2>3. QED
    BY <2>1, <2>2
<1>11. last => \A u \in Crew : Own(u) = b /\ u # t => WaitsAt(u, b)
  <2> SUFFICES ASSUME last, NEW u \in Crew, Own(u) = b, u # t PROVE WaitsAt(u, b)
    OBVIOUS
  <2>1. Id(u) \in 0..top
    BY Numbers
  <2>2. PICK v \in Crew : Own(v) = b /\ Id(v) = Id(u) /\ (v = t \/ WaitsAt(v, b))
    BY <1>10, <2>1
  <2>3. v = u
    BY <2>2, Numbers
  <2>4. QED
    BY <2>2, <2>3
<1>12. ASSUME NEW c \in 1..Len(block), c # b
       PROVE  Arrived(c)' = Arrived(c)
  <2>1. \A u \in Tid : WaitsAt(u, c)' <=> WaitsAt(u, c)
    BY <1>2, <1>3, <1>12 DEF WaitsAt
  <2>2. QED
    BY <1>2, <1>4, <2>1, SameArrived
<1>13. ~last => Arrived(b)' = Arrived(b) \cup {j}
  <2> SUFFICES ASSUME ~last PROVE Arrived(b)' = Arrived(b) \cup {j}
    OBVIOUS
  <2>1. \A u \in Tid : WaitsAt(u, b)' <=> WaitsAt(u, b) \/ u = t
    BY <1>2, <1>3 DEF WaitsAt
  <2>2. block'[b].max - 1 = top
    BY <1>2
  <2>3. Arrived(b)' = {i \in 0..top : \E u \in Tid : WaitsAt(u, b)' /\ Id(u)' = i}
    BY <2>2 DEF Arrived
  <2>4. Arrived(b)' = {i \in 0..top : \E u \in Tid : (WaitsAt(u, b) \/ u = t) /\ Id(u) = i}
    BY <1>4, <2>1, <2>3
  <2>5. QED
    BY <1>1, <1>5, <2>4 DEF Arrived
<1>14. last => Arrived(b)' = {}
  <2> SUFFICES ASSUME last, NEW u \in Tid, WaitsAt(u, b)' PROVE FALSE
    BY DEF Arrived
  <2>1. u # t
    BY <1>3 DEF WaitsAt
  <2>2. pc[u] \in {"barrier", "endBarrier", "exitBarrier"} /\ at[u] = b /\ reg[u] = 1 - block[b].cycle
    BY <1>2, <1>3, <2>1 DEF WaitsAt
  <2>3. WaitsAt(u, b)
    BY <1>11, <2>1, <2>2, WaitersBelong
  <2>4. QED
    BY <1>7, <2>2, <2>3 DEF WaitsAt
<1>15. CounterCounts'
  <2>1. ASSUME NEW c \in 1..Len(block), c # b
        PROVE  /\ block'[c].counter = Cardinality(Arrived(c))'
               /\ block'[c].counter < block'[c].max
    BY <1>2, <1>12, <2>1 DEF IInv, CounterCounts
  <2>2. CASE last
    <3>1. Cardinality(Arrived(b))' = 0
      BY <1>14, <2>2, FS_EmptySet
    <3>2. block'[b].counter = 0 /\ block'[b].max > 0
      BY <1>2, <1>7, <2>2
    <3>3. QED
      BY <1>2, <2>1, <3>1, <3>2 DEF CounterCounts
  <2>3. CASE ~last
    <3>1. Cardinality(Arrived(b))' = block[b].counter + 1
      BY <1>8, <1>13, <2>3
    <3>2. block'[b].counter = block[b].counter + 1 /\ block[b].counter + 1 < block'[b].max
      BY <1>2, <1>7, <2>3
    <3>3. QED
      BY <1>2, <2>1, <3>1, <3>2 DEF CounterCounts
  <2>4. QED
    BY <2>2, <2>3
<1>16. QED
  BY <1>10, <1>11, <1>15

(* What an arrival leaves alone, whatever it releases. *)
LEMMA ArriveFrame ==
  ASSUME IInv, NEW t \in Crew, NEW b \in 1..Len(block), Own(t) = b, pc[t] \in {"run", "end"},
         NEW waiting \in {"barrier", "endBarrier", "exitBarrier"},
         NEW released \in {"run", "clear", "exit"},
         Arrive(t, b, waiting, released),
         Len(stack'[Main]) = Len(stack[Main]),
         UNCHANGED <<status, globals, settings, workers, work, tls, team>>
  PROVE  /\ t \in Tid
         /\ pc'[t] = IF block[b].counter = block[b].max - 1 THEN released ELSE waiting
         /\ reg'[t] = block[b].cycle /\ at'[t] = b
         /\ \A u \in Tid \ {t} : pc'[u] = pc[u] /\ reg'[u] = reg[u] /\ at'[u] = at[u]
         /\ Types' /\ Distinct' /\ TablesFit' /\ SpawnLoop' /\ WholeTeam'
<1> USE DEF globals, settings
<1>1. /\ t \in Tid
      /\ pc' = [pc EXCEPT ![t] = IF block[b].counter = block[b].max - 1
                                 THEN released ELSE waiting]
      /\ reg' = [reg EXCEPT ![t] = block[b].cycle] /\ at' = [at EXCEPT ![t] = b]
      /\ pc \in [Tid -> PC] /\ reg \in [Tid -> Int] /\ at \in [Tid -> Nat]
  BY Stacks DEF Arrive, Goto, Keep, IInv, Types
<1>2. /\ pc'[t] = IF block[b].counter = block[b].max - 1 THEN released ELSE waiting
      /\ reg'[t] = block[b].cycle /\ at'[t] = b
      /\ \A u \in Tid \ {t} : pc'[u] = pc[u] /\ reg'[u] = reg[u] /\ at'[u] = at[u]
  BY <1>1
<1>3. /\ block' \in Seq(BlockOf) /\ Len(block') = Len(block)
      /\ \A c \in 1..Len(block) :
           block'[c].max = block[c].max /\ block'[c].table = block[c].table
  BY ArriveBlock
<1>4. block[b].cycle \in {0, 1} /\ team = Len(block) /\ team \in Nat
  BY Blocks
<1>5. Types'
  <2>1. pc' \in [Tid -> PC] /\ reg' \in [Tid -> Int] /\ at' \in [Tid -> Nat]
    BY <1>1, <1>4 DEF PC
  <2>2. \A u \in Tid : at'[u] <= team
    <3>1. \A u \in Tid : at[u] <= team
      BY DEF IInv, Types
    <3>2. b <= team
      BY <1>4
    <3>3. QED
      BY <1>2, <3>1, <3>2
  <2>3. QED
    BY <1>3, <2>1, <2>2 DEF IInv, Types
<1>6. Distinct' /\ TablesFit'
  BY <1>3 DEF IInv, Distinct, TablesFit
<1>7. pc'[Main] \in {"spawn", "inc", "incremented"} =>
        pc'[Main] = pc[Main] /\ reg'[Main] = reg[Main] /\ team # Null
  BY <1>2 DEF IInv, MainPlace, Open, Forking
<1>8. SpawnLoop'
  <2>1. team # Null => block'[team].max = block[team].max
    BY <1>3, <1>4
  <2>2. QED
    BY <1>7, <2>1 DEF IInv, SpawnLoop
<1>9. WholeTeam'
  <2>1. \A c, i : Created(c, i)' <=> Created(c, i)
    BY DEF Created
  <2>2. Len(stack[Main]) = 2 => team # Null
    BY DEF IInv, MainPlace, Open
  <2>3. team # Null => block'[team].max = block[team].max
    BY <1>3, <1>4
  <2>4. QED
    BY <1>7, <2>1, <2>2, <2>3 DEF IInv, WholeTeam
<1>10. QED
  BY <1>1, <1>2, <1>5, <1>6, <1>8, <1>9

(* Members of the team of an open region. *)
LEMMA TeamInStep ==
  ASSUME IInv, Open
  PROVE  /\ \A u \in Crew : Own(u) = team => Rem(u) = Rem(Main)
         /\ \A u \in Crew : Rem(u) \in Nat /\ Bars(Ahead(u)) \in Nat
         /\ \A u \in Crew : Own(u) = team /\ pc[u] \in {"endBarrier", "exitBarrier"} => Rem(u) = 0
         /\ team \in 1..Len(block) /\ Own(Main) = team /\ Main \in Crew
         /\ gArray = team /\ gThreads = block[team].max
<1>1. \A u \in Crew : Own(u) = team => Rem(u) = Rem(Main)
  BY DEF IInv, InStep, Crew, Own
<1>2. team \in 1..Len(block) /\ Own(Main) = team /\ Main \in Crew
      /\ gArray = team /\ gThreads = block[team].max
  BY Blocks DEF IInv, MainPlace, Crew, Own
<1>3. \A u \in Crew : Rem(u) \in Nat /\ Bars(Ahead(u)) \in Nat
  <2> SUFFICES ASSUME NEW u \in Crew PROVE Rem(u) \in Nat /\ Bars(Ahead(u)) \in Nat
    OBVIOUS
  <2>1. CASE u = Main /\ Forking
    <3>1. stack[Main] # <<>> /\ stack[Main][1] # <<>> /\ Todo(Main) = stack[Main][1]
          /\ stack[Main][1] \in Seq(BodyStmt \cup SerialStmt)
      BY <1>2, <2>1, Stacks DEF IInv, MainPlace
    <3>2. Ahead(u) = stack[Main][1][1].body
      BY <2>1, <3>1 DEF Ahead, Stmt
    <3>3. Ahead(u) \in Seq(BodyStmt)
      BY <2>1, <3>2 DEF IInv, MainPlace
    <3>4. QED
      BY <3>3, BarsFinite DEF Rem
  <2>2. CASE ~(u = Main /\ Forking)
    <3>1. Ahead(u) \in Seq(BodyStmt \cup SerialStmt)
      BY <2>2, Stacks DEF Ahead
    <3>2. QED
      BY <3>1, BarsFinite DEF Rem
  <2>3. QED
    BY <2>1, <2>2
<1>4. ASSUME NEW u \in Crew, Own(u) = team, pc[u] \in {"endBarrier", "exitBarrier"}
      PROVE  Rem(u) = 0
  <2>1. Todo(u) = <<>>
    <3>1. stack[u][1] = <<>>
      BY <1>4 DEF IInv, MainPlace, WorkerPlace, Code, Crew
    <3>2. QED
      BY <3>1, Stacks
  <2>2. Ahead(u) = <<>>
    BY <1>4, <2>1 DEF Ahead, Forking
  <2>3. QED
    BY <1>4, <2>2, BarsOfNothing DEF Rem
<1>5. QED
  BY <1>1, <1>2, <1>3, <1>4

(* GOMP_barrier. *)
LEMMA BarrierIInv ==
  ASSUME ProgramsFlat, IInv, NEW t \in Tid, Barrier(t), tls[t] # NoTls
  PROVE  IInv'
<1> USE DEF globals, settings, history
<1>1. /\ t \in Crew /\ pc[t] = "run"
      /\ Tail(Todo(t)) \in Seq(BodyStmt \cup SerialStmt)
      /\ Bars(Todo(t)) = Bars(Tail(Todo(t))) + 1 /\ Bars(Tail(Todo(t))) \in Nat
      /\ IF t = Main /\ Len(stack[Main]) = 1
         THEN Tail(Todo(t)) \in Seq(SerialStmt) ELSE Tail(Todo(t)) \in Seq(BodyStmt)
  BY NextStmt DEF Barrier
<1>2. /\ Arrive(t, tls[t].block, "barrier", "run")
      /\ stack' = [stack EXCEPT ![t] = <<Tail(Todo(t))>> \o Tail(@)]
      /\ UNCHANGED <<status, globals, settings, workers, work, tls, history>>
  BY DEF Barrier, Advance
<1>3. /\ \A u \in Tid \ {t} : stack'[u] = stack[u]
      /\ stack'[t][1] = Tail(Todo(t)) /\ Head(stack'[t]) = Tail(Todo(t))
      /\ Len(stack'[Main]) = Len(stack[Main])
      /\ Code'
  BY <1>1, <1>2, Replaced
<1>4. /\ Own(t) = tls[t].block /\ Own(t) \in 1..Len(block)
      /\ t # Main => t \in 1..workers /\ Busy(t) /\ Open /\ Own(t) = team
      /\ t = Main => Own(t) = team /\ (Open <=> Len(stack[Main]) = 2)
  <2>1. CASE t = Main
    BY <1>1, <2>1, Blocks DEF IInv, MainPlace, Own, Open, Forking, NoTls
  <2>2. CASE t # Main
    <3>1. t \in 1..workers /\ Busy(t) /\ Own(t) = work[t].block /\ tls[t] = work[t]
      BY <1>1, <2>2 DEF Crew, Own, Busy, IInv, WorkerPlace
    <3>2. QED
      BY <2>2, <3>1, Blocks DEF IInv, BusyInOpen, WorkerPlace
  <2>3. QED
    BY <2>1, <2>2
<1>5. PICK b \in 1..Len(block) : b = Own(t)
  BY <1>4
<1>6. b = team /\ Arrive(t, b, "barrier", "run")
  BY <1>2, <1>4, <1>5
<1> DEFINE last == block[b].counter = block[b].max - 1
<1>7. /\ t \in Tid /\ Main \in Tid
      /\ pc'[t] = IF last THEN "run" ELSE "barrier"
      /\ reg'[t] = block[b].cycle /\ at'[t] = b
      /\ \A u \in Tid \ {t} : pc'[u] = pc[u] /\ reg'[u] = reg[u] /\ at'[u] = at[u]
      /\ Types' /\ Distinct' /\ TablesFit' /\ SpawnLoop' /\ WholeTeam'
  <2>1. Own(t) = b /\ pc[t] \in {"run", "end"} /\ team' = team
    BY <1>1, <1>2, <1>5
  <2>2. "run" \in {"run", "clear", "exit"} /\ "barrier" \in {"barrier", "endBarrier", "exitBarrier"}
    OBVIOUS
  <2>3. Main \in Tid
    OBVIOUS
  <2> HIDE DEF last
  <2>4. QED
    BY <1>1, <1>2, <1>3, <1>6, <2>1, <2>2, <2>3, ArriveFrame DEF last
<1>8. /\ \A c \in 1..Len(block) : /\ c # b => block'[c] = block[c]
                                  /\ block'[c].max = block[c].max
                                  /\ block'[c].table = block[c].table
      /\ block'[b].cycle = IF last THEN 1 - block[b].cycle ELSE block[b].cycle
      /\ block[b].cycle \in {0, 1} /\ team' = team /\ Len(block') = Len(block)
  BY <1>1, <1>2, <1>6, ArriveBlock, Blocks
<1>9. /\ last => \A u \in Crew : Own(u) = b /\ u # t => WaitsAt(u, b)
      /\ CounterCounts'
  BY <1>1, <1>2, <1>5, <1>6, ArriveCounts
<1>10. /\ \A w \in Tid : w > workers => pc'[w] = "unborn"
       /\ \A w \in 1..workers : (pc'[w] \in {"exitBarrier", "exit", "dead"}
                                   <=> pc[w] \in {"exitBarrier", "exit", "dead"})
       /\ (pc'[Main] \in {"end", "endBarrier"} <=> pc[Main] \in {"end", "endBarrier"})
       /\ WorkerPlace'
  <2>1. \A w \in Tid : w > workers => pc'[w] = "unborn"
    <3>1. ~(t > workers)
      BY <1>1, Blocks DEF Crew
    <3>2. QED
      BY <1>7, <3>1 DEF IInv, WorkerPlace
  <2>2. ASSUME NEW w \in 1..workers
        PROVE  /\ work[w].block \in 1..team
               /\ work[w].id \in 1..(block'[work[w].block].max - 1)
               /\ pc'[w] \in {"born", "run", "single", "barrier", "exitBarrier", "exit", "dead"}
               /\ pc'[w] \in {"run", "single", "barrier"} =>
                    tls[w] = work[w] /\ block'[work[w].block].table[work[w].id] = w
               /\ pc'[w] \in {"barrier", "exitBarrier"} => at'[w] = work[w].block
               /\ pc'[w] = "exitBarrier" => stack'[w][1] = <<>>
    <3>1. /\ work[w].block \in 1..Len(block) /\ team = Len(block)
          /\ block'[work[w].block].max = block[work[w].block].max
          /\ block'[work[w].block].table = block[work[w].block].table
      BY <1>8, Workers, Blocks
    <3>2. CASE w = t
      <4>1. pc[w] = "run" /\ work[w].block = b
        BY <1>1, <1>5, <3>2, Workers
      <4>2. pc'[w] \in {"run", "barrier"} /\ at'[w] = b
        BY <1>7, <3>2
      <4>3. QED
        BY <3>1, <4>1, <4>2, Workers
    <3>3. CASE w # t
      <4>1. pc'[w] = pc[w] /\ at'[w] = at[w] /\ stack'[w] = stack[w]
        BY <1>3, <1>7, <3>3, Workers
      <4>2. QED
        BY <3>1, <4>1, Workers
    <3>4. QED
      BY <3>2, <3>3
  <2>3. WorkerPlace'
    BY <1>2, <1>8, <2>1, <2>2 DEF WorkerPlace
  <2>4. QED
    BY <1>1, <1>7, <2>1, <2>3, Blocks
<1>11. CASE ~Open
  <2>1. t = Main /\ Len(stack[Main]) = 1 /\ ~Open' /\ ~Forking' /\ Serial /\ Serial'
    <3>1. t = Main /\ Len(stack[Main]) = 1 /\ Len(stack'[Main]) = 1
      BY <1>3, <1>4, <1>11 DEF IInv, Code
    <3>2. pc'[Main] \in {"run", "barrier"}
      BY <1>7, <3>1
    <3>3. QED
      BY <1>1, <3>1, <3>2 DEF Open, Forking, Serial
  <2>2. MainPlace'
    <3>1. Len(stack'[Main]) = 1 /\ pc'[Main] \in {"run", "barrier"}
      BY <1>3, <1>7, <2>1
    <3>2. /\ nested = 0 /\ nested' = nested /\ gThreads = 1 /\ gArray = Null
          /\ gThreads' = gThreads /\ gArray' = gArray
          /\ tls[Main] = IF team = Null THEN NoTls ELSE [block |-> team, id |-> 0]
      BY <1>2, <2>1 DEF IInv, MainPlace
    <3>3. team' = team /\ team # Null /\ at'[Main] = team /\ tls' = tls
      BY <1>2, <1>6, <1>7, <1>8, <2>1
    <3>4. QED
      BY <2>1, <3>1, <3>2, <3>3 DEF MainPlace
  <2>3. BusyInOpen'
    <3> SUFFICES ASSUME NEW w \in 1..workers PROVE ~Busy(w)'
      BY <1>2, <2>1 DEF BusyInOpen
    <3>1. /\ ~Busy(w) /\ w \in Tid /\ w # t /\ w \in Crew /\ Own(w) = work[w].block
          /\ work[w].block \in 1..Len(block)
      BY <1>11, <2>1, Blocks DEF IInv, BusyInOpen, WorkerPlace, Crew, Own
    <3>2. CASE work[w].block = b /\ last
      BY <1>9, <3>1, <3>2 DEF WaitsAt, Busy, IInv, WorkerPlace
    <3>3. CASE ~(work[w].block = b /\ last)
      <4>1. block'[work[w].block].cycle = block[work[w].block].cycle
        BY <1>8, <3>1, <3>3
      <4>2. QED
        BY <1>2, <1>7, <3>1, <4>1 DEF Busy
    <3>4. QED
      BY <3>2, <3>3
  <2>4. InStep' /\ RanBody'
    <3>1. block'[team].max = block[team].max
      BY <1>6, <1>8
    <3>2. InStep'
      BY <2>1 DEF InStep
    <3>3. RanBody'
      BY <1>2, <1>8, <1>10, <1>11, <2>1, <3>1 DEF IInv, RanBody
    <3>4. QED
      BY <3>2, <3>3
  <2>5. QED
    BY <1>3, <1>7, <1>9, <1>10, <2>2, <2>3, <2>4 DEF IInv
<1>12. CASE Open
  <2>1. /\ \A u \in Crew : Own(u) = team => Rem(u) = Rem(Main)
        /\ \A u \in Crew : Rem(u) \in Nat /\ Bars(Ahead(u)) \in Nat
        /\ \A u \in Crew : Own(u) = team /\ pc[u] \in {"endBarrier", "exitBarrier"} => Rem(u) = 0
        /\ Own(Main) = team /\ Main \in Crew
    BY <1>12, TeamInStep
  <2>2. /\ Ahead(t) = Todo(t) /\ Rem(t) = Bars(Tail(Todo(t))) + 1
        /\ t = Main => ~Forking /\ Len(stack[Main]) = 2
    BY <1>1, <1>4, <1>12 DEF Ahead, Forking, Rem
  <2>3. Rem(Main) = Bars(Tail(Todo(t))) + 1
    BY <1>1, <1>4, <2>1, <2>2
  <2>4. last => \A u \in Crew : Own(u) = team /\ u # t => pc[u] = "barrier" /\ reg[u] = block[team].cycle
    <3> SUFFICES ASSUME last, NEW u \in Crew, Own(u) = team, u # t
                 PROVE  pc[u] = "barrier" /\ reg[u] = block[team].cycle
      OBVIOUS
    <3>1. WaitsAt(u, team)
      BY <1>6, <1>9
    <3>2. Rem(u) # 0
      BY <1>1, <2>1, <2>3
    <3>3. QED
      BY <2>1, <3>1, <3>2 DEF WaitsAt
  <2>5. Open' /\ (Forking' <=> Forking) /\ (Serial' <=> Serial) /\ (t = Main => ~Serial)
    <3>1. CASE t = Main
      <4>1. Len(stack[Main]) = 2 /\ Len(stack'[Main]) = 2 /\ ~Forking
        BY <1>3, <2>2, <3>1
      <4>2. pc'[Main] \in {"run", "barrier"}
        BY <1>7, <3>1
      <4>3. QED
        BY <4>1, <4>2 DEF Open, Forking, Serial
    <3>2. CASE t # Main
      <4>1. pc[Main] # "endBarrier" \/ ~last
        BY <1>4, <2>1, <2>4, <3>2
      <4>2. pc'[Main] = pc[Main] /\ reg'[Main] = reg[Main] /\ stack'[Main] = stack[Main]
        BY <1>3, <1>7, <3>2
      <4>3. (Forking' <=> Forking) /\ (Serial' <=> Serial)
        BY <4>2 DEF Forking, Serial
      <4>4. Open'
        BY <1>2, <1>6, <1>8, <1>12, <4>1, <4>2, <4>3 DEF Open
      <4>5. QED
        BY <3>2, <4>3, <4>4
    <3>3. QED
      BY <3>1, <3>2
  <2>6. MainPlace'
    <3>1. block'[team].max = block[team].max /\ team # Null
      BY <1>6, <1>8
    <3>2. CASE t = Main
      BY <1>2, <1>3, <1>6, <1>7, <1>12, <2>2, <2>5, <3>1, <3>2 DEF IInv, MainPlace, Forking
    <3>3. CASE t # Main
      <4>1. pc'[Main] = pc[Main] /\ reg'[Main] = reg[Main] /\ at'[Main] = at[Main]
            /\ stack'[Main] = stack[Main]
        BY <1>3, <1>7, <3>3
      <4>2. QED
        BY <1>2, <1>12, <2>5, <3>1, <4>1 DEF IInv, MainPlace
    <3>4. QED
      BY <3>2, <3>3
  <2>7. BusyInOpen'
    <3> SUFFICES ASSUME NEW w \in 1..workers PROVE Busy(w)' <=> work[w].block = team
      BY <1>2, <2>5 DEF BusyInOpen
    <3>1. /\ Busy(w) <=> work[w].block = team
          /\ w \in Tid /\ w \in Crew /\ Own(w) = work[w].block
          /\ work[w].block \in 1..Len(block)
      BY <1>12, Blocks DEF IInv, BusyInOpen, WorkerPlace, Crew, Own
    <3>2. CASE w = t
      BY <1>4, <1>7, <3>1, <3>2 DEF Busy
    <3>3. CASE w # t /\ work[w].block = team /\ last
      BY <1>7, <2>4, <3>1, <3>3 DEF Busy
    <3>4. CASE w # t /\ ~(work[w].block = team /\ last)
      <4>1. block'[work[w].block].cycle = block[work[w].block].cycle
        BY <1>6, <1>8, <3>1, <3>4
      <4>2. Busy(w)' <=> Busy(w)
        BY <1>2, <1>7, <3>1, <3>4, <4>1 DEF Busy
      <4>3. QED
        BY <3>1, <4>2
    <3>5. QED
      BY <3>2, <3>3, <3>4
  <2>8. RanBody'
    BY <1>2, <1>8, <1>10, <1>12, <2>5 DEF IInv, RanBody
  <2>9. ASSUME NEW u \in Crew, Own(u) = team
        PROVE  Rem(u)' = IF last THEN Rem(Main) - 1 ELSE Rem(Main)
    <3>1. u \in Tid
      BY Stacks
    <3>2. CASE u = t
      <4>1. Ahead(u)' = Tail(Todo(t))
        <5>1. ~(u = Main /\ Forking')
          BY <2>2, <2>5, <3>2
        <5>2. QED
          BY <1>3, <3>2, <5>1 DEF Ahead, Todo
      <4>2. CASE last
        <5>1. pc'[u] # "barrier"
          BY <1>7, <3>2, <4>2
        <5>2. Rem(u)' = Bars(Tail(Todo(t)))
          BY <1>1, <4>1, <5>1 DEF Rem
        <5>3. QED
          BY <1>1, <2>3, <4>2, <5>2
      <4>3. CASE ~last
        <5>1. pc'[u] = "barrier" /\ reg'[u] = block'[team].cycle
          BY <1>2, <1>6, <1>7, <1>8, <3>2, <4>3
        <5>2. QED
          BY <2>3, <4>1, <4>3, <5>1, <1>2 DEF Rem
      <4>4. QED
        BY <4>2, <4>3
    <3>3. CASE u # t
      <4>1. stack'[u] = stack[u] /\ pc'[u] = pc[u] /\ reg'[u] = reg[u]
        BY <1>3, <1>7, <3>1, <3>3
      <4>2. Ahead(u)' = Ahead(u)
        <5>1. Todo(u)' = Todo(u) /\ Stmt(u)' = Stmt(u)
          BY <4>1 DEF Todo, Stmt
        <5>2. (u = Main /\ Forking)' <=> (u = Main /\ Forking)
          BY <2>5
        <5>3. QED
          BY <5>1, <5>2, Zenon DEF Ahead
      <4>3. Rem(u) = Rem(Main) /\ Bars(Ahead(u)) \in Nat
        BY <2>1, <2>9
      <4>4. CASE last
        <5>1. pc[u] = "barrier" /\ reg[u] = block[team].cycle /\ reg[u] # block'[team].cycle
          BY <1>6, <1>8, <2>4, <2>9, <3>3, <4>4
        <5>2. Rem(u) = Bars(Ahead(u)) + 1
          BY <5>1 DEF Rem
        <5>3. Rem(u)' = Bars(Ahead(u))
          BY <1>2, <4>1, <4>2, <4>3, <5>1 DEF Rem
        <5>4. QED
          BY <4>3, <4>4, <5>2, <5>3
      <4>5. CASE ~last
        <5>1. block'[team].cycle = block[team].cycle
          BY <1>6, <1>8, <4>5
        <5>2. QED
          BY <1>2, <4>1, <4>2, <4>3, <4>5, <5>1 DEF Rem
      <4>6. QED
        BY <4>4, <4>5
    <3>4. QED
      BY <3>2, <3>3
  <2>10. InStep'
    BY <1>2, <2>1, <2>9 DEF InStep, Crew, Own
  <2>11. QED
    BY <1>3, <1>7, <1>9, <1>10, <2>6, <2>7, <2>8, <2>10 DEF IInv
<1>13. QED
  BY <1>11, <1>12

(* The arrival at the barrier at the end of a region: a worker that has run *)
(* the body, or the main thread.                                            *)
LEMMA FinalIInv ==
  ASSUME IInv, Open, NEW t \in Crew, Own(t) = team,
         NEW waiting \in {"barrier", "endBarrier", "exitBarrier"},
         NEW released \in {"run", "clear", "exit"},
         \/ /\ t # Main /\ pc[t] = "run" /\ stack[t][1] = <<>>
            /\ waiting = "exitBarrier" /\ released = "exit"
            /\ ran' = ran \cup {<<work[t].block, work[t].id>>}
         \/ /\ t = Main /\ pc[t] = "end"
            /\ waiting = "endBarrier" /\ released = "clear"
            /\ ran' = ran,
         Arrive(t, team, waiting, released),
         UNCHANGED <<status, globals, settings, workers, stack, work, tls, team>>
  PROVE  IInv'
<1> USE DEF globals, settings
<1>1. /\ \A u \in Crew : Own(u) = team => Rem(u) = Rem(Main)
      /\ \A u \in Crew : Rem(u) \in Nat /\ Bars(Ahead(u)) \in Nat
      /\ team \in 1..Len(block) /\ Own(Main) = team /\ Main \in Crew
  BY TeamInStep
<1>2. PICK b \in 1..Len(block) : b = team
  BY <1>1
<1>3. Own(t) = b /\ Arrive(t, b, waiting, released) /\ pc[t] \in {"run", "end"}
  BY <1>2
<1> DEFINE last == block[b].counter = block[b].max - 1
<1>4. /\ t \in Tid
      /\ pc'[t] = IF last THEN released ELSE waiting
      /\ reg'[t] = block[b].cycle /\ at'[t] = b
      /\ \A u \in Tid \ {t} : pc'[u] = pc[u] /\ reg'[u] = reg[u] /\ at'[u] = at[u]
      /\ Types' /\ Distinct' /\ TablesFit' /\ SpawnLoop' /\ WholeTeam'
  BY <1>3, ArriveFrame
<1>5. /\ \A c \in 1..Len(block) : /\ c # b => block'[c] = block[c]
                                  /\ block'[c].max = block[c].max
                                  /\ block'[c].table = block[c].table
      /\ block'[b].cycle = IF last THEN 1 - block[b].cycle ELSE block[b].cycle
      /\ block[b].cycle \in {0, 1} /\ team' = team /\ Len(block') = Len(block)
  BY <1>3, ArriveBlock, Blocks
<1>6. /\ last => /\ \A u \in Crew : Own(u) = b /\ u # t => WaitsAt(u, b)
                 /\ \A i \in 0..(block[b].max - 1) : \E u \in Crew : Own(u) = b /\ Id(u) = i
      /\ CounterCounts'
  BY <1>3, ArriveCounts
<1>7. t # Main => t \in 1..workers /\ work[t].block = b
  BY <1>3 DEF Crew, Own
<1>8. \A u \in Crew : Own(u) = team => Rem(u) = 0
  <2>1. Todo(t) = <<>> /\ (t = Main => ~Forking)
    BY Stacks DEF IInv, MainPlace, Forking
  <2>2. Rem(t) = 0
    BY <1>3, <2>1, BarsOfNothing DEF Rem, Ahead
  <2>3. QED
    BY <1>1, <2>2
<1>9. last => \A u \in Crew : Own(u) = b /\ u # t =>
                pc[u] = (IF u = Main THEN "endBarrier" ELSE "exitBarrier") /\ reg[u] = block[b].cycle
  <2> SUFFICES ASSUME last, NEW u \in Crew, Own(u) = b, u # t
               PROVE  /\ pc[u] = (IF u = Main THEN "endBarrier" ELSE "exitBarrier")
                      /\ reg[u] = block[b].cycle
    OBVIOUS
  <2>1. pc[u] \in {"barrier", "endBarrier", "exitBarrier"} /\ reg[u] = block[b].cycle
    BY <1>6 DEF WaitsAt
  <2>2. pc[u] # "barrier"
    BY <1>1, <1>2, <1>8, <2>1 DEF Rem
  <2>3. CASE u = Main
    BY <2>1, <2>2, <2>3 DEF IInv, MainPlace, Code
  <2>4. CASE u # Main
    <3>1. u \in 1..workers
      BY <2>4 DEF Crew
    <3>2. QED
      BY <2>1, <2>2, <2>4, <3>1, Workers
  <2>5. QED
    BY <2>3, <2>4
<1>10. /\ \A w \in 1..workers : w # t => pc'[w] = pc[w] /\ reg'[w] = reg[w] /\ at'[w] = at[w]
       /\ t # Main => pc'[Main] = pc[Main] /\ reg'[Main] = reg[Main] /\ at'[Main] = at[Main]
  BY <1>4, Workers
<1>11. /\ (Forking' <=> Forking) /\ (Serial' <=> Serial)
       /\ Len(stack[Main]) = 2 /\ t = Main => pc'[Main] \in {"endBarrier", "clear"}
       /\ t = Main => Len(stack[Main]) = 2
  <2>1. CASE t = Main
    <3>1. pc[Main] = "end" /\ pc'[Main] \in {"endBarrier", "clear"}
      BY <1>4, <2>1
    <3>2. Len(stack[Main]) = 2
      BY <3>1 DEF IInv, MainPlace, Code
    <3>3. QED
      BY <3>1, <3>2 DEF Forking, Serial
  <2>2. CASE t # Main
    BY <1>10, <2>2 DEF Forking, Serial
  <2>3. QED
    BY <2>1, <2>2
<1>12. Open' <=> ~last
  <2>1. CASE t = Main
    <3>1. pc[Main] = "end" /\ pc'[Main] = (IF last THEN "clear" ELSE "endBarrier")
          /\ reg'[Main] = block[b].cycle
      BY <1>4, <2>1
    <3>2. QED
      BY <1>2, <1>5, <1>11, <2>1, <3>1 DEF Open, Forking
  <2>2. CASE t # Main /\ ~last
    <3>1. block'[team'].cycle = block[team].cycle
      BY <1>2, <1>5, <2>2
    <3>2. QED
      BY <1>10, <1>11, <2>2, <3>1 DEF Open
  <2>3. CASE t # Main /\ last
    <3>1. pc[Main] = "endBarrier" /\ reg[Main] = block[b].cycle
      BY <1>1, <1>2, <1>9, <2>3
    <3>2. block'[team'].cycle # block[b].cycle
      BY <1>2, <1>5, <2>3
    <3>3. QED
      BY <1>10, <2>3, <3>1, <3>2 DEF Open, Forking
  <2>4. QED
    BY <2>1, <2>2, <2>3
<1>13. Code' /\ MainPlace'
  <2>1. Code'
    BY DEF IInv, Code
  <2>2. /\ gArray = team /\ gThreads = block'[team].max /\ team # Null
        /\ block'[team].max = block[team].max
    BY <1>2, <1>5, TeamInStep
  <2> DEFINE len == Len(stack[Main])
  <2>3. MainPlace /\ team' = team /\ len \in {1, 2} /\ Len(stack'[Main]) = len
    BY <1>5 DEF IInv, Code
  <2>4. ASSUME t = Main PROVE MainPlace'
    <3>1. pc[Main] = "end" /\ pc'[Main] \in {"endBarrier", "clear"} /\ len = 2
      BY <1>4, <1>11, <2>4
    <3>2. /\ stack[Main][1] = <<>> /\ nested = 1 /\ at'[Main] = team
          /\ tls[Main] = [block |-> team, id |-> 0]
      BY <1>2, <1>4, <2>2, <2>3, <2>4, <3>1 DEF MainPlace
    <3>3. ~Forking' /\ ~Serial'
      BY <2>3, <3>1 DEF Forking, Serial
    <3> HIDE DEF len
    <3>4. QED
      BY <2>2, <2>3, <3>1, <3>2, <3>3 DEF MainPlace
  <2>5. ASSUME t # Main PROVE MainPlace'
    <3>1. pc'[Main] = pc[Main] /\ reg'[Main] = reg[Main] /\ at'[Main] = at[Main]
      BY <1>10, <2>5
    <3> HIDE DEF len
    <3>2. QED
      BY <1>11, <2>2, <2>3, <3>1 DEF MainPlace
  <2>6. QED
    BY <2>1, <2>4, <2>5
<1>14. WorkerPlace'
  <2>1. \A w \in Tid : w > workers => pc'[w] = "unborn"
    <3>1. ~(t > workers)
      BY Blocks DEF Crew
    <3>2. QED
      BY <1>4, <3>1 DEF IInv, WorkerPlace
  <2>2. ASSUME NEW w \in 1..workers
        PROVE  /\ work[w].block \in 1..team
               /\ work[w].id \in 1..(block'[work[w].block].max - 1)
               /\ pc'[w] \in {"born", "run", "single", "barrier", "exitBarrier", "exit", "dead"}
               /\ pc'[w] \in {"run", "single", "barrier"} =>
                    tls[w] = work[w] /\ block'[work[w].block].table[work[w].id] = w
               /\ pc'[w] \in {"barrier", "exitBarrier"} => at'[w] = work[w].block
               /\ pc'[w] = "exitBarrier" => stack'[w][1] = <<>>
    <3>1. /\ work[w].block \in 1..Len(block) /\ team = Len(block)
          /\ block'[work[w].block].max = block[work[w].block].max
          /\ block'[work[w].block].table = block[work[w].block].table
      BY <1>5, Workers, Blocks
    <3>2. CASE w = t
      <4>1. w # Main /\ work[w].block = b
        BY <1>7, <3>2, Workers
      <4>2. pc'[w] \in {"exit", "exitBarrier"} /\ at'[w] = b
        BY <1>4, <3>2, <4>1
      <4>3. stack'[w][1] = <<>>
        BY <3>2, <4>1
      <4>4. QED
        BY <3>1, <4>1, <4>2, <4>3, Workers
    <3>3. CASE w # t
      <4>1. pc'[w] = pc[w] /\ at'[w] = at[w] /\ stack'[w] = stack[w]
        BY <1>10, <3>3
      <4>2. QED
        BY <3>1, <4>1, Workers
    <3>4. QED
      BY <3>2, <3>3
  <2>3. QED
    BY <1>5, <2>1, <2>2 DEF WorkerPlace
<1>15. BusyInOpen'
  <2> SUFFICES ASSUME NEW w \in 1..workers PROVE Busy(w)' <=> ~last /\ work[w].block = team
    BY <1>5, <1>12 DEF BusyInOpen
  <2>1. /\ Busy(w) <=> work[w].block = team
        /\ w \in Crew /\ Own(w) = work[w].block /\ w # Main
        /\ work[w].block \in 1..Len(block)
    BY Workers
  <2>2. CASE w = t
    <3>1. pc'[w] = (IF last THEN "exit" ELSE "exitBarrier") /\ reg'[w] = block[b].cycle
          /\ work[w].block = team
      BY <1>2, <1>4, <1>7, <2>1, <2>2
    <3>2. QED
      BY <1>2, <1>5, <3>1 DEF Busy
  <2>3. CASE w # t /\ work[w].block = team /\ last
    <3>1. pc'[w] = "exitBarrier" /\ reg'[w] = block[b].cycle /\ block'[b].cycle # block[b].cycle
      BY <1>2, <1>5, <1>9, <1>10, <2>1, <2>3
    <3>2. QED
      BY <1>2, <2>3, <3>1 DEF Busy
  <2>4. CASE w # t /\ ~(work[w].block = team /\ last)
    <3>1. block'[work[w].block].cycle = block[work[w].block].cycle
      BY <1>2, <1>5, <2>1, <2>4
    <3>2. Busy(w)' <=> Busy(w)
      BY <1>10, <2>4, <3>1 DEF Busy
    <3>3. QED
      BY <2>1, <2>4, <3>2
  <2>5. QED
    BY <2>2, <2>3, <2>4
<1>16. RanBody'
  <2>1. \A c, i : <<c, i>> \in ran' => c \in 0..team
    BY <1>2, <1>7, Blocks DEF IInv, RanBody
  <2>2. ASSUME NEW w \in 1..workers
        PROVE  <<work[w].block, work[w].id>> \in ran'
                 <=> pc'[w] \in {"exitBarrier", "exit", "dead"}
    <3>1. CASE w = t
      BY <1>4, <3>1, Workers
    <3>2. CASE w # t
      <4>1. <<work[w].block, work[w].id>> \in ran' <=> <<work[w].block, work[w].id>> \in ran
        BY <1>7, <3>2 DEF IInv, Distinct
      <4>2. QED
        BY <1>10, <3>2, <4>1 DEF IInv, RanBody
    <3>3. QED
      BY <3>1, <3>2
  <2>3. <<team, 0>> \in ran' <=> <<team, 0>> \in ran
    BY <1>7, Workers
  <2>4. Open' => (<<team, 0>> \in ran' <=> pc'[Main] \in {"end", "endBarrier"})
    <3>1. <<team, 0>> \in ran <=> pc[Main] \in {"end", "endBarrier"}
      BY DEF IInv, RanBody
    <3>2. CASE t = Main
      BY <1>4, <1>12, <2>3, <3>1, <3>2
    <3>3. CASE t # Main
      BY <1>10, <2>3, <3>1, <3>3
    <3>4. QED
      BY <3>2, <3>3
  <2>5. ASSUME ~Open', NEW i \in 0..(block'[team].max - 1)
        PROVE  <<team, i>> \in ran'
    <3>1. last /\ i \in 0..(block[b].max - 1)
      BY <1>2, <1>5, <1>12, <2>5
    <3>2. PICK u \in Crew : Own(u) = b /\ Id(u) = i
      BY <1>6, <3>1
    <3>3. CASE u = Main
      <4>1. pc[Main] \in {"end", "endBarrier"} /\ i = 0
        BY <1>9, <3>1, <3>2, <3>3 DEF Id
      <4>2. QED
        BY <2>3, <4>1 DEF IInv, RanBody
    <3>4. CASE u # Main
      <4>1. u \in 1..workers /\ work[u].block = team /\ work[u].id = i
        BY <1>2, <3>2, <3>4 DEF Crew, Own, Id
      <4>2. pc'[u] \in {"exitBarrier", "exit", "dead"}
        <5>1. CASE u = t
          BY <1>4, <3>4, <5>1
        <5>2. CASE u # t
          BY <1>9, <1>10, <3>1, <3>2, <3>4, <4>1, <5>2
        <5>3. QED
          BY <5>1, <5>2
      <4>3. QED
        BY <2>2, <4>1, <4>2
    <3>5. QED
      BY <3>3, <3>4
  <2>6. QED
    BY <1>5, <2>1, <2>2, <2>4, <2>5 DEF RanBody
<1>17. InStep'
  <2> SUFFICES ASSUME Open', NEW w \in 1..workers, work[w].block = team
               PROVE  Rem(w)' = Rem(Main)'
    BY <1>5 DEF InStep
  <2>1. ~last /\ block'[team].cycle = block[team].cycle
    BY <1>2, <1>5, <1>12
  <2>2. ASSUME NEW u \in Crew, Own(u) = team
        PROVE  Rem(u)' = 0
    <3>1. Ahead(u)' = Ahead(u)
      <4>1. Todo(u)' = Todo(u) /\ Stmt(u)' = Stmt(u)
        BY DEF Todo, Stmt
      <4>2. (u = Main /\ Forking)' <=> (u = Main /\ Forking)
        BY <1>11
      <4>3. QED
        BY <4>1, <4>2, Zenon DEF Ahead
    <3>2. Rem(u) = 0 /\ Bars(Ahead(u)) \in Nat /\ u \in Tid
      BY <1>1, <1>8, <2>2, Stacks
    <3>3. CASE u = t
      <4>1. pc[u] # "barrier" /\ pc'[u] # "barrier"
        BY <1>3, <1>4, <3>3
      <4>2. QED
        BY <3>1, <3>2, <4>1 DEF Rem
    <3>4. CASE u # t
      BY <1>4, <1>5, <2>1, <3>1, <3>2, <3>4 DEF Rem
    <3>5. QED
      BY <3>3, <3>4
  <2>3. QED
    BY <1>1, <2>2, Workers
<1>18. QED
  BY <1>4, <1>6, <1>13, <1>14, <1>15, <1>16, <1>17 DEF IInv

(* bomp_thread_fn after the body, and bomp_end_processing. *)
LEMMA ArrivalSteps ==
  ASSUME ProgramsFlat, IInv, NEW t \in Tid, Barrier(t) \/ WorkerDone(t) \/ EndBarrier(t)
  PROVE  IInv'
<1> USE DEF globals, settings, history
<1>1. CASE Barrier(t)
  <2>1. CASE tls[t] = NoTls
    BY <1>1, <2>1, UnchangedIInv DEF Barrier, EndProcess
  <2>2. QED
    BY <1>1, <2>1, BarrierIInv
<1>2. CASE WorkerDone(t)
  <2>1. t # Main /\ pc[t] = "run" /\ stack[t] = <<<<>>>> /\ t \in Crew /\ t \in 1..workers
    BY <1>2, BornBelong DEF WorkerDone, Is, Crew
  <2>2. stack[t][1] = <<>> /\ Open /\ work[t].block = team /\ Own(t) = team
    BY <2>1, Workers DEF Busy
  <2>3. QED
    BY <1>2, <2>1, <2>2, FinalIInv DEF WorkerDone
<1>3. CASE EndBarrier(t)
  <2>1. CASE gArray = Null
    BY <1>3, <2>1, UnchangedIInv DEF EndBarrier, EndProcess
  <2>2. CASE gArray # Null
    <3>1. pc[t] = "end"
      BY <1>3 DEF EndBarrier, Is
    <3>2. t = Main /\ t \in Crew
      BY <3>1, BornBelong, Workers DEF Crew
    <3>3. Open
      BY <3>1, <3>2 DEF IInv, MainPlace, Code, Open
    <3>4. Own(t) = team /\ gArray = team
      BY <3>2, <3>3, TeamInStep
    <3>5. QED
      BY <1>3, <2>2, <3>1, <3>2, <3>3, <3>4, FinalIInv DEF EndBarrier
  <2>3. QED
    BY <2>1, <2>2
<1>4. QED
  BY <1>1, <1>2, <1>3

-----------------------------------------------------------------------------
(* The main thread between the start of a region and its end.                *)

LEMMA MainIInv ==
  ASSUME IInv, NEW q \in PC, NEW n \in Int,
         pc' = [pc EXCEPT ![Main] = q], reg' = [reg EXCEPT ![Main] = n],
         q \notin {"spawn", "barrier", "endBarrier", "exitBarrier"},
         pc[Main] \in {"barrier", "endBarrier"} => reg[Main] # block[team].cycle,
         nested' \in Int, gThreads' \in Nat, gArray' \in 0..team,
         \A w \in 1..workers : stack'[w] = stack[w],
         Code', MainPlace',
         Open' <=> Open, Open => Rem(Main)' = Rem(Main),
         IF Open THEN /\ ran' = ran \/ ran' = ran \cup {<<team, 0>>}
                      /\ <<team, 0>> \in ran' <=> q = "end"
                 ELSE ran' = ran,
         Reliable =>
           \/ q \notin {"inc", "incremented"} /\ Len(stack'[Main]) # 2
           \/ \A i \in 1..(block[team].max - 1) : Created(team, i),
         UNCHANGED <<status, settings, block, workers, work, tls, at, team>>
  PROVE  IInv'
<1> USE DEF settings
<1>1. /\ pc'[Main] = q /\ reg'[Main] = n /\ Main \in Tid
      /\ \A u \in Tid \ {Main} : pc'[u] = pc[u] /\ reg'[u] = reg[u]
      /\ \A w \in 1..workers : pc'[w] = pc[w] /\ reg'[w] = reg[w]
  BY Workers DEF IInv, Types
<1>2. Types'
  BY DEF IInv, Types
<1>3. WorkerPlace'
  <2>1. \A w \in Tid : w > workers => pc'[w] = "unborn"
    BY <1>1, Blocks DEF IInv, WorkerPlace
  <2>2. \A w \in 1..workers : pc'[w] = pc[w] /\ stack'[w] = stack[w]
    BY <1>1
  <2>3. QED
    BY <2>1, <2>2 DEF IInv, WorkerPlace
<1>4. BusyInOpen'
  BY <1>1 DEF IInv, BusyInOpen, Busy
<1>5. CounterCounts'
  <2>1. \A u \in Tid : \A b : /\ WaitsAt(u, b)' <=> WaitsAt(u, b)
                              /\ Id(u)' = Id(u)
    <3>1. \A u \in Tid : Id(u)' = Id(u)
      BY DEF Id
    <3>2. \A b : ~WaitsAt(Main, b) /\ ~WaitsAt(Main, b)'
      <4>1. pc[Main] # "exitBarrier"
        BY DEF IInv, MainPlace, Code
      <4>2. pc[Main] \in {"barrier", "endBarrier"} => at[Main] = team
        BY DEF IInv, MainPlace
      <4>3. \A b : ~WaitsAt(Main, b)
        BY <4>1, <4>2 DEF WaitsAt
      <4>4. \A b : ~WaitsAt(Main, b)'
        BY <1>1 DEF WaitsAt
      <4>5. QED
        BY <4>3, <4>4
    <3>3. \A u \in Tid \ {Main} : \A b : WaitsAt(u, b)' <=> WaitsAt(u, b)
      BY <1>1 DEF WaitsAt
    <3>4. QED
      BY <3>1, <3>2, <3>3
  <2>2. QED
    BY <2>1, SameArrived DEF IInv, CounterCounts
<1>6. InStep'
  <2> SUFFICES ASSUME Open, NEW w \in 1..workers, work[w].block = team
               PROVE  Rem(w)' = Rem(Main)'
    BY DEF InStep
  <2>1. Rem(w) = Rem(Main)
    BY DEF IInv, InStep
  <2>2. Ahead(w)' = Ahead(w)
    BY Workers DEF Ahead, Todo
  <2>3. Rem(w)' = Rem(w)
    BY <1>1, <2>2 DEF Rem
  <2>4. QED
    BY <2>1, <2>3
<1>7. RanBody'
  <2>1. \A b, i : <<b, i>> \in ran' => b \in 0..team
    BY Blocks DEF IInv, RanBody
  <2>2. \A w \in 1..workers : <<work[w].block, work[w].id>> \in ran'
                                <=> <<work[w].block, work[w].id>> \in ran
    BY Workers
  <2>3. \A b, i : <<b, i>> \in ran => <<b, i>> \in ran'
    OBVIOUS
  <2>4. QED
    BY <1>1, <2>1, <2>2, <2>3 DEF IInv, RanBody
<1>8. SpawnLoop' /\ Distinct' /\ TablesFit'
  BY <1>1, SMTT(30) DEF IInv, SpawnLoop, Distinct, TablesFit
<1>9. WholeTeam'
  <2>1. \A b, i : Created(b, i)' <=> Created(b, i)
    BY DEF Created
  <2>2. QED
    BY <1>1, <2>1 DEF WholeTeam
<1>10. QED
  BY <1>2, <1>3, <1>4, <1>5, <1>6, <1>7, <1>8, <1>9 DEF IInv

(* Only the main thread is in these places. *)
LEMMA OnlyMain ==
  ASSUME IInv, NEW t \in Tid,
         pc[t] \in {"spawn", "inc", "incremented", "end", "endBarrier", "clear",
                    "restore", "dec", "decremented"}
  PROVE  t = Main
BY BornBelong, Workers DEF Crew

(* The end of the loop that creates the workers, and nested++. *)
LEMMA BeginSteps ==
  ASSUME IInv, NEW t \in Tid, Spawned(t) \/ LoadToInc(t)
  PROVE  IInv'
<1> USE DEF globals, settings, history
<1>1. t = Main /\ Forking /\ Open /\ pc[Main] \in {"spawn", "inc"} /\ Main \in Tid
  BY OnlyMain DEF Spawned, LoadToInc, Is, Open, Forking
<1>2. PICK q \in {"inc", "incremented"}, n \in Int :
        /\ pc' = [pc EXCEPT ![Main] = q] /\ reg' = [reg EXCEPT ![Main] = n]
        /\ q = "incremented" => n = nested
        /\ pc[Main] = "spawn" => n = reg[Main] /\ n = block[team].max
  <2>1. CASE Spawned(t)
    <3>1. tls[Main].block = team /\ reg[Main] = block[team].max /\ reg \in [Tid -> Int]
      BY <1>1, <2>1 DEF Spawned, IInv, MainPlace, Types
    <3>2. pc' = [pc EXCEPT ![Main] = "inc"] /\ reg' = reg
      BY <1>1, <2>1 DEF Spawned, Goto
    <3>3. reg' = [reg EXCEPT ![Main] = reg[Main]] /\ reg[Main] \in Int
      BY <3>1, <3>2
    <3>4. QED
      BY <3>1, <3>2, <3>3
  <2>2. CASE LoadToInc(t)
    BY <1>1, <2>2 DEF LoadToInc, Is, Goto, Keep, IInv, Types
  <2>3. QED
    BY <2>1, <2>2
<1>3. UNCHANGED <<status, globals, settings, block, workers, stack, work, tls, at, history>>
  BY DEF Spawned, LoadToInc
<1>4. pc'[Main] = q /\ reg'[Main] = n /\ Forking' /\ Open' /\ ~Serial'
  BY <1>1, <1>2 DEF IInv, Types, Forking, Open, Serial
<1>5. Code'
  BY <1>3 DEF IInv, Code
<1>6. MainPlace'
  <2>1. Len(stack[Main]) = 1 /\ nested = 0
    BY <1>1 DEF IInv, MainPlace, Code
  <2>2. QED
    BY <1>1, <1>2, <1>3, <1>4, <2>1 DEF IInv, MainPlace
<1>7. Rem(Main)' = Rem(Main)
  <2>1. Ahead(Main)' = Ahead(Main)
    BY <1>1, <1>3, <1>4 DEF Ahead, Stmt, Todo
  <2>2. QED
    BY <1>1, <1>2, <1>4, <2>1 DEF Rem
<1>8. Reliable => \A i \in 1..(block[team].max - 1) : Created(team, i)
  BY <1>1, <1>2 DEF IInv, WholeTeam
<1>9. /\ q \in PC /\ q \notin {"spawn", "barrier", "endBarrier", "exitBarrier", "end"}
      /\ pc[Main] \notin {"barrier", "endBarrier"}
      /\ nested' \in Int /\ gThreads' \in Nat /\ gArray' \in 0..team
  BY <1>1, <1>3 DEF PC, IInv, Types
<1>10. <<team, 0>> \notin ran
  BY <1>1 DEF IInv, RanBody
<1>11. QED
  BY <1>1, <1>2, <1>3, <1>4, <1>5, <1>6, <1>7, <1>8, <1>9, <1>10, MainIInv

(* The store of nested++; the main thread begins the body. *)
LEMMA StoreIncIInv ==
  ASSUME IInv, NEW t \in Tid, StoreInc(t)
  PROVE  IInv'
<1> USE DEF globals, settings, history
<1>1. t = Main /\ Forking /\ Open /\ pc[Main] = "incremented" /\ Main \in Tid /\ Main \in Crew
  BY OnlyMain DEF StoreInc, Is, Open, Forking, Crew
<1>2. /\ Len(stack[Main]) = 1 /\ nested = 0 /\ reg[Main] = 0
      /\ stack[Main][1] # <<>> /\ stack[Main][1][1].body \in Seq(BodyStmt)
      /\ stack[Main][1] \in Seq(SerialStmt)
      /\ gArray = team /\ gThreads = block[team].max /\ team # Null
      /\ tls[Main] = [block |-> team, id |-> 0]
  BY <1>1 DEF IInv, MainPlace, Code
<1>3. Todo(Main) = stack[Main][1] /\ Stmt(Main) = stack[Main][1][1]
  BY <1>1, <1>2, Stacks DEF Stmt
<1> DEFINE x == stack[Main][1][1].body
           y == Tail(stack[Main][1])
           Y == Seq(BodyStmt \cup SerialStmt)
<1>4. x \in Y /\ x \in Seq(BodyStmt) /\ y \in Y /\ y \in Seq(SerialStmt)
  BY <1>2
<1>5. stack' = [stack EXCEPT ![Main] = <<x, y>> \o Tail(@)] /\ stack \in [Tid -> Seq(Y)]
  BY <1>1, <1>3 DEF StoreInc, IInv, Code
<1>6. <<x, y>> \o Tail(stack[Main]) = <<x, y>>
  <2> HIDE DEF x, y, Y
  <2>1. stack[Main] \in Seq(Y) /\ Len(stack[Main]) = 1
    BY <1>1, <1>2, <1>5
  <2>2. Tail(stack[Main]) = <<>>
    BY <2>1, OneBody
  <2>4. <<x, y>> \in Seq(Y) /\ <<x, y>> \o <<>> = <<x, y>>
    BY <1>4
  <2>5. QED
    BY <2>2, <2>4
<1>7. /\ stack' \in [Tid -> Seq(Y)] /\ stack'[Main] = <<x, y>>
      /\ Len(stack'[Main]) = 2 /\ stack'[Main][1] = x /\ stack'[Main][2] = y
      /\ Head(stack'[Main]) = x
      /\ \A w \in 1..workers : stack'[w] = stack[w]
  <2>1. \A w \in 1..workers : w \in Tid /\ w # Main
    BY Workers
  <2> HIDE DEF x, y, Y
  <2>2. stack' = [stack EXCEPT ![Main] = <<x, y>>]
    BY <1>5, <1>6
  <2>3. /\ <<x, y>> \in Seq(Y) /\ Len(<<x, y>>) = 2 /\ Head(<<x, y>>) = x
        /\ <<x, y>>[1] = x /\ <<x, y>>[2] = y
    BY <1>4
  <2> DEFINE z == <<x, y>>
  <2> HIDE DEF z
  <2>4. stack' \in [Tid -> Seq(Y)] /\ stack'[Main] = z
        /\ \A w \in 1..workers : stack'[w] = stack[w]
    <3>1. z \in Seq(Y) /\ stack' = [stack EXCEPT ![Main] = z]
      BY <2>2, <2>3 DEF z
    <3>2. QED
      BY <1>1, <1>5, <2>1, <3>1
  <2>5. QED
    BY <2>3, <2>4 DEF z
<1> HIDE DEF x, y
<1>8. /\ pc' = [pc EXCEPT ![Main] = "run"] /\ nested' = 1 /\ reg' = reg
      /\ UNCHANGED <<status, gThreads, gArray, settings, block, workers, work, tls, at, history>>
  BY <1>1, <1>2 DEF StoreInc, Goto
<1>9. pc'[Main] = "run" /\ reg' = [reg EXCEPT ![Main] = reg[Main]] /\ reg[Main] \in Int
  BY <1>1, <1>8 DEF IInv, Types
<1>10. ~Forking' /\ Open' /\ ~Serial'
  BY <1>7, <1>9 DEF Forking, Open, Serial
<1>11. Code'
  BY <1>4, <1>7, <1>8 DEF IInv, Code
<1>12. MainPlace'
  BY <1>2, <1>7, <1>8, <1>9, <1>10 DEF MainPlace
<1>13. Rem(Main)' = Rem(Main)
  <2>1. Ahead(Main) = x
    BY <1>1, <1>3 DEF Ahead, x
  <2>2. Ahead(Main)' = x
    BY <1>7, <1>10 DEF Ahead, Todo
  <2>3. QED
    BY <1>1, <1>9, <2>1, <2>2 DEF Rem
<1>14. Reliable => \A i \in 1..(block[team].max - 1) : Created(team, i)
  BY <1>1 DEF IInv, WholeTeam
<1>15. "run" \in PC /\ nested' \in Int /\ gThreads' \in Nat /\ gArray' \in 0..team
  BY <1>8 DEF PC, IInv, Types
<1>16. <<team, 0>> \notin ran
  BY <1>1 DEF IInv, RanBody
<1>17. QED
  BY <1>1, <1>7, <1>8, <1>9, <1>10, <1>11, <1>12, <1>13, <1>14, <1>15, <1>16, MainIInv

(* GOMP_parallel_end up to the barrier: the body is over. *)
LEMMA EndRegionIInv ==
  ASSUME IInv, NEW t \in Tid, EndRegion(t)
  PROVE  IInv'
<1> USE DEF globals, settings, history
<1>1. t = Main /\ Main \in Tid /\ Main \in Crew /\ pc[Main] = "run" /\ Len(stack[Main]) = 2
  <2>1. t \in Crew /\ pc[t] = "run" /\ Len(stack[t]) > 1
    BY BornBelong DEF EndRegion, Is
  <2>2. ASSUME t # Main PROVE FALSE
    <3>1. t \in 1..workers
      BY <2>1, <2>2 DEF Crew
    <3>2. Len(stack[t]) = 1
      BY <3>1 DEF IInv, Code
    <3>3. QED
      BY <2>1, <3>2
  <2>3. Len(stack[Main]) \in {1, 2} /\ Main \in Crew /\ Main \in Tid
    BY Blocks DEF IInv, Code, Crew
  <2>4. t = Main
    BY <2>2
  <2>5. pc[Main] = "run" /\ Len(stack[Main]) > 1
    BY <2>1, <2>4
  <2>6. Len(stack[Main]) = 2
    <3> DEFINE n == Len(stack[Main])
    <3>1. n \in {1, 2} /\ n > 1
      BY <2>3, <2>5
    <3> HIDE DEF n
    <3>2. n = 2
      BY <3>1
    <3>3. QED
      BY <3>2 DEF n
  <2>7. QED
    BY <2>3, <2>4, <2>5, <2>6
<1>2. Open /\ nested = 1 /\ ~Forking /\ team # Null /\ gArray = team
      /\ gThreads = block[team].max /\ tls[Main] = [block |-> team, id |-> 0]
  BY <1>1 DEF Open, Forking, IInv, MainPlace
<1>3. /\ pc' = [pc EXCEPT ![Main] = "end"] /\ ran' = ran \cup {<<team, 0>>}
      /\ UNCHANGED <<status, globals, settings, block, workers, stack, work, tls, reg, at, team>>
      /\ Todo(Main) = <<>>
  BY <1>1, <1>2 DEF EndRegion, Goto
<1>4. stack[Main][1] = <<>>
  BY <1>1, <1>3, Stacks
<1>5. pc'[Main] = "end" /\ reg' = [reg EXCEPT ![Main] = reg[Main]] /\ reg[Main] \in Int
  BY <1>1, <1>3 DEF IInv, Types
<1>6. Open' /\ ~Forking' /\ ~Serial'
  BY <1>1, <1>3, <1>5 DEF Open, Forking, Serial
<1>7. Code'
  BY <1>3 DEF IInv, Code
<1>8. MainPlace'
  <2> DEFINE len == Len(stack[Main])
  <2>1. Len(stack'[Main]) = len /\ len = 2
    BY <1>1, <1>3
  <2> HIDE DEF len
  <2>2. QED
    BY <1>2, <1>3, <1>4, <1>5, <1>6, <2>1 DEF MainPlace
<1>9. Rem(Main)' = Rem(Main)
  <2>1. Ahead(Main)' = Ahead(Main)
    BY <1>2, <1>3, <1>6 DEF Ahead, Todo
  <2>2. QED
    BY <1>1, <1>5, <2>1 DEF Rem
<1>10. Reliable => \A i \in 1..(block[team].max - 1) : Created(team, i)
  BY <1>1 DEF IInv, WholeTeam
<1>11. /\ "end" \in PC /\ nested' \in Int /\ gThreads' \in Nat /\ gArray' \in 0..team
       /\ \A w \in 1..workers : stack'[w] = stack[w]
  BY <1>3 DEF PC, IInv, Types
<1>12. QED
  BY <1>1, <1>2, <1>3, <1>5, <1>6, <1>7, <1>8, <1>9, <1>10, <1>11, MainIInv

(* bomp_end_processing after the barrier, up to the load of nested--. *)
LEMMA EndSteps ==
  ASSUME IInv, NEW t \in Tid,
         \/ Leave(t, "endBarrier", "clear") \/ Clear(t) \/ Restore(t) \/ LoadToDec(t)
  PROVE  IInv'
<1> USE DEF globals, settings, history
<1>1. /\ t = Main /\ Main \in Tid
      /\ \/ pc[Main] = "endBarrier" /\ reg[Main] # block[at[Main]].cycle
         \/ pc[Main] \in {"clear", "restore", "dec"}
  BY OnlyMain DEF Leave, Clear, Restore, LoadToDec, Is
<1>2. /\ Len(stack[Main]) = 2 /\ nested = 1 /\ at[Main] \in Nat
      /\ pc[Main] = "endBarrier" => at[Main] = team
  BY <1>1 DEF IInv, MainPlace, Code, Types
<1>3. ~Open /\ ~Forking /\ ~Serial
  BY <1>1, <1>2 DEF Open, Forking, Serial
<1>4. PICK q \in {"clear", "restore", "dec", "decremented"}, n \in Int :
        /\ pc' = [pc EXCEPT ![Main] = q] /\ reg' = [reg EXCEPT ![Main] = n]
        /\ q = "clear" => pc[Main] = "endBarrier" /\ gArray' = gArray /\ gThreads' = gThreads
        /\ q = "restore" => pc[Main] = "clear" /\ gArray' = Null /\ gThreads' = gThreads
        /\ q = "dec" => pc[Main] = "restore" /\ gArray' = gArray /\ gThreads' = 1
        /\ q = "decremented" =>
             pc[Main] = "dec" /\ gArray' = gArray /\ gThreads' = gThreads /\ n = nested
  <2>1. CASE LoadToDec(t)
    <3>1. pc[Main] = "dec" /\ pc' = [pc EXCEPT ![Main] = "decremented"]
          /\ reg' = [reg EXCEPT ![Main] = nested] /\ gArray' = gArray /\ gThreads' = gThreads
      BY <1>1, <2>1 DEF LoadToDec, Is, Goto, Keep
    <3>2. nested \in Int
      BY <1>2
    <3>3. QED
      BY <3>1, <3>2
  <2>2. CASE Leave(t, "endBarrier", "clear") \/ Clear(t) \/ Restore(t)
    <3>1. reg' = [reg EXCEPT ![Main] = reg[Main]] /\ reg[Main] \in Int
      BY <1>1, <2>2 DEF Leave, Clear, Restore, IInv, Types
    <3>2. CASE Leave(t, "endBarrier", "clear")
      BY <1>1, <3>1, <3>2 DEF Leave, Is, Goto
    <3>3. CASE Clear(t)
      BY <1>1, <3>1, <3>3 DEF Clear, Is, Goto
    <3>4. CASE Restore(t)
      BY <1>1, <3>1, <3>4 DEF Restore, Is, Goto
    <3>5. QED
      BY <2>2, <3>2, <3>3, <3>4
  <2>3. QED
    BY <2>1, <2>2
<1>5. UNCHANGED <<status, nested, settings, block, workers, stack, work, tls, at, history>>
  BY DEF Leave, Clear, Restore, LoadToDec
<1>6. pc'[Main] = q /\ reg'[Main] = n
  BY <1>1, <1>4 DEF IInv, Types
<1>7. ~Open' /\ ~Forking' /\ ~Serial'
  BY <1>2, <1>5, <1>6 DEF Open, Forking, Serial
<1>8. Code'
  BY <1>5 DEF IInv, Code
<1>9. MainPlace'
  <2> DEFINE len == Len(stack[Main])
  <2>1. Len(stack'[Main]) = len /\ len = 2 /\ MainPlace
    BY <1>2, <1>5 DEF IInv
  <2>2. /\ team # Null
        /\ pc[Main] \in {"endBarrier", "clear"} => gArray = team /\ gThreads = block[team].max
        /\ pc[Main] \in {"restore", "dec"} => gArray = Null
        /\ pc[Main] = "dec" => gThreads = 1
        /\ tls[Main] = [block |-> team, id |-> 0]
    BY <1>1, <2>1 DEF MainPlace
  <2> HIDE DEF len
  <2>3. QED
    BY <1>2, <1>4, <1>5, <1>6, <1>7, <2>1, <2>2 DEF MainPlace
<1>10. Reliable => \A i \in 1..(block[team].max - 1) : Created(team, i)
  BY <1>2 DEF IInv, WholeTeam
<1>11. /\ q \in PC /\ nested' \in Int /\ gThreads' \in Nat /\ gArray' \in 0..team
       /\ \A w \in 1..workers : stack'[w] = stack[w]
  <2>1. gThreads \in Nat /\ gArray \in 0..team /\ team \in Nat
    BY Blocks DEF IInv, Types
  <2>2. gThreads' \in Nat /\ gArray' \in 0..team
    BY <1>4, <2>1
  <2>3. QED
    BY <1>2, <1>5, <2>2 DEF PC
<1>12. pc[Main] \in {"barrier", "endBarrier"} => reg[Main] # block[team].cycle
  BY <1>1, <1>2
<1>13. QED
  BY <1>2, <1>3, <1>4, <1>5, <1>7, <1>8, <1>9, <1>10, <1>11, <1>12, MainIInv

(* The store of nested--; GOMP_parallel_end returns to serial code. *)
LEMMA StoreDecIInv ==
  ASSUME IInv, NEW t \in Tid, StoreDec(t)
  PROVE  IInv'
<1> USE DEF globals, settings, history
<1>1. t = Main /\ pc[Main] = "decremented" /\ Main \in Tid /\ Main \in Crew
  BY OnlyMain DEF StoreDec, Is, Crew
<1>2. /\ Len(stack[Main]) = 2 /\ reg[Main] = 1 /\ stack[Main][2] \in Seq(SerialStmt)
      /\ gArray = Null /\ gThreads = 1 /\ team # Null /\ ~Open
      /\ tls[Main] = [block |-> team, id |-> 0]
  BY <1>1 DEF IInv, MainPlace, Code, Open, Forking
<1> DEFINE Y == Seq(BodyStmt \cup SerialStmt)
           r == Tail(stack[Main])
<1>3. stack' = [stack EXCEPT ![Main] = r] /\ stack \in [Tid -> Seq(Y)]
  BY <1>1 DEF StoreDec, IInv, Code
<1>4. r \in Seq(Y) /\ Len(r) = 1 /\ r[1] = stack[Main][2]
  <2> HIDE DEF Y
  <2>1. stack[Main] \in Seq(Y) /\ stack[Main] # <<>>
    BY <1>1, <1>2, <1>3
  <2>2. /\ r \in Seq(Y) /\ Len(r) = Len(stack[Main]) - 1
        /\ \A i \in 1..(Len(stack[Main]) - 1) : r[i] = stack[Main][i + 1]
    BY <2>1
  <2>3. QED
    BY <1>2, <2>2
<1>5. /\ stack' \in [Tid -> Seq(Y)] /\ stack'[Main] = r
      /\ \A w \in 1..workers : stack'[w] = stack[w]
  <2>1. \A w \in 1..workers : w \in Tid /\ w # Main
    BY Workers
  <2> HIDE DEF Y, r
  <2>2. QED
    BY <1>1, <1>3, <1>4, <2>1
<1> HIDE DEF r
<1>6. /\ pc' = [pc EXCEPT ![Main] = "run"] /\ nested' = 0 /\ reg' = reg
      /\ UNCHANGED <<status, gThreads, gArray, settings, block, workers, work, tls, at, history>>
  BY <1>1, <1>2 DEF StoreDec, Goto
<1>7. pc'[Main] = "run" /\ reg' = [reg EXCEPT ![Main] = reg[Main]] /\ reg[Main] \in Int
  BY <1>1, <1>6 DEF IInv, Types
<1>8. Len(stack'[Main]) = 1 /\ stack'[Main][1] \in Seq(SerialStmt)
  BY <1>2, <1>4, <1>5
<1>9. ~Forking' /\ ~Open' /\ Serial'
  BY <1>7, <1>8 DEF Forking, Open, Serial
<1>10. Code'
  <2>1. stack' \in [Tid -> Seq(Seq(BodyStmt \cup SerialStmt))]
    BY <1>5
  <2>2. \A w \in 1..workers' : Len(stack'[w]) = 1 /\ stack'[w][1] \in Seq(BodyStmt)
    BY <1>5, <1>6 DEF IInv, Code
  <2>3. QED
    BY <1>8, <2>1, <2>2 DEF Code
<1>11. MainPlace'
  BY <1>2, <1>6, <1>7, <1>8, <1>9 DEF MainPlace
<1>12. /\ "run" \in PC /\ nested' \in Int /\ gThreads' \in Nat /\ gArray' \in 0..team
       /\ Len(stack'[Main]) # 2
  BY <1>6, <1>8 DEF PC, IInv, Types
<1>13. QED
  BY <1>1, <1>2, <1>5, <1>6, <1>7, <1>9, <1>10, <1>11, <1>12, MainIInv
-----------------------------------------------------------------------------
(* The other steps of a worker.                                              *)

LEMMA WorkerIInv ==
  ASSUME IInv, NEW w \in 1..workers, NEW q \in {"run", "exit", "dead"},
         pc' = [pc EXCEPT ![w] = q],
         \A b : ~WaitsAt(w, b),
         Busy(w) <=> q = "run",
         pc[w] \in {"exitBarrier", "exit", "dead"} <=> q # "run",
         block' \in Seq(BlockOf), Len(block') = Len(block),
         \A b \in 1..Len(block) : /\ block'[b].max = block[b].max
                                  /\ block'[b].cycle = block[b].cycle
                                  /\ block'[b].counter = block[b].counter,
         TablesFit',
         tls' \in [Tid -> Place], tls'[Main] = tls[Main], \A u \in Tid : tls'[u].block <= team,
         \A v \in 1..workers : pc'[v] \in {"run", "single", "barrier"} =>
           tls'[v] = work[v] /\ block'[work[v].block].table[work[v].id] = v,
         UNCHANGED <<status, globals, settings, workers, stack, work, reg, at, history>>
  PROVE  IInv'
<1> USE DEF globals, settings, history
<1>1. /\ w \in Tid /\ w # Main /\ Main \in Tid
      /\ pc' \in [Tid -> PC] /\ pc'[w] = q /\ \A u \in Tid \ {w} : pc'[u] = pc[u]
  BY Workers DEF IInv, Types, PC
<1>2. pc'[Main] = pc[Main]
  BY <1>1
<1>3. Types'
  BY <1>1, Blocks DEF IInv, Types
<1>4. Code'
  BY DEF IInv, Code
<1>5. team # Null => /\ block'[team].max = block[team].max
                     /\ block'[team].cycle = block[team].cycle
  BY Blocks
<1>6. /\ Forking' <=> Forking
      /\ Serial' <=> Serial
      /\ Open' <=> Open
  <2>1. pc[Main] = "endBarrier" => team # Null
    BY DEF IInv, MainPlace
  <2>2. QED
    BY <1>2, <1>5, <2>1 DEF Forking, Serial, Open
<1>7. MainPlace'
  BY <1>2, <1>5, <1>6 DEF IInv, MainPlace
<1>8. SpawnLoop' /\ WholeTeam'
  <2>1. pc[Main] = "spawn" => team # Null
    BY DEF IInv, MainPlace, Open, Forking
  <2>2. pc[Main] \in {"inc", "incremented"} \/ Len(stack[Main]) = 2 => team # Null
    BY DEF IInv, MainPlace, Open, Forking
  <2>3. \A b, i : Created(b, i)' <=> Created(b, i)
    BY DEF Created
  <2>4. SpawnLoop'
    BY <1>2, <1>5, <2>1 DEF IInv, SpawnLoop
  <2>5. WholeTeam'
    BY <1>2, <1>5, <2>1, <2>2, <2>3 DEF IInv, WholeTeam
  <2>6. QED
    BY <2>4, <2>5
<1>9. WorkerPlace'
  <2>1. \A v \in Tid : v > workers => pc'[v] = "unborn"
    BY <1>1, Blocks DEF IInv, WorkerPlace
  <2>2. ASSUME NEW v \in 1..workers
        PROVE  /\ work[v].block \in 1..team
               /\ work[v].id \in 1..(block'[work[v].block].max - 1)
               /\ pc'[v] \in {"born", "run", "single", "barrier", "exitBarrier", "exit", "dead"}
               /\ pc'[v] \in {"barrier", "exitBarrier"} => at[v] = work[v].block
               /\ pc'[v] = "exitBarrier" => stack[v][1] = <<>>
    <3>1. /\ work[v].block \in 1..Len(block) /\ team = Len(block)
          /\ block'[work[v].block].max = block[work[v].block].max
      BY Workers, Blocks
    <3>2. CASE v = w
      BY <1>1, <3>1, <3>2, Workers
    <3>3. CASE v # w
      BY <1>1, <3>1, <3>3, Workers
    <3>4. QED
      BY <3>2, <3>3
  <2>3. QED
    BY <2>1, <2>2 DEF WorkerPlace
<1>10. BusyInOpen'
  <2> SUFFICES ASSUME NEW v \in 1..workers PROVE Busy(v)' <=> Open /\ work[v].block = team
    BY <1>6 DEF BusyInOpen
  <2>1. /\ Busy(v) <=> Open /\ work[v].block = team
        /\ v \in Tid /\ work[v].block \in 1..Len(block)
    BY Workers
  <2>2. Busy(v)' <=> Busy(v)
    <3>1. block'[work[v].block].cycle = block[work[v].block].cycle
      BY <2>1
    <3>2. CASE v = w
      BY <1>1, <3>2 DEF Busy
    <3>3. CASE v # w
      BY <1>1, <2>1, <3>1, <3>3 DEF Busy
    <3>4. QED
      BY <3>2, <3>3
  <2>3. QED
    BY <2>1, <2>2
<1>11. CounterCounts'
  <2>1. ASSUME NEW b \in 1..Len(block)
        PROVE  Arrived(b)' = Arrived(b)
    <3>1. \A u \in Tid : Id(u)' = Id(u)
      BY DEF Id
    <3>2. ~WaitsAt(w, b)'
      BY <1>1 DEF WaitsAt
    <3>3. \A u \in Tid : WaitsAt(u, b)' <=> WaitsAt(u, b)
      BY <1>1, <3>2 DEF WaitsAt
    <3>4. QED
      BY <3>1, <3>3, SameArrived
  <2>2. QED
    BY <2>1 DEF IInv, CounterCounts
<1>12. InStep'
  <2> SUFFICES ASSUME Open, NEW v \in 1..workers, work[v].block = team
               PROVE  Rem(v)' = Rem(Main)'
    BY <1>6 DEF InStep
  <2>1. Rem(v) = Rem(Main) /\ block'[team].cycle = block[team].cycle
    BY <1>5, TeamInStep DEF IInv, InStep
  <2>2. \A u : Ahead(u)' = Ahead(u)
    <3> TAKE u
    <3>1. Todo(u)' = Todo(u) /\ Stmt(u)' = Stmt(u)
      BY DEF Todo, Stmt
    <3>2. (u = Main /\ Forking)' <=> (u = Main /\ Forking)
      BY <1>6
    <3>3. QED
      BY <3>1, <3>2, Zenon DEF Ahead
  <2>3. Rem(Main)' = Rem(Main)
    BY <1>2, <2>1, <2>2 DEF Rem
  <2>4. Rem(v)' = Rem(v)
    <3>1. CASE v = w
      <4>1. work[w].block \in 1..Len(block)
        BY Workers
      <4>2. pc[w] = "barrier" => reg[w] # block[team].cycle
        BY <3>1, Workers DEF WaitsAt
      <4>3. QED
        BY <1>1, <2>2, <3>1, <4>2 DEF Rem
    <3>2. CASE v # w
      BY <1>1, <2>1, <2>2, <3>2, Workers DEF Rem
    <3>3. QED
      BY <3>1, <3>2
  <2>5. QED
    BY <2>1, <2>3, <2>4
<1>13. RanBody'
  <2>1. \A v \in 1..workers : pc'[v] \in {"exitBarrier", "exit", "dead"}
                                <=> pc[v] \in {"exitBarrier", "exit", "dead"}
    BY <1>1, Workers
  <2>2. team # Null => block'[team].max = block[team].max
    BY <1>5
  <2>3. QED
    BY <1>2, <1>6, <2>1, <2>2 DEF IInv, RanBody
<1>14. Distinct'
  BY SMTT(30) DEF IInv, Distinct
<1>15. QED
  BY <1>3, <1>4, <1>7, <1>8, <1>9, <1>10, <1>11, <1>12, <1>13, <1>14 DEF IInv

(* A worker that has been created finds the table of its own team: the      *)
(* region is still open.                                                    *)
LEMMA BornInOpen ==
  ASSUME IInv, NEW w \in Tid, pc[w] = "born"
  PROVE  /\ w \in 1..workers /\ Open
         /\ gArray = work[w].block /\ gArray \in 1..Len(block)
         /\ work[w].id \in 1..(block[gArray].max - 1)
<1>1. pc[Main] # "born"
  BY DEF IInv, MainPlace, Code
<1>2. w \in 1..workers
  BY <1>1, BornBelong DEF Crew
<1>3. Open /\ work[w].block = team
  BY <1>2, Workers DEF Busy
<1>4. QED
  BY <1>2, <1>3, Workers, TeamInStep

(* bomp_set_tls. *)
LEMMA RegisterIInv ==
  ASSUME IInv, NEW w \in Tid, Register(w)
  PROVE  IInv'
<1> USE DEF globals, settings, history
<1>1. /\ w \in 1..workers /\ gArray = work[w].block /\ gArray \in 1..Len(block)
      /\ work[w].id \in 1..(block[gArray].max - 1) /\ pc[w] = "born" /\ w # Main
  BY BornInOpen, Workers DEF Register, Is
<1>2. ~(gArray = Null \/ work[w].id >= block[gArray].max)
  BY <1>1, Blocks
<1>3. /\ block' = [block EXCEPT ![gArray].table[work[w].id] = w]
      /\ tls' = [tls EXCEPT ![w] = work[w]]
      /\ pc' = [pc EXCEPT ![w] = "run"]
      /\ UNCHANGED <<status, globals, settings, workers, stack, work, reg, at, history>>
  BY <1>2 DEF Register, Goto
<1> DEFINE b == gArray
           i == work[w].id
           table == [block[b].table EXCEPT ![i] = w]
           new == [block[b] EXCEPT !.table = table]
<1>4. block[b] \in BlockOf /\ block[b].table \in [0..(block[b].max - 1) -> Int]
      /\ block[b].max \in Nat \ {0} /\ block \in Seq(BlockOf)
  BY <1>1, Blocks DEF IInv, TablesFit
<1>5. /\ table \in [0..(block[b].max - 1) -> Int] /\ table[i] = w
      /\ \A j \in 0..(block[b].max - 1) : j # i => table[j] = block[b].table[j]
  <2> DEFINE n == block[b].max - 1
             old == block[b].table
  <2>1. old \in [0..n -> Int] /\ i \in 0..n /\ w \in Int
    BY <1>1, <1>4, Blocks
  <2> HIDE DEF n, old, i
  <2>2. QED
    BY <2>1 DEF n, old
<1>6. table \in TableOf
  <2>1. block[b].max - 1 \in Nat
    BY <1>4
  <2> HIDE DEF table
  <2>2. QED
    BY <1>5, <2>1 DEF TableOf
<1>7. block' = [block EXCEPT ![b] = new]
  BY <1>3
<1> HIDE DEF table
<1>8. /\ new \in BlockOf /\ new.table = table /\ new.max = block[b].max
      /\ new.cycle = block[b].cycle /\ new.counter = block[b].counter
  BY <1>4, <1>6 DEF BlockOf
<1> HIDE DEF new
<1>9. /\ block' \in Seq(BlockOf) /\ Len(block') = Len(block) /\ block'[b] = new
      /\ \A c \in 1..Len(block) : c # b => block'[c] = block[c]
  BY <1>1, <1>4, <1>7, <1>8
<1>10. \A c \in 1..Len(block) : /\ block'[c].max = block[c].max
                                /\ block'[c].cycle = block[c].cycle
                                /\ block'[c].counter = block[c].counter
  BY <1>8, <1>9
<1>11. TablesFit'
  BY <1>5, <1>8, <1>9 DEF IInv, TablesFit
<1>12. /\ work[w] \in Place /\ w \in Tid /\ Main \in Tid /\ work[w].block <= team
       /\ tls \in [Tid -> Place] /\ \A u \in Tid : tls[u].block <= team
  BY <1>1, Workers DEF IInv, Types
<1>13. /\ tls' \in [Tid -> Place] /\ tls'[Main] = tls[Main] /\ tls'[w] = work[w]
       /\ \A u \in Tid : tls'[u].block <= team
       /\ \A u \in Tid \ {w} : tls'[u] = tls[u]
  BY <1>1, <1>3, <1>12
<1>14. ASSUME NEW v \in 1..workers, pc'[v] \in {"run", "single", "barrier"}
       PROVE  tls'[v] = work[v] /\ block'[work[v].block].table[work[v].id] = v
  <2>1. CASE v = w
    BY <1>1, <1>5, <1>8, <1>9, <1>13, <2>1
  <2>2. CASE v # w
    <3>1. pc'[v] = pc[v] /\ v \in Tid
      BY <1>3, <2>2, Workers DEF IInv, Types
    <3>2. /\ tls[v] = work[v] /\ block[work[v].block].table[work[v].id] = v
          /\ work[v].block \in 1..Len(block)
          /\ work[v].id \in 1..(block[work[v].block].max - 1)
      BY <1>14, <3>1, Workers
    <3>3. CASE work[v].block = b
      <4>1. work[v].id # i
        BY <1>1, <2>2, <3>3 DEF IInv, Distinct
      <4>2. table[work[v].id] = block[b].table[work[v].id]
        BY <1>5, <1>4, <3>2, <3>3, <4>1, SMTT(30)
      <4>3. QED
        BY <1>8, <1>9, <1>13, <2>2, <3>1, <3>2, <3>3, <4>2
    <3>4. CASE work[v].block # b
      BY <1>9, <1>13, <2>2, <3>1, <3>2, <3>4
    <3>5. QED
      BY <3>3, <3>4
  <2>3. QED
    BY <2>1, <2>2
<1>15. (\A c : ~WaitsAt(w, c)) /\ Busy(w)
  BY <1>1 DEF WaitsAt, Busy
<1> HIDE DEF b, i
<1>16. QED
  BY <1>1, <1>3, <1>9, <1>10, <1>11, <1>13, <1>14, <1>15, WorkerIInv

(* bomp_thread_fn after the last barrier. *)
LEMMA ExitSteps ==
  ASSUME IInv, NEW w \in Tid, Leave(w, "exitBarrier", "exit") \/ WorkerExit(w)
  PROVE  IInv'
<1> USE DEF globals, settings, history
<1>1. CASE WorkerExit(w) /\ EndProcess("exited")
  BY <1>1, UnchangedIInv DEF EndProcess
<1>2. CASE ~(WorkerExit(w) /\ EndProcess("exited"))
  <2>1. PICK q \in {"exit", "dead"} :
          /\ pc' = [pc EXCEPT ![w] = q]
          /\ q = "exit" => pc[w] = "exitBarrier" /\ block[at[w]].cycle # reg[w]
          /\ q = "dead" => pc[w] = "exit"
          /\ UNCHANGED <<status, globals, settings, block, workers, stack, work, tls, reg, at, history>>
    BY <1>2 DEF Leave, WorkerExit, Is, Goto
  <2>2. pc[Main] \notin {"exitBarrier", "exit"}
    BY DEF IInv, MainPlace, Code
  <2>3. w \in 1..workers
    BY <2>1, <2>2, BornBelong DEF Crew
  <2>4. /\ \A b : ~WaitsAt(w, b)
        /\ ~Busy(w)
        /\ pc[w] \in {"exitBarrier", "exit", "dead"}
    BY <2>1, <2>3, Workers DEF WaitsAt, Busy
  <2>5. /\ block' \in Seq(BlockOf) /\ TablesFit'
        /\ tls' \in [Tid -> Place] /\ \A u \in Tid : tls'[u].block <= team
    BY <2>1, Blocks DEF IInv, TablesFit, Types
  <2>6. ASSUME NEW v \in 1..workers, pc'[v] \in {"run", "single", "barrier"}
        PROVE  tls'[v] = work[v] /\ block'[work[v].block].table[work[v].id] = v
    <3>1. v \in Tid /\ pc'[v] = pc[v]
      BY <2>1, <2>3, <2>6, Workers DEF IInv, Types
    <3>2. QED
      BY <2>1, <2>6, <3>1, Workers
  <2>7. q # "run"
    BY <2>1
  <2>8. QED
    BY <2>1, <2>3, <2>4, <2>5, <2>6, <2>7, WorkerIInv
<1>3. QED
  BY <1>1, <1>2
-----------------------------------------------------------------------------
(* GOMP_parallel_start.                                                      *)

(* A region the main thread starts is the outermost. *)
LEMMA StartNestedIInv ==
  ASSUME ProgramsFlat, IInv, NEW t \in Tid, StartNested(t)
  PROVE  IInv'
<1>1. t = Main /\ Len(stack[Main]) = 1 /\ pc[Main] = "run"
  BY NextStmt DEF StartNested
<1>2. gThreads = 1
  BY <1>1 DEF IInv, MainPlace, Serial
<1>3. QED
  BY <1>2 DEF StartNested, InParallel

(* bomp_start_processing: the team gets a block of its own. *)
LEMMA StartRegionIInv ==
  ASSUME ProgramsFlat, IInv, NEW t \in Tid, StartRegion(t)
  PROVE  IInv'
<1> USE DEF globals, settings, history
<1>1. /\ t = Main /\ Main \in Tid /\ Len(stack[Main]) = 1 /\ pc[Main] = "run"
      /\ Stmt(Main).op = "parallel" /\ Stmt(Main).n \in Nat /\ Stmt(Main).body \in Seq(BodyStmt)
      /\ Main \in Crew /\ Todo(Main) # <<>>
  BY NextStmt DEF StartRegion, At
<1>0. PICK b \in Nat : b = Len(block) + 1
  BY Blocks
<1> DEFINE n == TeamSize(Stmt(Main).n)
           table == [i \in 0..(n - 1) |-> IF i = 0 THEN Main ELSE -1]
           new == [max |-> n, cycle |-> 0, counter |-> 0, table |-> table]
<1>2. n \in Nat \ {0}
  BY <1>1 DEF TeamSize, IInv, Types
<1>3. /\ workers + n - 1 <= MaxWorkers
      /\ gThreads' = n /\ block' = Append(block, new) /\ gArray' = b /\ team' = b
      /\ tls' = [tls EXCEPT ![Main] = [block |-> b, id |-> 0]]
      /\ pc' = [pc EXCEPT ![Main] = "spawn"] /\ reg' = [reg EXCEPT ![Main] = 1]
      /\ UNCHANGED <<status, nested, settings, workers, stack, work, at, ran>>
  BY <1>0, <1>1 DEF StartRegion, Goto, Keep
<1> HIDE DEF n
<1>4. table \in [0..(n - 1) -> Int] /\ n - 1 \in Nat
  BY <1>2
<1> HIDE DEF table
<1>5. new \in BlockOf
  BY <1>2, <1>4 DEF BlockOf, TableOf
<1>6. /\ team = Len(block) /\ team \in Nat /\ block \in Seq(BlockOf) /\ workers \in 0..MaxWorkers
      /\ b = team + 1
  BY <1>0, Blocks
<1>7. new.max = n /\ new.cycle = 0 /\ new.counter = 0 /\ new.table = table
  OBVIOUS
<1> HIDE DEF new
<1>8. /\ block' \in Seq(BlockOf) /\ Len(block') = b /\ block'[b] = new
      /\ \A c \in 1..Len(block) : block'[c] = block[c]
  BY <1>3, <1>5, <1>6
<1>9. /\ pc'[Main] = "spawn" /\ reg'[Main] = 1 /\ tls'[Main] = [block |-> b, id |-> 0]
      /\ \A u \in Tid \ {Main} : pc'[u] = pc[u] /\ reg'[u] = reg[u] /\ tls'[u] = tls[u]
  BY <1>1, <1>3 DEF IInv, Types
<1>10. ~Open /\ ~Forking /\ Serial /\ Open' /\ Forking' /\ ~Serial'
  BY <1>1, <1>9 DEF Open, Forking, Serial
<1>11. \A w \in 1..workers : /\ pc'[w] = pc[w] /\ reg'[w] = reg[w] /\ tls'[w] = tls[w]
                             /\ work[w].block # b /\ block'[work[w].block] = block[work[w].block]
                             /\ w \in Tid /\ w # Main
  BY <1>6, <1>8, <1>9, Workers
<1>12. Types'
  <2>1. pc' \in [Tid -> PC] /\ reg' \in [Tid -> Int] /\ tls' \in [Tid -> Place]
    <3>1. "spawn" \in PC /\ 1 \in Int /\ [block |-> b, id |-> 0] \in Place
      BY DEF PC, Place
    <3>2. pc \in [Tid -> PC] /\ reg \in [Tid -> Int] /\ tls \in [Tid -> Place]
      BY DEF IInv, Types
    <3>3. QED
      BY <1>1, <1>3, <3>1, <3>2
  <2>2. \A u \in Tid : work[u].block <= b /\ tls'[u].block <= b /\ at[u] <= b
    <3>1. \A u \in Tid : work[u].block <= team /\ tls[u].block <= team /\ at[u] <= team
                         /\ work[u].block \in Nat /\ tls[u].block \in Nat /\ at[u] \in Nat
      BY DEF IInv, Types, Place
    <3>2. QED
      BY <1>6, <1>9, <3>1
  <2>3. gThreads' \in Nat /\ gArray' \in 0..team' /\ team' = Len(block')
    BY <1>2, <1>3, <1>6, <1>8
  <2>4. QED
    BY <1>3, <1>8, <2>1, <2>2, <2>3 DEF IInv, Types
<1>13. Code'
  BY <1>3 DEF IInv, Code
<1>14. MainPlace'
  <2>1. /\ nested = 0 /\ stack[Main][1] # <<>> /\ stack[Main][1][1].op = "parallel"
        /\ stack[Main][1][1].body \in Seq(BodyStmt)
    <3>1. Todo(Main) = stack[Main][1] /\ Todo(Main) \in Seq(BodyStmt \cup SerialStmt)
      BY <1>1, Stacks
    <3>2. Stmt(Main) = stack[Main][1][1]
      BY <1>1, <3>1 DEF Stmt
    <3>3. QED
      BY <1>1, <3>1, <3>2 DEF IInv, MainPlace
  <2> DEFINE len == Len(stack[Main])
  <2>2. len = 1 /\ Len(stack'[Main]) = len
    BY <1>1, <1>3
  <2>3. b # Null /\ block'[b].max = n
    BY <1>6, <1>7, <1>8
  <2> HIDE DEF len
  <2>4. QED
    BY <1>3, <1>9, <1>10, <2>1, <2>2, <2>3 DEF MainPlace
<1>15. SpawnLoop'
  BY <1>2, <1>3, <1>6, <1>7, <1>8, <1>9, <1>11 DEF SpawnLoop
<1>16. WorkerPlace'
  <2>1. \A w \in Tid : w > workers => pc'[w] = "unborn"
    BY <1>6, <1>9 DEF IInv, WorkerPlace
  <2>2. ASSUME NEW w \in 1..workers
        PROVE  /\ work[w].block \in 1..b
               /\ work[w].id \in 1..(block'[work[w].block].max - 1)
               /\ pc'[w] \in {"born", "run", "single", "barrier", "exitBarrier", "exit", "dead"}
               /\ pc'[w] \in {"run", "single", "barrier"} =>
                    tls'[w] = work[w] /\ block'[work[w].block].table[work[w].id] = w
               /\ pc'[w] \in {"barrier", "exitBarrier"} => at[w] = work[w].block
               /\ pc'[w] = "exitBarrier" => stack[w][1] = <<>>
    BY <1>6, <1>11, Workers
  <2>3. UNCHANGED <<workers, work, at, stack>> /\ team' = b
    BY <1>3
  <2>4. QED
    BY <2>1, <2>2, <2>3 DEF WorkerPlace
<1>17. BusyInOpen'
  <2>1. \A w \in 1..workers : Busy(w)' <=> Busy(w)
    BY <1>3, <1>11 DEF Busy
  <2>2. QED
    BY <1>3, <1>10, <1>11, <2>1 DEF IInv, BusyInOpen
<1>18. Distinct' /\ TablesFit'
  <2>1. Distinct'
    BY <1>3 DEF IInv, Distinct
  <2>2. ASSUME NEW c \in 1..b
        PROVE  block'[c].table \in [0..(block'[c].max - 1) -> Int]
    BY <1>4, <1>6, <1>7, <1>8 DEF IInv, TablesFit
  <2>3. QED
    BY <1>8, <2>1, <2>2 DEF TablesFit
<1>19. CounterCounts'
  <2>1. ASSUME NEW c \in 1..Len(block)
        PROVE  Arrived(c)' = Arrived(c)
    <3>1. \A u \in Tid : Id(u)' = Id(u)
      BY <1>3 DEF Id
    <3>2. \A u \in Tid : WaitsAt(u, c)' <=> WaitsAt(u, c)
      BY <1>1, <1>3, <1>8, <1>9 DEF WaitsAt
    <3>3. block'[c].max = block[c].max
      BY <1>8
    <3>4. QED
      BY <3>1, <3>2, <3>3, SameArrived
  <2>2. Arrived(b)' = {}
    <3>1. \A u \in Tid : at[u] # b
      BY <1>6 DEF IInv, Types
    <3>2. QED
      BY <1>3, <3>1 DEF Arrived, WaitsAt
  <2>3. Cardinality(Arrived(b))' = 0
    BY <2>2, FS_EmptySet
  <2>4. \A c \in 1..Len(block) : /\ block'[c].counter = Cardinality(Arrived(c))'
                                 /\ block'[c].counter < block'[c].max
    BY <1>8, <2>1 DEF IInv, CounterCounts
  <2>5. block'[b].counter = Cardinality(Arrived(b))' /\ block'[b].counter < block'[b].max
    BY <1>2, <1>7, <1>8, <2>3
  <2>6. \A c \in 1..Len(block') : c \in 1..Len(block) \/ c = b
    BY <1>6, <1>8
  <2>7. QED
    BY <2>4, <2>5, <2>6 DEF CounterCounts
<1>20. InStep'
  BY <1>3, <1>11 DEF InStep
<1>21. RanBody'
  <2>1. \A c, i : <<c, i>> \in ran => c \in 0..team
    BY DEF IInv, RanBody
  <2>2. \A c, i : <<c, i>> \in ran => c \in 0..b
    BY <1>6, <2>1
  <2>3. <<b, 0>> \notin ran
    BY <1>6, <2>1
  <2>4. QED
    BY <1>3, <1>9, <1>10, <1>11, <2>2, <2>3 DEF IInv, RanBody
<1>22. WholeTeam'
  <2>1. Len(stack'[Main]) # 2 /\ pc'[Main] \notin {"inc", "incremented"}
    <3>1. stack' = stack /\ pc'[Main] = "spawn"
      BY <1>3, <1>9
    <3>2. Len(stack'[Main]) = 1
      BY <1>1, <3>1
    <3>3. QED
      BY <3>1, <3>2
  <2>2. 1..(reg'[Main] - 1) = {}
    BY <1>9
  <2>3. QED
    BY <2>1, <2>2 DEF WholeTeam
<1>23. QED
  BY <1>12, <1>13, <1>14, <1>15, <1>16, <1>17, <1>18, <1>19, <1>20, <1>21, <1>22 DEF IInv

(* Whoever has run the body of a region was a member of its team. *)
RanCreated == \A b, i : <<b, i>> \in ran => i = 0 \/ Created(b, i)

(* One turn of the loop that creates the workers. *)
LEMMA SpawnIInv ==
  ASSUME IInv, RanCreated, NEW t \in Tid, Spawn(t)
  PROVE  IInv'
<1> USE DEF globals, settings, history
<1>1. /\ t = Main /\ Main \in Tid /\ Main \in Crew /\ pc[Main] = "spawn"
      /\ Open /\ Forking /\ ~Serial
  BY OnlyMain DEF Spawn, Is, Open, Forking, Serial, Crew
<1>2. /\ gArray = team /\ gThreads = block[team].max /\ team \in 1..Len(block)
      /\ tls[Main] = [block |-> team, id |-> 0] /\ Len(stack[Main]) = 1 /\ nested = 0
      /\ stack[Main][1] # <<>> /\ stack[Main][1][1].body \in Seq(BodyStmt)
      /\ Todo(Main) = stack[Main][1]
  BY <1>1, TeamInStep, Stacks DEF IInv, MainPlace, Code
<1>3. Stmt(Main) = stack[Main][1][1]
  <2>1. Todo(Main) \in Seq(BodyStmt \cup SerialStmt)
    BY <1>1, Stacks
  <2>2. QED
    BY <1>2, <2>1 DEF Stmt
<1>4. PICK w, n \in Nat : w = workers + 1 /\ n = reg[Main]
  BY <1>1, Blocks DEF IInv, SpawnLoop
<1>5. /\ n \in 1..(block[team].max - 1) /\ w \in 1..MaxWorkers /\ w \in Tid /\ w # Main
      /\ workers \in 0..MaxWorkers /\ 1..w = (1..workers) \cup {w} /\ w \notin 1..workers
      /\ w + block[team].max - (n + 1) <= MaxWorkers
  <2>1. n < block[team].max
    BY <1>1, <1>2, <1>4 DEF Spawn
  <2>2. n \in 1..block[team].max /\ workers + block[team].max - n <= MaxWorkers
        /\ block[team].max \in Nat /\ workers \in 0..MaxWorkers
    BY <1>1, <1>2, <1>4, Blocks DEF IInv, SpawnLoop
  <2>3. QED
    BY <1>4, <2>1, <2>2
<1> DEFINE place == [block |-> team, id |-> n]
           x == stack[Main][1][1].body
<1>6. /\ workers' = w /\ work' = [work EXCEPT ![w] = place]
      /\ stack' = [stack EXCEPT ![w] = <<x>>] /\ pc' = [pc EXCEPT ![w] = "born"]
      /\ reg' = [reg EXCEPT ![Main] = n + 1]
      /\ UNCHANGED <<status, globals, settings, block, tls, at, history>>
  <2>1. tls[Main].block = team /\ reg[Main] = n /\ workers + 1 = w /\ Stmt(Main).body = x
    BY <1>2, <1>3, <1>4
  <2> HIDE DEF x
  <2>2. QED
    BY <1>1, <2>1 DEF Spawn, Keep
<1> DEFINE Y == Seq(BodyStmt \cup SerialStmt)
<1>7. x \in Y /\ x \in Seq(BodyStmt)
  BY <1>2
<1>8. stack \in [Tid -> Seq(Y)]
  BY DEF IInv, Code
<1>9. place \in Place /\ place.block = team /\ place.id = n
  BY <1>2 DEF Place
<1> HIDE DEF place, x, Y
<1>10. /\ <<x>> \in Seq(Y) /\ Len(<<x>>) = 1 /\ <<x>>[1] = x
  BY <1>7
<1> DEFINE z == <<x>>
<1> HIDE DEF z
<1>11. /\ stack' \in [Tid -> Seq(Y)] /\ stack'[w] = z
       /\ \A u \in Tid \ {w} : stack'[u] = stack[u]
  <2>1. z \in Seq(Y) /\ stack' = [stack EXCEPT ![w] = z]
    BY <1>6, <1>10 DEF z
  <2>2. QED
    BY <1>5, <1>8, <2>1
<1>12. /\ pc'[w] = "born" /\ work'[w] = place /\ reg'[Main] = n + 1
       /\ \A u \in Tid \ {w} : pc'[u] = pc[u] /\ work'[u] = work[u]
       /\ \A u \in Tid \ {Main} : reg'[u] = reg[u]
  BY <1>1, <1>5, <1>6 DEF IInv, Types
<1>13. /\ pc'[Main] = "spawn" /\ stack'[Main] = stack[Main]
       /\ \A v \in 1..workers : /\ pc'[v] = pc[v] /\ work'[v] = work[v] /\ reg'[v] = reg[v]
                                /\ stack'[v] = stack[v] /\ v \in Tid /\ v # w /\ v # Main
  BY <1>1, <1>5, <1>11, <1>12, Workers
<1>14. Open' /\ Forking' /\ ~Serial'
  BY <1>13 DEF Open, Forking, Serial
<1>15. pc[w] = "unborn"
  BY <1>4, <1>5 DEF IInv, WorkerPlace
<1>16. Types'
  <2>1. pc' \in [Tid -> PC] /\ work' \in [Tid -> Place] /\ reg' \in [Tid -> Int]
    <3>1. "born" \in PC
      BY DEF PC
    <3>2. pc \in [Tid -> PC] /\ work \in [Tid -> Place] /\ reg \in [Tid -> Int] /\ n + 1 \in Int
      BY <1>4 DEF IInv, Types
    <3>3. QED
      BY <1>1, <1>5, <1>6, <1>9, <3>1, <3>2
  <2>2. \A u \in Tid : work'[u].block <= team
    <3>1. \A u \in Tid : work[u].block <= team
      BY DEF IInv, Types
    <3>2. team <= team
      BY <1>2
    <3>3. QED
      BY <1>9, <1>12, <3>1, <3>2
  <2>3. workers' \in 0..MaxWorkers
    BY <1>5, <1>6
  <2>4. QED
    BY <1>6, <2>1, <2>2, <2>3 DEF IInv, Types
<1>17. Code'
  <2>1. stack' \in [Tid -> Seq(Seq(BodyStmt \cup SerialStmt))]
    BY <1>11 DEF Y
  <2>2. \A v \in 1..workers : Len(stack'[v]) = 1 /\ stack'[v][1] \in Seq(BodyStmt)
    BY <1>13 DEF IInv, Code
  <2>3. Len(stack'[w]) = 1 /\ stack'[w][1] \in Seq(BodyStmt)
    BY <1>7, <1>10, <1>11 DEF z
  <2>4. Len(stack'[Main]) = 1 /\ stack'[Main][1] \in Seq(SerialStmt)
    BY <1>2, <1>13 DEF IInv, Code
  <2>5. QED
    <3>1. \A v \in 1..workers' : Len(stack'[v]) = 1 /\ stack'[v][1] \in Seq(BodyStmt)
      BY <1>5, <1>6, <2>2, <2>3
    <3>2. QED
      BY <2>1, <2>4, <3>1 DEF Code
<1>18. MainPlace'
  <2> DEFINE len == Len(stack[Main])
  <2>1. len = 1 /\ Len(stack'[Main]) = len /\ team # Null
    BY <1>2, <1>13
  <2>2. stack[Main][1][1].op = "parallel"
    BY <1>1 DEF IInv, MainPlace
  <2> HIDE DEF len
  <2>3. UNCHANGED <<nested, gArray, gThreads, block, team, tls, at>>
    BY <1>6
  <2>4. /\ stack'[Main][1] # <<>> /\ stack'[Main][1][1].op = "parallel"
        /\ stack'[Main][1][1].body \in Seq(BodyStmt)
    BY <1>2, <1>13, <2>2
  <2>5. /\ gArray' = team' /\ gThreads' = block'[team'].max /\ nested' = 0 /\ team' # Null
        /\ tls'[Main] = [block |-> team', id |-> 0] /\ pc'[Main] = "spawn"
    BY <1>2, <1>13, <2>1, <2>3
  <2>6. QED
    BY <1>14, <2>1, <2>4, <2>5 DEF MainPlace
<1>19. SpawnLoop'
  <2>1. \A v \in 1..workers : work[v].block = team => work[v].id < n /\ work[v].id \in Nat
    BY <1>1, <1>4, Workers DEF IInv, SpawnLoop, Types, Place
  <2>2. \A v \in 1..w : work'[v].block = team => work'[v].id < n + 1
    BY <1>5, <1>9, <1>12, <1>13, <2>1
  <2>3. n + 1 \in 1..block[team].max /\ w + block[team].max - (n + 1) <= MaxWorkers
    BY <1>2, <1>5, Blocks
  <2>4. QED
    BY <1>6, <1>12, <2>2, <2>3 DEF SpawnLoop
<1>20. WorkerPlace'
  <2>1. \A v \in Tid : v > w => pc'[v] = "unborn"
    BY <1>4, <1>5, <1>12 DEF IInv, WorkerPlace
  <2>2. ASSUME NEW v \in 1..w
        PROVE  /\ work'[v].block \in 1..team
               /\ work'[v].id \in 1..(block[work'[v].block].max - 1)
               /\ pc'[v] \in {"born", "run", "single", "barrier", "exitBarrier", "exit", "dead"}
               /\ pc'[v] \in {"run", "single", "barrier"} =>
                    tls[v] = work'[v] /\ block[work'[v].block].table[work'[v].id] = v
               /\ pc'[v] \in {"barrier", "exitBarrier"} => at[v] = work'[v].block
               /\ pc'[v] = "exitBarrier" => stack'[v][1] = <<>>
    <3>1. CASE v = w
      <4>1. pc'[v] = "born" /\ work'[v].block = team /\ work'[v].id = n /\ team \in 1..team
        BY <1>2, <1>9, <1>12, <3>1
      <4>2. QED
        BY <1>5, <4>1
    <3>2. CASE v # w
      <4>1. v \in 1..workers /\ team = Len(block)
        BY <1>5, <3>2, Blocks
      <4>2. pc'[v] = pc[v] /\ work'[v] = work[v] /\ stack'[v] = stack[v]
        BY <1>13, <4>1
      <4>3. QED
        BY <4>1, <4>2, Workers
    <3>3. QED
      BY <3>1, <3>2
  <2>3. QED
    BY <1>6, <2>1, <2>2 DEF WorkerPlace
<1>21. BusyInOpen'
  <2>1. ASSUME NEW v \in 1..w PROVE Busy(v)' <=> work'[v].block = team
    <3>1. CASE v = w
      BY <1>9, <1>12, <3>1 DEF Busy
    <3>2. CASE v # w
      <4>1. v \in 1..workers
        BY <1>5, <3>2
      <4>2. Busy(v)' <=> Busy(v)
        BY <1>6, <1>13, <4>1 DEF Busy
      <4>3. QED
        BY <1>1, <1>13, <4>1, <4>2, Workers
    <3>3. QED
      BY <3>1, <3>2
  <2>2. QED
    BY <1>6, <1>14, <2>1 DEF BusyInOpen
<1>22. Distinct' /\ TablesFit'
  <2>1. ASSUME NEW u \in 1..w, NEW v \in 1..w, u # v, work'[u].block = work'[v].block
        PROVE  work'[u].id # work'[v].id
    <3>1. \A k \in 1..workers : work[k].block = team => work[k].id # n
      BY <1>1, <1>4, Workers DEF IInv, SpawnLoop
    <3>2. CASE u # w /\ v # w
      BY <1>5, <1>13, <2>1, <3>2 DEF IInv, Distinct
    <3>3. CASE u = w \/ v = w
      BY <1>5, <1>9, <1>12, <1>13, <2>1, <3>1, <3>3
    <3>4. QED
      BY <3>2, <3>3
  <2>2. Distinct'
    BY <1>6, <2>1 DEF Distinct
  <2>3. TablesFit'
    BY <1>6 DEF IInv, TablesFit
  <2>4. QED
    BY <2>2, <2>3
<1>23. CounterCounts'
  <2>1. ASSUME NEW c \in 1..Len(block)
        PROVE  Arrived(c)' = Arrived(c)
    <3>1. \A u \in Tid : WaitsAt(u, c)' <=> WaitsAt(u, c)
      BY <1>1, <1>6, <1>12, <1>13, <1>15 DEF WaitsAt
    <3>2. \A u \in Tid : WaitsAt(u, c) => Id(u)' = Id(u)
      BY <1>12, <1>15 DEF Id, WaitsAt
    <3>3. block'[c].max = block[c].max
      BY <1>6
    <3>4. QED
      BY <3>1, <3>2, <3>3, SameArrived
  <2>2. QED
    BY <1>6, <2>1 DEF IInv, CounterCounts
<1>24. InStep'
  <2>1. Rem(Main)' = Rem(Main) /\ Rem(Main) = Bars(x) /\ Bars(x) \in Nat
    <3>1. Ahead(Main) = x
      BY <1>1, <1>3 DEF Ahead, x
    <3>2. Ahead(Main)' = x
      BY <1>2, <1>3, <1>13, <1>14 DEF Ahead, Stmt, Todo, x
    <3>3. Bars(x) \in Nat
      BY <1>7, BarsFinite
    <3>4. QED
      BY <1>1, <1>13, <3>1, <3>2, <3>3 DEF Rem
  <2>2. Rem(w)' = Bars(x)
    <3>1. Head(z) = x
      BY <1>10 DEF z
    <3>2. Ahead(w)' = x
      BY <1>5, <1>11, <3>1 DEF Ahead, Todo
    <3>3. QED
      BY <1>12, <2>1, <3>2 DEF Rem
  <2>3. ASSUME NEW v \in 1..workers, work[v].block = team
        PROVE  Rem(v)' = Rem(Main)
    <3>1. Rem(v) = Rem(Main)
      BY <1>1, <2>3 DEF IInv, InStep
    <3>2. Ahead(v)' = Ahead(v)
      BY <1>13 DEF Ahead, Todo
    <3>3. QED
      BY <1>6, <1>13, <3>1, <3>2 DEF Rem
  <2>4. QED
    BY <1>5, <1>6, <1>13, <2>1, <2>2, <2>3 DEF InStep
<1>25. RanBody'
  <2>1. <<team, n>> \notin ran
    <3>1. ~Created(team, n)
      BY <1>1, <1>4, <1>9, Workers DEF IInv, SpawnLoop, Created
    <3>2. n # 0
      BY <1>5
    <3>3. QED
      BY <3>1, <3>2 DEF RanCreated
  <2>2. \A v \in 1..w : <<work'[v].block, work'[v].id>> \in ran
                          <=> pc'[v] \in {"exitBarrier", "exit", "dead"}
    BY <1>5, <1>9, <1>12, <1>13, <2>1 DEF IInv, RanBody
  <2>3. QED
    BY <1>1, <1>6, <1>13, <1>14, <2>2 DEF IInv, RanBody
<1>26. WholeTeam'
  <2>1. ASSUME Reliable, NEW i \in 1..n
        PROVE  Created(team, i)'
    <3>1. CASE i = n
      <4>1. work'[w] = [block |-> team, id |-> i] /\ w \in 1..w
        BY <1>4, <1>5, <1>12, <3>1 DEF place
      <4>2. QED
        BY <1>6, <4>1 DEF Created
    <3>2. CASE i # n
      <4>1. i \in 1..(n - 1)
        BY <1>4, <3>2
      <4>2. Created(team, i)
        BY <1>1, <1>4, <2>1, <4>1 DEF IInv, WholeTeam
      <4>3. QED
        BY <1>5, <1>6, <1>13, <4>2 DEF Created
    <3>3. QED
      BY <3>1, <3>2
  <2>2. reg'[Main] - 1 = n /\ Len(stack'[Main]) # 2 /\ pc'[Main] \notin {"inc", "incremented"}
    <3>1. Len(stack'[Main]) = 1
      BY <1>2, <1>13
    <3>2. QED
      BY <1>4, <1>12, <1>13, <3>1
  <2>3. QED
    BY <1>6, <2>1, <2>2 DEF WholeTeam
<1>27. QED
  BY <1>16, <1>17, <1>18, <1>19, <1>20, <1>21, <1>22, <1>23, <1>24, <1>25, <1>26 DEF IInv

(* A worker that cannot be created is missing, or the process ends. *)
LEMMA SpawnFailsIInv ==
  ASSUME IInv, NEW t \in Tid, SpawnFails(t)
  PROVE  IInv'
<1> USE DEF globals, settings, history
<1>1. /\ t = Main /\ Main \in Tid /\ pc[Main] = "spawn" /\ Open /\ tls[Main].block = team
      /\ team \in 1..Len(block)
  BY OnlyMain, TeamInStep DEF SpawnFails, Is, Open, Forking, IInv, MainPlace
<1>2. CASE mode.backend = "popcorn" /\ EndProcess("exited")
  BY <1>2, UnchangedIInv DEF EndProcess
<1>3. CASE /\ mode.backend = "linux" /\ Keep(t, reg[t] + 1)
           /\ UNCHANGED <<status, globals, settings, block, workers, pc, stack, work, tls, at, history>>
  <2>1. PICK n \in Int : n = reg[Main]
    BY <1>1 DEF IInv, Types
  <2>2. n \in 1..block[team].max /\ n < block[team].max /\ block[team].max \in Nat
        /\ workers + block[team].max - n <= MaxWorkers /\ workers \in Nat
    BY <1>1, <2>1, Blocks DEF SpawnFails, IInv, SpawnLoop
  <2>3. /\ reg' = [reg EXCEPT ![Main] = n + 1] /\ reg \in [Tid -> Int]
        /\ reg' \in [Tid -> Int] /\ reg'[Main] = n + 1
        /\ \A u \in Tid \ {Main} : reg'[u] = reg[u]
    BY <1>1, <1>3, <2>1 DEF Keep, IInv, Types
  <2>4. Types' /\ Code' /\ Distinct' /\ TablesFit'
    <3>1. Types'
      BY <1>3, <2>3 DEF IInv, Types
    <3>2. Code'
      BY <1>3 DEF IInv, Code
    <3>3. Distinct' /\ TablesFit'
      BY <1>3 DEF IInv, Distinct, TablesFit
    <3>4. QED
      BY <3>1, <3>2, <3>3
  <2>5. /\ Forking' /\ Forking /\ Open' /\ (Serial' <=> Serial)
    BY <1>1, <1>3 DEF Forking, Open, Serial
  <2>6. MainPlace'
    BY <1>1, <1>3, <2>5 DEF IInv, MainPlace
  <2>7. SpawnLoop'
    <3>1. n + 1 \in 1..block[team].max /\ workers + block[team].max - (n + 1) <= MaxWorkers
      BY <2>2
    <3>2. \A w \in 1..workers : work[w].block = team => work[w].id < n + 1
      <4>1. \A w \in 1..workers : work[w].block = team => work[w].id < n /\ work[w].id \in Nat
        BY <1>1, <2>1, Workers DEF IInv, SpawnLoop, Types, Place
      <4>2. QED
        BY <4>1
    <3>3. QED
      BY <1>3, <2>3, <3>1, <3>2 DEF SpawnLoop
  <2>8. \A w \in 1..workers : reg'[w] = reg[w]
    BY <2>3, Workers
  <2>9. WorkerPlace' /\ BusyInOpen'
    <3>1. WorkerPlace'
      BY <1>3 DEF IInv, WorkerPlace
    <3>2. \A w \in 1..workers : Busy(w)' <=> Busy(w)
      BY <1>3, <2>8 DEF Busy
    <3>3. BusyInOpen'
      BY <1>1, <1>3, <2>5, <3>2 DEF IInv, BusyInOpen
    <3>4. QED
      BY <3>1, <3>3
  <2>10. CounterCounts'
    <3>1. \A u \in Tid : \A b : WaitsAt(u, b)' <=> WaitsAt(u, b)
      BY <1>1, <1>3, <2>3 DEF WaitsAt
    <3>2. \A u \in Tid : Id(u)' = Id(u)
      BY <1>3 DEF Id
    <3>3. QED
      BY <1>3, <3>1, <3>2, SameArrived DEF IInv, CounterCounts
  <2>11. InStep'
    <3>1. \A u : Ahead(u)' = Ahead(u)
      BY <1>3, <2>5 DEF Ahead, Todo, Stmt
    <3>2. Rem(Main)' = Rem(Main)
      BY <1>1, <1>3, <3>1 DEF Rem
    <3>3. \A w \in 1..workers : Rem(w)' = Rem(w)
      BY <1>3, <2>8, <3>1 DEF Rem
    <3>4. QED
      BY <1>1, <1>3, <3>2, <3>3 DEF IInv, InStep
  <2>12. RanBody'
    BY <1>1, <1>3, <2>5 DEF IInv, RanBody
  <2>13. WholeTeam'
    BY <1>3 DEF WholeTeam, SpawnFails
  <2>14. QED
    BY <2>4, <2>6, <2>7, <2>9, <2>10, <2>11, <2>12, <2>13 DEF IInv
<1>4. QED
  BY <1>2, <1>3 DEF SpawnFails

-----------------------------------------------------------------------------
(* Every step.                                                               *)

(* What leaves history and the workers alone. *)
LEMMA SameHistory ==
  ASSUME IInv, RanCreated, NEW t \in Tid, Step(t) \/ SpawnFails(t) \/ MainReturns \/ Over,
         ~Spawn(t), ~WorkerDone(t), ~EndRegion(t)
  PROVE  RanCreated'
<1> USE DEF globals, settings, history
<1>1. UNCHANGED <<ran, work, workers>>
  <2>1. CASE \/ SetNumThreads(t) \/ SetDynamic(t) \/ SetNested(t)
             \/ StartNested(t) \/ StartRegion(t) \/ Spawned(t)
             \/ LoadToInc(t) \/ StoreInc(t)
    BY <2>1 DEF SetNumThreads, SetDynamic, SetNested, StartNested, StartRegion, Spawned,
                LoadToInc, StoreInc
  <2>2. CASE \/ Register(t) \/ WorkerExit(t) \/ Barrier(t) \/ Single(t) \/ EndSingle(t) \/ Only(t)
    BY <2>2 DEF Register, WorkerExit, Barrier, Single, EndSingle, Only, EndProcess
  <2>3. CASE \/ EndBarrier(t) \/ Clear(t) \/ Restore(t) \/ LoadToDec(t) \/ StoreDec(t)
             \/ Leave(t, "barrier", "run")
             \/ Leave(t, "endBarrier", "clear")
             \/ Leave(t, "exitBarrier", "exit")
    BY <2>3 DEF EndBarrier, Clear, Restore, LoadToDec, StoreDec, Leave, EndProcess
  <2>4. CASE SpawnFails(t) \/ MainReturns \/ Over
    BY <2>4 DEF SpawnFails, MainReturns, Over, EndProcess, vars
  <2>5. QED
    BY <2>1, <2>2, <2>3, <2>4 DEF Step
<1>2. \A b, i : Created(b, i)' <=> Created(b, i)
  BY <1>1 DEF Created
<1>3. QED
  BY <1>1, <1>2 DEF RanCreated

LEMMA StepRanCreated ==
  ASSUME IInv, RanCreated, NEW t \in Tid, Step(t) \/ SpawnFails(t) \/ MainReturns \/ Over
  PROVE  RanCreated'
<1> USE DEF globals, settings, history
<1>1. CASE Spawn(t)
  <2>1. /\ ran' = ran /\ workers' = workers + 1 /\ workers \in Nat /\ workers + 1 \in Tid
        /\ work' = [work EXCEPT ![workers + 1] = [block |-> tls[t].block, id |-> reg[t]]]
        /\ work \in [Tid -> Place]
    <3>1. t = Main /\ pc[Main] = "spawn" /\ Open /\ tls[Main].block = team
      BY <1>1, OnlyMain DEF Spawn, Is, Open, Forking, IInv, MainPlace
    <3>2. workers + 1 \in Tid /\ workers \in Nat
      <4>1. reg[Main] < block[team].max /\ reg[Main] \in 1..block[team].max
            /\ workers + block[team].max - reg[Main] <= MaxWorkers
        BY <1>1, <3>1 DEF Spawn, IInv, SpawnLoop
      <4>2. block[team].max \in Nat /\ workers \in 0..MaxWorkers
        BY <3>1, TeamInStep, Blocks
      <4> DEFINE m == block[team].max
                 r == reg[Main]
      <4> HIDE DEF m, r
      <4>3. workers + 1 <= MaxWorkers
        BY <4>1, <4>2 DEF m, r
      <4>4. QED
        BY <4>2, <4>3
    <3>3. QED
      BY <1>1, <3>2 DEF Spawn, IInv, Types
  <2>2. \A w \in 1..workers : work'[w] = work[w] /\ w \in 1..workers'
    BY <2>1, Workers
  <2>3. \A b, i : Created(b, i) => Created(b, i)'
    BY <2>2 DEF Created
  <2>4. QED
    BY <2>1, <2>3 DEF RanCreated
<1>2. CASE WorkerDone(t)
  <2>1. t \in 1..workers /\ work[t] \in Place
        /\ ran' = ran \cup {<<work[t].block, work[t].id>>} /\ UNCHANGED <<work, workers>>
    BY <1>2, BornBelong DEF WorkerDone, Is, Crew, IInv, Types
  <2>2. Created(work[t].block, work[t].id)
    BY <2>1 DEF Created, Place
  <2>3. \A b, i : Created(b, i)' <=> Created(b, i)
    BY <2>1 DEF Created
  <2>4. QED
    BY <2>1, <2>2, <2>3 DEF RanCreated
<1>3. CASE EndRegion(t)
  <2>1. ran' \in {ran, ran \cup {<<team, 0>>}} /\ UNCHANGED <<work, workers>>
    BY <1>3 DEF EndRegion
  <2>2. \A b, i : Created(b, i)' <=> Created(b, i)
    BY <2>1 DEF Created
  <2>3. QED
    BY <2>1, <2>2 DEF RanCreated
<1>4. QED
  BY <1>1, <1>2, <1>3, SameHistory

LEMMA NextIInv ==
  ASSUME ProgramsFlat, IInv, RanCreated, [Next]_vars
  PROVE  IInv' /\ RanCreated'
<1>1. ASSUME NEW t \in Tid, Step(t)
      PROVE  IInv' /\ RanCreated'
  <2>1. RanCreated'
    BY <1>1, StepRanCreated
  <2>2. CASE \/ SetNumThreads(t) \/ SetDynamic(t) \/ SetNested(t)
             \/ Single(t) \/ EndSingle(t) \/ Only(t) \/ Leave(t, "barrier", "run")
    BY <2>1, <2>2, QuietSteps
  <2>3. CASE Barrier(t) \/ WorkerDone(t) \/ EndBarrier(t)
    BY <2>1, <2>3, ArrivalSteps
  <2>4. CASE StartNested(t) \/ StartRegion(t) \/ Spawn(t)
    BY <2>1, <2>4, StartNestedIInv, StartRegionIInv, SpawnIInv
  <2>5. CASE Spawned(t) \/ LoadToInc(t) \/ StoreInc(t)
    BY <2>1, <2>5, BeginSteps, StoreIncIInv
  <2>6. CASE Register(t) \/ WorkerExit(t) \/ Leave(t, "exitBarrier", "exit")
    BY <2>1, <2>6, RegisterIInv, ExitSteps
  <2>7. CASE EndRegion(t)
    BY <2>1, <2>7, EndRegionIInv
  <2>8. CASE Leave(t, "endBarrier", "clear") \/ Clear(t) \/ Restore(t) \/ LoadToDec(t)
    BY <2>1, <2>8, EndSteps
  <2>9. CASE StoreDec(t)
    BY <2>1, <2>9, StoreDecIInv
  <2>10. QED
    BY <1>1, <2>2, <2>3, <2>4, <2>5, <2>6, <2>7, <2>8, <2>9 DEF Step
<1>2. ASSUME NEW t \in Tid, SpawnFails(t)
      PROVE  IInv' /\ RanCreated'
  BY <1>2, SpawnFailsIInv, StepRanCreated
<1>3. CASE MainReturns \/ Over
  <2>1. Main \in Tid
    OBVIOUS
  <2>2. IInv'
    BY <1>3, UnchangedIInv DEF MainReturns, Over, EndProcess, vars, IInv, Types
  <2>3. QED
    BY <1>3, <2>1, <2>2, StepRanCreated
<1>4. CASE UNCHANGED vars
  <2>1. IInv'
    BY <1>4, UnchangedIInv DEF vars, IInv, Types
  <2>2. RanCreated'
    BY <1>4 DEF vars, RanCreated, Created, history
  <2>3. QED
    BY <2>1, <2>2
<1>5. QED
  BY <1>1, <1>2, <1>3, <1>4 DEF Next

(* The invariant of the runtime for every flat program: the tables and      *)
(* barriers of GOMP_parallel_start, bomp_start_processing, bomp_thread_fn   *)
(* and bomp_end_processing fit the place each thread is at.                 *)
THEOREM Invariance ==
  ASSUME ProgramsFlat
  PROVE  Spec => [](IInv /\ RanCreated)
<1>1. Init => IInv /\ RanCreated
  BY InitIInv DEF Init, RanCreated
<1>2. (IInv /\ RanCreated) /\ [Next]_vars => (IInv /\ RanCreated)'
  BY NextIInv
<1>3. QED
  BY <1>1, <1>2, PTL DEF Spec

(* Every variable keeps its type, and the counter of a barrier stays below  *)
(* the number of threads it waits for.                                      *)
THEOREM TypeCorrect ==
  ASSUME ProgramsFlat
  PROVE  Spec => []TypeOK
<1>1. IInv => TypeOK
  <2> SUFFICES ASSUME IInv PROVE TypeOK
    OBVIOUS
  <2>1. team = Len(block) /\ block \in Seq(BlockOf)
    BY Blocks
  <2>2. \A b \in DOMAIN block : block[b].counter \in 0..(block[b].max - 1)
    <3>1. \A b \in 1..Len(block) : block[b].counter < block[b].max
      BY DEF IInv, CounterCounts
    <3>2. QED
      BY <2>1, <3>1, Blocks
  <2>3. \A t \in Tid : /\ work[t].block \in 0..Len(block)
                       /\ tls[t].block \in 0..Len(block)
                       /\ at[t] \in 0..Len(block)
    BY <2>1, SMTT(30) DEF IInv, Types, Place
  <2>4. QED
    BY <2>1, <2>2, <2>3 DEF IInv, Types, TypeOK
<1>2. QED
  BY <1>1, Invariance, PTL

(* GOMP_parallel_end returns to serial code only after every member of the  *)
(* team, and every worker created so far, has run the body.                 *)
THEOREM JoinIsComplete ==
  ASSUME ProgramsFlat
  PROVE  Spec => []JoinComplete
<1>1. IInv => JoinComplete
  <2> SUFFICES ASSUME IInv, Serial PROVE JoinComplete
    BY DEF JoinComplete
  <2>1. ~Open
    BY DEF Serial, Open, Forking
  <2>2. \A w \in 1..workers : pc[w] \in {"exitBarrier", "exit", "dead"}
    BY <2>1, Workers DEF Busy
  <2>3. QED
    BY <2>1, <2>2 DEF IInv, RanBody, JoinComplete
<1>2. QED
  BY <1>1, Invariance, PTL

(* With the popcorn backend the body of a region runs only with the whole   *)
(* team: bomp_run_on ends the process when a thread cannot be created.      *)
THEOREM TeamIsComplete ==
  ASSUME ProgramsFlat
  PROVE  Spec => []TeamComplete
<1>1. IInv => TeamComplete
  <2> SUFFICES ASSUME IInv, Len(stack[Main]) > 1, mode.backend = "popcorn"
               PROVE  \A i \in 1..(block[team].max - 1) :
                        \E w \in 1..workers : work[w] = [block |-> team, id |-> i]
    BY DEF TeamComplete
  <2> DEFINE len == Len(stack[Main])
  <2>1. len \in {1, 2} /\ len > 1
    BY DEF IInv, Code
  <2> HIDE DEF len
  <2>2. len = 2
    BY <2>1
  <2>3. QED
    BY <2>2 DEF IInv, WholeTeam, Created, len
<1>2. QED
  BY <1>1, Invariance, PTL

(* A worker in the body finds the tables of its own region in the globals   *)
(* that bomp_end_processing clears and the next region replaces.            *)
THEOREM TablesAreOwn ==
  ASSUME ProgramsFlat
  PROVE  Spec => []OwnTeam
<1>1. IInv => OwnTeam
  <2> SUFFICES ASSUME IInv, NEW w \in 1..workers, InBody(w)
               PROVE  /\ tls[w] = work[w]
                      /\ gArray = work[w].block
                      /\ block[gArray].table[tls[w].id] = w
                      /\ gThreads = block[gArray].max
    BY DEF OwnTeam
  <2>1. pc[w] \in {"run", "single", "barrier"}
    BY DEF InBody
  <2>2. /\ tls[w] = work[w] /\ block[work[w].block].table[work[w].id] = w
        /\ Open /\ work[w].block = team
    BY <2>1, Workers DEF Busy
  <2>3. gArray = team /\ gThreads = block[team].max
    BY <2>2, TeamInStep
  <2>4. QED
    BY <2>2, <2>3
<1>2. QED
  BY <1>1, Invariance, PTL

(* In serial code nested, g_thread_numbers and g_array_thread_local_data    *)
(* are as before the first region: omp_in_parallel is false.                *)
THEOREM GlobalsRestored ==
  ASSUME ProgramsFlat
  PROVE  Spec => []SerialGlobals
<1>1. IInv => SerialGlobals
  BY DEF IInv, MainPlace, SerialGlobals, Serial
<1>2. QED
  BY <1>1, Invariance, PTL

-----------------------------------------------------------------------------
(* Fork and join.                                                            *)

(* Serial code has no barrier: GOMP_barrier asserts that the thread has data *)
(* of a team.                                                                *)
NoSerialBarrier == \A s \in SerialStmt : s.op # "barrier"

(* The members of the last team that have not run the body. *)
Missing == IF team = Null THEN {} ELSE {i \in 0..(block[team].max - 1) : <<team, i>> \notin ran}

LEMMA BackendConstant ==
  ASSUME [Next]_vars
  PROVE  mode' = mode
<1> USE DEF globals, settings, history
<1>1. ASSUME NEW t \in Tid, Step(t) \/ SpawnFails(t)
      PROVE  mode' = mode
  <2>1. CASE \/ SetNumThreads(t) \/ SetDynamic(t) \/ SetNested(t)
             \/ StartNested(t) \/ StartRegion(t) \/ Spawn(t) \/ Spawned(t)
             \/ LoadToInc(t) \/ StoreInc(t)
    BY <2>1 DEF SetNumThreads, SetDynamic, SetNested, StartNested, StartRegion, Spawn, Spawned,
                LoadToInc, StoreInc
  <2>2. CASE \/ Register(t) \/ WorkerDone(t) \/ WorkerExit(t)
             \/ Barrier(t) \/ Single(t) \/ EndSingle(t) \/ Only(t)
    BY <2>2 DEF Register, WorkerDone, WorkerExit, Barrier, Single, EndSingle, Only, EndProcess
  <2>3. CASE \/ EndRegion(t) \/ EndBarrier(t) \/ Clear(t) \/ Restore(t)
             \/ LoadToDec(t) \/ StoreDec(t)
             \/ Leave(t, "barrier", "run")
             \/ Leave(t, "endBarrier", "clear")
             \/ Leave(t, "exitBarrier", "exit")
    BY <2>3 DEF EndRegion, EndBarrier, Clear, Restore, LoadToDec, StoreDec, Leave, EndProcess
  <2>4. CASE SpawnFails(t)
    BY <2>4 DEF SpawnFails, EndProcess
  <2>5. QED
    BY <1>1, <2>1, <2>2, <2>3, <2>4 DEF Step
<1>2. CASE MainReturns \/ Over \/ UNCHANGED vars
  BY <1>2 DEF MainReturns, Over, EndProcess, vars
<1>3. QED
  BY <1>1, <1>2 DEF Next

(* Steps that ForkJoin does not see. *)
LEMMA Unseen ==
  ASSUME mode' = mode,
         mode.backend = "popcorn" \/ (status' = status /\ (Serial' <=> Serial) /\ Missing' = Missing)
  PROVE  UNCHANGED Abstract!vars
<1>1. CASE mode.backend = "popcorn"
  BY <1>1 DEF Abstract!vars
<1>2. CASE mode.backend # "popcorn"
  <2> DEFINE todo == IF mode.backend = "popcorn" \/ team = Null THEN {}
                     ELSE {i \in 0..(block[team].max - 1) : <<team, i>> \notin ran}
  <2>1. todo = Missing /\ todo' = Missing'
    BY <1>2 DEF Missing
  <2>2. todo' = todo
    BY <1>2, <2>1
  <2>3. status' = status /\ (Serial' <=> Serial)
    BY <1>2
  <2>4. QED
    BY <1>2, <2>2, <2>3 DEF Abstract!vars
<1>3. QED
  BY <1>1, <1>2

LEMMA SameMissing ==
  ASSUME UNCHANGED <<team, ran>>, team # Null => block'[team].max = block[team].max
  PROVE  Missing' = Missing
BY DEF Missing

LEMMA SerialIs ==
  ASSUME IInv
  PROVE  Serial <=> nested = 0 /\ pc[Main] \in {"run", "single", "barrier"}
<1>1. Len(stack[Main]) \in {1, 2}
  BY DEF IInv, Code
<1>2. QED
  BY <1>1 DEF IInv, MainPlace, Serial

LEMMA SerialKept ==
  ASSUME IInv, IInv', nested' = nested,
         pc'[Main] \in {"run", "single", "barrier"} <=> pc[Main] \in {"run", "single", "barrier"}
  PROVE  Serial' <=> Serial
<1>1. Serial' <=> nested' = 0 /\ pc'[Main] \in {"run", "single", "barrier"}
  <2>1. Len(stack'[Main]) \in {1, 2}
    BY DEF IInv, Code
  <2>2. QED
    BY <2>1 DEF IInv, MainPlace, Serial
<1>2. QED
  BY <1>1, SerialIs

LEMMA ArriveMax ==
  ASSUME IInv, NEW t, NEW b, NEW waiting, NEW released, Arrive(t, b, waiting, released),
         NEW c \in 1..Len(block)
  PROVE  block'[c].max = block[c].max
<1> DEFINE last == block[b].counter = block[b].max - 1
           n == IF last THEN 0 ELSE block[b].counter + 1
           y == IF last THEN 1 - block[b].cycle ELSE block[b].cycle
<1>1. block \in Seq(BlockOf) /\ block[c] \in BlockOf
  BY Blocks
<1>2. block' = [block EXCEPT ![b].counter = n, ![b].cycle = y]
  BY DEF Arrive
<1> HIDE DEF n, y
<1>3. CASE b = c
  <2> DEFINE new == [block[c] EXCEPT !.counter = n, !.cycle = y]
  <2>1. new.max = block[c].max
    BY <1>1 DEF BlockOf
  <2>2. block' = [block EXCEPT ![c] = new]
    BY <1>1, <1>2, <1>3
  <2> HIDE DEF new
  <2>3. block'[c] = new
    BY <1>1, <2>2
  <2>4. QED
    BY <2>1, <2>3
<1>4. CASE b # c
  BY <1>1, <1>2, <1>4
<1>5. QED
  BY <1>3, <1>4

(* Settings, barriers and the body: ForkJoin sees nothing. *)
LEMMA BodyUnseen ==
  ASSUME ProgramsFlat, NoSerialBarrier, IInv, IInv', NEW t \in Tid,
         \/ SetNumThreads(t) \/ SetDynamic(t) \/ SetNested(t)
         \/ Single(t) \/ EndSingle(t) \/ Only(t) \/ Leave(t, "barrier", "run") \/ Barrier(t),
         mode' = mode
  PROVE  UNCHANGED Abstract!vars
<1> USE DEF globals, settings, history
<1>1. Barrier(t) => tls[t] # NoTls
  <2> SUFFICES ASSUME Barrier(t), tls[t] = NoTls PROVE FALSE
    OBVIOUS
  <2>1. /\ t \in Crew /\ Stmt(t).op = "barrier" /\ pc[t] = "run"
        /\ t = Main /\ Len(stack[Main]) = 1 => Stmt(t) \in SerialStmt
    BY NextStmt DEF Barrier
  <2>2. CASE t = Main
    <3>1. team = Null
      BY <2>2 DEF IInv, MainPlace, NoTls
    <3>2. Len(stack[Main]) = 1
      <4>1. Len(stack[Main]) = 2 => Open
        BY <2>1, <2>2 DEF Open
      <4>2. Open => team # Null
        BY DEF IInv, MainPlace
      <4>3. Len(stack[Main]) \in {1, 2}
        BY DEF IInv, Code
      <4>4. QED
        BY <3>1, <4>1, <4>2, <4>3
    <3>3. QED
      BY <2>1, <2>2, <3>2 DEF NoSerialBarrier
  <2>3. CASE t # Main
    <3>1. t \in 1..workers
      BY <2>1, <2>3 DEF Crew
    <3>2. tls[t] = work[t] /\ work[t].block \in 1..Len(block)
      BY <2>1, <3>1, Workers
    <3>3. QED
      BY <3>2 DEF NoTls
  <2>4. QED
    BY <2>2, <2>3
<1>2. /\ UNCHANGED <<status, nested, team, ran>>
      /\ pc'[Main] \in {"run", "single", "barrier"} <=> pc[Main] \in {"run", "single", "barrier"}
      /\ team # Null => block'[team].max = block[team].max
  <2>1. pc \in [Tid -> PC] /\ Main \in Tid
    BY DEF IInv, Types
  <2>2. CASE SetNumThreads(t) \/ SetDynamic(t) \/ SetNested(t) \/ Only(t)
    BY <2>2 DEF SetNumThreads, SetDynamic, SetNested, Only
  <2>3. CASE Single(t) \/ EndSingle(t) \/ Leave(t, "barrier", "run")
    <3>1. /\ UNCHANGED <<status, nested, team, ran, block>>
          /\ pc[t] \in {"run", "single", "barrier"}
      BY <2>3 DEF Single, EndSingle, Leave, At, Is
    <3>2. PICK q \in {"run", "single"} : pc' = [pc EXCEPT ![t] = q]
      BY <2>3 DEF Single, EndSingle, Leave, Goto
    <3>3. pc'[Main] = (IF t = Main THEN q ELSE pc[Main])
      BY <2>1, <3>2
    <3>4. QED
      BY <3>1, <3>3
  <2>4. CASE Barrier(t)
    <3>1. /\ UNCHANGED <<status, nested, team, ran>> /\ pc[t] = "run"
          /\ Arrive(t, tls[t].block, "barrier", "run")
      BY <1>1, <2>4 DEF Barrier, At
    <3>2. PICK q \in {"run", "barrier"} : pc' = [pc EXCEPT ![t] = q]
      BY <3>1 DEF Arrive, Goto
    <3>3. pc'[Main] = (IF t = Main THEN q ELSE pc[Main])
      BY <2>1, <3>2
    <3>4. team # Null => block'[team].max = block[team].max
      BY <3>1, ArriveMax, Blocks
    <3>5. QED
      BY <3>1, <3>3, <3>4
  <2>5. QED
    BY <2>2, <2>3, <2>4
<1>3. QED
  BY <1>2, SerialKept, SameMissing, Unseen

(* The creation of the team, and what follows the last barrier. *)
LEMMA RuntimeUnseen ==
  ASSUME ProgramsFlat, IInv, IInv', NEW t \in Tid,
         \/ StartNested(t) \/ Spawn(t) \/ SpawnFails(t) \/ Spawned(t) \/ LoadToInc(t) \/ StoreInc(t)
         \/ Register(t) \/ WorkerExit(t) \/ EndBarrier(t) \/ Clear(t) \/ Restore(t)
         \/ LoadToDec(t) \/ Leave(t, "endBarrier", "clear") \/ Leave(t, "exitBarrier", "exit"),
         mode' = mode, mode.backend = "linux"
  PROVE  UNCHANGED Abstract!vars
<1> USE DEF globals, settings, history
<1> DEFINE body == {"run", "single", "barrier"}
<1>1. pc \in [Tid -> PC] /\ Main \in Tid
  BY DEF IInv, Types
<1>2. CASE StartNested(t)
  <2>1. t = Main /\ Len(stack[Main]) = 1 /\ pc[Main] = "run"
    BY <1>2, NextStmt DEF StartNested
  <2>2. gThreads = 1
    BY <2>1 DEF IInv, MainPlace, Serial
  <2>3. QED
    BY <1>2, <2>2 DEF StartNested, InParallel
<1>3. CASE StoreInc(t)
  <2>1. t = Main /\ pc[Main] = "incremented" /\ reg[Main] = 0
    BY <1>3, OnlyMain DEF StoreInc, Is, IInv, MainPlace
  <2>2. nested' = 1 /\ UNCHANGED <<status, block, team, ran>>
    BY <1>3, <2>1 DEF StoreInc
  <2>3. ~Serial
    BY <2>1 DEF Serial
  <2>4. ~Serial'
    BY <2>2 DEF IInv, MainPlace, Serial
  <2>5. QED
    BY <2>2, <2>3, <2>4, SameMissing, Unseen
<1>4. CASE Spawn(t) \/ SpawnFails(t) \/ Spawned(t) \/ LoadToInc(t)
           \/ Clear(t) \/ Restore(t) \/ LoadToDec(t) \/ Leave(t, "endBarrier", "clear")
  <2>1. UNCHANGED <<status, nested, block, team, ran>>
    BY <1>4 DEF Spawn, SpawnFails, Spawned, LoadToInc, Clear, Restore, LoadToDec, Leave
  <2>2. t = Main /\ pc[Main] \notin body
    BY <1>4, OnlyMain DEF Spawn, SpawnFails, Spawned, LoadToInc, Clear, Restore, LoadToDec, Leave, Is
  <2>3. pc'[Main] \notin body
    <3>1. CASE Spawn(t)
      <4>1. pc' = [pc EXCEPT ![workers + 1] = "born"] /\ workers + 1 # Main
        BY <3>1, Blocks DEF Spawn
      <4>2. QED
        BY <1>1, <2>2, <4>1
    <3>2. CASE SpawnFails(t)
      BY <2>2, <3>2 DEF SpawnFails
    <3>3. CASE Spawned(t) \/ LoadToInc(t) \/ Clear(t)
      BY <1>1, <2>2, <3>3 DEF Spawned, LoadToInc, Clear, Goto
    <3>4. CASE Restore(t) \/ LoadToDec(t) \/ Leave(t, "endBarrier", "clear")
      BY <1>1, <2>2, <3>4 DEF Restore, LoadToDec, Leave, Goto
    <3>5. QED
      BY <1>4, <3>1, <3>2, <3>3, <3>4
  <2>4. QED
    BY <2>1, <2>2, <2>3, SerialKept, SameMissing, Unseen
<1>5. CASE Register(t)
  <2>1. /\ gArray \in 1..Len(block) /\ work[t].id < block[gArray].max
        /\ t \in 1..workers /\ work[t].id \in 1..(block[gArray].max - 1)
    BY <1>5, BornInOpen, Blocks DEF Register, Is
  <2>2. /\ UNCHANGED <<status, nested, team, ran>>
        /\ block' = [block EXCEPT ![gArray].table[work[t].id] = t]
        /\ pc' = [pc EXCEPT ![t] = "run"]
    BY <1>5, <2>1, Blocks DEF Register, Goto
  <2>3. pc'[Main] = pc[Main]
    BY <1>1, <2>1, <2>2
  <2>4. team # Null => block'[team].max = block[team].max
    <3>1. team \in 1..Len(block) => block[team] \in BlockOf
      BY Blocks
    <3>2. QED
      BY <2>1, <2>2, <3>1, Blocks DEF BlockOf
  <2>5. QED
    BY <2>2, <2>3, <2>4, SerialKept, SameMissing, Unseen
<1>6. CASE WorkerExit(t) \/ Leave(t, "exitBarrier", "exit")
  <2>1. /\ UNCHANGED <<status, nested, block, team, ran>>
        /\ pc[t] \in {"exit", "exitBarrier"}
    BY <1>6 DEF WorkerExit, Leave, Is
  <2>2. t # Main
    BY <2>1 DEF IInv, MainPlace, Code
  <2>3. pc'[Main] = pc[Main]
    BY <1>1, <1>6, <2>2 DEF WorkerExit, Leave, Goto
  <2>4. QED
    BY <2>1, <2>3, SerialKept, SameMissing, Unseen
<1>7. CASE EndBarrier(t)
  <2>1. t = Main /\ pc[Main] = "end"
    BY <1>7, OnlyMain DEF EndBarrier, Is
  <2>2. gArray # Null
    <3>1. Len(stack[Main]) = 2
      BY <2>1 DEF IInv, MainPlace, Code
    <3>2. QED
      BY <2>1, <3>1, TeamInStep DEF Open
  <2>3. UNCHANGED <<status, nested, team, ran>> /\ Arrive(t, gArray, "endBarrier", "clear")
    BY <1>7, <2>2 DEF EndBarrier
  <2>4. PICK q \in {"endBarrier", "clear"} : pc' = [pc EXCEPT ![Main] = q]
    BY <2>1, <2>3 DEF Arrive, Goto
  <2>5. pc'[Main] \notin body
    BY <1>1, <2>4
  <2>6. team # Null => block'[team].max = block[team].max
    BY <2>3, ArriveMax, Blocks
  <2>7. QED
    BY <2>1, <2>3, <2>5, <2>6, SerialKept, SameMissing, Unseen
<1>8. QED
  BY <1>2, <1>3, <1>4, <1>5, <1>6, <1>7

(* What ForkJoin sees of a linux process that runs. *)
LEMMA Seen ==
  ASSUME mode.backend = "linux", mode' = mode, status = "running"
  PROVE  /\ \A n : status' = "running" /\ Serial /\ ~Serial' /\ Missing' = 0..(n - 1)
                     => Abstract!Fork(n)
         /\ status' = "running" /\ ~Serial /\ Serial' /\ Missing = {} /\ Missing' = {}
              => Abstract!Join
         /\ status' = "exited" /\ Serial /\ Missing' = Missing => Abstract!Exit
<1> DEFINE todo == IF mode.backend = "popcorn" \/ team = Null THEN {}
                   ELSE {i \in 0..(block[team].max - 1) : <<team, i>> \notin ran}
           phase == IF mode.backend = "popcorn" THEN "serial"
                    ELSE CASE status = "exited"  -> "over"
                           [] status = "crashed" -> "crashed"
                           [] OTHER -> IF Serial THEN "serial" ELSE "parallel"
<1>1. todo = Missing /\ todo' = Missing'
  BY DEF Missing
<1>2. phase = IF Serial THEN "serial" ELSE "parallel"
  OBVIOUS
<1>3. /\ status' = "running" => phase' = IF Serial' THEN "serial" ELSE "parallel"
      /\ status' = "exited" => phase' = "over"
  OBVIOUS
<1>4. /\ \A n : Abstract!Fork(n) <=> phase = "serial" /\ phase' = "parallel" /\ todo' = 0..(n - 1)
      /\ Abstract!Join <=> phase = "parallel" /\ todo = {} /\ phase' = "serial" /\ todo' = todo
      /\ Abstract!Exit <=> phase = "serial" /\ phase' = "over" /\ todo' = todo
  BY DEF Abstract!Fork, Abstract!Join, Abstract!Exit
<1> HIDE DEF todo, phase
<1>5. \A n : status' = "running" /\ Serial /\ ~Serial' /\ Missing' = 0..(n - 1)
               => Abstract!Fork(n)
  BY <1>1, <1>2, <1>3, <1>4
<1>6. status' = "running" /\ ~Serial /\ Serial' /\ Missing = {} /\ Missing' = {} => Abstract!Join
  BY <1>1, <1>2, <1>3, <1>4
<1>7. status' = "exited" /\ Serial /\ Missing' = Missing => Abstract!Exit
  BY <1>1, <1>2, <1>3, <1>4
<1>8. QED
  BY <1>5, <1>6, <1>7, Zenon

LEMMA SeenFinish ==
  ASSUME mode.backend = "linux", mode' = mode, status = "running", status' = "running",
         Serial' <=> Serial, NEW i \in Missing, Missing' = Missing \ {i}
  PROVE  Abstract!Next
<1> DEFINE todo == IF mode.backend = "popcorn" \/ team = Null THEN {}
                   ELSE {j \in 0..(block[team].max - 1) : <<team, j>> \notin ran}
           phase == IF mode.backend = "popcorn" THEN "serial"
                    ELSE CASE status = "exited"  -> "over"
                           [] status = "crashed" -> "crashed"
                           [] OTHER -> IF Serial THEN "serial" ELSE "parallel"
<1>1. todo = Missing /\ todo' = Missing'
  BY DEF Missing
<1>2. phase' = phase
  OBVIOUS
<1>3. (\E j \in todo : todo' = todo \ {j} /\ phase' = phase) => Abstract!Next
  BY DEF Abstract!Next, Abstract!Finish
<1> HIDE DEF todo, phase
<1>4. QED
  BY <1>1, <1>2, <1>3

(* A region begins: Fork. *)
LEMMA ForkStep ==
  ASSUME ProgramsFlat, IInv, IInv', NEW t \in Tid, StartRegion(t),
         mode' = mode, mode.backend = "linux"
  PROVE  Abstract!Next
<1> USE DEF globals, settings, history
<1>1. /\ t = Main /\ Len(stack[Main]) = 1 /\ pc[Main] = "run" /\ status = "running"
      /\ Stmt(Main).n \in Nat /\ Main \in Tid
  BY NextStmt DEF StartRegion, At
<1>2. PICK n \in Nat \ {0}, b \in Nat : n = TeamSize(Stmt(Main).n) /\ b = Len(block) + 1
  <2>1. TeamSize(Stmt(Main).n) \in Nat \ {0}
    BY <1>1 DEF TeamSize, IInv, Types
  <2>2. Len(block) + 1 \in Nat
    BY Blocks
  <2>3. QED
    BY <2>1, <2>2
<1>3. /\ workers + n - 1 <= MaxWorkers /\ team' = b /\ UNCHANGED <<status, ran>>
      /\ pc' = [pc EXCEPT ![Main] = "spawn"] /\ gThreads' = n
  BY <1>1, <1>2 DEF StartRegion, Goto
<1>4. Serial /\ ~Serial'
  BY <1>1, <1>3 DEF Serial, IInv, Types
<1>5. block'[b].max = n
  <2>1. pc'[Main] = "spawn"
    BY <1>1, <1>3 DEF IInv, Types
  <2>2. Open'
    BY <2>1 DEF Open, Forking
  <2>3. QED
    BY <1>3, <2>2 DEF IInv, MainPlace
<1>6. Missing' = 0..(n - 1)
  <2>1. \A i : <<b, i>> \notin ran
    BY <1>2, Blocks DEF IInv, RanBody
  <2>2. team' = b /\ b # Null /\ block'[team'].max = n /\ ran' = ran
    BY <1>2, <1>3, <1>5, Blocks
  <2>3. QED
    BY <2>1, <2>2 DEF Missing
<1>7. n \in 1..(MaxWorkers + 1)
  BY <1>2, <1>3, Blocks
<1>8. Abstract!Fork(n)
  BY <1>1, <1>3, <1>4, <1>6, Seen
<1>9. QED
  BY <1>7, <1>8 DEF Abstract!Next

(* A member has run the body: Finish. *)
LEMMA FinishStep ==
  ASSUME IInv, IInv', NEW t \in Tid, WorkerDone(t) \/ EndRegion(t),
         mode' = mode, mode.backend = "linux"
  PROVE  Abstract!Next
<1> USE DEF globals, settings, history
<1>1. CASE WorkerDone(t)
  <2>1. /\ t \in 1..workers /\ pc[t] = "run" /\ status = "running" /\ t # Main
        /\ Arrive(t, work[t].block, "exitBarrier", "exit")
        /\ ran' = ran \cup {<<work[t].block, work[t].id>>}
        /\ UNCHANGED <<status, nested, team>>
    BY <1>1, BornBelong DEF WorkerDone, Is, Crew
  <2>2. Open /\ work[t].block = team /\ team \in 1..Len(block)
        /\ work[t].id \in 1..(block[team].max - 1)
    BY <2>1, Workers DEF Busy
  <2>3. block'[team].max = block[team].max
    BY <2>1, <2>2, ArriveMax
  <2> DEFINE i == work[t].id
  <2>4. <<team, i>> \notin ran
    BY <2>1, <2>2 DEF IInv, RanBody
  <2>5. i \in Missing /\ Missing' = Missing \ {i}
    BY <2>1, <2>2, <2>3, <2>4 DEF Missing
  <2>6. pc'[Main] = pc[Main]
    BY <2>1, SMTT(30) DEF Arrive, Goto, IInv, Types
  <2>7. Serial' <=> Serial
    BY <2>1, <2>6, SerialKept
  <2> HIDE DEF i
  <2>8. QED
    BY <2>1, <2>5, <2>7, SeenFinish
<1>2. CASE EndRegion(t)
  <2>1. /\ t \in Crew /\ pc[t] = "run" /\ status = "running" /\ Len(stack[t]) > 1
        /\ UNCHANGED <<status, nested, block, team, stack>>
    BY <1>2, BornBelong DEF EndRegion, Is
  <2>2. t = Main /\ Len(stack[Main]) = 2
    <3>1. ASSUME t # Main PROVE FALSE
      <4>1. Len(stack[t]) = 1
        BY <2>1, <3>1 DEF IInv, Code, Crew
      <4>2. QED
        BY <2>1, <4>1
    <3> DEFINE len == Len(stack[Main])
    <3>2. len \in {1, 2} /\ len > 1
      BY <2>1, <3>1 DEF IInv, Code
    <3> HIDE DEF len
    <3>3. len = 2
      BY <3>2
    <3>4. QED
      BY <3>1, <3>3 DEF len
  <2>3. Open /\ team # Null /\ <<team, 0>> \notin ran /\ team \in 1..Len(block)
    <3>1. Open
      BY <2>1, <2>2 DEF Open
    <3>2. QED
      BY <2>1, <2>2, <3>1, TeamInStep DEF IInv, RanBody
  <2>4. ran' = ran \cup {<<team, 0>>}
    BY <1>2, <2>2 DEF EndRegion
  <2>5. 0 \in Missing /\ Missing' = Missing \ {0}
    <3>1. 0 \in 0..(block[team].max - 1)
      BY <2>3, Blocks
    <3>2. QED
      BY <2>1, <2>3, <2>4, <3>1 DEF Missing
  <2>6. ~Serial /\ ~Serial'
    BY <2>1, <2>2 DEF Serial
  <2>7. QED
    BY <2>1, <2>5, <2>6, SeenFinish
<1>3. QED
  BY <1>1, <1>2

(* GOMP_parallel_end returns: Join. *)
LEMMA JoinStep ==
  ASSUME IInv, IInv', NEW t \in Tid, StoreDec(t), mode' = mode, mode.backend = "linux"
  PROVE  Abstract!Next
<1> USE DEF globals, settings, history
<1>1. t = Main /\ pc[Main] = "decremented" /\ status = "running" /\ Main \in Tid
  BY OnlyMain DEF StoreDec, Is
<1>2. reg[Main] = 1 /\ team # Null /\ ~Open
  BY <1>1 DEF IInv, MainPlace, Open, Forking
<1>3. nested' = 0 /\ UNCHANGED <<status, block, team, ran>> /\ pc'[Main] = "run"
  BY <1>1, <1>2 DEF StoreDec, Goto, IInv, Types
<1>4. ~Serial /\ Serial'
  <2>1. Len(stack'[Main]) \in {1, 2}
    BY DEF IInv, Code
  <2>2. Len(stack'[Main]) = 1
    BY <1>3, <2>1 DEF IInv, MainPlace
  <2>3. QED
    BY <1>1, <1>3, <2>2 DEF Serial
<1>5. Missing = {} /\ Missing' = {}
  <2>1. \A i \in 0..(block[team].max - 1) : <<team, i>> \in ran
    BY <1>2 DEF IInv, RanBody
  <2>2. QED
    BY <1>3, <2>1 DEF Missing
<1>6. Abstract!Join
  BY <1>1, <1>3, <1>4, <1>5, Seen
<1>7. QED
  BY <1>6 DEF Abstract!Next

(* main returns: Exit. *)
LEMMA ExitStep ==
  ASSUME MainReturns, mode' = mode, mode.backend = "linux"
  PROVE  Abstract!Next
<1> USE DEF globals, settings, history
<1>1. /\ status = "running" /\ status' = "exited" /\ Serial
      /\ UNCHANGED <<block, team, ran>>
  BY DEF MainReturns, Is, EndProcess, Serial
<1>2. Missing' = Missing
  BY <1>1, SameMissing
<1>3. Abstract!Exit
  BY <1>1, <1>2, Seen
<1>4. QED
  BY <1>3 DEF Abstract!Next

(* Seen from the program the runtime is ForkJoin: a region forks a team,    *)
(* each member runs the body once, and the code after GOMP_parallel_end     *)
(* runs when all have.                                                      *)
THEOREM ForkJoinRefinement ==
  ASSUME ProgramsFlat, NoSerialBarrier
  PROVE  Spec => ImplementsForkJoin
<1> USE DEF globals, settings, history
<1>1. Init => Abstract!Init
  BY DEF Init, Abstract!Init, Serial
<1>2. ASSUME IInv, RanCreated, [Next]_vars
      PROVE  [Abstract!Next]_Abstract!vars
  <2>1. IInv' /\ mode' = mode /\ mode.backend \in {"linux", "popcorn"}
    BY <1>2, NextIInv, BackendConstant, ModesAssumption DEF IInv, Types
  <2>2. CASE mode.backend = "popcorn"
    BY <2>1, <2>2, Unseen
  <2>3. CASE mode.backend = "linux"
    <3>1. ASSUME NEW t \in Tid, Step(t) \/ SpawnFails(t)
          PROVE  [Abstract!Next]_Abstract!vars
      <4>1. CASE \/ SetNumThreads(t) \/ SetDynamic(t) \/ SetNested(t)
                 \/ Single(t) \/ EndSingle(t) \/ Only(t) \/ Leave(t, "barrier", "run") \/ Barrier(t)
        BY <1>2, <2>1, <4>1, BodyUnseen
      <4>2. CASE \/ StartNested(t) \/ Spawn(t) \/ SpawnFails(t) \/ Spawned(t)
                 \/ LoadToInc(t) \/ StoreInc(t)
                 \/ Register(t) \/ WorkerExit(t) \/ EndBarrier(t) \/ Clear(t) \/ Restore(t)
                 \/ LoadToDec(t) \/ Leave(t, "endBarrier", "clear") \/ Leave(t, "exitBarrier", "exit")
        BY <1>2, <2>1, <2>3, <4>2, RuntimeUnseen
      <4>3. CASE StartRegion(t)
        BY <1>2, <2>1, <2>3, <4>3, ForkStep
      <4>4. CASE WorkerDone(t) \/ EndRegion(t)
        BY <1>2, <2>1, <2>3, <4>4, FinishStep
      <4>5. CASE StoreDec(t)
        BY <1>2, <2>1, <2>3, <4>5, JoinStep
      <4>6. QED
        BY <3>1, <4>1, <4>2, <4>3, <4>4, <4>5 DEF Step
    <3>2. CASE MainReturns
      BY <2>1, <2>3, <3>2, ExitStep
    <3>3. CASE Over \/ UNCHANGED vars
      <4>1. /\ status' = status /\ (Serial' <=> Serial) /\ UNCHANGED <<block, team, ran>>
        BY <3>3 DEF Over, vars, Serial
      <4>2. QED
        BY <2>1, <4>1, SameMissing, Unseen
    <3>4. QED
      BY <1>2, <3>1, <3>2, <3>3 DEF Next
  <2>4. QED
    BY <2>1, <2>2, <2>3
<1>3. QED
  BY <1>1, <1>2, Invariance, PTL DEF Spec, ImplementsForkJoin, Abstract!Spec
-----------------------------------------------------------------------------
(* Nobody waits in vain. *)

(* Serial code waits at no barrier of the runtime. *)
BarrierInBody == pc[Main] = "barrier" => Len(stack[Main]) = 2

LEMMA MainAtBarrier ==
  ASSUME IInv, NEW t \in Tid, Step(t) \/ SpawnFails(t), ~Barrier(t), pc'[Main] = "barrier"
  PROVE  pc[Main] = "barrier" /\ stack'[Main] = stack[Main]
<1> USE DEF globals, settings, history, Goto
<1> DEFINE Y == Seq(Seq(BodyStmt \cup SerialStmt))
<1>1. workers \in Nat
  BY Blocks
<1>2. pc \in [Tid -> PC] /\ stack \in [Tid -> Y] /\ Main \in Tid
  <2>1. pc \in [Tid -> PC]
    BY DEF IInv, Types
  <2>2. stack \in [Tid -> Y]
    BY DEF IInv, Code
  <2>3. QED
    BY <2>1, <2>2
<1> HIDE DEF Y
<1>3. CASE \/ SetNumThreads(t) \/ SetDynamic(t) \/ SetNested(t) \/ Only(t) \/ Single(t)
           \/ StoreInc(t) \/ StoreDec(t)
  BY <1>2, <1>3 DEF SetNumThreads, SetDynamic, SetNested, Only, Single, StoreInc, StoreDec,
                    Advance, At, Is
<1>4. CASE \/ StartNested(t) \/ StartRegion(t) \/ Spawned(t) \/ LoadToInc(t) \/ Register(t)
           \/ WorkerExit(t) \/ EndSingle(t) \/ EndRegion(t) \/ Clear(t) \/ Restore(t)
           \/ LoadToDec(t)
  BY <1>2, <1>4 DEF StartNested, StartRegion, Spawned, LoadToInc, Register, WorkerExit, EndSingle,
                    EndRegion, Clear, Restore, LoadToDec, EndProcess
<1>5. CASE \/ WorkerDone(t) \/ EndBarrier(t) \/ Leave(t, "barrier", "run")
           \/ Leave(t, "endBarrier", "clear") \/ Leave(t, "exitBarrier", "exit")
  BY <1>2, <1>5 DEF WorkerDone, EndBarrier, Leave, Arrive, EndProcess
<1>6. CASE Spawn(t) \/ SpawnFails(t)
  BY <1>1, <1>2, <1>6 DEF Spawn, SpawnFails, EndProcess
<1>7. QED
  BY <1>3, <1>4, <1>5, <1>6 DEF Step

LEMMA BarrierInBodyKept ==
  ASSUME ProgramsFlat, NoSerialBarrier, IInv, BarrierInBody, [Next]_vars
  PROVE  BarrierInBody'
<1> USE DEF BarrierInBody
<1>1. ASSUME NEW t \in Tid, Step(t) \/ SpawnFails(t), ~Barrier(t)
      PROVE  BarrierInBody'
  BY <1>1, MainAtBarrier
<1>2. ASSUME NEW t \in Tid, Barrier(t), pc'[Main] = "barrier"
      PROVE  Len(stack'[Main]) = 2
  <2>1. /\ t \in Crew /\ Tail(Todo(t)) \in Seq(BodyStmt \cup SerialStmt)
        /\ Stmt(t).op = "barrier" /\ pc[t] = "run"
        /\ IF t = Main /\ Len(stack[Main]) = 1
           THEN Stmt(t) \in SerialStmt /\ Tail(Todo(t)) \in Seq(SerialStmt)
           ELSE Tail(Todo(t)) \in Seq(BodyStmt)
    BY <1>2, NextStmt DEF Barrier
  <2>2. CASE UNCHANGED <<pc, stack>>
    BY <1>2, <2>2
  <2>3. CASE Advance(t) /\ Arrive(t, tls[t].block, "barrier", "run") /\ workers' = workers
    <3>1. Len(stack'[Main]) = Len(stack[Main])
      BY <2>1, <2>3, Replaced DEF Advance
    <3>2. CASE t = Main
      BY <2>1, <3>1, <3>2 DEF IInv, Code, NoSerialBarrier
    <3>3. CASE t # Main
      <4>1. pc'[Main] = pc[Main]
        BY <2>3, <3>3 DEF Arrive, Goto, IInv, Types
      <4>2. QED
        BY <1>2, <3>1, <4>1
    <3>4. QED
      BY <3>2, <3>3
  <2>4. QED
    BY <1>2, <2>2, <2>3 DEF Barrier, EndProcess, history
<1>3. CASE MainReturns \/ Over \/ UNCHANGED vars
  BY <1>3 DEF MainReturns, Over, EndProcess, vars
<1>4. QED
  BY <1>1, <1>2, <1>3 DEF Next

(* t is alive and does not wait for others. *)
CanGoOn(t) ==
  /\ pc[t] \notin {"unborn", "dead"}
  /\ pc[t] \in {"barrier", "endBarrier", "exitBarrier"} => block[at[t]].cycle # reg[t]

NoDeadlock == status = "running" /\ Reliable => \E t \in Tid : CanGoOn(t)

(* Unless a worker could not be created, somebody always goes on until the   *)
(* process ends: the barriers of a body and the one at its end, which the    *)
(* main thread and the workers reach in different functions, are passed by   *)
(* the same number of threads in the same order.                             *)
THEOREM SomebodyGoesOn ==
  ASSUME ProgramsFlat, NoSerialBarrier
  PROVE  Spec => []NoDeadlock
<1>1. ASSUME IInv, BarrierInBody, Reliable, \A t \in Tid : ~CanGoOn(t)
      PROVE  FALSE
  <2>1. /\ pc[Main] \in {"barrier", "endBarrier"} /\ at[Main] = team /\ team # Null
        /\ reg[Main] = block[team].cycle /\ Len(stack[Main]) = 2
    <3>1. Main \in Tid /\ ~CanGoOn(Main)
      BY <1>1
    <3>2. pc[Main] \in {"barrier", "endBarrier"} /\ Len(stack[Main]) = 2
      BY <1>1, <3>1 DEF CanGoOn, IInv, MainPlace, Code, BarrierInBody
    <3>3. QED
      BY <1>1, <3>1, <3>2 DEF CanGoOn, IInv, MainPlace
  <2>2. Open /\ WaitsAt(Main, team)
    BY <2>1 DEF Open, WaitsAt
  <2>3. ASSUME NEW w \in 1..workers, work[w].block = team
        PROVE  w \in Tid /\ w # Main /\ WaitsAt(w, team)
    <3>1. w \in Tid /\ w # Main /\ Busy(w) /\ ~CanGoOn(w)
      BY <1>1, <2>2, <2>3, Workers
    <3>2. pc[w] \in {"barrier", "exitBarrier"} /\ reg[w] = block[at[w]].cycle
      BY <3>1 DEF Busy, CanGoOn
    <3>3. at[w] = team
      BY <1>1, <2>3, <3>2, Workers
    <3>4. QED
      BY <3>1, <3>2, <3>3 DEF WaitsAt
  <2>4. team \in 1..Len(block)
    BY <1>1, <2>2, TeamInStep
  <2>5. ASSUME NEW i \in 0..(block[team].max - 1)
        PROVE  \E t \in Tid : WaitsAt(t, team) /\ Id(t) = i
    <3>1. CASE i = 0
      BY <2>2, <3>1 DEF Id
    <3>2. CASE i # 0
      <4>1. i \in 1..(block[team].max - 1)
        BY <3>2, <2>5
      <4>2. PICK w \in 1..workers : work[w] = [block |-> team, id |-> i]
        BY <1>1, <2>1, <4>1 DEF IInv, WholeTeam, Created
      <4>3. work[w].block = team /\ work[w].id = i
        BY <4>2
      <4>4. QED
        BY <2>3, <4>3 DEF Id
    <3>3. QED
      BY <3>1, <3>2
  <2>6. Arrived(team) = 0..(block[team].max - 1)
    BY <2>5 DEF Arrived
  <2>7. block[team].counter = block[team].max
    BY <1>1, <2>4, <2>6, ArrivedFinite DEF IInv, CounterCounts
  <2>8. QED
    BY <1>1, <2>4, <2>7, Blocks DEF IInv, CounterCounts
<1>2. IInv /\ BarrierInBody => NoDeadlock
  BY <1>1 DEF NoDeadlock
<1>3. Init => BarrierInBody
  BY DEF Init, BarrierInBody
<1>4. IInv /\ BarrierInBody /\ [Next]_vars => BarrierInBody'
  BY BarrierInBodyKept
<1>5. QED
  BY <1>2, <1>3, <1>4, Invariance, PTL DEF Spec
=============================================================================
