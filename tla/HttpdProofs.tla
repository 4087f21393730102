------------------------------ MODULE HttpdProofs ------------------------------
(***************************************************************************)
(* Proofs about Httpd for any connections, demands, environments and any   *)
(* capacity of a pipe.                                                     *)
(***************************************************************************)
EXTENDS Httpd, FunctionTheorems, FiniteSetTheorems, SequenceTheorems, TLAPS

-----------------------------------------------------------------------------
(* Sequences.                                                                *)

LEMMA CountSeq ==
  ASSUME NEW n \in Nat
  PROVE  Count(n) \in Seq(Nat) /\ Len(Count(n)) = n /\ \A k \in 1..n : Count(n)[k] = k
BY DEF Count

(* The count goes on with the next number. *)
LEMMA CountNext ==
  ASSUME NEW n \in Nat
  PROVE  (<<200>> \o Count(n)) \o <<n + 1>> = <<200>> \o Count(n + 1)
<1> DEFINE s == Count(n)
           t == Count(n + 1)
<1>1. s \in Seq(Nat) /\ Len(s) = n /\ \A k \in 1..n : s[k] = k
  BY CountSeq
<1>2. t \in Seq(Nat) /\ Len(t) = n + 1 /\ \A k \in 1..(n + 1) : t[k] = k
  BY CountSeq
<1> HIDE DEF s, t
<1>3. s \o <<n + 1>> = t
  <2>1. n + 1 \in Nat /\ <<n + 1>> \in Seq(Nat) /\ Len(<<n + 1>>) = 1
    OBVIOUS
  <2>2. s \o <<n + 1>> \in Seq(Nat) /\ Len(s \o <<n + 1>>) = n + 1
    BY <1>1, <2>1, ConcatProperties
  <2>3. \A k \in 1..(n + 1) : (s \o <<n + 1>>)[k] = t[k]
    BY <1>1, <1>2
  <2>4. QED
    BY <1>2, <2>2, <2>3, SeqEqual
<1>4. <<200>> \in Seq(Nat) /\ <<n + 1>> \in Seq(Nat)
  OBVIOUS
<1>5. (<<200>> \o s) \o <<n + 1>> = <<200>> \o (s \o <<n + 1>>)
  BY <1>1, <1>4, ConcatAssociative
<1>6. QED
  BY <1>3, <1>5 DEF s, t

LEMMA CountOfNothing == <<200>> \o Count(0) = <<200>>
<1>1. Count(0) \in Seq(Nat) /\ Len(Count(0)) = 0
  BY CountSeq
<1>2. Count(0) = <<>>
  BY <1>1, EmptySeq
<1>3. <<200>> \in Seq(Nat)
  OBVIOUS
<1>4. QED
  BY <1>2, <1>3, ConcatEmptySeq

LEMMA Associative ==
  ASSUME NEW s \in Seq(Nat), NEW t \in Seq(Nat), NEW u \in Seq(Nat)
  PROVE  (s \o t) \o u = s \o (t \o u)
BY ConcatAssociative, SMTT(30)

(* A value moves from the second of two sequences to the end of the first. *)
LEMMA MoveHead ==
  ASSUME NEW s \in Seq(Nat), NEW t \in Seq(Nat), t # <<>>
  PROVE  (s \o <<Head(t)>>) \o Tail(t) = s \o t
<1> DEFINE h == <<Head(t)>>
           u == Tail(t)
<1>1. h \in Seq(Nat) /\ u \in Seq(Nat)
  OBVIOUS
<1>2. h \o u = t
  OBVIOUS
<1> HIDE DEF h, u
<1>3. (s \o h) \o u = s \o (h \o u)
  BY <1>1, Associative
<1>4. (s \o h) \o u = s \o t
  BY <1>2, <1>3
<1>5. QED
  BY <1>4 DEF h, u

LEMMA AppendLast ==
  ASSUME NEW s \in Seq(Nat), NEW t \in Seq(Nat), NEW x \in Nat
  PROVE  s \o Append(t, x) = (s \o t) \o <<x>>
<1>1. <<x>> \in Seq(Nat) /\ Append(t, x) = t \o <<x>>
  BY AppendIsConcat
<1>2. QED
  BY <1>1, ConcatAssociative

LEMMA LastOf ==
  ASSUME NEW s \in Seq(Nat), NEW x \in Nat
  PROVE  /\ s \o <<x>> \in Seq(Nat) /\ s \o <<x>> # <<>>
         /\ Len(s \o <<x>>) = Len(s) + 1
         /\ (s \o <<x>>)[Len(s \o <<x>>)] = x
         /\ \A k \in 1..Len(s) : (s \o <<x>>)[k] = s[k]
OBVIOUS

(* A finite set and its image under an injection are of the same size. *)
LEMMA SameSize ==
  ASSUME NEW S, NEW T, IsFiniteSet(S), NEW f \in [S -> T],
         \A k, l \in S : f[k] = f[l] => k = l, \A y \in T : \E k \in S : f[k] = y
  PROVE  IsFiniteSet(T) /\ Cardinality(T) = Cardinality(S)
<1>1. f \in Bijection(S, T)
  BY Fun_IsBij
<1>2. ExistsBijection(S, T)
  BY <1>1 DEF ExistsBijection
<1>3. QED
  BY <1>2, FS_Bijection

(* The writes a script has still before it. *)
Outs(s) == {k \in DOMAIN s : s[k] = "out"}

LEMMA OutsFinite ==
  ASSUME NEW s \in Seq(Op)
  PROVE  IsFiniteSet(Outs(s)) /\ Outs(s) \in SUBSET Int /\ Cardinality(Outs(s)) \in Nat
<1>1. Outs(s) \in SUBSET (1..Len(s)) /\ Len(s) \in Int
  BY DEF Outs
<1>2. IsFiniteSet(Outs(s))
  BY <1>1, FS_Interval, FS_Subset
<1>3. QED
  BY <1>1, <1>2, FS_CardinalityType

LEMMA OutsOfNothing == Cardinality(Outs(<<>>)) = 0
<1>1. Outs(<<>>) = {}
  BY DEF Outs
<1>2. QED
  BY <1>1, FS_EmptySet

(* Each step of a script takes away a write if it is one. *)
LEMMA OutsOfTail ==
  ASSUME NEW s \in Seq(Op), s # <<>>
  PROVE  Cardinality(Outs(s)) = Cardinality(Outs(Tail(s))) + (IF Head(s) = "out" THEN 1 ELSE 0)
<1> DEFINE t == Tail(s)
           R == Outs(s) \ {1}
<1>1. /\ t \in Seq(Op) /\ Len(t) = Len(s) - 1 /\ Len(s) \in Nat \ {0} /\ Head(s) = s[1]
      /\ \A k \in 1..Len(t) : t[k] = s[k + 1]
  OBVIOUS
<1>2. \A k \in Outs(t) : k + 1 \in R
  BY <1>1 DEF Outs
<1>3. \A l \in R : l - 1 \in Outs(t)
  <2> SUFFICES ASSUME NEW l \in R PROVE l - 1 \in Outs(t)
    OBVIOUS
  <2>1. l \in 2..Len(s) /\ s[l] = "out"
    BY <1>1 DEF Outs
  <2>2. l - 1 \in 1..Len(t) /\ t[l - 1] = s[l]
    BY <1>1, <2>1
  <2>3. QED
    BY <1>1, <2>1, <2>2 DEF Outs
<1>4. 1 \in Outs(s) <=> Head(s) = "out"
  BY <1>1 DEF Outs
<1>5. /\ IsFiniteSet(R) /\ Cardinality(R) = Cardinality(Outs(t))
      /\ Cardinality(Outs(t)) \in Nat
  <2>1. /\ IsFiniteSet(Outs(t)) /\ Outs(t) \in SUBSET Int /\ Cardinality(Outs(t)) \in Nat
        /\ R \in SUBSET Int
    BY <1>1, OutsFinite
  <2> DEFINE S == Outs(t)
             f == [k \in S |-> k + 1]
  <2>2. f \in [S -> R] /\ \A k, l \in S : f[k] = f[l] => k = l
    BY <1>2, <2>1
  <2>3. \A y \in R : y - 1 \in S /\ f[y - 1] = y
    BY <1>3, <2>1
  <2>4. (\A y \in R : \E k \in S : f[k] = y) /\ IsFiniteSet(S)
    BY <2>1, <2>3
  <2> HIDE DEF R, S, f
  <2>5. IsFiniteSet(R) /\ Cardinality(R) = Cardinality(S)
    BY <2>2, <2>4, SameSize
  <2>6. QED
    BY <2>1, <2>5 DEF S
<1>6. CASE Head(s) = "out"
  <2>1. Outs(s) = R \cup {1}
    BY <1>4, <1>6
  <2>2. Cardinality(Outs(s)) = Cardinality(Outs(t)) + 1
    BY <1>5, <2>1, FS_AddElement
  <2>3. QED
    BY <1>6, <2>2
<1>7. CASE Head(s) # "out"
  <2>1. Outs(s) = R
    BY <1>4, <1>7
  <2> HIDE DEF R, t
  <2>2. Cardinality(Outs(s)) = Cardinality(Outs(t))
    BY <1>5, <2>1
  <2>3. QED
    BY <1>5, <1>7, <2>2 DEF t
<1>8. QED
  BY <1>6, <1>7

-----------------------------------------------------------------------------
(* What is invariant.                                                        *)

Kinds == {"client", "file", "outR", "outW", "inR", "inW"}
Process == [at : {"none", "born", "run", "exited", "reaped"}, left : Seq(Op),
            ends : SUBSET Ends, got : Seq(Nat), wrote : Nat]

Types ==
  /\ status \in {"running", "exited", "crashed", "killed"}
  /\ env \in Environments /\ demand \in Loads
  /\ gone \in [Requests -> BOOLEAN]
  /\ pc \in [Requests -> PC]
  /\ i \in [Requests -> Nat] /\ c \in [Requests -> Nat]
  /\ script \in [Requests -> Process]
  /\ input \in [Requests -> Seq(Nat)] /\ output \in [Requests -> Seq(Nat)]
  /\ answer \in [Requests -> Seq(Nat)]
  /\ \A r \in Requests : Len(input[r]) <= Cap /\ Len(output[r]) <= Cap

(* The table of descriptors never overflows. *)
Table == /\ server \in SUBSET Ends /\ IsFiniteSet(server)
         /\ Cardinality(server) + 4 <= env.table
         /\ status # "running" => server = {}

(* What the server has open for a request whose thread is at p. *)
Holds(p) == CASE p \in {"refused", "request", "open", "pipeOut", "wait"} -> {"client"}
              [] p = "cat" -> {"client", "file"}
              [] p = "pipeIn" -> {"client", "outR", "outW"}
              [] p \in {"fork", "closeOutW"} -> {"client", "outR", "outW", "inR", "inW"}
              [] p = "closeInR" -> {"client", "outR", "inR", "inW"}
              [] p \in {"feed", "copy", "closeOutR"} -> {"client", "outR", "inW"}
              [] p = "closeInW" -> {"client", "inW"}
              [] OTHER -> {}

(* The ends of r that the server has open are those in S. *)
Has(r, S) == \A e \in Kinds : <<r, e>> \in server <=> e \in S

Descriptors(r) == status = "running" =>
  /\ pc[r] \notin {"close", "done"} => Has(r, Holds(pc[r]))
  /\ pc[r] = "close" => \E S \in MayStay(r) : Has(r, S \cup {"client"})
  /\ pc[r] = "done" => \E S \in MayStay(r) : Has(r, S)

(* Before the process is forked, while it may write, and after that. *)
Early == {"away", "refused", "request", "open", "pipeOut", "pipeIn", "fork"}
Live == {"closeOutW", "closeInR", "feed", "copy"}
Late == {"closeOutR", "closeInW", "wait"}

(* Which way a demand takes. *)
RunsScript(d) == /\ d.method # "other" /\ d.file # "missing" /\ IsCgi(d)
                 /\ ~(d.method = "POST" /\ d.length = -1)

Way(r) == /\ pc[r] \in {"open", "cat"} => Serves(demand[r])
          /\ pc[r] = "close" => demand[r].method # "other"
          /\ pc[r] \in {"pipeOut", "pipeIn", "fork"} \cup Live \cup Late =>
               RunsScript(demand[r])

(* The process of a request holds the writing end until it exits. *)
OwnProcess(r) ==
  /\ pc[r] \in Early => script[r] = NoScript /\ output[r] = <<>>
  /\ pc[r] \in Live => script[r].at # "none"
  /\ script[r].at \in {"born", "run"} => <<r, "outW">> \in script[r].ends
  /\ script[r].at = "born" => script[r].wrote = 0

(* What was sent and what waits in the pipe is what the script has written, *)
(* and when it has exited, by itself, that is all it writes.                *)
Written(r) == status = "running" /\ pc[r] \in Live =>
  /\ answer[r] \o output[r] = <<200>> \o Count(script[r].wrote)
  /\ script[r].at = "run" => script[r].wrote + Cardinality(Outs(script[r].left)) = Writes(r)
  /\ script[r].at \in {"exited", "reaped"} => script[r].wrote = Writes(r)

Answered(r) ==
  /\ pc[r] \in {"away", "refused", "request", "open"} => answer[r] = <<>>
  /\ pc[r] = "open" => i[r] = 0
  /\ pc[r] = "cat" => i[r] <= LinesRead(demand[r]) /\ answer[r] = <<200>> \o Count(i[r])
  /\ pc[r] \in {"pipeOut", "pipeIn", "fork"} => answer[r] = <<200>>
  /\ pc[r] \in Late => answer[r] = <<200>> \o Count(Writes(r))
  /\ pc[r] \in {"close", "done"} /\ ~CgiFailed(r) => answer[r] = Expected(r)

(* The byte the client has sent as the k-th, or its last one again. *)
Byte(r, k) == IF k <= demand[r].body THEN k ELSE demand[r].body
Body(r) == script[r].got \o input[r]

BodyRead(r) ==
  /\ pc[r] \in Early \cup {"closeOutW", "closeInR"} =>
       i[r] = 0 /\ c[r] = 0 /\ input[r] = <<>> /\ script[r].got = <<>>
  /\ ~gone[r] /\ pc[r] = "feed" => Len(Body(r)) = i[r] /\ c[r] = Byte(r, i[r])
  /\ ~gone[r] => \A k \in 1..Len(Body(r)) : Body(r)[k] = Byte(r, k)

Sound(r) == /\ Descriptors(r) /\ Way(r) /\ OwnProcess(r) /\ Written(r)
            /\ Answered(r) /\ BodyRead(r)

IInv == Types /\ Table /\ \A r \in Requests : Sound(r)
-----------------------------------------------------------------------------

LEMMA InitIInv == Init => IInv
<1> SUFFICES ASSUME Init PROVE IInv
  OBVIOUS
<1>1. NoScript \in Process
  BY DEF NoScript, Process
<1>2. Types
  BY <1>1, CapAssumption DEF Init, Types, PC
<1>3. Table
  BY FS_EmptySet, EnvironmentsAssumption DEF Init, Table
<1>4. ASSUME NEW r \in Requests PROVE Sound(r)
  <2>1. Body(r) = <<>> /\ Len(Body(r)) = 0
    BY <1>4 DEF Init, Body, NoScript
  <2>2. pc[r] = "away"
    BY <1>4 DEF Init
  <2>3. Descriptors(r)
    BY <1>4, <2>2 DEF Init, Descriptors, Has, Holds
  <2>4. Way(r) /\ OwnProcess(r) /\ Written(r) /\ Answered(r)
    BY <1>4, <2>2 DEF Init, Way, OwnProcess, Written, Answered, Early, Live, Late, NoScript
  <2>5. BodyRead(r)
    BY <1>4, <2>1, <2>2 DEF Init, BodyRead, NoScript
  <2>6. QED
    BY <2>3, <2>4, <2>5 DEF Sound
<1>5. QED
  BY <1>2, <1>3, <1>4 DEF IInv

(* A step for r leaves alone what belongs to other requests.                *)
Alone(r) == \A q \in Requests \ {r} :
  /\ gone'[q] = gone[q] /\ pc'[q] = pc[q] /\ i'[q] = i[q] /\ c'[q] = c[q]
  /\ script'[q] = script[q] /\ input'[q] = input[q] /\ output'[q] = output[q]
  /\ answer'[q] = answer[q]
  /\ \A e \in Kinds : <<q, e>> \in server' <=> <<q, e>> \in server

LEMMA Others ==
  ASSUME IInv, NEW r \in Requests, Types', Table', Sound(r)', Alone(r),
         UNCHANGED <<status, demand>>
  PROVE  IInv'
<1>1. ASSUME NEW q \in Requests \ {r} PROVE Sound(q)'
  <2>1. Sound(q)
    BY DEF IInv
  <2>2. /\ gone'[q] = gone[q] /\ pc'[q] = pc[q] /\ i'[q] = i[q] /\ c'[q] = c[q]
        /\ script'[q] = script[q] /\ input'[q] = input[q] /\ output'[q] = output[q]
        /\ answer'[q] = answer[q]
        /\ \A e \in Kinds : <<q, e>> \in server' <=> <<q, e>> \in server
    BY DEF Alone
  <2>3. /\ Writes(q)' = Writes(q) /\ CgiFailed(q)' = CgiFailed(q)
        /\ Body(q)' = Body(q)
    BY <2>2 DEF Writes, Program, CgiFailed, Body
  <2>4. Expected(q)' = Expected(q)
    BY <2>3 DEF Expected
  <2>5. Descriptors(q)'
    <3>1. MayStay(q)' = MayStay(q)
      BY <2>3 DEF MayStay
    <3>2. \A S : Has(q, S)' <=> Has(q, S)
      BY <2>2 DEF Has
    <3>3. QED
      BY <2>1, <2>2, <3>1, <3>2 DEF Sound, Descriptors
  <2>6. Way(q)' /\ OwnProcess(q)'
    BY <2>1, <2>2 DEF Sound, Way, OwnProcess
  <2>7. Written(q)'
    BY <2>1, <2>2, <2>3 DEF Sound, Written
  <2>8. Answered(q)'
    BY <2>1, <2>2, <2>3, <2>4 DEF Sound, Answered
  <2>9. BodyRead(q)'
    BY <2>1, <2>2, <2>3 DEF Sound, BodyRead, Byte
  <2>10. QED
    BY <2>5, <2>6, <2>7, <2>8, <2>9 DEF Sound
<1>2. QED
  BY <1>1 DEF IInv

(* The end of the server leaves answers and scripts as they are. *)
LEMMA DieIInv ==
  ASSUME IInv, NEW how \in {"exited", "crashed", "killed"}, Die(how)
  PROVE  IInv'
<1> USE DEF Die, client, thread, pipes
<1>1. Types'
  BY DEF IInv, Types
<1>2. Table'
  BY FS_EmptySet, EnvironmentsAssumption DEF IInv, Types, Table
<1>3. ASSUME NEW r \in Requests PROVE Sound(r)'
  <2>1. Sound(r)
    BY DEF IInv
  <2>2. /\ Writes(r)' = Writes(r) /\ CgiFailed(r)' = CgiFailed(r)
        /\ Body(r)' = Body(r)
    BY DEF Writes, Program, CgiFailed, Body
  <2>3. Expected(r)' = Expected(r)
    BY <2>2 DEF Expected
  <2>4. Descriptors(r)' /\ Written(r)'
    BY DEF Descriptors, Written
  <2>5. Way(r)' /\ OwnProcess(r)'
    BY <2>1 DEF Sound, Way, OwnProcess
  <2>6. Answered(r)'
    BY <2>1, <2>2, <2>3 DEF Sound, Answered
  <2>7. BodyRead(r)'
    BY <2>1, <2>2 DEF Sound, BodyRead, Byte
  <2>8. QED
    BY <2>4, <2>5, <2>6, <2>7 DEF Sound
<1>4. QED
  BY <1>1, <1>2, <1>3 DEF IInv

LEMMA AddOne ==
  ASSUME NEW S, NEW x, IsFiniteSet(S)
  PROVE  /\ IsFiniteSet(S \cup {x}) /\ Cardinality(S \cup {x}) \in Nat
         /\ Cardinality(S \cup {x}) <= Cardinality(S) + 1
<1>1. IsFiniteSet(S \cup {x})
  BY FS_AddElement
<1>2. Cardinality(S) \in Nat /\ Cardinality(S \cup {x}) \in Nat
  BY <1>1, FS_CardinalityType
<1>3. Cardinality(S \cup {x}) = IF x \in S THEN Cardinality(S) ELSE Cardinality(S) + 1
  BY FS_AddElement
<1>4. QED
  BY <1>1, <1>2, <1>3

(* The table has room for what is opened, and closing frees a place. *)
LEMMA OpenOne ==
  ASSUME IInv, NEW x \in Ends, Room(1), status = "running",
         server' = server \cup {x}, UNCHANGED <<env, status>>
  PROVE  Table'
<1>1. /\ IsFiniteSet(server') /\ Cardinality(server') \in Nat
      /\ Cardinality(server') <= Cardinality(server) + 1
  BY AddOne DEF IInv, Table
<1>2. Cardinality(server) \in Nat /\ env.table \in Nat
  BY FS_CardinalityType, EnvironmentsAssumption DEF IInv, Types, Table
<1>3. QED
  BY <1>1, <1>2 DEF IInv, Table, Room

LEMMA OpenTwo ==
  ASSUME IInv, NEW x \in Ends, NEW y \in Ends, Room(2), status = "running",
         server' = server \cup {x, y}, UNCHANGED <<env, status>>
  PROVE  Table'
<1> DEFINE S == server \cup {x}
<1>1. /\ IsFiniteSet(S) /\ Cardinality(S) \in Nat
      /\ Cardinality(S) <= Cardinality(server) + 1
  BY AddOne DEF IInv, Table
<1>2. Cardinality(server) \in Nat /\ env.table \in Nat
  BY FS_CardinalityType, EnvironmentsAssumption DEF IInv, Types, Table
<1>3. server' = S \cup {y}
  OBVIOUS
<1> HIDE DEF S
<1>4. /\ IsFiniteSet(server') /\ Cardinality(server') \in Nat
      /\ Cardinality(server') <= Cardinality(S) + 1
  BY <1>1, <1>3, AddOne
<1>5. QED
  BY <1>1, <1>2, <1>4 DEF IInv, Table, Room

LEMMA CloseOne ==
  ASSUME IInv, NEW x, status = "running", server' = server \ {x}, UNCHANGED <<env, status>>
  PROVE  Table'
<1>1. /\ IsFiniteSet(server') /\ Cardinality(server') \in Nat
      /\ Cardinality(server') <= Cardinality(server)
  BY FS_Subset, FS_CardinalityType DEF IInv, Table
<1>2. Cardinality(server) \in Nat /\ env.table \in Nat
  BY FS_CardinalityType, EnvironmentsAssumption DEF IInv, Types, Table
<1>3. QED
  BY <1>1, <1>2 DEF IInv, Table

LEMMA SameTable ==
  ASSUME IInv, UNCHANGED <<env, status, server>>
  PROVE  Table'
BY DEF IInv, Table

-----------------------------------------------------------------------------
(* The steps of a thread, but for those of the loops over the pipes.         *)

LEMMA Facts ==
  ASSUME IInv, NEW r \in Requests
  PROVE  /\ Sound(r)
         /\ demand[r].lines \in Nat /\ demand[r].length \in Int /\ demand[r].body \in Nat
         /\ demand[r].ended \in BOOLEAN /\ demand[r].script \in Seq(Op)
         /\ pc[r] \in PC /\ i[r] \in Nat /\ c[r] \in Nat
         /\ script[r] \in Process
         /\ input[r] \in Seq(Nat) /\ output[r] \in Seq(Nat) /\ answer[r] \in Seq(Nat)
         /\ server \in SUBSET Ends
BY LoadsAssumption DEF IInv, Types, Table

(* What a step that only moves the thread, and opens or closes ends of its  *)
(* own, leaves as it is.                                                    *)
LEMMA MoveFrame ==
  ASSUME IInv, NEW r \in Requests, NEW p \in PC, Goto(r, p),
         NEW S \in SUBSET Kinds,
         \/ server' = server \/ server' = server \cup ({r} \X S)
         \/ server' = server \ ({r} \X S),
         UNCHANGED <<status, env, demand, gone, i, c, script, input, output>>,
         answer' \in [Requests -> Seq(Nat)],
         \A q \in Requests \ {r} : answer'[q] = answer[q]
  PROVE  /\ Types' /\ Alone(r)
         /\ pc'[r] = p /\ Writes(r)' = Writes(r) /\ Program(r)' = Program(r)
         /\ Body(r)' = Body(r)
         /\ OwnProcess(r)' <=> /\ p \in Early => script[r] = NoScript /\ output[r] = <<>>
                               /\ p \in Live => script[r].at # "none"
                               /\ script[r].at \in {"born", "run"} =>
                                    <<r, "outW">> \in script[r].ends
                               /\ script[r].at = "born" => script[r].wrote = 0
<1>1. pc' \in [Requests -> PC] /\ pc'[r] = p /\ \A q \in Requests \ {r} : pc'[q] = pc[q]
  BY DEF Goto, IInv, Types
<1>2. Types'
  BY <1>1 DEF IInv, Types
<1>3. \A q \in Requests \ {r} : \A e \in Kinds : <<q, e>> \in server' <=> <<q, e>> \in server
  OBVIOUS
<1>4. Alone(r)
  BY <1>1, <1>3 DEF Alone
<1>5. Writes(r)' = Writes(r) /\ Program(r)' = Program(r) /\ Body(r)' = Body(r)
  BY DEF Writes, Program, Body
<1>6. QED
  BY <1>1, <1>2, <1>4, <1>5 DEF OwnProcess

LEMMA NoBody ==
  ASSUME NEW r \in Requests, script[r].got = <<>>, input[r] = <<>>
  PROVE  Body(r) = <<>> /\ Len(Body(r)) = 0
<1>1. Body(r) = <<>> \o <<>>
  BY DEF Body
<1>2. QED
  BY <1>1

(* What a request that did not fail leaves open, and what none leaves open. *)
LEMMA Stays ==
  ASSUME NEW r \in Requests, demand[r].method # "other"
  PROVE  {} \in MayStay(r) /\ \A S \in MayStay(r) : "client" \notin S /\ "file" \notin S
BY DEF MayStay

LEMMA CloseEndIInv ==
  ASSUME IInv, NEW r \in Requests, NEW from, NEW end, NEW to, CloseEnd(r, from, end, to),
         \/ from = "closeOutW" /\ end = "outW" /\ to = "closeInR"
         \/ from = "closeInR" /\ end = "inR" /\ to \in {"feed", "copy"}
         \/ from = "closeOutR" /\ end = "outR" /\ to = "closeInW"
         \/ from = "closeInW" /\ end = "inW" /\ to = "wait"
  PROVE  IInv'
<1> USE DEF client, thread, pipes
<1>1. /\ pc[r] = from /\ status = "running" /\ Goto(r, to) /\ to \in PC /\ end \in Kinds
      /\ server' = server \ {<<r, end>>} /\ server' = server \ ({r} \X {end})
      /\ UNCHANGED <<status, env, demand, gone, answer, i, c, script, input, output>>
  BY DEF CloseEnd, At, PC, Kinds
<1>2. /\ Types' /\ Alone(r) /\ pc'[r] = to /\ Writes(r)' = Writes(r) /\ Body(r)' = Body(r)
      /\ OwnProcess(r)' <=> /\ to \in Early => script[r] = NoScript /\ output[r] = <<>>
                            /\ to \in Live => script[r].at # "none"
                            /\ script[r].at \in {"born", "run"} =>
                                 <<r, "outW">> \in script[r].ends
                            /\ script[r].at = "born" => script[r].wrote = 0
  <2>1. {end} \in SUBSET Kinds /\ answer' \in [Requests -> Seq(Nat)]
    BY <1>1 DEF IInv, Types
  <2>2. QED
    BY <1>1, <2>1, MoveFrame
<1>3. Table'
  BY <1>1, CloseOne
<1>4. /\ Sound(r) /\ demand[r].body \in Nat
  BY Facts
<1>5. Descriptors(r)'
  <2>1. \A e \in Kinds : e \in Holds(to) <=> e \in Holds(from) /\ e # end
    BY DEF Holds, Kinds
  <2>2. \A e \in Kinds : <<r, e>> \in server' <=> <<r, e>> \in server /\ e # end
    BY <1>1
  <2>3. \A e \in Kinds : <<r, e>> \in server <=> e \in Holds(from)
    BY <1>1, <1>4 DEF Sound, Descriptors, Has
  <2>4. to \notin {"close", "done"}
    OBVIOUS
  <2>5. QED
    BY <1>2, <2>1, <2>2, <2>3, <2>4 DEF Descriptors, Has
<1>6. Way(r)' /\ OwnProcess(r)'
  BY <1>1, <1>2, <1>4 DEF Sound, Way, OwnProcess, Early, Live, Late
<1>7. Written(r)'
  BY <1>1, <1>2, <1>4 DEF Sound, Written, Live
<1>8. Answered(r)'
  BY <1>1, <1>2, <1>4 DEF Sound, Answered, Late
<1>9. BodyRead(r)'
  <2>1. Byte(r, 0) = 0 /\ \A k : Byte(r, k)' = Byte(r, k)
    BY <1>1, <1>4 DEF Byte
  <2>2. from = "closeInR" => Body(r) = <<>> /\ Len(Body(r)) = 0 /\ i[r] = 0 /\ c[r] = 0
    BY <1>1, <1>4, NoBody DEF Sound, BodyRead
  <2>3. QED
    BY <1>1, <1>2, <1>4, <2>1, <2>2 DEF Sound, BodyRead, Early
<1>10. QED
  BY <1>1, <1>2, <1>3, <1>5, <1>6, <1>7, <1>8, <1>9, Others DEF Sound

LEMMA AcceptIInv ==
  ASSUME IInv, NEW r \in Requests, Accept(r)
  PROVE  IInv'
<1> USE DEF client, thread, pipes
<1>1. CASE ~Room(1)
  BY <1>1, DieIInv DEF Accept
<1>2. CASE Room(1)
  <2>1. PICK p \in {"request", "refused"} : Goto(r, p)
    BY <1>2 DEF Accept
  <2>2. /\ pc[r] = "away" /\ status = "running" /\ p \in PC
        /\ server' = server \cup {<<r, "client">>}
        /\ server' = server \cup ({r} \X {"client"})
        /\ UNCHANGED <<status, env, demand, gone, answer, i, c, script, input, output>>
    BY <1>2 DEF Accept, At, PC
  <2>3. /\ Types' /\ Alone(r) /\ pc'[r] = p /\ Body(r)' = Body(r)
        /\ OwnProcess(r)' <=> /\ p \in Early => script[r] = NoScript /\ output[r] = <<>>
                              /\ p \in Live => script[r].at # "none"
                              /\ script[r].at \in {"born", "run"} =>
                                   <<r, "outW">> \in script[r].ends
                              /\ script[r].at = "born" => script[r].wrote = 0
    <3>1. {"client"} \in SUBSET Kinds /\ answer' \in [Requests -> Seq(Nat)]
      BY <2>2 DEF IInv, Types, Kinds
    <3>2. QED
      BY <2>1, <2>2, <3>1, MoveFrame
  <2>4. Table'
    <3>1. <<r, "client">> \in Ends
      BY DEF Ends
    <3>2. QED
      BY <1>2, <2>2, <3>1, OpenOne
  <2>5. Sound(r)
    BY Facts
  <2>6. Descriptors(r)'
    <3>1. \A e \in Kinds : <<r, e>> \notin server
      BY <2>2, <2>5 DEF Sound, Descriptors, Has, Holds
    <3>2. \A e \in Kinds : <<r, e>> \in server' <=> e = "client"
      BY <2>2, <3>1 DEF Kinds
    <3>3. QED
      BY <2>3, <3>2 DEF Descriptors, Has, Holds
  <2>7. Way(r)' /\ OwnProcess(r)'
    BY <2>2, <2>3, <2>5 DEF Sound, Way, OwnProcess, Early, Live, Late
  <2>8. Written(r)' /\ Answered(r)'
    BY <2>2, <2>3, <2>5 DEF Sound, Written, Answered, Live, Late
  <2>9. BodyRead(r)'
    BY <2>2, <2>3, <2>5 DEF Sound, BodyRead, Byte, Early
  <2>10. QED
    BY <2>2, <2>3, <2>4, <2>6, <2>7, <2>8, <2>9, Others DEF Sound
<1>3. QED
  BY <1>1, <1>2

LEMMA CloseClientIInv ==
  ASSUME IInv, NEW r \in Requests, CloseClient(r)
  PROVE  IInv'
<1> USE DEF client, thread, pipes
<1>1. /\ pc[r] = "close" /\ status = "running" /\ Goto(r, "done") /\ "done" \in PC
      /\ server' = server \ {<<r, "client">>} /\ server' = server \ ({r} \X {"client"})
      /\ UNCHANGED <<status, env, demand, gone, answer, i, c, script, input, output>>
  BY DEF CloseClient, At, PC
<1>2. /\ Types' /\ Alone(r) /\ pc'[r] = "done" /\ Writes(r)' = Writes(r) /\ Body(r)' = Body(r)
      /\ OwnProcess(r)' <=> /\ "done" \in Early => script[r] = NoScript /\ output[r] = <<>>
                            /\ "done" \in Live => script[r].at # "none"
                            /\ script[r].at \in {"born", "run"} =>
                                 <<r, "outW">> \in script[r].ends
                            /\ script[r].at = "born" => script[r].wrote = 0
  <2>1. {"client"} \in SUBSET Kinds /\ answer' \in [Requests -> Seq(Nat)]
    BY <1>1 DEF IInv, Types, Kinds
  <2>2. QED
    BY <1>1, <2>1, MoveFrame
<1>3. Table'
  BY <1>1, CloseOne
<1>4. Sound(r) /\ CgiFailed(r)' = CgiFailed(r) /\ Expected(r)' = Expected(r)
  BY <1>1, <1>2, Facts DEF CgiFailed, Expected
<1>5. Descriptors(r)'
  <2>1. PICK S \in MayStay(r) : Has(r, S \cup {"client"})
    BY <1>1, <1>4 DEF Sound, Descriptors
  <2>2. "client" \notin S
    BY <1>1, <1>4, Stays DEF Sound, Way
  <2>3. Has(r, S)'
    BY <1>1, <2>1, <2>2 DEF Has
  <2>4. MayStay(r)' = MayStay(r)
    BY <1>1, <1>4 DEF MayStay
  <2>5. QED
    BY <1>2, <2>3, <2>4 DEF Descriptors
<1>6. Way(r)' /\ OwnProcess(r)' /\ Written(r)'
  BY <1>1, <1>2, <1>4 DEF Sound, Way, OwnProcess, Written, Early, Live, Late
<1>7. Answered(r)'
  BY <1>1, <1>2, <1>4 DEF Sound, Answered, Late
<1>8. BodyRead(r)'
  BY <1>1, <1>2, <1>4 DEF Sound, BodyRead, Byte, Early
<1>9. QED
  BY <1>1, <1>2, <1>3, <1>5, <1>6, <1>7, <1>8, Others DEF Sound

(* A step that only moves the thread and sends something.                   *)
LEMMA SayFrame ==
  ASSUME IInv, NEW r \in Requests, NEW p \in PC, Goto(r, p),
         NEW n \in Nat, Say(r, <<n>>) \/ UNCHANGED answer,
         UNCHANGED <<status, env, demand, gone, i, c, server, script, input, output>>
  PROVE  /\ Types' /\ Table' /\ Alone(r) /\ pc'[r] = p
         /\ Say(r, <<n>>) => answer'[r] = answer[r] \o <<n>>
         /\ Writes(r)' = Writes(r) /\ Body(r)' = Body(r)
         /\ Expected(r)' = Expected(r)
<1>1. pc' \in [Requests -> PC] /\ pc'[r] = p /\ \A q \in Requests \ {r} : pc'[q] = pc[q]
  BY DEF Goto, IInv, Types
<1>2. answer[r] \o <<n>> \in Seq(Nat)
  BY LastOf DEF IInv, Types
<1>3. /\ answer' \in [Requests -> Seq(Nat)]
      /\ \A q \in Requests \ {r} : answer'[q] = answer[q]
      /\ Say(r, <<n>>) => answer'[r] = answer[r] \o <<n>>
  BY <1>2 DEF Say, IInv, Types
<1>4. Types'
  BY <1>1, <1>3 DEF IInv, Types
<1>5. Table'
  BY SameTable
<1>6. Alone(r)
  BY <1>1, <1>3 DEF Alone
<1>7. Writes(r)' = Writes(r) /\ Body(r)' = Body(r)
  BY DEF Writes, Program, Body
<1>8. Expected(r)' = Expected(r)
  BY <1>7 DEF Expected
<1>9. QED
  BY <1>1, <1>3, <1>4, <1>5, <1>6, <1>7, <1>8

LEMMA DispatchIInv ==
  ASSUME IInv, NEW r \in Requests, Dispatch(r)
  PROVE  IInv'
<1> USE DEF client, thread, pipes
<1> DEFINE d == demand[r]
<1>1. /\ pc[r] = "request" /\ status = "running"
      /\ UNCHANGED <<status, env, demand, gone, i, c, server, script, input, output>>
  BY DEF Dispatch, At, Reply
<1>2. Sound(r)
  BY Facts
<1>3. answer[r] = <<>> /\ i[r] = 0
  BY <1>1, <1>2 DEF Sound, Answered, BodyRead, Early
<1>4. PICK p \in {"close", "done", "open", "pipeOut"}, n \in {200, 400, 404, 501} :
        /\ Goto(r, p)
        /\ \/ p = "done" /\ d.method = "other" /\ Say(r, <<n>>) /\ n = 501
           \/ /\ p = "close" /\ Say(r, <<n>>)
              /\ \/ d.method # "other" /\ d.file = "missing" /\ n = 404
                 \/ /\ d.method # "other" /\ d.file # "missing" /\ IsCgi(d)
                    /\ d.method = "POST" /\ d.length = -1 /\ n = 400
           \/ p = "open" /\ Serves(d) /\ UNCHANGED answer
           \/ p = "pipeOut" /\ RunsScript(d) /\ Say(r, <<n>>) /\ n = 200
  BY DEF Dispatch, Reply, RunsScript
<1>5. /\ Types' /\ Table' /\ Alone(r) /\ pc'[r] = p
      /\ Say(r, <<n>>) => answer'[r] = answer[r] \o <<n>>
      /\ Writes(r)' = Writes(r) /\ Body(r)' = Body(r) /\ Expected(r)' = Expected(r)
  BY <1>1, <1>4, SayFrame DEF PC
<1>6. Say(r, <<n>>) => answer'[r] = <<n>>
  <2>1. <<n>> \in Seq(Nat)
    OBVIOUS
  <2>2. QED
    BY <1>3, <1>5, <2>1, ConcatEmptySeq
<1>7. Descriptors(r)'
  <2>1. \A e \in Kinds : <<r, e>> \in server' <=> e = "client"
    BY <1>1, <1>2 DEF Sound, Descriptors, Has, Holds
  <2>2. CASE p = "done"
    <3>1. {"client"} \in MayStay(r)'
      BY <1>1, <1>4, <2>2 DEF MayStay
    <3>2. Has(r, {"client"})'
      BY <2>1 DEF Has
    <3>3. QED
      BY <1>5, <2>2, <3>1, <3>2 DEF Descriptors
  <2>3. CASE p = "close"
    <3>1. {} \in MayStay(r)'
      BY <1>1, <1>4, <2>3 DEF MayStay
    <3>2. Has(r, {} \cup {"client"})'
      BY <2>1 DEF Has
    <3>3. QED
      BY <1>5, <2>3, <3>1, <3>2 DEF Descriptors
  <2>4. CASE p \in {"open", "pipeOut"}
    BY <1>5, <2>1, <2>4 DEF Descriptors, Has, Holds, Kinds
  <2>5. QED
    BY <2>2, <2>3, <2>4
<1>8. Way(r)'
  BY <1>1, <1>4, <1>5 DEF Way, Live, Late
<1>9. OwnProcess(r)' /\ Written(r)'
  <2>1. OwnProcess(r)'
    BY <1>1, <1>2, <1>4, <1>5 DEF Sound, OwnProcess, Early, Live
  <2>2. Written(r)'
    BY <1>1, <1>4, <1>5 DEF Written, Live
  <2>3. QED
    BY <2>1, <2>2
<1>10. Answered(r)'
  <2>1. CASE p \in {"close", "done"}
    <3>1. answer'[r] = <<n>>
      BY <1>4, <1>6, <2>1
    <3>2. answer'[r] = Expected(r)
      <4>1. CASE d.method = "other" /\ n = 501
        <5>1. Expected(r) = <<501>>
          BY <4>1 DEF Expected, Serves, IsCgi
        <5>2. QED
          BY <3>1, <4>1, <5>1
      <4>2. CASE d.method # "other" /\ d.file = "missing" /\ n = 404
        <5>1. Expected(r) = <<404>>
          BY <4>2 DEF Expected, Serves, IsCgi
        <5>2. QED
          BY <3>1, <4>2, <5>1
      <4>3. CASE /\ d.method # "other" /\ d.file # "missing"
                 /\ d.method = "POST" /\ d.length = -1 /\ n = 400
        <5>1. Expected(r) = <<400>>
          BY <4>3 DEF Expected, Serves, IsCgi
        <5>2. QED
          BY <3>1, <4>3, <5>1
      <4>4. QED
        BY <1>4, <2>1, <4>1, <4>2, <4>3
    <3>3. QED
      BY <1>5, <2>1, <3>2 DEF Answered, Late
  <2>2. CASE p = "open"
    BY <1>1, <1>3, <1>4, <1>5, <2>2 DEF Answered, Late
  <2>3. CASE p = "pipeOut"
    BY <1>4, <1>5, <1>6, <2>3 DEF Answered, Late
  <2>4. QED
    BY <1>4, <2>1, <2>2, <2>3
<1>11. BodyRead(r)'
  BY <1>1, <1>2, <1>4, <1>5 DEF Sound, BodyRead, Byte, Early
<1>12. QED
  BY <1>1, <1>5, <1>7, <1>8, <1>9, <1>10, <1>11, Others DEF Sound

LEMMA OpenFileIInv ==
  ASSUME IInv, NEW r \in Requests, OpenFile(r)
  PROVE  IInv'
<1> USE DEF client, thread, pipes
<1>1. CASE Die("crashed")
  BY <1>1, DieIInv
<1>2. CASE ~Die("crashed")
  <2>1. /\ pc[r] = "open" /\ status = "running" /\ Room(1)
        /\ server' = server \cup {<<r, "file">>}
        /\ server' = server \cup ({r} \X {"file"})
        /\ Say(r, <<200>>) /\ Goto(r, "cat") /\ "cat" \in PC
        /\ UNCHANGED <<status, env, demand, gone, i, c, script, input, output>>
    BY <1>2 DEF OpenFile, At, PC
  <2>2. Sound(r) /\ demand[r].lines \in Nat /\ i[r] = 0 /\ answer[r] = <<>>
    BY <2>1, Facts DEF Sound, Answered
  <2>3. answer'[r] = <<200>> \o Count(0)
    <3>1. <<200>> \in Seq(Nat)
      OBVIOUS
    <3>2. <<>> \o <<200>> = <<200>>
      BY <3>1, ConcatEmptySeq
    <3>3. answer'[r] = answer[r] \o <<200>>
      BY <2>1 DEF Say, IInv, Types
    <3>4. answer'[r] = <<>> \o <<200>>
      BY <2>2, <3>3
    <3> DEFINE one == <<200>>
    <3>5. answer'[r] = one
      BY <3>2, <3>4
    <3>6. one = <<200>> \o Count(0)
      BY CountOfNothing
    <3> HIDE DEF one
    <3>7. QED
      BY <3>5, <3>6
  <2>4. /\ answer' \in [Requests -> Seq(Nat)]
        /\ \A q \in Requests \ {r} : answer'[q] = answer[q]
    <3>1. answer[r] \o <<200>> \in Seq(Nat)
      BY LastOf DEF IInv, Types
    <3>2. QED
      BY <2>1, <3>1 DEF Say, IInv, Types
  <2>5. /\ Types' /\ Alone(r) /\ pc'[r] = "cat" /\ Body(r)' = Body(r)
        /\ OwnProcess(r)' <=> /\ "cat" \in Early => script[r] = NoScript /\ output[r] = <<>>
                              /\ "cat" \in Live => script[r].at # "none"
                              /\ script[r].at \in {"born", "run"} =>
                                   <<r, "outW">> \in script[r].ends
                              /\ script[r].at = "born" => script[r].wrote = 0
    <3>1. {"file"} \in SUBSET Kinds
      BY DEF Kinds
    <3>2. QED
      BY <2>1, <2>4, <3>1, MoveFrame
  <2>6. Table'
    <3>1. <<r, "file">> \in Ends
      BY DEF Ends
    <3>2. QED
      BY <2>1, <3>1, OpenOne
  <2>7. Descriptors(r)'
    <3>1. \A e \in Kinds : <<r, e>> \in server <=> e = "client"
      BY <2>1, <2>2 DEF Sound, Descriptors, Has, Holds
    <3>2. \A e \in Kinds : <<r, e>> \in server' <=> e \in {"client", "file"}
      BY <2>1, <3>1
    <3>3. QED
      BY <2>5, <3>2 DEF Descriptors, Has, Holds
  <2>8. Way(r)' /\ OwnProcess(r)' /\ Written(r)'
    BY <2>1, <2>2, <2>5 DEF Sound, Way, OwnProcess, Written, Early, Live, Late
  <2>9. Answered(r)'
    <3>1. LinesRead(demand[r]) \in Nat /\ LinesRead(demand[r])' = LinesRead(demand[r])
      BY <2>1, Facts DEF LinesRead
    <3>2. QED
      BY <2>1, <2>2, <2>3, <2>5, <3>1 DEF Answered, Late
  <2>10. BodyRead(r)'
    BY <2>1, <2>2, <2>5 DEF Sound, BodyRead, Byte, Early
  <2>11. QED
    BY <2>1, <2>5, <2>6, <2>7, <2>8, <2>9, <2>10, Others DEF Sound
<1>3. QED
  BY <1>1, <1>2

LEMMA CatIInv ==
  ASSUME IInv, NEW r \in Requests, Cat(r)
  PROVE  IInv'
<1> USE DEF client, thread, pipes
<1> DEFINE d == demand[r]
<1>1. /\ pc[r] = "cat" /\ status = "running" /\ pc \in [Requests -> PC]
      /\ UNCHANGED <<status, env, demand, gone, c, script, input, output>>
  BY DEF Cat, At, IInv, Types
<1>2. Sound(r) /\ d.lines \in Nat /\ i[r] \in Nat /\ d.ended \in BOOLEAN
  BY Facts
<1>3. /\ Serves(d) /\ i[r] <= LinesRead(d) /\ answer[r] = <<200>> \o Count(i[r])
      /\ LinesRead(d) \in Nat /\ LinesRead(d)' = LinesRead(d)
  BY <1>1, <1>2 DEF Sound, Way, Answered, LinesRead
<1>4. \A e \in Kinds : <<r, e>> \in server <=> e \in {"client", "file"}
  BY <1>1, <1>2 DEF Sound, Descriptors, Has, Holds
<1>5. Body(r)' = Body(r) /\ Writes(r)' = Writes(r)
  BY <1>1 DEF Body, Writes, Program
<1>6. CASE i[r] < LinesRead(d)
  <2>1. /\ Say(r, <<i[r] + 1>>) /\ i' = [i EXCEPT ![r] = @ + 1] /\ pc' = pc /\ server' = server
    BY <1>6 DEF Cat
  <2>2. i' \in [Requests -> Nat] /\ i'[r] = i[r] + 1 /\ \A q \in Requests \ {r} : i'[q] = i[q]
    BY <1>2, <2>1 DEF IInv, Types
  <2>3. /\ answer' \in [Requests -> Seq(Nat)]
        /\ answer'[r] = answer[r] \o <<i[r] + 1>>
        /\ \A q \in Requests \ {r} : answer'[q] = answer[q]
    <3>1. i[r] + 1 \in Nat
      BY <1>2
    <3>2. answer[r] \o <<i[r] + 1>> \in Seq(Nat)
      BY <3>1, LastOf DEF IInv, Types
    <3>3. QED
      BY <2>1, <3>2 DEF Say, IInv, Types
  <2>4. answer'[r] = <<200>> \o Count(i[r] + 1)
    BY <1>2, <1>3, <2>3, CountNext
  <2>5. Types' /\ Table' /\ Alone(r)
    BY <1>1, <2>1, <2>2, <2>3, SameTable DEF IInv, Types, Alone
  <2>6. Descriptors(r)' /\ Way(r)' /\ OwnProcess(r)' /\ Written(r)'
    BY <1>1, <1>2, <2>1 DEF Sound, Descriptors, Has, MayStay, CgiFailed, Way, OwnProcess, Written, Early, Live, Late
  <2>7. Answered(r)'
    <3>1. i[r] + 1 <= LinesRead(d)
      BY <1>2, <1>3, <1>6
    <3>2. QED
      BY <1>1, <1>3, <2>1, <2>2, <2>4, <3>1 DEF Answered, Late
  <2>8. BodyRead(r)'
    BY <1>1, <1>2, <1>5, <2>1 DEF Sound, BodyRead, Byte, Early
  <2>9. QED
    BY <1>1, <2>5, <2>6, <2>7, <2>8, Others DEF Sound
<1>7. CASE ~(i[r] < LinesRead(d))
  <2>1. /\ Goto(r, "close") /\ "close" \in PC /\ i' = i /\ answer' = answer
        /\ server' = server \ {<<r, "file">>} /\ server' = server \ ({r} \X {"file"})
    BY <1>7 DEF Cat, PC
  <2>2. /\ Types' /\ Alone(r) /\ pc'[r] = "close"
        /\ OwnProcess(r)' <=> /\ "close" \in Early => script[r] = NoScript /\ output[r] = <<>>
                              /\ "close" \in Live => script[r].at # "none"
                              /\ script[r].at \in {"born", "run"} =>
                                   <<r, "outW">> \in script[r].ends
                              /\ script[r].at = "born" => script[r].wrote = 0
    <3>1. {"file"} \in SUBSET Kinds /\ answer' \in [Requests -> Seq(Nat)]
      BY <2>1 DEF Kinds, IInv, Types
    <3>2. QED
      BY <1>1, <2>1, <3>1, MoveFrame
  <2>3. Table'
    BY <1>1, <2>1, CloseOne
  <2>4. Descriptors(r)'
    <3>1. Has(r, {} \cup {"client"})'
      BY <1>4, <2>1 DEF Has
    <3>2. {} \in MayStay(r)'
      BY <1>1, <1>3, <2>1 DEF MayStay, Serves
    <3>3. QED
      BY <2>2, <3>1, <3>2 DEF Descriptors
  <2>5. Way(r)' /\ OwnProcess(r)' /\ Written(r)'
    BY <1>1, <1>2, <1>3, <2>2 DEF Sound, Way, Serves, OwnProcess, Written, Early, Live, Late
  <2>6. Answered(r)'
    <3>1. answer[r] = Expected(r)
      <4>1. i[r] = LinesRead(d)
        BY <1>2, <1>3, <1>7
      <4>2. /\ d.method # "other" /\ d.file # "missing"
            /\ ~(d.method = "POST" /\ d.length = -1)
        BY <1>3 DEF Serves, IsCgi
      <4>3. Expected(r) = <<200>> \o Count(LinesRead(d))
        BY <1>3, <4>2 DEF Expected
      <4>4. QED
        BY <1>3, <4>1, <4>3
    <3>2. Expected(r)' = Expected(r)
      BY <1>1, <1>5 DEF Expected
    <3>3. QED
      BY <1>1, <2>1, <2>2, <3>1, <3>2 DEF Answered, Late
  <2>7. BodyRead(r)'
    BY <1>1, <1>2, <1>5, <2>2 DEF Sound, BodyRead, Byte, Early
  <2>8. QED
    BY <1>1, <2>2, <2>3, <2>4, <2>5, <2>6, <2>7, Others DEF Sound
<1>8. QED
  BY <1>6, <1>7

LEMMA SendFailsIInv ==
  ASSUME IInv, NEW r \in Requests, SendFails(r)
  PROVE  IInv'
BY DieIInv DEF SendFails

LEMMA FeedEndsIInv ==
  ASSUME IInv, NEW r \in Requests, FeedEnds(r)
  PROVE  IInv'
<1> USE DEF client, thread, pipes
<1>1. /\ pc[r] = "feed" /\ status = "running" /\ Goto(r, "copy") /\ "copy" \in PC /\ 0 \in Nat
      /\ UNCHANGED <<status, env, demand, gone, answer, i, c, server, script, input, output>>
  BY DEF FeedEnds, At, PC
<1>2. /\ Types' /\ Table' /\ Alone(r) /\ pc'[r] = "copy"
      /\ Writes(r)' = Writes(r) /\ Body(r)' = Body(r)
  BY <1>1, SayFrame
<1>3. Sound(r)
  BY Facts
<1>4. Descriptors(r)'
  BY <1>1, <1>2, <1>3 DEF Sound, Descriptors, Has, Holds
<1>5. Way(r)' /\ OwnProcess(r)' /\ Written(r)' /\ Answered(r)'
  <2>1. Way(r)' /\ OwnProcess(r)'
    BY <1>1, <1>2, <1>3 DEF Sound, Way, OwnProcess, Early, Live, Late
  <2>2. Written(r)'
    BY <1>1, <1>2, <1>3 DEF Sound, Written, Live
  <2>3. Answered(r)'
    BY <1>1, <1>2, <1>3 DEF Sound, Answered, Late
  <2>4. QED
    BY <2>1, <2>2, <2>3
<1>6. BodyRead(r)'
  BY <1>1, <1>2, <1>3 DEF Sound, BodyRead, Byte, Early
<1>7. QED
  BY <1>1, <1>2, <1>4, <1>5, <1>6, Others DEF Sound

(* A request whose script has run gets what its script has written.         *)
LEMMA ScriptExpected ==
  ASSUME NEW r \in Requests, RunsScript(demand[r])
  PROVE  Expected(r) = <<200>> \o Count(Writes(r))
BY DEF RunsScript, Expected, Serves

LEMMA WaitPidIInv ==
  ASSUME IInv, NEW r \in Requests, WaitPid(r)
  PROVE  IInv'
<1> USE DEF client, thread, pipes
<1>1. /\ pc[r] = "wait" /\ status = "running" /\ Goto(r, "close") /\ script[r].at = "exited"
      /\ script' = [script EXCEPT ![r].at = "reaped"]
      /\ UNCHANGED <<status, env, demand, gone, answer, i, c, server, input, output>>
  BY DEF WaitPid, At
<1>2. /\ pc' \in [Requests -> PC] /\ pc'[r] = "close"
      /\ \A q \in Requests \ {r} : pc'[q] = pc[q]
  BY <1>1 DEF Goto, IInv, Types, PC
<1>3. /\ script'[r] = [script[r] EXCEPT !.at = "reaped"] /\ script'[r] \in Process
      /\ script' \in [Requests -> Process]
      /\ \A q \in Requests \ {r} : script'[q] = script[q]
  <2>1. script \in [Requests -> Process] /\ script[r] \in Process
    BY DEF IInv, Types
  <2>2. [script[r] EXCEPT !.at = "reaped"] \in Process
    BY <2>1 DEF Process
  <2>3. QED
    BY <1>1, <2>1, <2>2
<1>4. script'[r].at = "reaped" /\ script'[r].got = script[r].got
  BY <1>3, Facts DEF Process
<1>5. Types' /\ Table' /\ Alone(r)
  BY <1>1, <1>2, <1>3, SameTable DEF IInv, Types, Alone
<1>6. Sound(r) /\ Body(r)' = Body(r) /\ Expected(r)' = Expected(r)
  <2>1. Writes(r)' = Writes(r)
    BY <1>1 DEF Writes, Program
  <2>2. QED
    BY <1>1, <1>4, <2>1, Facts DEF Body, Expected
<1>7. Descriptors(r)'
  <2>1. \A e \in Kinds : <<r, e>> \in server' <=> e = "client"
    BY <1>1, <1>6 DEF Sound, Descriptors, Has, Holds
  <2>2. {} \in MayStay(r)'
    BY <1>1, <1>6 DEF MayStay, Sound, Way, RunsScript, Late
  <2>3. Has(r, {} \cup {"client"})'
    BY <2>1 DEF Has
  <2>4. QED
    BY <1>2, <2>2, <2>3 DEF Descriptors
<1>8. Way(r)' /\ OwnProcess(r)' /\ Written(r)'
  BY <1>1, <1>2, <1>4, <1>6 DEF Sound, RunsScript, Way, OwnProcess, Written, Early, Live, Late
<1>9. Answered(r)'
  BY <1>1, <1>2, <1>6, ScriptExpected DEF Sound, Answered, Way, Late
<1>10. BodyRead(r)'
  BY <1>1, <1>2, <1>6 DEF Sound, BodyRead, Byte, Early
<1>11. QED
  BY <1>1, <1>5, <1>7, <1>8, <1>9, <1>10, Others DEF Sound

(* cannot_execute *)
LEMMA CannotIInv ==
  ASSUME IInv, NEW r \in Requests, pc[r] \in {"pipeOut", "pipeIn", "fork"}, status = "running",
         CannotExecute(r), UNCHANGED <<status, env, demand, gone, i, c, pipes>>
  PROVE  IInv'
<1> USE DEF client, thread, pipes
<1>1. /\ Goto(r, "close") /\ "close" \in PC /\ Say(r, <<500>>) /\ 500 \in Nat
      /\ UNCHANGED <<status, env, demand, gone, i, c, server, script, input, output>>
  BY DEF CannotExecute, PC
<1>2. /\ Types' /\ Table' /\ Alone(r) /\ pc'[r] = "close"
      /\ answer'[r] = answer[r] \o <<500>> /\ Body(r)' = Body(r)
  BY <1>1, SayFrame
<1>3. Sound(r) /\ answer[r] \in Seq(Nat)
  BY Facts
<1>4. CgiFailed(r)'
  BY <1>1, <1>2, <1>3, LastOf DEF CgiFailed
<1>5. Descriptors(r)'
  <2>1. PICK S \in {{}, {"outR", "outW"}, {"outR", "outW", "inR", "inW"}} :
          \A e \in Kinds : e \in Holds(pc[r]) <=> e \in S \/ e = "client"
    BY DEF Holds
  <2>2. Has(r, S \cup {"client"})'
    <3>1. Has(r, Holds(pc[r]))
      BY <1>3 DEF Sound, Descriptors
    <3>2. QED
      BY <1>1, <2>1, <3>1 DEF Has
  <2>3. S \in MayStay(r)'
    <3>1. demand'[r].method # "other"
      BY <1>1, <1>3 DEF Sound, Way, RunsScript
    <3>2. QED
      BY <1>4, <2>1, <3>1 DEF MayStay
  <2>4. QED
    BY <1>2, <2>2, <2>3 DEF Descriptors
<1>6. Way(r)' /\ OwnProcess(r)' /\ Written(r)' /\ Answered(r)'
  BY <1>1, <1>2, <1>3, <1>4 DEF Sound, RunsScript, Way, OwnProcess, Written, Answered, Early, Live, Late
<1>7. BodyRead(r)'
  BY <1>1, <1>2, <1>3 DEF Sound, BodyRead, Byte, Early
<1>8. QED
  BY <1>1, <1>2, <1>5, <1>6, <1>7, Others DEF Sound

LEMMA MakePipeIInv ==
  ASSUME IInv, NEW r \in Requests, NEW from, NEW x, NEW y, NEW to,
         MakePipe(r, from, {x, y}, to),
         \/ from = "pipeOut" /\ x = "outR" /\ y = "outW" /\ to = "pipeIn"
         \/ from = "pipeIn" /\ x = "inR" /\ y = "inW" /\ to = "fork"
  PROVE  IInv'
<1> USE DEF client, thread, pipes
<1>1. CASE ~Room(2)
  BY <1>1, CannotIInv DEF MakePipe, At
<1>2. CASE Room(2)
  <2>1. /\ pc[r] = from /\ status = "running" /\ Goto(r, to) /\ to \in PC
        /\ server' = server \cup ({r} \X {x, y})
        /\ server' = server \cup {<<r, x>>, <<r, y>>}
        /\ {x, y} \in SUBSET Kinds /\ <<r, x>> \in Ends /\ <<r, y>> \in Ends
        /\ UNCHANGED <<status, env, demand, gone, answer, i, c, script, input, output>>
    BY <1>2 DEF MakePipe, At, PC, Kinds, Ends
  <2>2. answer' \in [Requests -> Seq(Nat)]
    BY <2>1 DEF IInv, Types
  <2>3. /\ Types' /\ Alone(r) /\ pc'[r] = to /\ Body(r)' = Body(r)
        /\ OwnProcess(r)' <=> /\ to \in Early => script[r] = NoScript /\ output[r] = <<>>
                              /\ to \in Live => script[r].at # "none"
                              /\ script[r].at \in {"born", "run"} =>
                                   <<r, "outW">> \in script[r].ends
                              /\ script[r].at = "born" => script[r].wrote = 0
    BY <2>1, <2>2, MoveFrame
  <2>4. Table'
    BY <1>2, <2>1, OpenTwo
  <2>5. Sound(r)
    BY Facts
  <2>6. Descriptors(r)'
    <3>1. \A e \in Kinds : e \in Holds(to) <=> e \in Holds(from) \/ e = x \/ e = y
      BY DEF Holds, Kinds
    <3>2. \A e \in Kinds : <<r, e>> \in server' <=> <<r, e>> \in server \/ e = x \/ e = y
      BY <2>1
    <3>3. \A e \in Kinds : <<r, e>> \in server <=> e \in Holds(from)
      BY <2>1, <2>5 DEF Sound, Descriptors, Has
    <3>4. to \notin {"close", "done"}
      OBVIOUS
    <3>5. QED
      BY <2>3, <3>1, <3>2, <3>3, <3>4 DEF Descriptors, Has
  <2>7. Way(r)' /\ OwnProcess(r)' /\ Written(r)' /\ Answered(r)'
    BY <2>1, <2>3, <2>5 DEF Sound, Way, OwnProcess, Written, Answered, Early, Live, Late
  <2>8. BodyRead(r)'
    BY <2>1, <2>3, <2>5 DEF Sound, BodyRead, Byte, Early
  <2>9. QED
    BY <2>1, <2>3, <2>4, <2>6, <2>7, <2>8, Others DEF Sound
<1>3. QED
  BY <1>1, <1>2

(* The new process inherits the writing end that its output goes through.   *)
LEMMA ForkIInv ==
  ASSUME IInv, NEW r \in Requests, Fork(r)
  PROVE  IInv'
<1> USE DEF client, thread, pipes
<1>1. CASE CannotExecute(r)
  BY <1>1, CannotIInv DEF Fork, At
<1>2. CASE ~CannotExecute(r)
  <2> DEFINE new == [NoScript EXCEPT !.at = "born", !.ends = server]
  <2>1. /\ pc[r] = "fork" /\ status = "running" /\ Goto(r, "closeOutW")
        /\ script' = [script EXCEPT ![r] = new]
        /\ UNCHANGED <<status, env, demand, gone, answer, i, c, server, input, output>>
    BY <1>2 DEF Fork, At
  <2>2. /\ new \in Process /\ new.at = "born" /\ new.got = <<>> /\ new.wrote = 0
        /\ new.ends = server
    <3>1. server \in SUBSET Ends
      BY Facts
    <3>2. NoScript \in Process /\ NoScript.got = <<>> /\ NoScript.wrote = 0
      BY DEF NoScript, Process
    <3>3. QED
      BY <3>1, <3>2 DEF Process
  <2> HIDE DEF new
  <2>3. /\ pc' \in [Requests -> PC] /\ pc'[r] = "closeOutW"
        /\ \A q \in Requests \ {r} : pc'[q] = pc[q]
    BY <2>1 DEF Goto, IInv, Types, PC
  <2>4. /\ script' \in [Requests -> Process] /\ script'[r] = new
        /\ \A q \in Requests \ {r} : script'[q] = script[q]
    BY <2>1, <2>2 DEF IInv, Types
  <2>5. Types' /\ Table' /\ Alone(r)
    BY <2>1, <2>3, <2>4, SameTable DEF IInv, Types, Alone
  <2>6. /\ Sound(r) /\ script[r] = NoScript /\ output[r] = <<>> /\ input[r] = <<>>
        /\ i[r] = 0 /\ c[r] = 0 /\ answer[r] = <<200>> /\ RunsScript(demand[r])
    <3>1. Sound(r)
      BY Facts
    <3>2. script[r] = NoScript /\ output[r] = <<>> /\ RunsScript(demand[r])
      BY <2>1, <3>1 DEF Sound, OwnProcess, Way, Early
    <3>3. input[r] = <<>> /\ i[r] = 0 /\ c[r] = 0 /\ answer[r] = <<200>>
      BY <2>1, <3>1 DEF Sound, BodyRead, Answered, Early
    <3>4. QED
      BY <3>1, <3>2, <3>3
  <2>7. Body(r)' = <<>> /\ Len(Body(r)') = 0
    <3>1. Body(r)' = <<>> \o <<>>
      BY <2>1, <2>2, <2>4, <2>6 DEF Body
    <3>2. QED
      BY <3>1
  <2>8. \A e \in Kinds : <<r, e>> \in server <=> e \in Holds("fork")
    BY <2>1, <2>6 DEF Sound, Descriptors, Has
  <2>9. Descriptors(r)'
    BY <2>1, <2>3, <2>8 DEF Descriptors, Has, Holds
  <2>10. OwnProcess(r)'
    <3>1. <<r, "outW">> \in server
      BY <2>8 DEF Holds, Kinds
    <3>2. QED
      BY <2>2, <2>3, <2>4, <3>1 DEF OwnProcess, Early, Live
  <2>11. Written(r)'
    <3>1. <<200>> \o <<>> = <<200>> \o Count(0)
      <4>1. <<200>> \in Seq(Nat)
        OBVIOUS
      <4>2. QED
        BY <4>1, ConcatEmptySeq, CountOfNothing
    <3>2. answer'[r] \o output'[r] = <<200>> \o Count(script'[r].wrote)
      BY <2>1, <2>2, <2>4, <2>6, <3>1
    <3>3. QED
      BY <2>2, <2>4, <3>2 DEF Written
  <2>12. Way(r)' /\ Answered(r)'
    BY <2>1, <2>3, <2>6 DEF Way, Answered, Live, Late
  <2>13. BodyRead(r)'
    BY <2>1, <2>2, <2>3, <2>4, <2>6, <2>7 DEF BodyRead
  <2>14. QED
    BY <2>1, <2>5, <2>9, <2>10, <2>11, <2>12, <2>13, Others DEF Sound
<1>3. QED
  BY <1>1, <1>2

-----------------------------------------------------------------------------
(* The loops over the pipes.                                                 *)

LEMMA FeedIInv ==
  ASSUME IInv, NEW r \in Requests, Feed(r)
  PROVE  IInv'
<1> USE DEF client, thread, pipes
<1>1. CASE ~Open(<<r, "inR">>)
  BY <1>1, DieIInv DEF Feed
<1>2. CASE Open(<<r, "inR">>)
  <2>1. /\ pc[r] = "feed" /\ status = "running" /\ Len(input[r]) < Cap
        /\ i' = [i EXCEPT ![r] = @ + 1]
        /\ UNCHANGED <<status, env, demand, gone, answer, pc, server, script, output>>
    BY <1>2 DEF Feed, At
  <2>2. PICK x \in Received(r) : c' = [c EXCEPT ![r] = x] /\ input' = [input EXCEPT ![r] = Append(@, x)]
    BY <1>2 DEF Feed
  <2>3. /\ Sound(r) /\ demand[r].body \in Nat /\ i[r] \in Nat /\ c[r] \in Nat
        /\ script[r] \in Process /\ input[r] \in Seq(Nat)
    BY Facts
  <2>4. x \in Nat
    BY <2>3 DEF Received
  <2>5. /\ Append(input[r], x) \in Seq(Nat) /\ Len(Append(input[r], x)) = Len(input[r]) + 1
        /\ Len(input[r]) \in Nat /\ Cap \in Nat
    BY <2>3, <2>4, CapAssumption
  <2>6. /\ i' \in [Requests -> Nat] /\ i'[r] = i[r] + 1
        /\ c' \in [Requests -> Nat] /\ c'[r] = x
        /\ input' \in [Requests -> Seq(Nat)] /\ input'[r] = Append(input[r], x)
        /\ \A q \in Requests \ {r} : i'[q] = i[q] /\ c'[q] = c[q] /\ input'[q] = input[q]
    BY <2>1, <2>2, <2>3, <2>4, <2>5 DEF IInv, Types
  <2>7. Types'
    <3>1. \A q \in Requests : Len(input'[q]) <= Cap
      <4>1. Len(input'[r]) <= Cap
        BY <2>1, <2>5, <2>6
      <4>2. \A q \in Requests \ {r} : Len(input'[q]) <= Cap
        BY <2>6 DEF IInv, Types
      <4>3. QED
        BY <4>1, <4>2
    <3>2. QED
      BY <2>1, <2>6, <3>1 DEF IInv, Types
  <2>8. Table' /\ Alone(r)
    BY <2>1, <2>6, SameTable DEF Alone
  <2>9. Descriptors(r)' /\ Way(r)' /\ OwnProcess(r)'
    BY <2>1, <2>3 DEF Sound, Descriptors, Has, MayStay, CgiFailed, Way, OwnProcess, Early
  <2>10. Written(r)' /\ Answered(r)'
    <3>1. Writes(r)' = Writes(r)
      BY <2>1 DEF Writes, Program
    <3>2. QED
      BY <2>1, <2>3, <3>1 DEF Sound, Written, Answered, Late
  <2>11. BodyRead(r)'
    <3>1. pc'[r] = "feed" /\ "feed" \notin Early \cup {"closeOutW", "closeInR"}
      BY <2>1 DEF Early
    <3>2. CASE gone[r]
      BY <2>1, <3>1, <3>2 DEF BodyRead
    <3>3. CASE ~gone[r]
      <4>1. /\ Len(Body(r)) = i[r] /\ c[r] = Byte(r, i[r])
            /\ \A k \in 1..Len(Body(r)) : Body(r)[k] = Byte(r, k)
        BY <2>1, <2>3, <3>3 DEF Sound, BodyRead
      <4>2. x = Byte(r, i[r] + 1)
        BY <2>3, <3>3, <4>1 DEF Received, Byte
      <4>3. \A k : Byte(r, k)' = Byte(r, k)
        BY <2>1 DEF Byte
      <4>4. script[r].got \in Seq(Nat)
        BY <2>3 DEF Process
      <4>5. Body(r)' = Body(r) \o <<x>> /\ Body(r) \in Seq(Nat)
        <5>1. Body(r)' = script[r].got \o Append(input[r], x)
          BY <2>1, <2>6 DEF Body
        <5>2. script[r].got \o Append(input[r], x) = Body(r) \o <<x>>
          BY <2>3, <2>4, <4>4, AppendLast DEF Body
        <5>3. Body(r) \in Seq(Nat)
          BY <2>3, <4>4, ConcatProperties DEF Body
        <5>4. QED
          BY <5>1, <5>2, <5>3
      <4>6. /\ Len(Body(r)') = i[r] + 1 /\ Body(r)'[i[r] + 1] = x
            /\ \A k \in 1..i[r] : Body(r)'[k] = Body(r)[k]
        BY <2>4, <4>1, <4>5, LastOf
      <4>7. \A k \in 1..(i[r] + 1) : Body(r)'[k] = Byte(r, k)
        BY <2>3, <4>1, <4>2, <4>6
      <4>8. QED
        BY <2>6, <3>1, <4>2, <4>3, <4>6, <4>7 DEF BodyRead
    <3>4. QED
      BY <3>2, <3>3
  <2>12. QED
    BY <2>1, <2>7, <2>8, <2>9, <2>10, <2>11, Others DEF Sound
<1>3. QED
  BY <1>1, <1>2

(* The pipe has ended only if the script has exited, and what it wrote has  *)
(* been sent.                                                               *)
LEMMA CopyOutIInv ==
  ASSUME IInv, NEW r \in Requests, CopyOut(r)
  PROVE  IInv'
<1> USE DEF client, thread, pipes
<1>1. /\ pc[r] = "copy" /\ status = "running"
      /\ UNCHANGED <<status, env, demand, gone, i, c, server, script, input>>
  BY DEF CopyOut, At
<1>2. /\ Sound(r) /\ output[r] \in Seq(Nat) /\ answer[r] \in Seq(Nat) /\ script[r] \in Process
      /\ Len(output[r]) <= Cap
  BY Facts DEF IInv, Types
<1>3. /\ answer[r] \o output[r] = <<200>> \o Count(script[r].wrote)
      /\ script[r].at = "run" => script[r].wrote + Cardinality(Outs(script[r].left)) = Writes(r)
      /\ script[r].at \in {"exited", "reaped"} => script[r].wrote = Writes(r)
      /\ script[r].at # "none"
  BY <1>1, <1>2 DEF Sound, Written, OwnProcess, Live
<1>4. Writes(r)' = Writes(r) /\ Body(r)' = Body(r)
  BY <1>1 DEF Writes, Program, Body
<1>5. CASE output[r] # <<>>
  <2>1. /\ Say(r, <<Head(output[r])>>) /\ output' = [output EXCEPT ![r] = Tail(@)] /\ pc' = pc
    BY <1>5 DEF CopyOut
  <2>2. /\ Head(output[r]) \in Nat /\ Tail(output[r]) \in Seq(Nat)
        /\ Len(Tail(output[r])) = Len(output[r]) - 1 /\ Len(output[r]) \in Nat
        /\ Cap \in Nat
    BY <1>2, <1>5, CapAssumption
  <2>3. /\ output' \in [Requests -> Seq(Nat)] /\ output'[r] = Tail(output[r])
        /\ \A q \in Requests \ {r} : output'[q] = output[q]
    BY <2>1, <2>2 DEF IInv, Types
  <2>4. /\ answer' \in [Requests -> Seq(Nat)]
        /\ answer'[r] = answer[r] \o <<Head(output[r])>>
        /\ \A q \in Requests \ {r} : answer'[q] = answer[q]
    <3>1. answer[r] \o <<Head(output[r])>> \in Seq(Nat)
      BY <1>2, <2>2, LastOf
    <3>2. QED
      BY <2>1, <3>1 DEF Say, IInv, Types
  <2>5. answer'[r] \o output'[r] = answer[r] \o output[r]
    BY <1>2, <1>5, <2>3, <2>4, MoveHead
  <2>6. Types'
    <3>1. \A q \in Requests : Len(output'[q]) <= Cap
      <4>1. Len(output'[r]) <= Cap
        BY <1>2, <2>2, <2>3
      <4>2. \A q \in Requests \ {r} : Len(output'[q]) <= Cap
        BY <2>3 DEF IInv, Types
      <4>3. QED
        BY <4>1, <4>2
    <3>2. QED
      BY <1>1, <2>1, <2>3, <2>4, <3>1 DEF IInv, Types
  <2>7. Table' /\ Alone(r)
    BY <1>1, <2>1, <2>3, <2>4, SameTable DEF Alone
  <2>8. Descriptors(r)' /\ Way(r)' /\ OwnProcess(r)'
    BY <1>1, <1>2, <2>1 DEF Sound, Descriptors, Has, MayStay, CgiFailed, Way, OwnProcess, Early
  <2>9. Written(r)' /\ Answered(r)'
    BY <1>1, <1>3, <1>4, <2>1, <2>5 DEF Written, Answered, Late
  <2>10. BodyRead(r)'
    BY <1>1, <1>2, <1>4, <2>1 DEF Sound, BodyRead, Byte, Early
  <2>11. QED
    BY <1>1, <2>6, <2>7, <2>8, <2>9, <2>10, Others DEF Sound
<1>6. CASE output[r] = <<>>
  <2>1. /\ ~Open(<<r, "outW">>) /\ Goto(r, "closeOutR") /\ "closeOutR" \in PC /\ 0 \in Nat
        /\ UNCHANGED <<output, answer>>
    BY <1>6 DEF CopyOut, PC
  <2>2. /\ Types' /\ Table' /\ Alone(r) /\ pc'[r] = "closeOutR"
    BY <1>1, <2>1, SayFrame
  <2>3. script[r].wrote = Writes(r)
    <3>1. <<r, "outW">> \notin script[r].ends
      BY <2>1 DEF Open, Holders
    <3>2. script[r].at \notin {"born", "run"}
      BY <1>2, <3>1 DEF Sound, OwnProcess
    <3>3. QED
      BY <1>2, <1>3, <3>2 DEF Process
  <2>4. answer[r] = <<200>> \o Count(Writes(r))
    <3>1. answer[r] \o <<>> = answer[r]
      BY <1>2, ConcatEmptySeq
    <3>2. QED
      BY <1>3, <1>6, <2>3, <3>1
  <2>5. Descriptors(r)'
    BY <1>1, <1>2, <2>2 DEF Sound, Descriptors, Has, Holds
  <2>6. Way(r)' /\ OwnProcess(r)' /\ Written(r)'
    BY <1>1, <1>2, <2>1, <2>2 DEF Sound, Way, OwnProcess, Written, Early, Live, Late
  <2>7. Answered(r)'
    BY <1>4, <2>1, <2>2, <2>4 DEF Answered, Late
  <2>8. BodyRead(r)'
    BY <1>1, <1>2, <1>4, <2>2 DEF Sound, BodyRead, Byte, Early
  <2>9. QED
    BY <1>1, <2>2, <2>5, <2>6, <2>7, <2>8, Others DEF Sound
<1>7. QED
  BY <1>5, <1>6

-----------------------------------------------------------------------------
(* The steps of the script and of the client.                                *)

(* What a step of the script of r leaves as it is.                          *)
LEMMA ScriptFrame ==
  ASSUME IInv, NEW r \in Requests, NEW new \in Process, script[r].at # "none",
         /\ script' \in [Requests -> Process] /\ script'[r] = new
         /\ \A q \in Requests \ {r} : script'[q] = script[q],
         /\ input' \in [Requests -> Seq(Nat)] /\ Len(input'[r]) <= Cap
         /\ \A q \in Requests \ {r} : input'[q] = input[q],
         /\ output' \in [Requests -> Seq(Nat)] /\ Len(output'[r]) <= Cap
         /\ \A q \in Requests \ {r} : output'[q] = output[q],
         UNCHANGED <<status, env, client, thread, server>>
  PROVE  /\ Types' /\ Table' /\ Alone(r)
         /\ Descriptors(r)' /\ Way(r)' /\ Answered(r)'
         /\ pc[r] \notin Early /\ Writes(r)' = Writes(r)
<1> USE DEF client, thread
<1>1. Types'
  <2>1. \A q \in Requests : Len(input'[q]) <= Cap /\ Len(output'[q]) <= Cap
    BY DEF IInv, Types
  <2>2. QED
    BY <2>1 DEF IInv, Types
<1>2. Table' /\ Alone(r)
  BY SameTable DEF Alone
<1>3. Sound(r)
  BY Facts
<1>4. /\ CgiFailed(r)' = CgiFailed(r) /\ Writes(r)' = Writes(r)
  BY DEF CgiFailed, Writes, Program
<1>5. Expected(r)' = Expected(r)
  BY <1>4 DEF Expected
<1>6. Descriptors(r)' /\ Way(r)'
  <2>1. MayStay(r)' = MayStay(r) /\ \A S : Has(r, S)' <=> Has(r, S)
    BY <1>3 DEF MayStay, CgiFailed, Has
  <2>2. QED
    BY <1>3, <1>4, <2>1 DEF Sound, Descriptors, Way
<1>7. Answered(r)'
  BY <1>3, <1>4, <1>5 DEF Sound, Answered
<1>8. pc[r] \notin Early
  BY <1>3 DEF Sound, OwnProcess, NoScript
<1>9. QED
  BY <1>1, <1>2, <1>4, <1>6, <1>7, <1>8

LEMMA ExecIInv ==
  ASSUME IInv, NEW r \in Requests, Exec(r)
  PROVE  IInv'
<1> USE DEF client, thread, pipes
<1>1. /\ Sound(r) /\ script[r] \in Process /\ script \in [Requests -> Process]
      /\ Program(r) \in Seq(Op) /\ script[r].at = "born"
  BY Facts DEF Exec, Program, IInv, Types
<1> DEFINE new == [script[r] EXCEPT !.at = "run", !.left = Program(r),
                                    !.ends = @ \ {<<r, "outR">>, <<r, "inW">>}]
<1>2. script' = [script EXCEPT ![r] = new]
  BY <1>1 DEF Exec
<1>3. /\ new \in Process /\ new.at = "run" /\ new.left = Program(r)
      /\ new.ends = script[r].ends \ {<<r, "outR">>, <<r, "inW">>}
      /\ new.got = script[r].got /\ new.wrote = script[r].wrote
  BY <1>1 DEF Process
<1> HIDE DEF new
<1>4. /\ script' \in [Requests -> Process] /\ script'[r] = new
      /\ \A q \in Requests \ {r} : script'[q] = script[q]
  BY <1>1, <1>2, <1>3
<1>5. UNCHANGED <<status, env, demand, gone, answer, pc, i, c, server, input, output>>
  BY DEF Exec
<1>6. /\ Types' /\ Table' /\ Alone(r) /\ Descriptors(r)' /\ Way(r)' /\ Answered(r)'
      /\ pc[r] \notin Early /\ Writes(r)' = Writes(r)
  <2>1. script[r].at # "none"
    BY <1>1
  <2>2. /\ input' \in [Requests -> Seq(Nat)] /\ Len(input'[r]) <= Cap
        /\ output' \in [Requests -> Seq(Nat)] /\ Len(output'[r]) <= Cap
    BY <1>5 DEF IInv, Types
  <2>3. QED
    BY <1>3, <1>4, <1>5, <2>1, <2>2, ScriptFrame
<1>7. script[r].wrote = 0 /\ <<r, "outW">> \in script[r].ends
  BY <1>1 DEF Sound, OwnProcess
<1>8. OwnProcess(r)'
  BY <1>3, <1>4, <1>5, <1>6, <1>7 DEF OwnProcess
<1>9. Written(r)'
  <2>1. Cardinality(Outs(Program(r))) = Writes(r) /\ Writes(r) \in Nat
    BY <1>1, OutsFinite DEF Writes, Outs
  <2>2. script'[r].wrote = script[r].wrote
    BY <1>3, <1>4
  <2>3. ASSUME status = "running", pc[r] \in Live
        PROVE  answer[r] \o output[r] = <<200>> \o Count(script[r].wrote)
    BY <1>1, <2>3 DEF Sound, Written
  <2>4. 0 + Cardinality(Outs(Program(r))) = Writes(r)
    BY <2>1
  <2>5. script'[r].at = "run" /\ script'[r].left = Program(r) /\ script'[r].wrote = 0
    BY <1>3, <1>4, <1>7
  <2>6. QED
    BY <1>5, <1>6, <2>2, <2>3, <2>4, <2>5 DEF Written
<1>10. BodyRead(r)'
  <2>1. Body(r)' = Body(r)
    BY <1>3, <1>4, <1>5 DEF Body
  <2>2. QED
    BY <1>1, <1>3, <1>4, <1>5, <2>1 DEF Sound, BodyRead, Byte
<1>11. QED
  BY <1>5, <1>6, <1>8, <1>9, <1>10, Others DEF Sound

LEMMA ScriptReadsIInv ==
  ASSUME IInv, NEW r \in Requests, ScriptReads(r)
  PROVE  IInv'
<1> USE DEF client, thread, pipes
<1>1. /\ Sound(r) /\ script[r] \in Process /\ script \in [Requests -> Process]
      /\ script[r].at = "run" /\ script[r].left \in Seq(Op) /\ script[r].left # <<>>
      /\ Head(script[r].left) # "out" /\ input[r] \in Seq(Nat)
      /\ script[r].got \in Seq(Nat)
  BY Facts DEF ScriptReads, Next1, IInv, Types, Process
<1>2. UNCHANGED <<status, env, demand, gone, answer, pc, i, c, server, output>>
  BY DEF ScriptReads
<1>3. PICK new :
        /\ script' = [script EXCEPT ![r] = new]
        /\ new \in Process /\ new.at = "run" /\ new.ends = script[r].ends
        /\ new.wrote = script[r].wrote
        /\ new.left \in {script[r].left, Tail(script[r].left)}
        /\ \/ /\ input[r] # <<>> /\ new.got = Append(script[r].got, Head(input[r]))
              /\ input' = [input EXCEPT ![r] = Tail(@)]
           \/ new.got = script[r].got /\ UNCHANGED input
  <2>1. Tail(script[r].left) \in Seq(Op)
    BY <1>1
  <2>2. CASE input[r] # <<>>
    <3> DEFINE left == IF Next1(r, "in") THEN Tail(script[r].left) ELSE script[r].left
               new == [script[r] EXCEPT !.got = Append(@, Head(input[r])), !.left = left]
    <3>1. script' = [script EXCEPT ![r] = new] /\ input' = [input EXCEPT ![r] = Tail(@)]
      BY <1>1, <2>2 DEF ScriptReads
    <3>2. Append(script[r].got, Head(input[r])) \in Seq(Nat) /\ left \in Seq(Op)
      BY <1>1, <2>1, <2>2
    <3>3. left \in {script[r].left, Tail(script[r].left)}
      OBVIOUS
    <3> HIDE DEF left
    <3>4. /\ new \in Process /\ new.at = "run" /\ new.ends = script[r].ends
          /\ new.wrote = script[r].wrote /\ new.left = left
          /\ new.got = Append(script[r].got, Head(input[r]))
      BY <1>1, <3>2 DEF Process
    <3> HIDE DEF new
    <3>5. QED
      BY <2>2, <3>1, <3>3, <3>4
  <2>3. CASE input[r] = <<>>
    <3> DEFINE new == [script[r] EXCEPT !.left = Tail(@)]
    <3>1. script' = [script EXCEPT ![r] = new] /\ UNCHANGED input
      BY <1>1, <2>3 DEF ScriptReads
    <3>2. /\ new \in Process /\ new.at = "run" /\ new.ends = script[r].ends
          /\ new.wrote = script[r].wrote /\ new.left = Tail(script[r].left)
          /\ new.got = script[r].got
      BY <1>1, <2>1 DEF Process
    <3> HIDE DEF new
    <3>3. QED
      BY <3>1, <3>2
  <2>4. QED
    BY <2>2, <2>3
<1>4. /\ script' \in [Requests -> Process] /\ script'[r] = new
      /\ \A q \in Requests \ {r} : script'[q] = script[q]
  BY <1>1, <1>3
<1>5. /\ input' \in [Requests -> Seq(Nat)] /\ Len(input'[r]) <= Cap
      /\ \A q \in Requests \ {r} : input'[q] = input[q]
      /\ output' \in [Requests -> Seq(Nat)] /\ Len(output'[r]) <= Cap
  <2>1. Len(input[r]) <= Cap /\ Len(output[r]) <= Cap /\ Cap \in Nat /\ Len(input[r]) \in Nat
    BY <1>1, CapAssumption DEF IInv, Types
  <2>2. input[r] # <<>> => Tail(input[r]) \in Seq(Nat) /\ Len(Tail(input[r])) = Len(input[r]) - 1
    BY <1>1
  <2>3. CASE input' = [input EXCEPT ![r] = Tail(@)] /\ input[r] # <<>>
    <3>1. input'[r] = Tail(input[r]) /\ Len(input'[r]) = Len(input[r]) - 1
      BY <2>2, <2>3 DEF IInv, Types
    <3>2. QED
      BY <1>2, <2>1, <2>2, <2>3, <3>1 DEF IInv, Types
  <2>4. CASE UNCHANGED input
    BY <1>2, <2>1, <2>4 DEF IInv, Types
  <2>5. QED
    BY <1>3, <2>3, <2>4
<1>6. /\ Types' /\ Table' /\ Alone(r) /\ Descriptors(r)' /\ Way(r)' /\ Answered(r)'
      /\ pc[r] \notin Early /\ Writes(r)' = Writes(r)
  BY <1>1, <1>2, <1>3, <1>4, <1>5, ScriptFrame
<1>7. OwnProcess(r)'
  BY <1>1, <1>2, <1>3, <1>4, <1>6 DEF Sound, OwnProcess
<1>8. Written(r)'
  <2>1. Cardinality(Outs(Tail(script[r].left))) = Cardinality(Outs(script[r].left))
    <3>1. Tail(script[r].left) \in Seq(Op)
      BY <1>1
    <3>2. Cardinality(Outs(Tail(script[r].left))) \in Nat
      BY <3>1, OutsFinite
    <3>3. QED
      BY <1>1, <3>2, OutsOfTail
  <2>2. Cardinality(Outs(new.left)) = Cardinality(Outs(script[r].left))
    BY <1>3, <2>1
  <2>3. QED
    BY <1>1, <1>2, <1>3, <1>4, <1>6, <2>2 DEF Sound, Written
<1>9. BodyRead(r)'
  <2>1. Body(r)' = Body(r)
    <3>1. CASE /\ input[r] # <<>> /\ new.got = Append(script[r].got, Head(input[r]))
               /\ input' = [input EXCEPT ![r] = Tail(@)]
      <4>1. input'[r] = Tail(input[r])
        BY <3>1 DEF IInv, Types
      <4>2. Head(input[r]) \in Nat
        BY <1>1, <3>1
      <4>3. new.got = script[r].got \o <<Head(input[r])>>
        BY <1>1, <3>1, <4>2, AppendIsConcat
      <4>4. (script[r].got \o <<Head(input[r])>>) \o Tail(input[r]) = script[r].got \o input[r]
        BY <1>1, <3>1, MoveHead
      <4>5. QED
        BY <1>4, <4>1, <4>3, <4>4 DEF Body
    <3>2. CASE new.got = script[r].got /\ UNCHANGED input
      BY <1>4, <3>2 DEF Body
    <3>3. QED
      BY <1>3, <3>1, <3>2
  <2>2. pc[r] \in {"closeOutW", "closeInR"} => input[r] = <<>> /\ new.got = script[r].got /\ UNCHANGED input
    BY <1>1, <1>3 DEF Sound, BodyRead
  <2>3. QED
    BY <1>1, <1>2, <1>4, <1>6, <2>1, <2>2 DEF Sound, BodyRead, Byte
<1>10. QED
  BY <1>2, <1>6, <1>7, <1>8, <1>9, Others DEF Sound

LEMMA ScriptWritesIInv ==
  ASSUME IInv, NEW r \in Requests, ScriptWrites(r)
  PROVE  IInv'
<1> USE DEF client, thread, pipes
<1>1. /\ Sound(r) /\ script[r] \in Process /\ script \in [Requests -> Process]
      /\ script[r].at = "run" /\ script[r].left \in Seq(Op) /\ script[r].left # <<>>
      /\ Head(script[r].left) = "out" /\ script[r].wrote \in Nat
      /\ output[r] \in Seq(Nat) /\ answer[r] \in Seq(Nat) /\ Len(output[r]) < Cap
  BY Facts DEF ScriptWrites, Next1, IInv, Types, Process
<1>2. UNCHANGED <<status, env, demand, gone, answer, pc, i, c, server, input>>
  BY DEF ScriptWrites
<1> DEFINE n == script[r].wrote
           left == Tail(script[r].left)
           new == [script[r] EXCEPT !.left = left, !.wrote = n + 1]
<1>3. script' = [script EXCEPT ![r] = new] /\ output' = [output EXCEPT ![r] = Append(@, n + 1)]
  BY <1>1 DEF ScriptWrites
<1>4. /\ new \in Process /\ new.at = "run" /\ new.ends = script[r].ends
      /\ new.got = script[r].got /\ new.wrote = n + 1 /\ new.left = left
      /\ left = Tail(script[r].left)
  <2>1. left \in Seq(Op) /\ n + 1 \in Nat
    BY <1>1
  <2>2. left = Tail(script[r].left)
    OBVIOUS
  <2> HIDE DEF left, n
  <2>3. QED
    BY <1>1, <2>1, <2>2 DEF Process
<1>5. /\ n \in Nat /\ n + 1 \in Nat /\ Append(output[r], n + 1) \in Seq(Nat)
      /\ Len(Append(output[r], n + 1)) = Len(output[r]) + 1
      /\ Len(output[r]) \in Nat /\ Cap \in Nat
  BY <1>1, CapAssumption
<1> HIDE DEF new, left, n
<1>6. /\ script' \in [Requests -> Process] /\ script'[r] = new
      /\ \A q \in Requests \ {r} : script'[q] = script[q]
  BY <1>1, <1>3, <1>4
<1>7. /\ output' \in [Requests -> Seq(Nat)] /\ output'[r] = Append(output[r], n + 1)
      /\ \A q \in Requests \ {r} : output'[q] = output[q]
  BY <1>3, <1>5 DEF IInv, Types
<1>8. Len(output'[r]) <= Cap
  BY <1>1, <1>5, <1>7
<1>9. /\ Types' /\ Table' /\ Alone(r) /\ Descriptors(r)' /\ Way(r)' /\ Answered(r)'
      /\ pc[r] \notin Early /\ Writes(r)' = Writes(r)
  <2>1. /\ input' \in [Requests -> Seq(Nat)] /\ Len(input'[r]) <= Cap
        /\ \A q \in Requests \ {r} : input'[q] = input[q]
    BY <1>2 DEF IInv, Types
  <2>2. script[r].at # "none"
    BY <1>1
  <2>3. QED
    BY <1>2, <1>4, <1>6, <1>7, <1>8, <2>1, <2>2, ScriptFrame
<1>10. OwnProcess(r)'
  BY <1>1, <1>2, <1>4, <1>6, <1>9 DEF Sound, OwnProcess
<1>11. Written(r)'
  <2> SUFFICES ASSUME status = "running", pc[r] \in Live
               PROVE  /\ answer[r] \o output'[r] = <<200>> \o Count(script'[r].wrote)
                      /\ script'[r].wrote + Cardinality(Outs(script'[r].left)) = Writes(r)
    BY <1>2, <1>4, <1>6, <1>9 DEF Written
  <2>1. /\ answer[r] \o output[r] = <<200>> \o Count(n)
        /\ n + Cardinality(Outs(script[r].left)) = Writes(r)
    BY <1>1 DEF Sound, Written, n
  <2>2. answer[r] \o Append(output[r], n + 1) = (answer[r] \o output[r]) \o <<n + 1>>
    BY <1>1, <1>5, AppendLast
  <2>3. answer[r] \o output'[r] = <<200>> \o Count(n + 1)
    <3>1. (<<200>> \o Count(n)) \o <<n + 1>> = <<200>> \o Count(n + 1)
      BY <1>5, CountNext
    <3>2. QED
      BY <1>2, <1>7, <2>1, <2>2, <3>1, Zenon
  <2>4. /\ Cardinality(Outs(script[r].left)) = Cardinality(Outs(new.left)) + 1
        /\ Cardinality(Outs(new.left)) \in Nat
    <3>1. new.left \in Seq(Op)
      BY <1>4 DEF Process
    <3>2. QED
      BY <1>1, <1>4, <3>1, OutsOfTail, OutsFinite
  <2>5. script'[r].wrote = n + 1 /\ script'[r].left = new.left
    BY <1>4, <1>6
  <2> DEFINE before == Cardinality(Outs(script[r].left))
             after == Cardinality(Outs(new.left))
  <2>6. n + before = Writes(r) /\ before = after + 1 /\ after \in Nat
    BY <2>1, <2>4
  <2> HIDE DEF before, after
  <2>7. n + 1 + after = Writes(r)
    BY <1>5, <2>6
  <2>8. QED
    BY <2>3, <2>5, <2>7 DEF after
<1>12. BodyRead(r)'
  <2>1. Body(r)' = Body(r)
    BY <1>2, <1>4, <1>6 DEF Body
  <2>2. QED
    BY <1>1, <1>2, <1>4, <1>6, <2>1 DEF Sound, BodyRead, Byte
<1>13. QED
  BY <1>2, <1>9, <1>10, <1>11, <1>12, Others DEF Sound

(* While its thread copies, the server holds the reading end of the output, *)
(* so the script exits only when it has written everything.                 *)
LEMMA ScriptExitsIInv ==
  ASSUME IInv, NEW r \in Requests, ScriptExits(r)
  PROVE  IInv'
<1> USE DEF client, thread, pipes
<1>1. /\ Sound(r) /\ script[r] \in Process /\ script \in [Requests -> Process]
      /\ script[r].at = "run" /\ script[r].wrote \in Nat
  BY Facts DEF ScriptExits, IInv, Types, Process
<1>2. UNCHANGED <<status, env, demand, gone, answer, pc, i, c, server, input, output>>
  BY DEF ScriptExits
<1> DEFINE new == [script[r] EXCEPT !.at = "exited", !.ends = {}]
<1>3. script' = [script EXCEPT ![r] = new]
  BY <1>1 DEF ScriptExits
<1>4. /\ new \in Process /\ new.at = "exited" /\ new.ends = {}
      /\ new.got = script[r].got /\ new.wrote = script[r].wrote
  BY <1>1 DEF Process
<1> HIDE DEF new
<1>5. /\ script' \in [Requests -> Process] /\ script'[r] = new
      /\ \A q \in Requests \ {r} : script'[q] = script[q]
  BY <1>1, <1>3, <1>4
<1>6. /\ Types' /\ Table' /\ Alone(r) /\ Descriptors(r)' /\ Way(r)' /\ Answered(r)'
      /\ pc[r] \notin Early /\ Writes(r)' = Writes(r)
  <2>1. /\ input' \in [Requests -> Seq(Nat)] /\ Len(input'[r]) <= Cap
        /\ output' \in [Requests -> Seq(Nat)] /\ Len(output'[r]) <= Cap
    BY <1>2 DEF IInv, Types
  <2>2. script[r].at # "none"
    BY <1>1
  <2>3. QED
    BY <1>2, <1>4, <1>5, <2>1, <2>2, ScriptFrame
<1>7. OwnProcess(r)'
  BY <1>1, <1>2, <1>4, <1>5, <1>6 DEF Sound, OwnProcess
<1>8. Written(r)'
  <2> SUFFICES ASSUME status = "running", pc[r] \in Live
               PROVE  /\ answer[r] \o output[r] = <<200>> \o Count(script[r].wrote)
                      /\ script[r].wrote = Writes(r)
    BY <1>2, <1>4, <1>5, <1>6 DEF Written
  <2>1. /\ answer[r] \o output[r] = <<200>> \o Count(script[r].wrote)
        /\ script[r].wrote + Cardinality(Outs(script[r].left)) = Writes(r)
    BY <1>1 DEF Sound, Written
  <2>2. Open(<<r, "outR">>)
    <3>1. "outR" \in Kinds /\ "outR" \in Holds(pc[r]) /\ pc[r] \notin {"close", "done"}
      BY DEF Kinds, Holds, Live
    <3>2. QED
      BY <1>1, <3>1 DEF Sound, Descriptors, Has, Open
  <2>3. script[r].left = <<>>
    BY <2>2 DEF ScriptExits
  <2>4. QED
    BY <1>1, <2>1, <2>3, OutsOfNothing
<1>9. BodyRead(r)'
  <2>1. Body(r)' = Body(r)
    BY <1>2, <1>4, <1>5 DEF Body
  <2>2. QED
    BY <1>1, <1>2, <1>4, <1>5, <2>1 DEF Sound, BodyRead, Byte
<1>10. QED
  BY <1>2, <1>6, <1>7, <1>8, <1>9, Others DEF Sound

LEMMA HangUpIInv ==
  ASSUME IInv, NEW r \in Requests, HangUp(r)
  PROVE  IInv'
<1> USE DEF client, thread, pipes
<1>1. /\ gone' \in [Requests -> BOOLEAN] /\ gone'[r] = TRUE
      /\ \A q \in Requests \ {r} : gone'[q] = gone[q]
      /\ UNCHANGED <<status, env, demand, answer, pc, i, c, server, script, input, output>>
  BY DEF HangUp, IInv, Types
<1>2. Sound(r)
  BY Facts
<1>3. Types' /\ Table' /\ Alone(r)
  BY <1>1, SameTable DEF IInv, Types, Alone
<1>4. /\ Writes(r)' = Writes(r) /\ CgiFailed(r)' = CgiFailed(r)
      /\ Body(r)' = Body(r)
  BY <1>1 DEF Writes, Program, CgiFailed, Body
<1>5. Expected(r)' = Expected(r)
  BY <1>1, <1>4 DEF Expected
<1>6. Descriptors(r)' /\ Way(r)' /\ OwnProcess(r)'
  <2>1. MayStay(r)' = MayStay(r) /\ \A S : Has(r, S)' <=> Has(r, S)
    BY <1>1, <1>4 DEF MayStay, Has
  <2>2. QED
    BY <1>1, <1>2, <2>1 DEF Sound, Descriptors, Way, OwnProcess
<1>7. Written(r)' /\ Answered(r)'
  <2>1. Written(r)'
    BY <1>1, <1>2, <1>4 DEF Sound, Written
  <2>2. Answered(r)'
    BY <1>1, <1>2, <1>4, <1>5 DEF Sound, Answered
  <2>3. QED
    BY <2>1, <2>2
<1>8. BodyRead(r)'
  BY <1>1, <1>2, <1>4 DEF Sound, BodyRead
<1>9. QED
  BY <1>1, <1>3, <1>6, <1>7, <1>8, Others DEF Sound

-----------------------------------------------------------------------------
(* Every step, and what follows for the server.                              *)

LEMMA NextIInv == IInv /\ [Next]_vars => IInv'
<1> SUFFICES ASSUME IInv, [Next]_vars PROVE IInv'
  OBVIOUS
<1>1. ASSUME NEW r \in Requests, Thread(r) PROVE IInv'
  <2>1. CASE Dispatch(r) \/ OpenFile(r) \/ Cat(r) \/ CloseClient(r) \/ SendFails(r)
    BY <2>1, DispatchIInv, OpenFileIInv, CatIInv, CloseClientIInv, SendFailsIInv
  <2>2. CASE PipeOut(r) \/ PipeIn(r) \/ Fork(r)
    BY <2>2, MakePipeIInv, ForkIInv DEF PipeOut, PipeIn
  <2>3. CASE CloseOutW(r) \/ CloseInR(r) \/ CloseOutR(r) \/ CloseInW(r)
    BY <2>3, CloseEndIInv DEF CloseOutW, CloseInR, CloseOutR, CloseInW
  <2>4. CASE Feed(r) \/ FeedEnds(r) \/ CopyOut(r) \/ WaitPid(r)
    BY <2>4, FeedIInv, FeedEndsIInv, CopyOutIInv, WaitPidIInv
  <2>5. QED
    BY <1>1, <2>1, <2>2, <2>3, <2>4 DEF Thread
<1>2. ASSUME NEW r \in Requests, Script(r) PROVE IInv'
  BY <1>2, ExecIInv, ScriptReadsIInv, ScriptWritesIInv, ScriptExitsIInv DEF Script
<1>3. CASE UNCHANGED vars
  <2>1. /\ UNCHANGED <<status, env, demand, gone, answer, pc, i, c, server>>
        /\ UNCHANGED <<script, input, output>>
    BY <1>3 DEF vars, client, thread, pipes
  <2>2. Types' /\ Table'
    BY <2>1 DEF IInv, Types, Table
  <2>3. ASSUME NEW r \in Requests PROVE Sound(r)'
    <3>1. Sound(r)
      BY Facts
    <3>2. /\ Writes(r)' = Writes(r) /\ CgiFailed(r)' = CgiFailed(r)
          /\ Body(r)' = Body(r)
      BY <2>1 DEF Writes, Program, CgiFailed, Body
    <3>3. Expected(r)' = Expected(r)
      BY <2>1, <3>2 DEF Expected
    <3>4. Descriptors(r)' /\ Way(r)' /\ OwnProcess(r)'
      <4>1. MayStay(r)' = MayStay(r) /\ \A S : Has(r, S)' <=> Has(r, S)
        BY <2>1, <3>2 DEF MayStay, Has
      <4>2. QED
        BY <2>1, <3>1, <4>1 DEF Sound, Descriptors, Way, OwnProcess
    <3>5. Written(r)'
      BY <2>1, <3>1, <3>2 DEF Sound, Written
    <3>6. Answered(r)'
      BY <2>1, <3>1, <3>2, <3>3 DEF Sound, Answered
    <3>7. BodyRead(r)'
      BY <2>1, <3>1, <3>2 DEF Sound, BodyRead, Byte
    <3>8. QED
      BY <3>4, <3>5, <3>6, <3>7 DEF Sound
  <2>4. QED
    BY <2>2, <2>3 DEF IInv
<1>4. QED
  BY <1>1, <1>2, <1>3, AcceptIInv, HangUpIInv DEF Next

(* The invariant of the server for any number of connections: which ends    *)
(* accept_request, serve_file and execute_cgi hold at each of their calls,  *)
(* and what has passed through the pipes of a script by then.               *)
THEOREM Invariance == Spec => []IInv
BY InitIInv, NextIInv, PTL DEF Spec

(* Every variable keeps its type, the pipes are not overfilled, and the     *)
(* open ends of the server never exceed its table of descriptors.           *)
THEOREM TypeCorrect == Spec => []TypeOK
<1>1. IInv => TypeOK
  <2> SUFFICES ASSUME IInv PROVE TypeOK
    OBVIOUS
  <2>1. ASSUME NEW r \in Requests
        PROVE  /\ script[r].at \in {"none", "born", "run", "exited", "reaped"}
               /\ script[r].left \in Seq(Op) /\ script[r].ends \subseteq Ends
               /\ script[r].got \in Seq(Nat) /\ script[r].wrote \in Nat
               /\ input[r] \in Seq(Nat) /\ Len(input[r]) <= Cap
               /\ output[r] \in Seq(Nat) /\ Len(output[r]) <= Cap
               /\ answer[r] \in Seq(Nat)
    BY Facts DEF Process, IInv, Types
  <2>2. QED
    BY <2>1 DEF IInv, Types, Table, TypeOK
<1>2. QED
  BY <1>1, Invariance, PTL

(* Every request that accept_request is done with, and cannot_execute did   *)
(* not end, was answered in order: with the lines of the file that cat      *)
(* reads, which leaves out a last one without a newline, or with all that   *)
(* the script of execute_cgi writes, whatever the threads and the processes *)
(* of other requests do meanwhile.                                          *)
THEOREM AnswersAreWhole == Spec => []AnswerWhole
<1>1. IInv => AnswerWhole
  BY DEF IInv, Sound, Answered, AnswerWhole
<1>2. QED
  BY <1>1, Invariance, PTL

(* The loop of execute_cgi over the Content-Length gives the script the     *)
(* body of its own request in order, and repeats its last byte when the     *)
(* client sends less than it announced.                                     *)
THEOREM ScriptsGetTheirBody == Spec => []ScriptGetsBody
<1>1. IInv => ScriptGetsBody
  <2> SUFFICES ASSUME IInv, NEW r \in Requests, ~gone[r], NEW k \in DOMAIN Body(r)
               PROVE  Body(r)[k] = Byte(r, k)
    BY DEF ScriptGetsBody, Body, Byte
  <2>1. /\ Sound(r) /\ input[r] \in Seq(Nat) /\ script[r].got \in Seq(Nat)
    BY Facts DEF Process
  <2>2. Body(r) \in Seq(Nat)
    BY <2>1, ConcatProperties DEF Body
  <2>3. k \in 1..Len(Body(r))
    BY <2>2
  <2>4. QED
    BY <2>1, <2>3 DEF Sound, BodyRead
<1>2. QED
  BY <1>1, Invariance, PTL

(* What a request that is over has left open in the server is what the      *)
(* returns of accept_request and execute_cgi leave open, and nothing else:  *)
(* the connection after unimplemented, pipes after cannot_execute.          *)
THEOREM LeftOpenKnown == Spec => []LeftOpen
<1>1. IInv => LeftOpen
  <2> SUFFICES ASSUME IInv, NEW r \in Requests, status = "running", pc[r] = "done"
               PROVE  Left(r) \in MayStay(r)
    BY DEF LeftOpen
  <2>1. PICK S \in MayStay(r) : Has(r, S)
    BY Facts DEF Sound, Descriptors
  <2>2. S \in SUBSET Kinds /\ server \in SUBSET (Requests \X Kinds)
    BY Facts DEF MayStay, Kinds, Ends
  <2>3. Left(r) = S
    <3>1. ASSUME NEW e \in Left(r) PROVE e \in S
      BY <2>1, <2>2, <3>1 DEF Left, Has
    <3>2. ASSUME NEW e \in S PROVE e \in Left(r)
      <4>1. <<r, e>> \in {x \in server : x[1] = r}
        BY <2>1, <2>2 DEF Has
      <4>2. QED
        BY <4>1 DEF Left
    <3>3. QED
      BY <3>1, <3>2
  <2>4. QED
    BY <2>1, <2>3
<1>2. QED
  BY <1>1, Invariance, PTL
=============================================================================
