----------------------------- MODULE MpartProofs -----------------------------
(***************************************************************************)
(* Proofs about Mpart for every machine, every policy and every size of    *)
(* the units.                                                              *)
(***************************************************************************)
EXTENDS Mpart, FiniteSetTheorems, TLAPS

LEMMA FloorType ==
  ASSUME NEW x \in Int, NEW u \in Nat \ {0}
  PROVE  x % u \in Int /\ Floor(x, u) \in Int /\ Ceiling(x, u) \in Int
<1>1. x % u \in Int
  OBVIOUS
<1>2. QED
  BY <1>1 DEF Floor, Ceiling

LEMMA Units == /\ MaxRegions \in Nat \ {0} /\ Page \in Nat \ {0} /\ Resolution \in Nat \ {0}
               /\ BenChunk \in Nat \ {0} /\ BenAlignment \in Nat \ {0} /\ Wrap \in Nat \ {0}
               /\ Cap \in Nat
BY UnitsAssumption

LEMMA MachineFacts ==
  ASSUME machine \in Machines
  PROVE  /\ MaxNode \in Nat \ {0} /\ Node \subseteq Nat
         /\ \A n \in Node : /\ NodeSize(n) \in Int
                            /\ CpuMap(n) \subseteq Int /\ IsFiniteSet(CpuMap(n))
         /\ \A n, k \in Node : n # k => CpuMap(n) \cap CpuMap(k) = {}
         /\ machine.cpus \in Nat \ {0}
         /\ \A r \in 1..Len(machine.lines) : machine.lines[r].start \in Int /\ machine.lines[r].end \in Int
         /\ Len(machine.lines) \in Nat
<1>1. /\ machine.lines \in Seq([start : Int, end : Int])
      /\ DOMAIN machine.nodes \subseteq Nat \ {0}
      /\ \E k \in DOMAIN machine.nodes : \A n \in DOMAIN machine.nodes : n <= k
      /\ \A n \in DOMAIN machine.nodes :
           /\ machine.nodes[n].size \in Int
           /\ machine.nodes[n].cpus \subseteq Nat /\ IsFiniteSet(machine.nodes[n].cpus)
      /\ \A n, k \in DOMAIN machine.nodes :
           n # k => machine.nodes[n].cpus \cap machine.nodes[k].cpus = {}
      /\ machine.cpus \in Nat \ {0}
  BY MachinesAssumption
<1>2. MaxNode \in DOMAIN machine.nodes
  BY <1>1 DEF MaxNode
<1>3. MaxNode \in Nat \ {0} /\ Node \subseteq Nat
  BY <1>1, <1>2 DEF Node
<1>4. \A n \in Node : NodeSize(n) \in Int
  BY <1>1 DEF NodeSize
<1>5. ASSUME NEW n \in Node
      PROVE  CpuMap(n) \subseteq Int /\ IsFiniteSet(CpuMap(n))
  <2>1. CASE n \in DOMAIN machine.nodes
    <3>1. CpuMap(n) \subseteq machine.nodes[n].cpus
      BY <2>1 DEF CpuMap
    <3>2. QED
      BY <1>1, <2>1, <3>1, FS_Subset, SMTT(30)
  <2>2. CASE n \notin DOMAIN machine.nodes
    BY <2>2, FS_EmptySet DEF CpuMap
  <2>3. QED
    BY <2>1, <2>2
<1>6. \A n, k \in Node : n # k => CpuMap(n) \cap CpuMap(k) = {}
  BY <1>1 DEF CpuMap
<1>7. /\ Len(machine.lines) \in Nat
      /\ \A r \in 1..Len(machine.lines) :
           machine.lines[r].start \in Int /\ machine.lines[r].end \in Int
  <2> DEFINE S == [start : Int, end : Int]
             m == machine.lines
  <2>1. m \in Seq(S)
    BY <1>1
  <2> HIDE DEF S, m
  <2>2. Len(m) \in Nat /\ \A r \in 1..Len(m) : m[r] \in S
    BY <2>1
  <2>3. QED
    BY <2>2 DEF S, m
<1>8. machine.cpus \in Nat \ {0} /\ MaxNode \in Nat \ {0} /\ Node \subseteq Nat
  BY <1>1, <1>3
<1> HIDE DEF Node
<1>9. QED
  BY <1>4, <1>5, <1>6, <1>7, <1>8

LEMMA AppendPart ==
  ASSUME parts \in Seq(Part), NEW q \in Part, parts' = Append(parts, q)
  PROVE  /\ parts' \in Seq(Part) /\ Len(parts') = Len(parts) + 1 /\ Len(parts) \in Nat
         /\ \A p \in 1..Len(parts) : parts'[p] = parts[p]
         /\ parts'[Len(parts) + 1] = q /\ parts' # <<>>
         /\ \A p \in 1..Len(parts') : p \in 1..Len(parts) \/ p = Len(parts) + 1
  OBVIOUS

LEMMA InitIInv == Init => IInv
<1> SUFFICES ASSUME Init
             PROVE  IInv
  OBVIOUS
<1> USE DEF Init
<1>1. TypeOK
  <2>1. anode \in [Node -> NumaNode]
    BY DEF NoNode, NumaNode
  <2>2. amemres \in [Region -> Resource]
    BY DEF Resource
  <2>3. cur \in Chunk
    BY DEF NoChunk, Chunk
  <2>4. {total_by_node, im, i, last, size, smemres, low, chunk, l} \subseteq Int /\ base \in Int
    OBVIOUS
  <2>5. parts = <<>> /\ mask \subseteq Int
    OBVIOUS
  <2>a. nomore \in BOOLEAN
    OBVIOUS
  <2>6. machine \in Machines /\ policy \in Policies /\ pc = "total"
    OBVIOUS
  <2> HIDE DEF Init
  <2>7. QED
    BY <2>1, <2>2, <2>3, <2>4, <2>5, <2>6, <2>a DEF TypeOK
<1>2. Places
  BY DEF Places, InPolicy
<1>3. HoleLoop /\ MapsEndAtLimit /\ CpuHasOneKernel
  BY DEF HoleLoop, MapsEndAtLimit, CpuHasOneKernel
<1>4. Masks
  BY DEF Masks, NoNode
<1>5. QED
  BY <1>1, <1>2, <1>3, <1>4 DEF IInv

LEMMA UndefinedIInv == IInv /\ Undefined => IInv'
<1> SUFFICES ASSUME IInv, Undefined
             PROVE  IInv'
  OBVIOUS
<1> USE DEF Undefined, input, nodes, chunks
<1>1. TypeOK'
  BY DEF IInv, TypeOK, InPolicy, Region, Node, MaxNode
<1>2. Places' /\ HoleLoop'
  BY DEF Places, HoleLoop, InPolicy
<1>3. Masks'
  BY DEF IInv, Masks, ByNode, CpuMap, Node, MaxNode
<1>4. MapsEndAtLimit' /\ CpuHasOneKernel'
  BY DEF IInv, MapsEndAtLimit, CpuHasOneKernel
<1>5. QED
  BY <1>1, <1>2, <1>3, <1>4 DEF IInv
-----------------------------------------------------------------------------
(* main, before it calls a policy. *)

LEMMA MainStep ==
  ASSUME parts' = <<>>, pc' \notin {"cap", "place", "holes"}, mask' = {}, UNCHANGED input,
         \A n \in Node : anode'[n].map \subseteq CpuMap(n)
  PROVE  HoleLoop' /\ Masks' /\ MapsEndAtLimit' /\ CpuHasOneKernel'
<1>1. HoleLoop' /\ MapsEndAtLimit' /\ CpuHasOneKernel'
  BY DEF HoleLoop, MapsEndAtLimit, CpuHasOneKernel
<1>2. Node' = Node /\ \A n \in Node : CpuMap(n)' = CpuMap(n)
  BY DEF input, Node, MaxNode, CpuMap
<1>3. Masks'
  BY <1>2 DEF Masks
<1>4. QED
  BY <1>1, <1>3

LEMMA MainIInv ==
  ASSUME IInv, AddNode \/ ReadMemory \/ ReadLine \/ CountRegions \/ CallPolicy
  PROVE  IInv'
<1>1. TypeOK /\ Places /\ machine \in Machines
  BY DEF IInv, TypeOK
<1>2. \A n \in Node : anode[n].map \subseteq CpuMap(n)
  BY DEF IInv, Masks
<1>3. CASE AddNode
  <2>1. TypeOK'
    <3>1. i \in Node
      BY <1>1, <1>3, MachineFacts DEF AddNode, Node, Places, TypeOK, InPolicy
    <3>2. NodeSize(i) \in Int
      BY <3>1, <1>1, MachineFacts
    <3>3. QED
      BY <1>1, <1>3, <3>2, SMTT(30) DEF AddNode, TypeOK, input, chunks, Region, Node, MaxNode, InPolicy
  <2>2. Places'
    <3>1. i \in Int
      BY <1>1 DEF TypeOK
    <3>2. QED
      BY <1>1, <1>3, <3>1 DEF AddNode, Places, InPolicy, input, chunks
  <2>3. HoleLoop' /\ Masks' /\ MapsEndAtLimit' /\ CpuHasOneKernel'
    BY <1>1, <1>2, <1>3, MainStep DEF AddNode, Places, chunks
  <2>4. QED
    BY <2>1, <2>2, <2>3 DEF IInv
<1>4. CASE ReadMemory
  <2>1. TypeOK'
    BY <1>1, <1>4 DEF ReadMemory, TypeOK, input, nodes, chunks, Region, Node, MaxNode, InPolicy
  <2>2. Places'
    BY <1>1, <1>4 DEF ReadMemory, Places, InPolicy, input, nodes, chunks
  <2>3. HoleLoop' /\ Masks' /\ MapsEndAtLimit' /\ CpuHasOneKernel'
    BY <1>1, <1>2, <1>4, MainStep DEF ReadMemory, Places, nodes, chunks
  <2>4. QED
    BY <2>1, <2>2, <2>3 DEF IInv
<1>5. CASE ReadLine /\ ~Undefined
  <2> DEFINE line == machine.lines[im + 1]
  <2>1. /\ pc = "read" /\ im \in Nat /\ im < Len(machine.lines) /\ im # MaxRegions
        /\ amemres' = [amemres EXCEPT ![im + 1] = [start |-> Floor(line.start, Page),
                                                   end |-> Floor(line.end, Page)]]
        /\ im' = im + 1
        /\ UNCHANGED <<input, pc, total_by_node, i, last, size, anode, nomore, chunks>>
    BY <1>1, <1>5 DEF ReadLine, Places
  <2>2. line.start \in Int /\ line.end \in Int
    BY <1>1, <2>1, MachineFacts
  <2>3. [start |-> Floor(line.start, Page), end |-> Floor(line.end, Page)] \in Resource
    BY <2>2, FloorType, Units DEF Resource
  <2>4. amemres' \in [Region -> Resource]
    BY <1>1, <2>1, <2>3 DEF TypeOK
  <2>5. TypeOK'
    BY <1>1, <2>1, <2>4 DEF TypeOK, input, chunks, Region, Node, MaxNode, InPolicy
  <2>6. Places'
    BY <1>1, <2>1 DEF Places, InPolicy, input, chunks
  <2>7. HoleLoop' /\ Masks' /\ MapsEndAtLimit' /\ CpuHasOneKernel'
    BY <1>1, <1>2, <2>1, MainStep DEF Places, chunks
  <2>8. QED
    BY <2>5, <2>6, <2>7 DEF IInv
<1>6. CASE CountRegions /\ ~Undefined
  <2>1. PICK n \in 0..MaxRegions :
          /\ pc = "read" /\ n # 0
          /\ im' = n /\ last' = amemres[n].end /\ pc' = "node" /\ i' = MaxNode
          /\ UNCHANGED <<input, amemres, total_by_node, size, anode, nomore, chunks>>
    BY <1>6 DEF CountRegions
  <2>2. n \in Region /\ n \in Int
    BY <2>1, Units DEF Region
  <2>3. amemres[n].end \in Int /\ MaxNode \in Nat \ {0} /\ Node \subseteq 1..MaxNode
    BY <1>1, <2>2, MachineFacts DEF TypeOK, Resource, Node
  <2>4. TypeOK'
    BY <1>1, <2>1, <2>2, <2>3 DEF TypeOK, input, chunks, Region, Node, MaxNode, InPolicy
  <2>5. MaxNode' = MaxNode /\ Node' = Node
    BY <2>1 DEF input, Node, MaxNode
  <2>6. \A k \in Node : ~(k > MaxNode)
    BY <2>3
  <2>7. Places'
    BY <1>1, <2>1, <2>2, <2>3, <2>5, <2>6 DEF Places, InPolicy, chunks, Region
  <2>8. HoleLoop' /\ Masks' /\ MapsEndAtLimit' /\ CpuHasOneKernel'
    BY <1>1, <1>2, <2>1, MainStep DEF Places, chunks
  <2>9. QED
    BY <2>4, <2>7, <2>8 DEF IInv
<1>7. CASE CallPolicy
  <2>1. policy \in {"nonodes", "globalshm", "clustered"}
    BY <1>1, PoliciesAssumption DEF TypeOK
  <2>2. \A n \in Node : n > 0
    BY <1>1, MachineFacts DEF Node
  <2>3. TypeOK'
    BY <1>1, <1>7, <2>1 DEF CallPolicy, TypeOK, input, chunks, Region, Node, MaxNode, InPolicy
  <2>4. Places'
    BY <1>1, <1>7, <2>1, <2>2 DEF CallPolicy, Places, InPolicy, input, chunks, Node, MaxNode,
                                  Region, ByNode
  <2>5. HoleLoop' /\ Masks' /\ MapsEndAtLimit' /\ CpuHasOneKernel'
    BY <1>1, <1>2, <1>7, <2>1, MainStep DEF CallPolicy, Places, chunks
  <2>6. QED
    BY <2>3, <2>4, <2>5 DEF IInv
<1>8. QED
  BY <1>3, <1>4, <1>5, <1>6, <1>7, UndefinedIInv

LEMMA NumaNodeType ==
  ASSUME NEW s \in Int, NEW e \in Int, NEW z \in Int, NEW q \in Int, NEW r \in Int,
         NEW m \in SUBSET Int
  PROVE  [start |-> s, end |-> e, size |-> z, rstart |-> q, rend |-> r, map |-> m] \in NumaNode
BY DEF NumaNode

LEMMA NumaNodeFields ==
  ASSUME NEW a \in NumaNode, NEW s \in Int, NEW q \in Int
  PROVE  [a EXCEPT !.start = s, !.rstart = q] \in NumaNode
BY DEF NumaNode

LEMMA NodeIInv ==
  ASSUME IInv, StartNode \/ LowerRegion \/ EndNode
  PROVE  IInv'
<1>1. TypeOK /\ Places /\ machine \in Machines /\ pc \in {"node", "fit"} /\ UNCHANGED input
  BY DEF IInv, TypeOK, StartNode, LowerRegion, EndNode
<1>2. \A n \in Node : anode[n].map \subseteq CpuMap(n)
  BY DEF IInv, Masks
<1>3. /\ Node' = Node /\ MaxNode' = MaxNode /\ MaxNode \in Nat \ {0} /\ Node = 1..MaxNode
      /\ i \in Int /\ i >= 0 /\ i <= MaxNode /\ im \in Region /\ amemres[im] \in Resource
      /\ im \in Int /\ last \in Int /\ size \in Int /\ anode \in [Node -> NumaNode]
  BY <1>1, MachineFacts DEF input, Node, MaxNode, Places, TypeOK
<1>4. amemres[im].start \in Int /\ amemres[im].end \in Int
  BY <1>3 DEF Resource
<1>5. parts = <<>> /\ l = 0 /\ mask = {}
  BY <1>1 DEF Places
<1>6. CASE StartNode
  <2> DEFINE a == [start |-> 0, end |-> last, size |-> NodeSize(i),
                   rstart |-> 0, rend |-> im, map |-> CpuMap(i)]
  <2>1. i \in Node
    BY <1>3, <1>6 DEF StartNode
  <2>2. NodeSize(i) \in Int /\ CpuMap(i) \subseteq Int
    BY <1>1, <2>1, MachineFacts
  <2>3. a \in NumaNode
    BY <1>3, <2>2, NumaNodeType
  <2>4. a.map = CpuMap(i)
    OBVIOUS
  <2> HIDE DEF a
  <2>5. anode' = [anode EXCEPT ![i] = a] /\ size' = NodeSize(i)
    BY <1>6 DEF StartNode, a
  <2>6. anode' \in [Node -> NumaNode] /\ \A n \in Node : n # i => anode'[n] = anode[n]
    BY <1>3, <2>3, <2>5
  <2>7. \A n \in Node : anode'[n].map \subseteq CpuMap(n)
    BY <1>2, <1>3, <2>1, <2>4, <2>5, <2>6
  <2>8. TypeOK'
    BY <1>1, <1>3, <1>6, <2>2, <2>5, <2>6 DEF StartNode, TypeOK, input, chunks, Region, InPolicy
  <2>9. Places'
    BY <1>1, <1>3, <1>5, <1>6, <2>1, <2>6 DEF StartNode, Places, input, chunks, Region, InPolicy
  <2>10. HoleLoop' /\ Masks' /\ MapsEndAtLimit' /\ CpuHasOneKernel'
    BY <1>1, <1>5, <1>6, <2>7, MainStep DEF StartNode, chunks
  <2>11. QED
    BY <2>8, <2>9, <2>10 DEF IInv
<1>7. CASE LowerRegion
  <2>1. im - 1 \in Region /\ im' = im - 1 /\ i > 0 /\ pc = "fit"
    BY <1>1, <1>3, <1>7, Units DEF LowerRegion, Region, Places
  <2>a. U(last - amemres[im].start) \in Int
    <3> DEFINE x == last - amemres[im].start
    <3>1. x \in Int
      BY <1>3, <1>4
    <3> HIDE DEF x
    <3>2. x % Wrap \in Int
      BY <3>1, FloorType, Units
    <3>3. QED
      BY <3>2 DEF U, x
  <2>b. amemres[im - 1] \in Resource
    BY <1>1, <2>1 DEF TypeOK
  <2>c. amemres[im - 1].end \in Int
    BY <2>b DEF Resource
  <2>3. size' \in Int /\ last' \in Int
    BY <1>3, <1>7, <2>a, <2>c DEF LowerRegion
  <2>4. TypeOK'
    BY <1>1, <1>3, <1>7, <2>1, <2>3 DEF LowerRegion, TypeOK, input, chunks, Region, InPolicy
  <2>5. Places'
    BY <1>1, <1>3, <1>5, <1>7, <2>1 DEF LowerRegion, Places, input, chunks, Region, InPolicy
  <2>6. HoleLoop' /\ Masks' /\ MapsEndAtLimit' /\ CpuHasOneKernel'
    BY <1>1, <1>2, <1>5, <1>7, MainStep DEF LowerRegion, chunks
  <2>7. QED
    BY <2>4, <2>5, <2>6 DEF IInv
<1>8. CASE EndNode
  <2> DEFINE a == [anode[i] EXCEPT !.start = last - size, !.rstart = im]
  <2>1. i \in Node /\ i > 0 /\ i' = i - 1
    BY <1>1, <1>3, <1>8 DEF EndNode, Places
  <2>2. anode[i] \in NumaNode /\ last - size \in Int /\ im \in Int
    BY <1>3, <2>1
  <2>3. a \in NumaNode /\ a.map = anode[i].map /\ a.rstart = im
    <3> DEFINE x == anode[i]
               y == last - size
    <3>1. x \in NumaNode /\ y \in Int
      BY <2>2
    <3> HIDE DEF x, y
    <3>2. [x EXCEPT !.start = y, !.rstart = im] \in NumaNode
      BY <2>2, <3>1, NumaNodeFields
    <3>3. /\ [x EXCEPT !.start = y, !.rstart = im].map = x.map
          /\ [x EXCEPT !.start = y, !.rstart = im].rstart = im
      BY <3>1 DEF NumaNode
    <3>4. QED
      BY <3>2, <3>3 DEF x, y
  <2>6. anode' = [anode EXCEPT ![i] = a]
    BY <1>8 DEF EndNode
  <2> HIDE DEF a
  <2>7. anode' \in [Node -> NumaNode] /\ \A n \in Node : n # i => anode'[n] = anode[n]
    BY <1>3, <2>3, <2>6
  <2>8. anode'[i] = a
    BY <1>3, <2>1, <2>6
  <2>9. \A n \in Node : anode'[n].map \subseteq CpuMap(n)
    BY <1>2, <2>1, <2>3, <2>7, <2>8
  <2>10. TypeOK'
    <3>1. nomore' \in BOOLEAN
      BY <1>1, <1>8 DEF EndNode, TypeOK, Reaches
    <3>2. last' \in Int
      BY <1>3, <1>8 DEF EndNode
    <3>3. QED
      BY <1>1, <1>3, <1>8, <2>1, <2>7, <3>1, <3>2, SMTT(30)
         DEF EndNode, TypeOK, input, chunks, Region, InPolicy
  <2>11. \A n \in Node : n > i - 1 => anode'[n].rstart \in Region
    BY <1>1, <1>3, <2>1, <2>3, <2>7, <2>8, <1>8 DEF Places, EndNode
  <2>12. Places'
    BY <1>1, <1>3, <1>5, <1>8, <2>1, <2>11 DEF EndNode, Places, input, chunks, Region, InPolicy
  <2>13. HoleLoop' /\ Masks' /\ MapsEndAtLimit' /\ CpuHasOneKernel'
    BY <1>1, <1>5, <1>8, <2>9, MainStep DEF EndNode, chunks
  <2>14. QED
    BY <2>10, <2>12, <2>13 DEF IInv
<1>9. QED
  BY <1>6, <1>7, <1>8
-----------------------------------------------------------------------------
(* The policies. *)

LEMMA PartsKept ==
  ASSUME Masks, MapsEndAtLimit, CpuHasOneKernel, UNCHANGED <<input, parts, anode, l, mask>>,
         ByNode => i' = i /\ pc \in {"cap", "place", "holes"} /\ pc' # "globalshm"
  PROVE  Masks' /\ MapsEndAtLimit' /\ CpuHasOneKernel'
<1>1. /\ Node' = Node /\ (\A n \in Node : CpuMap(n)' = CpuMap(n)) /\ policy' = policy
      /\ ByNode' = ByNode
  BY DEF input, Node, MaxNode, CpuMap, ByNode
<1>2. MapsEndAtLimit' /\ CpuHasOneKernel'
  BY <1>1 DEF MapsEndAtLimit, CpuHasOneKernel
<1>3. Masks'
  BY <1>1 DEF Masks
<1>4. QED
  BY <1>2, <1>3

LEMMA ChunkCountType ==
  ASSUME NEW x \in Int, machine \in Machines
  PROVE  Floor(((U(x) \div BenChunk) \div machine.cpus) * BenChunk, Resolution) \in Int
<1>1. U(x) \in Int
  BY FloorType, Units DEF U
<1>2. machine.cpus \in Nat \ {0}
  BY MachineFacts
<1>3. U(x) \div BenChunk \in Int
  BY <1>1, Units
<1>4. (U(x) \div BenChunk) \div machine.cpus \in Int
  BY <1>2, <1>3
<1>5. ((U(x) \div BenChunk) \div machine.cpus) * BenChunk \in Int
  BY <1>4, Units
<1>6. QED
  BY <1>5, FloorType, Units

LEMMA BeginIInv ==
  ASSUME IInv, NoNodes \/ SkipRegion \/ CountChunks \/ Realign \/ StartAfterCap
  PROVE  IInv'
<1>1. /\ TypeOK /\ Places /\ Masks /\ MapsEndAtLimit /\ CpuHasOneKernel
      /\ machine \in Machines
  BY DEF IInv, TypeOK
<1>2. /\ {total_by_node, im, i, last, size, smemres, low, chunk, l} \subseteq Int
      /\ amemres \in [Region -> Resource]
      /\ \A r \in Region : amemres[r].start \in Int /\ amemres[r].end \in Int
      /\ Region = 1..MaxRegions /\ 1 \in Region
  BY <1>1, Units, SMTT(30) DEF TypeOK, Resource, Region
<1>3. CASE NoNodes
  <2>1. low' \in Int /\ smemres' \in Int /\ smemres' \in Region
    BY <1>2, <1>3 DEF NoNodes
  <2>2. policy = "nonodes" /\ ~ByNode
    BY <1>1, <1>3 DEF NoNodes, Places, ByNode
  <2>3. TypeOK'
    BY <1>1, <1>3, <2>1 DEF NoNodes, TypeOK, input, nodes, Region, Node, MaxNode, InPolicy
  <2>4. Places'
    BY <1>1, <1>3, <2>1, <2>2 DEF NoNodes, Places, input, nodes, Region, Node, MaxNode, InPolicy, ByNode
  <2>5. Masks' /\ MapsEndAtLimit' /\ CpuHasOneKernel'
    BY <1>1, <1>3, <2>2, PartsKept DEF NoNodes, nodes
  <2>6. HoleLoop'
    BY <1>3 DEF NoNodes, HoleLoop
  <2>7. QED
    BY <2>3, <2>4, <2>5, <2>6 DEF IInv
<1>4. CASE SkipRegion /\ ~Undefined
  <2>1. /\ pc = "cap" /\ smemres # MaxRegions /\ smemres' = smemres + 1
        /\ low' = low + amemres[smemres + 1].start - amemres[smemres].end
        /\ UNCHANGED <<input, pc, amemres, nodes, chunk, mask, l, cur, parts, base>>
    BY <1>4 DEF SkipRegion
  <2>2. smemres \in Region /\ smemres + 1 \in Region
    BY <1>1, <1>2, <2>1, Units DEF Places
  <2>3. low' \in Int /\ smemres' \in Int
    BY <1>2, <2>1, <2>2
  <2>4. TypeOK'
    BY <1>1, <2>1, <2>3 DEF TypeOK, input, nodes, Region, Node, MaxNode, InPolicy
  <2>5. Places'
    BY <1>1, <2>1, <2>2 DEF Places, input, nodes, Region, Node, MaxNode, InPolicy, ByNode
  <2>6. Masks' /\ MapsEndAtLimit' /\ CpuHasOneKernel'
    BY <1>1, <2>1, PartsKept DEF nodes
  <2>7. HoleLoop'
    BY <2>1 DEF HoleLoop
  <2>8. QED
    BY <2>4, <2>5, <2>6, <2>7 DEF IInv
<1>5. CASE CountChunks
  <2>1. chunk' \in Int
    BY <1>1, <1>2, <1>5, ChunkCountType DEF CountChunks
  <2>2. policy = "nonodes" /\ ~ByNode /\ pc = "cap" /\ smemres \in Region /\ smemres > 0
    BY <1>1, <1>2, <1>5 DEF CountChunks, Places, ByNode
  <2>3. cur' \in Chunk
    BY <1>5 DEF CountChunks, NoChunk, Chunk
  <2>4. TypeOK'
    BY <1>1, <1>2, <1>5, <2>1, <2>3 DEF CountChunks, TypeOK, input, Region, Node, MaxNode, InPolicy
  <2>5. Places'
    BY <1>1, <1>5, <2>2 DEF CountChunks, Places, input, Region, Node, MaxNode, InPolicy, ByNode, NoChunk
  <2>6. Masks' /\ MapsEndAtLimit' /\ CpuHasOneKernel'
    BY <1>1, <1>5, <2>2, PartsKept DEF CountChunks
  <2>7. HoleLoop'
    BY <1>5 DEF CountChunks, HoleLoop
  <2>8. QED
    BY <2>4, <2>5, <2>6, <2>7 DEF IInv
<1>6. CASE Realign /\ ~Undefined
  <2>1. pc = "realign" /\ policy = "nonodes" /\ ~ByNode /\ i > 0 /\ parts = <<>> /\ cur = NoChunk
    BY <1>1, <1>6 DEF Realign, Places, ByNode, InPolicy
  <2>2. CASE pc' = "place" /\ UNCHANGED <<input, amemres, nodes, chunks>>
    <3>1. TypeOK'
      BY <1>1, <2>2 DEF TypeOK, input, nodes, chunks, Region, Node, MaxNode, InPolicy
    <3>2. Places'
      BY <1>1, <2>1, <2>2 DEF Places, input, nodes, chunks, Region, Node, MaxNode, InPolicy, ByNode
    <3>3. Masks' /\ MapsEndAtLimit' /\ CpuHasOneKernel'
      BY <1>1, <2>1, <2>2, PartsKept DEF nodes, chunks
    <3>4. HoleLoop'
      BY <2>1, <2>2 DEF HoleLoop, chunks, NoChunk
    <3>5. QED
      BY <3>1, <3>2, <3>3, <3>4 DEF IInv
  <2>3. CASE pc' # "place"
    <3> DEFINE a == amemres[i]
               new == [start |-> IF a.start > Cap THEN Ceiling(a.start, BenChunk) ELSE a.start,
                       end |-> Floor(a.end, BenChunk)]
    <3>1. /\ ~(i > MaxRegions) /\ amemres' = [amemres EXCEPT ![i] = new] /\ i' = i + 1
          /\ UNCHANGED <<input, pc, total_by_node, im, last, size, anode, nomore, chunks>>
      BY <1>6, <2>3 DEF Realign
    <3>a. i \in Int /\ MaxRegions \in Int
      BY <1>2, Units
    <3>b. i' = i + 1 /\ i > 0 /\ ~(i > MaxRegions)
      BY <2>1, <3>1
    <3>2. i \in Region /\ i' > 0 /\ i' \in Int
      BY <1>2, <3>a, <3>b
    <3>3. a.start \in Int /\ a.end \in Int
      BY <1>2, <3>2
    <3>4. new \in Resource
      BY <3>3, FloorType, Units DEF Resource
    <3> HIDE DEF new, a
    <3>5. amemres' \in [Region -> Resource]
      BY <1>2, <3>1, <3>4
    <3>6. TypeOK'
      BY <1>1, <3>1, <3>2, <3>5 DEF TypeOK, input, chunks, Region, Node, MaxNode, InPolicy
    <3>7. Places'
      BY <1>1, <2>1, <3>1, <3>2 DEF Places, input, chunks, Region, Node, MaxNode, InPolicy, ByNode, NoChunk
    <3>8. Masks' /\ MapsEndAtLimit' /\ CpuHasOneKernel'
      BY <1>1, <2>1, <3>1, PartsKept DEF chunks
    <3>9. HoleLoop'
      BY <2>1, <3>1 DEF HoleLoop
    <3>10. QED
      BY <3>6, <3>7, <3>8, <3>9 DEF IInv
  <2>4. QED
    BY <1>6, <2>2, <2>3 DEF Realign
<1>7. CASE StartAfterCap
  <2>1. pc = "cap" /\ policy = "globalshm" /\ pc' = "place" /\ smemres \in Region
    BY <1>1, <1>7 DEF StartAfterCap, Places
  <2>2. cur' \in Chunk
    BY <1>2, <1>7, <2>1, Units, SMTT(30) DEF StartAfterCap, NoChunk, Chunk
  <2>3. TypeOK'
    BY <1>1, <1>7, <2>2 DEF StartAfterCap, TypeOK, input, nodes, Region, Node, MaxNode, InPolicy
  <2>4. Places'
    BY <1>1, <1>7, <2>1 DEF StartAfterCap, Places, input, nodes, Region, Node, MaxNode, InPolicy, ByNode
  <2>5. Masks' /\ MapsEndAtLimit' /\ CpuHasOneKernel'
    BY <1>1, <1>7, <2>1, PartsKept DEF StartAfterCap, nodes
  <2>6. HoleLoop'
    BY <1>7, <2>1 DEF StartAfterCap, HoleLoop, input
  <2>7. QED
    BY <2>3, <2>4, <2>5, <2>6 DEF IInv
<1>8. QED
  BY <1>3, <1>4, <1>5, <1>6, <1>7, UndefinedIInv

(* The next node, in the policy that counts processors by node. *)
LEMMA GlobalShmIInv ==
  ASSUME IInv, GlobalShm
  PROVE  IInv'
<1>1. /\ TypeOK /\ Places /\ Masks /\ MapsEndAtLimit /\ CpuHasOneKernel
      /\ machine \in Machines
  BY DEF IInv, TypeOK
<1>2. /\ pc = "globalshm" /\ policy = "globalshm" /\ ByNode /\ i > 0 /\ i \in Int
      /\ MaxNode \in Nat \ {0} /\ Node = 1..MaxNode
      /\ \A n \in Node : anode[n].rstart \in Region
      /\ UNCHANGED <<input, amemres, nodes, parts>>
  BY <1>1, MachineFacts DEF GlobalShm, Places, InPolicy, TypeOK, ByNode, Node, chunks
<1>3. /\ Node' = Node /\ (\A n \in Node : CpuMap(n)' = CpuMap(n)) /\ policy' = policy
      /\ ByNode' = ByNode /\ anode' = anode /\ parts' = parts /\ i' = i /\ MaxNode' = MaxNode
  BY <1>2 DEF input, nodes, Node, MaxNode, CpuMap, ByNode
<1>4. MapsEndAtLimit' /\ CpuHasOneKernel'
  BY <1>1, <1>3 DEF MapsEndAtLimit, CpuHasOneKernel
<1>5. CASE pc' = "done" /\ UNCHANGED <<input, amemres, nodes, chunks>>
  <2>1. TypeOK'
    BY <1>1, <1>5 DEF TypeOK, input, nodes, chunks, Region, Node, MaxNode, InPolicy
  <2>2. Places'
    BY <1>5 DEF Places, InPolicy
  <2>3. Masks'
    BY <1>1, <1>2, <1>3, <1>5 DEF Masks, chunks
  <2>4. HoleLoop'
    BY <1>5 DEF HoleLoop
  <2>5. QED
    BY <1>4, <2>1, <2>2, <2>3, <2>4 DEF IInv
<1>6. CASE pc' # "done"
  <2> DEFINE n == anode[i]
  <2>1. /\ ~(i > MaxNode) /\ n.map # {}
        /\ smemres' = n.rstart
        /\ chunk' = Floor(n.size \div Cardinality(n.map), Resolution)
        /\ mask' = n.map /\ l' = 0
        /\ cur' = [NoChunk EXCEPT !.start = n.start]
        /\ pc' \in {"cap", "place"}
        /\ UNCHANGED <<low, parts, base>>
    BY <1>6 DEF GlobalShm
  <2>2. i \in Node
    BY <1>2, <2>1
  <2>3. n \in NumaNode
    BY <1>1, <2>2 DEF TypeOK
  <2>4. n.start \in Int /\ n.size \in Int /\ n.map \subseteq Int /\ n.rstart \in Region
    BY <1>2, <2>2, <2>3 DEF NumaNode
  <2>5. Cardinality(n.map) \in Nat \ {0}
    <3>1. n.map \subseteq CpuMap(i) /\ IsFiniteSet(CpuMap(i))
      BY <1>1, <2>2, MachineFacts DEF Masks
    <3>2. IsFiniteSet(n.map)
      BY <3>1, FS_Subset
    <3>3. Cardinality(n.map) \in Nat /\ Cardinality(n.map) # 0
      BY <2>1, <3>2, FS_CardinalityType, FS_EmptySet
    <3>4. QED
      BY <3>3
  <2>6. chunk' \in Int
    <3>1. n.size \div Cardinality(n.map) \in Int
      BY <2>4, <2>5
    <3>2. QED
      BY <2>1, <3>1, FloorType, Units
  <2>7. cur' \in Chunk
    BY <2>1, <2>4 DEF NoChunk, Chunk
  <2>8. smemres' \in Int
    BY <2>1, <2>4, Units DEF Region
  <2> HIDE DEF n
  <2>9. TypeOK'
    <3>1. /\ machine \in Machines /\ policy \in Policies
          /\ amemres \in [Region -> Resource] /\ anode \in [Node -> NumaNode]
          /\ nomore \in BOOLEAN /\ parts \in Seq(Part) /\ base \in Int
          /\ {total_by_node, im, i, last, size, low} \subseteq Int
      BY <1>1 DEF TypeOK
    <3>2. UNCHANGED <<machine, policy, amemres, total_by_node, im, i, last, size, anode,
                      nomore, low, parts, base>>
      BY <2>1, <1>6 DEF GlobalShm, input, nodes
    <3>3. Region' = Region /\ Node' = Node
      BY <3>2 DEF Region, Node, MaxNode
    <3>4. pc' \in InPolicy /\ mask' \subseteq Int
      BY <2>1, <2>4 DEF InPolicy
    <3>5. {total_by_node', im', i', last', size', smemres', low', chunk', l'} \subseteq Int
      BY <2>1, <2>6, <2>8, <3>1, <3>2
    <3>6. QED
      BY <2>7, <3>1, <3>2, <3>3, <3>4, <3>5 DEF TypeOK
  <2>10. Places'
    <3>1. Region' = Region
      BY DEF Region
    <3>2. smemres' \in Region /\ pc' \in {"cap", "place"} /\ i <= MaxNode
      BY <1>2, <2>1, <2>4
    <3>3. QED
      BY <1>2, <1>3, <3>1, <3>2 DEF Places, InPolicy
  <2>11. HoleLoop'
    BY <1>2, <1>3, <2>1 DEF HoleLoop
  <2>12. Masks'
    <3>1. mask' = anode[i].map
      BY <2>1 DEF n
    <3>2. QED
      BY <1>1, <1>2, <1>3, <2>1, <2>2, <3>1 DEF Masks
  <2>13. QED
    BY <1>4, <2>9, <2>10, <2>11, <2>12 DEF IInv
<1>7. QED
  BY <1>5, <1>6 DEF GlobalShm

(* All processors of a node in one kernel. *)
LEMMA ClusteredIInv ==
  ASSUME IInv, Clustered
  PROVE  IInv'
<1>1. /\ TypeOK /\ Places /\ Masks /\ MapsEndAtLimit /\ CpuHasOneKernel
      /\ machine \in Machines
  BY DEF IInv, TypeOK
<1>2. /\ pc = "clustered" /\ policy = "clustered" /\ ~ByNode /\ i > 0 /\ i \in Int /\ l \in Int
      /\ Node = 1..MaxNode /\ MaxNode \in Nat \ {0}
      /\ \A n \in Node : anode[n].rstart \in Region
  BY <1>1, MachineFacts DEF Clustered, Places, InPolicy, TypeOK, ByNode, Node
<1>3. CASE pc' = "done" /\ UNCHANGED <<input, amemres, nodes, chunks>>
  <2>1. TypeOK'
    BY <1>1, <1>3 DEF TypeOK, input, nodes, chunks, Region, Node, MaxNode, InPolicy
  <2>2. Places' /\ HoleLoop'
    BY <1>3 DEF Places, InPolicy, HoleLoop
  <2>3. Masks' /\ MapsEndAtLimit' /\ CpuHasOneKernel'
    BY <1>1, <1>2, <1>3, PartsKept DEF nodes, chunks
  <2>4. QED
    BY <2>1, <2>2, <2>3 DEF IInv
<1>4. CASE pc' # "done"
  <2> DEFINE n == anode[i]
             k == Cardinality(n.map)
             total == Floor(n.size, Resolution)
             q == [cpus |-> l..(l + k - 1), start |-> n.start, total |-> total,
                   mem |-> n.start + total]
  <2>1. /\ ~(i > MaxNode)
        /\ parts' = Append(parts, q) /\ l' = l + k /\ i' = i + 1
        /\ UNCHANGED <<input, pc, amemres, total_by_node, im, last, size, anode, nomore,
                       smemres, low, chunk, mask, cur, base>>
    BY <1>4 DEF Clustered
  <2>2. i \in Node
    BY <1>2, <2>1
  <2>3. n \in NumaNode
    BY <1>1, <2>2 DEF TypeOK
  <2>4. n.start \in Int /\ n.size \in Int
    BY <2>3 DEF NumaNode
  <2>5. k \in Nat
    <3>1. n.map \subseteq CpuMap(i) /\ IsFiniteSet(CpuMap(i))
      BY <1>1, <2>2, MachineFacts DEF Masks
    <3>2. QED
      BY <3>1, FS_Subset, FS_CardinalityType
  <2>6. total \in Int
    BY <2>4, FloorType, Units
  <2>7. /\ q.cpus = l..(l + k - 1) /\ q.start + q.total = q.mem
    BY <2>4, <2>6
  <2> HIDE DEF n, k, total
  <2>8. q \in Part
    BY <1>2, <2>4, <2>5, <2>6 DEF Part, n
  <2>9. \A c \in q.cpus : c >= l /\ c < l + k
    BY <1>2, <2>5, <2>7
  <2> HIDE DEF q
  <2>10. parts \in Seq(Part)
    BY <1>1 DEF TypeOK
  <2>11. /\ parts' \in Seq(Part) /\ Len(parts') = Len(parts) + 1 /\ Len(parts) \in Nat
         /\ \A p \in 1..Len(parts) : parts'[p] = parts[p]
         /\ parts'[Len(parts) + 1] = q
         /\ \A p \in 1..Len(parts') : p \in 1..Len(parts) \/ p = Len(parts) + 1
    BY <2>1, <2>8, <2>10, AppendPart
  <2>12. TypeOK'
    BY <1>1, <1>2, <2>1, <2>5, <2>11 DEF TypeOK, input, Region, Node, MaxNode, InPolicy
  <2>13. /\ Node' = Node /\ (\A x \in Node : CpuMap(x)' = CpuMap(x)) /\ policy' = policy
         /\ ByNode' = ByNode
    BY <2>1 DEF input, Node, MaxNode, CpuMap, ByNode
  <2>14. Places' /\ HoleLoop'
    BY <1>1, <1>2, <2>1, <2>13 DEF Places, HoleLoop, InPolicy, Region
  <2>15. \A p \in 1..Len(parts) : \A c \in parts[p].cpus : c < l /\ c \in Int
    <3>1. \A p \in 1..Len(parts) : parts[p] \in Part
      BY <2>10
    <3>2. \A p \in 1..Len(parts) : parts[p].cpus \subseteq Int
      BY <3>1 DEF Part
    <3>3. QED
      BY <1>1, <1>2, <3>2 DEF Masks
  <2>16. Masks'
    <3>1. \A p \in 1..Len(parts') : \A c \in parts'[p].cpus : c < l'
      BY <1>2, <2>1, <2>5, <2>9, <2>11, <2>15
    <3>2. QED
      BY <1>1, <1>2, <2>1, <2>13, <3>1 DEF Masks
  <2>17. MapsEndAtLimit'
    BY <1>1, <1>2, <2>7, <2>11, <2>13 DEF MapsEndAtLimit
  <2>18. \A p \in 1..Len(parts) : parts[p].cpus \cap q.cpus = {}
    BY <1>2, <2>9, <2>15
  <2>19. CpuHasOneKernel'
    BY <1>1, <2>11, <2>18 DEF CpuHasOneKernel
  <2>20. QED
    BY <2>12, <2>14, <2>16, <2>17, <2>19 DEF IInv
<1>5. QED
  BY <1>3, <1>4 DEF Clustered
-----------------------------------------------------------------------------
(* The loop over the processors. *)

LEMMA ChunkType ==
  ASSUME NEW s \in Int, NEW t \in Int, NEW r \in Int, NEW a \in Int, NEW e \in Int
  PROVE  [start |-> s, total |-> t, required |-> r, avail |-> a, endend |-> e] \in Chunk
BY DEF Chunk

LEMMA ChunkFields ==
  ASSUME NEW c \in Chunk
  PROVE  /\ c.start \in Int /\ c.total \in Int /\ c.required \in Int
         /\ c.avail \in Int /\ c.endend \in Int
BY DEF Chunk

LEMMA AlignType ==
  ASSUME NEW x \in Int
  PROVE  AlignStart(x) \in Int
BY FloorType, Units DEF AlignStart

LEMMA StartChunkIInv ==
  ASSUME IInv, StartChunk
  PROVE  IInv'
<1>1. /\ TypeOK /\ Places /\ HoleLoop /\ Masks /\ MapsEndAtLimit /\ CpuHasOneKernel
  BY DEF IInv
<1>2. /\ pc = "place" /\ pc' = "holes" /\ i > 0 /\ smemres \in Region /\ cur \in Chunk /\ chunk \in Int
      /\ amemres \in [Region -> Resource]
      /\ UNCHANGED <<input, amemres, nodes, smemres, low, chunk, mask, l, parts, base>>
  BY <1>1 DEF StartChunk, Places, InPolicy, TypeOK
<1> DEFINE start == AlignStart(cur.start)
           avail == IF Holes THEN amemres[smemres].end - start ELSE chunk
<1>3. cur' = [start |-> start, total |-> chunk, required |-> chunk, avail |-> avail,
              endend |-> start + chunk]
  BY DEF StartChunk
<1>4. start \in Int
  BY <1>2, ChunkFields, AlignType
<1>5. amemres[smemres].end \in Int
  BY <1>2 DEF Resource
<1> HIDE DEF start
<1>6. avail \in Int
  BY <1>2, <1>4, <1>5
<1>7. /\ cur'.start = start /\ cur'.total = chunk /\ cur'.required = chunk /\ cur'.avail = avail
      /\ cur'.endend = start + chunk
  BY <1>3
<1>8. cur' \in Chunk
  BY <1>2, <1>3, <1>4, <1>6, ChunkType
<1>9. TypeOK'
  BY <1>1, <1>2, <1>8 DEF TypeOK, input, nodes, Region, Node, MaxNode, InPolicy
<1>10. Places'
  BY <1>1, <1>2 DEF Places, input, nodes, Region, Node, MaxNode, InPolicy, ByNode
<1>11. Masks' /\ MapsEndAtLimit' /\ CpuHasOneKernel'
  BY <1>1, <1>2, PartsKept DEF nodes
<1>12. HoleLoop'
  <2>1. Holes' = Holes /\ policy' = policy
    BY <1>2 DEF Holes, input, nodes
  <2>2. cur'.start + cur'.total = cur'.endend
    BY <1>7
  <2>3. CASE Holes
    <3>1. avail = amemres[smemres].end - start
      BY <2>3
    <3> HIDE DEF avail
    <3>2. cur'.endend + cur'.avail = amemres'[smemres'].end + cur'.required
      BY <1>2, <1>4, <1>5, <1>7, <3>1
    <3>3. policy = "nonodes" => cur'.start = IF parts' = <<>> THEN 0 ELSE parts'[Len(parts')].mem
      <4>1. SUFFICES ASSUME policy = "nonodes"
                     PROVE  cur'.start = IF parts' = <<>> THEN 0 ELSE parts'[Len(parts')].mem
        OBVIOUS
      <4>2. start = cur.start
        BY <4>1 DEF AlignStart, ByNode, start
      <4>3. cur.start = IF parts = <<>> THEN 0 ELSE parts[Len(parts)].mem
        BY <1>1, <1>2, <4>1 DEF HoleLoop
      <4>4. cur'.start = start /\ parts' = parts
        BY <1>2, <1>7
      <4>5. QED
        BY <4>2, <4>3, <4>4
    <3>4. QED
      BY <1>2, <2>1, <2>2, <2>3, <3>2, <3>3 DEF HoleLoop
  <2>4. CASE ~Holes
    <3>1. avail = chunk
      BY <2>4
    <3>2. policy # "nonodes"
      BY <2>4 DEF Holes
    <3> HIDE DEF avail
    <3>3. cur'.avail >= cur'.required
      BY <1>2, <1>7, <3>1
    <3>4. QED
      BY <1>2, <2>1, <2>2, <2>4, <3>2, <3>3 DEF HoleLoop
  <2>5. QED
    BY <2>3, <2>4
<1>13. QED
  BY <1>9, <1>10, <1>11, <1>12 DEF IInv

LEMMA NextRegionIInv ==
  ASSUME IInv, NextRegion, ~Undefined
  PROVE  IInv'
<1>1. /\ TypeOK /\ Places /\ HoleLoop /\ Masks /\ MapsEndAtLimit /\ CpuHasOneKernel
  BY DEF IInv
<1> DEFINE here == amemres[smemres]
           next == amemres[smemres + 1]
           required == cur.required - cur.avail
<1>2. /\ pc = "holes" /\ cur.avail < cur.required /\ smemres # MaxRegions
      /\ smemres' = smemres + 1
      /\ cur' = [cur EXCEPT !.total = @ + next.start - here.end,
                            !.required = required,
                            !.avail = next.end - next.start,
                            !.endend = next.start + required]
      /\ UNCHANGED <<input, pc, amemres, nodes, low, chunk, mask, l, parts, base>>
  BY DEF NextRegion
<1>3. smemres \in Region /\ smemres + 1 \in Region /\ cur \in Chunk
  <2>1. smemres \in Region /\ cur \in Chunk
    BY <1>1, <1>2 DEF Places, TypeOK
  <2>2. smemres + 1 \in Region
    BY <1>2, <2>1, Units DEF Region
  <2>3. QED
    BY <2>1, <2>2
<1>4. here \in Resource /\ next \in Resource
  BY <1>1, <1>3 DEF TypeOK
<1>5. here.end \in Int /\ next.start \in Int /\ next.end \in Int
  BY <1>4 DEF Resource
<1>6. /\ cur.start \in Int /\ cur.total \in Int /\ cur.required \in Int
      /\ cur.avail \in Int /\ cur.endend \in Int
  BY <1>3, ChunkFields
<1> HIDE DEF here, next, required
<1>7. required \in Int /\ required = cur.required - cur.avail
  BY <1>6 DEF required
<1>8. cur' = [start |-> cur.start, total |-> cur.total + next.start - here.end,
              required |-> required, avail |-> next.end - next.start,
              endend |-> next.start + required]
  BY <1>2, <1>3 DEF Chunk
<1>9. /\ cur'.start = cur.start /\ cur'.total = cur.total + next.start - here.end
      /\ cur'.required = required /\ cur'.avail = next.end - next.start
      /\ cur'.endend = next.start + required
  BY <1>8
<1>10. cur' \in Chunk
  <2>1. /\ cur.total + next.start - here.end \in Int /\ next.end - next.start \in Int
        /\ next.start + required \in Int
    BY <1>5, <1>6, <1>7
  <2>2. QED
    BY <1>6, <1>7, <1>8, <2>1, ChunkType
<1>11. TypeOK'
  <2>1. smemres' \in Int
    BY <1>2, <1>3, Units DEF Region
  <2>2. QED
    BY <1>1, <1>2, <1>10, <2>1 DEF TypeOK, input, nodes, Region, Node, MaxNode, InPolicy
<1>12. Places'
  BY <1>1, <1>2, <1>3 DEF Places, input, nodes, Region, Node, MaxNode, InPolicy, ByNode
<1>13. Masks' /\ MapsEndAtLimit' /\ CpuHasOneKernel'
  BY <1>1, <1>2, PartsKept DEF nodes
<1>14. HoleLoop'
  <2>1. Holes' = Holes /\ policy' = policy
    BY <1>2 DEF Holes, input, nodes
  <2>2. Holes
    BY <1>1, <1>2, <1>6 DEF HoleLoop
  <2>3. /\ cur.start + cur.total = cur.endend
        /\ cur.endend + cur.avail = here.end + cur.required
    BY <1>1, <1>2, <2>2 DEF HoleLoop, here
  <2>4. cur'.start + cur'.total = cur'.endend
    BY <1>5, <1>6, <1>7, <1>9, <2>3, SMTT(30)
  <2>5. cur'.endend + cur'.avail = next.end + cur'.required
    BY <1>5, <1>6, <1>7, <1>9
  <2>6. next = amemres'[smemres']
    BY <1>2 DEF next
  <2>7. policy = "nonodes" => cur.start = IF parts = <<>> THEN 0 ELSE parts[Len(parts)].mem
    BY <1>1, <1>2 DEF HoleLoop
  <2>8. QED
    BY <1>2, <1>9, <2>1, <2>2, <2>4, <2>5, <2>6, <2>7 DEF HoleLoop
<1>15. QED
  BY <1>11, <1>12, <1>13, <1>14 DEF IInv

LEMMA PartType ==
  ASSUME NEW c \in SUBSET Int, NEW s \in Int, NEW t \in Int, NEW m \in Int
  PROVE  [cpus |-> c, start |-> s, total |-> t, mem |-> m] \in Part
BY DEF Part

LEMMA EmitChunkIInv ==
  ASSUME IInv, EmitChunk
  PROVE  IInv'
<1>1. /\ TypeOK /\ Places /\ HoleLoop /\ Masks /\ MapsEndAtLimit /\ CpuHasOneKernel
  BY DEF IInv
<1>2. PICK cpu \in Lowest :
        /\ parts' = Append(parts, [cpus |-> {cpu}, start |-> cur.start,
                                   total |-> cur.total, mem |-> cur.endend])
        /\ mask' = mask \ {cpu}
  BY DEF EmitChunk
<1> DEFINE q == [cpus |-> {cpu}, start |-> cur.start, total |-> cur.total, mem |-> cur.endend]
<1>3. /\ pc = "holes" /\ pc' = "place" /\ l' = l + 1 /\ l \in Int /\ i > 0 /\ cur \in Chunk
      /\ cur' = [NoChunk EXCEPT !.start = cur.endend]
      /\ smemres \in Region /\ (ByNode => i <= MaxNode) /\ policy # "clustered"
      /\ UNCHANGED <<input, amemres, nodes, smemres, low, chunk, base>>
      /\ mask \subseteq Int /\ parts \in Seq(Part)
  BY <1>1 DEF EmitChunk, Places, InPolicy, TypeOK
<1>4. /\ cur.start \in Int /\ cur.total \in Int /\ cur.endend \in Int
      /\ cur.start + cur.total = cur.endend
  BY <1>1, <1>3, ChunkFields DEF HoleLoop
<1>5. (ByNode => cpu \in mask) /\ (~ByNode => cpu = l) /\ cpu \in Int
  BY <1>2, <1>3 DEF Lowest, ByNode
<1>6. q \in Part
  <2>1. {cpu} \in SUBSET Int
    BY <1>5
  <2>2. QED
    BY <1>4, <2>1, PartType
<1>7. q.cpus = {cpu} /\ q.start + q.total = q.mem /\ q.start = cur.start /\ q.mem = cur.endend
  BY <1>4
<1>8. parts' = Append(parts, q) /\ mask' \subseteq mask /\ cpu \notin mask'
  BY <1>2
<1> HIDE DEF q
<1>9. /\ parts' \in Seq(Part) /\ Len(parts') = Len(parts) + 1 /\ Len(parts) \in Nat
      /\ \A p \in 1..Len(parts) : parts'[p] = parts[p]
      /\ parts'[Len(parts) + 1] = q /\ parts' # <<>>
      /\ \A p \in 1..Len(parts') : p \in 1..Len(parts) \/ p = Len(parts) + 1
  BY <1>3, <1>6, <1>8, AppendPart
<1>10. cur' \in Chunk /\ cur'.start = cur.endend
  BY <1>3, <1>4 DEF NoChunk, Chunk
<1>11. TypeOK'
  BY <1>1, <1>3, <1>8, <1>9, <1>10, SMTT(30) DEF TypeOK, input, nodes, Region, Node, MaxNode, InPolicy
<1>12. /\ Node' = Node /\ (\A n \in Node : CpuMap(n)' = CpuMap(n)) /\ policy' = policy
       /\ ByNode' = ByNode /\ i' = i /\ anode' = anode /\ MaxNode' = MaxNode
       /\ Region' = Region
  BY <1>3 DEF input, nodes, Node, MaxNode, CpuMap, ByNode, Region
<1>13. Places'
  BY <1>1, <1>3, <1>12 DEF Places, InPolicy
<1>14. HoleLoop'
  <2>1. policy = "nonodes" => cur'.start = parts'[Len(parts')].mem
    BY <1>7, <1>9, <1>10
  <2>2. QED
    BY <1>3, <1>9, <1>12, <2>1 DEF HoleLoop
<1>15. MapsEndAtLimit'
  <2>1. \A p \in 1..Len(parts') : parts'[p].start + parts'[p].total = parts'[p].mem
    BY <1>1, <1>7, <1>9 DEF MapsEndAtLimit
  <2>2. ASSUME policy = "nonodes", NEW p \in 1..Len(parts')
        PROVE  parts'[p].start = IF p = 1 THEN 0 ELSE parts'[p - 1].mem
    <3>1. CASE p \in 1..Len(parts)
      <4>1. p # 1 => p - 1 \in 1..Len(parts)
        BY <1>9, <3>1
      <4>2. QED
        BY <1>1, <1>9, <2>2, <3>1, <4>1 DEF MapsEndAtLimit
    <3>2. CASE p = Len(parts) + 1
      <4>1. cur.start = IF parts = <<>> THEN 0 ELSE parts[Len(parts)].mem
        BY <1>1, <1>3, <2>2 DEF HoleLoop
      <4>2. parts'[p].start = cur.start
        BY <1>7, <1>9, <3>2
      <4>3. CASE parts = <<>>
        BY <3>2, <4>1, <4>2, <4>3
      <4>4. CASE parts # <<>>
        <5>1. p - 1 = Len(parts) /\ p # 1 /\ Len(parts) \in 1..Len(parts)
          BY <1>3, <1>9, <3>2, <4>4
        <5>2. QED
          BY <1>9, <4>1, <4>2, <4>4, <5>1
      <4>5. QED
        BY <4>3, <4>4
    <3>3. QED
      BY <1>9, <3>1, <3>2
  <2>3. QED
    BY <1>12, <2>1, <2>2 DEF MapsEndAtLimit
<1>16. \A p \in 1..Len(parts) : parts[p].cpus \cap q.cpus = {}
  <2>1. CASE ByNode
    BY <1>1, <1>5, <1>7, <2>1 DEF Masks
  <2>2. CASE ~ByNode
    <3>1. \A p \in 1..Len(parts) : \A c \in parts[p].cpus : c < l
      BY <1>1, <2>2 DEF Masks
    <3>2. ~(l < l)
      BY <1>3
    <3>3. QED
      BY <1>5, <1>7, <2>2, <3>1, <3>2
  <2>3. QED
    BY <2>1, <2>2
<1>17. CpuHasOneKernel'
  BY <1>1, <1>9, <1>16 DEF CpuHasOneKernel
<1>18. Masks'
  <2>1. CASE ByNode
    <3>1. mask \subseteq anode[i].map /\ cpu \in anode[i].map
      BY <1>1, <1>3, <1>5, <2>1 DEF Masks
    <3>2. i \in Node /\ machine \in Machines
      BY <1>1, <1>3, <2>1 DEF Node, TypeOK
    <3>3. \A n \in Node : n > i => cpu \notin anode[n].map
      <4>1. \A n \in Node : n > i => n # i
        BY <1>1 DEF TypeOK
      <4>2. cpu \in CpuMap(i)
        BY <1>1, <3>1, <3>2 DEF Masks
      <4>3. QED
        BY <1>1, <3>2, <4>1, <4>2, MachineFacts DEF Masks
    <3>4. \A p \in 1..Len(parts') : /\ parts'[p].cpus \cap mask' = {}
                                    /\ \A n \in Node : n > i => parts'[p].cpus \cap anode[n].map = {}
      BY <1>1, <1>7, <1>8, <1>9, <2>1, <3>3 DEF Masks
    <3>5. QED
      BY <1>1, <1>3, <1>8, <1>12, <2>1, <3>1, <3>4 DEF Masks
  <2>2. CASE ~ByNode
    <3>1. \A p \in 1..Len(parts) : parts[p] \in Part
      BY <1>3
    <3>2. \A p \in 1..Len(parts) : parts[p].cpus \subseteq Int
      BY <3>1 DEF Part
    <3>3. \A p \in 1..Len(parts) : \A c \in parts[p].cpus : c < l /\ c \in Int
      BY <1>1, <2>2, <3>2 DEF Masks
    <3>4. \A p \in 1..Len(parts') : \A c \in parts'[p].cpus : c < l'
      BY <1>3, <1>5, <1>7, <1>9, <2>2, <3>3
    <3>5. QED
      BY <1>1, <1>12, <2>2, <3>4 DEF Masks
  <2>3. QED
    BY <2>1, <2>2
<1>19. QED
  BY <1>11, <1>13, <1>14, <1>15, <1>17, <1>18 DEF IInv

LEMMA EndChunksIInv ==
  ASSUME IInv, EndChunks
  PROVE  IInv'
<1>1. /\ TypeOK /\ Places /\ Masks /\ MapsEndAtLimit /\ CpuHasOneKernel
  BY DEF IInv
<1>2. /\ pc = "place" /\ i \in Int /\ i > 0 /\ i' = i + 1 /\ Node \subseteq Int
      /\ pc' = (IF ByNode THEN "globalshm" ELSE "done")
      /\ UNCHANGED <<input, amemres, total_by_node, im, last, size, anode, nomore, chunks>>
      /\ \A n \in Node : anode[n].rstart \in Region
  BY <1>1, MachineFacts, SMTT(30) DEF EndChunks, Places, InPolicy, TypeOK, Node
<1>3. /\ Node' = Node /\ (\A n \in Node : CpuMap(n)' = CpuMap(n)) /\ policy' = policy
      /\ ByNode' = ByNode /\ anode' = anode /\ Region' = Region /\ parts' = parts
      /\ mask' = mask /\ l' = l
  BY <1>2 DEF input, chunks, Node, MaxNode, CpuMap, ByNode, Region
<1>4. TypeOK'
  BY <1>1, <1>2 DEF TypeOK, input, chunks, Region, Node, MaxNode, InPolicy
<1>5. Places' /\ HoleLoop'
  BY <1>1, <1>2, <1>3 DEF Places, HoleLoop, InPolicy, ByNode
<1>6. MapsEndAtLimit' /\ CpuHasOneKernel'
  BY <1>1, <1>3 DEF MapsEndAtLimit, CpuHasOneKernel
<1>7. \A n \in Node : n > i \/ ~(n > i' \/ n = i')
  BY <1>2
<1>8. Masks'
  <2>1. CASE ByNode
    BY <1>1, <1>2, <1>3, <1>7, <2>1 DEF Masks
  <2>2. CASE ~ByNode
    BY <1>1, <1>3, <2>2 DEF Masks
  <2>3. QED
    BY <2>1, <2>2
<1>9. QED
  BY <1>4, <1>5, <1>6, <1>8 DEF IInv
-----------------------------------------------------------------------------
LEMMA StutterIInv == IInv /\ UNCHANGED vars => IInv'
<1> SUFFICES ASSUME IInv, UNCHANGED vars
             PROVE  IInv'
  OBVIOUS
<1> USE DEF vars, input, nodes, chunks
<1>1. TypeOK' /\ Places' /\ HoleLoop'
  <2>1. TypeOK'
    BY DEF IInv, TypeOK, InPolicy, Region, Node, MaxNode
  <2>2. Places'
    BY DEF IInv, Places, InPolicy, Region, Node, MaxNode, ByNode
  <2>3. HoleLoop'
    BY DEF IInv, HoleLoop, Holes
  <2>4. QED
    BY <2>1, <2>2, <2>3
<1>2. Masks'
  BY DEF IInv, Masks, ByNode, CpuMap, Node, MaxNode
<1>3. MapsEndAtLimit' /\ CpuHasOneKernel'
  BY DEF IInv, MapsEndAtLimit, CpuHasOneKernel
<1>4. QED
  BY <1>1, <1>2, <1>3 DEF IInv

(* The places of the program, the loop over holes and the processors that  *)
(* are left stay as IInv says, in main and in the three policies.          *)
THEOREM Invariance == Spec => []IInv
<1>1. IInv /\ Next => IInv'
  <2> SUFFICES ASSUME IInv, Next
               PROVE  IInv'
    OBVIOUS
  <2>1. CASE AddNode \/ ReadMemory \/ ReadLine \/ CountRegions \/ CallPolicy
    BY <2>1, MainIInv
  <2>2. CASE StartNode \/ LowerRegion \/ EndNode
    BY <2>2, NodeIInv
  <2>3. CASE NoNodes \/ SkipRegion \/ CountChunks \/ Realign \/ StartAfterCap
    BY <2>3, BeginIInv
  <2>4. CASE GlobalShm
    BY <2>4, GlobalShmIInv
  <2>5. CASE Clustered
    BY <2>5, ClusteredIInv
  <2>6. CASE StartChunk
    BY <2>6, StartChunkIInv
  <2>7. CASE NextRegion
    BY <2>7, NextRegionIInv, UndefinedIInv
  <2>8. CASE EmitChunk
    BY <2>8, EmitChunkIInv
  <2>9. CASE EndChunks
    BY <2>9, EndChunksIInv
  <2>10. QED
    BY <2>1, <2>2, <2>3, <2>4, <2>5, <2>6, <2>7, <2>8, <2>9 DEF Next
<1>2. QED
  BY <1>1, InitIInv, StutterIInv, PTL DEF Spec

(* Whatever the machine and its holes, the memory map that is printed for  *)
(* a kernel ends at the limit "mem" printed with it, and the policy        *)
(* without nodes starts each kernel where the one before ends.             *)
THEOREM MapsEnd == Spec => []MapsEndAtLimit
<1>1. IInv => MapsEndAtLimit
  BY DEF IInv
<1>2. QED
  BY <1>1, Invariance, PTL

(* No policy prints a processor for two kernels, provided that the cpumaps *)
(* of different nodes are disjoint.                                        *)
THEOREM CpusAreOwn == Spec => []CpuHasOneKernel
<1>1. IInv => CpuHasOneKernel
  BY DEF IInv
<1>2. QED
  BY <1>1, Invariance, PTL
-----------------------------------------------------------------------------
(* Counting.  NodesTile and ChunksWhole say how many places there are      *)
(* between two addresses.  The invariants below say how many main and the  *)
(* policy have counted so far; they need that the table ascends.           *)

Count(S, x, y) == Cardinality({a \in x..(y - 1) : a \in S})
RamPlaces == {a \in Int : Ram(a)}
UsablePlaces == {a \in Int : Usable(a)}

(* The table while it is read. *)
Reading == pc \in {"total", "read"} =>
  /\ im <= MaxRegions /\ im <= Len(machine.lines)
  /\ \A r \in Region :
       /\ r <= im => /\ amemres[r].start = Floor(machine.lines[r].start, Page)
                     /\ amemres[r].end = Floor(machine.lines[r].end, Page)
       /\ r > im => IsEmpty(r)

(* The table ascends, before the realignment and after it. *)
Ordered == pc \notin {"total", "read", "undefined"} =>
  /\ machine.lines # <<>>
  /\ \A r \in Region : amemres[r].start >= 0 /\ amemres[r].end >= 0
  /\ \A r, s \in Region : r < s /\ ~IsEmpty(s) => ~IsEmpty(r) /\ amemres[r].end <= amemres[s].start
  /\ ~IsEmpty(1)

InRegion(x, r) == amemres[r].start <= x /\ x <= amemres[r].end

(* What NodesTile says of one node. *)
Tiled(n) ==
  /\ n < MaxNode => anode[n].end = anode[n + 1].start
  /\ Count(RamPlaces, anode[n].start, anode[n].end) = anode[n].size
  /\ InRegion(anode[n].start, anode[n].rstart)
  /\ InRegion(anode[n].end, anode[n].rend)

(* The node that main is at has the RAM from last to its end. *)
Downwards == pc \in {"node", "fit"} =>
  /\ \A r \in Region : amemres[r].start <= amemres[r].end /\ amemres[r].end + 1 < Wrap
  /\ ~nomore =>
     /\ ~IsEmpty(im) /\ InRegion(last, im)
     /\ \A n \in (i + 1)..MaxNode : Tiled(n)
     /\ pc = "node" /\ i < MaxNode => anode[i + 1].start = last
     /\ pc = "fit" =>
          /\ i < MaxNode => anode[i].end = anode[i + 1].start
          /\ anode[i].size = NodeSize(i)
          /\ anode[i].rend \in Region /\ InRegion(anode[i].end, anode[i].rend)
          /\ last <= anode[i].end
          /\ Count(RamPlaces, last, anode[i].end) + size = NodeSize(i)

(* Before a policy without nodes gives memory away. *)
Begun == policy = "nonodes" /\ pc \in {"total", "read", "node", "fit", "nonodes", "cap", "realign"} =>
  /\ parts = <<>> /\ l = 0 /\ cur = NoChunk
  /\ pc = "cap" => smemres = 1 \/ Cap > 0
  /\ pc = "realign" => base = smemres /\ ~IsEmpty(base) /\ i >= base /\ chunk >= 0

(* There is less than a chunk for each processor. *)
Short == \E e \in Nat : /\ \A a \in UsablePlaces : a < e
                        /\ Count(UsablePlaces, 0, e) < machine.cpus * chunk

(* In front of the start of the next kernel there is a chunk for each of   *)
(* the kernels before it; the loop over holes has counted the memory up to *)
(* the end of its region.                                                  *)
Chunking == policy = "nonodes" /\ pc \in {"place", "holes", "done", "undefined"} /\ ~InsideOut =>
  /\ \A p \in 1..Len(parts) : Count(UsablePlaces, parts[p].start, parts[p].mem) = chunk
  /\ pc = "undefined" /\ cur.avail < cur.required => machine.lines # <<>> /\ Short
  /\ pc \in {"place", "holes"} =>
       /\ base \in Region /\ base <= smemres /\ chunk >= 0
       /\ 0 <= cur.start
       /\ Count(UsablePlaces, 0, cur.start) = l * chunk
  /\ pc = "place" =>
       /\ ~IsEmpty(smemres) /\ cur.start <= amemres[smemres].end
       /\ smemres # base => amemres[smemres].start <= cur.start
  /\ pc = "holes" =>
       /\ l < machine.cpus
       /\ IF IsEmpty(smemres) THEN cur.avail = 0 /\ cur.avail < cur.required /\ Short
          ELSE /\ cur.start <= amemres[smemres].end /\ cur.start <= cur.endend
               /\ smemres # base => amemres[smemres].start <= cur.endend
               /\ Count(UsablePlaces, 0, amemres[smemres].end) + cur.required
                    = (l + 1) * chunk + cur.avail


Counted == Reading /\ Ordered /\ Downwards /\ Begun /\ Chunking
-----------------------------------------------------------------------------
(* Places that are counted. *)

LEMMA CountType ==
  ASSUME NEW S, NEW x \in Int, NEW y \in Int
  PROVE  IsFiniteSet({a \in x..(y - 1) : a \in S}) /\ Count(S, x, y) \in Nat
<1>1. y - 1 \in Int
  OBVIOUS
<1>2. IsFiniteSet(x..(y - 1))
  BY <1>1, FS_Interval
<1>3. {a \in x..(y - 1) : a \in S} \in SUBSET (x..(y - 1))
  OBVIOUS
<1>4. IsFiniteSet({a \in x..(y - 1) : a \in S})
  BY <1>2, <1>3, FS_Subset
<1>5. QED
  BY <1>4, FS_CardinalityType DEF Count

LEMMA CountNat ==
  ASSUME NEW S, NEW x \in Int, NEW y \in Int
  PROVE  Count(S, x, y) \in Nat
BY CountType

LEMMA CountSplit ==
  ASSUME NEW S, NEW x \in Int, NEW y \in Int, NEW z \in Int, x <= y, y <= z
  PROVE  Count(S, x, z) = Count(S, x, y) + Count(S, y, z)
<1> DEFINE A == {a \in x..(y - 1) : a \in S}
           B == {a \in y..(z - 1) : a \in S}
<1>1. A \cup B = {a \in x..(z - 1) : a \in S} /\ A \cap B = {}
  OBVIOUS
<1>2. IsFiniteSet(A) /\ IsFiniteSet(B) /\ Cardinality(A) \in Nat /\ Cardinality(B) \in Nat
  BY CountType DEF Count
<1>3. Count(S, x, y) = Cardinality(A) /\ Count(S, y, z) = Cardinality(B)
      /\ Count(S, x, z) = Cardinality(A \cup B)
  BY <1>1 DEF Count
<1> HIDE DEF A, B
<1>4. Cardinality(A \cup B) = Cardinality(A) + Cardinality(B) - Cardinality({})
  BY <1>1, <1>2, FS_Union
<1>5. QED
  BY <1>2, <1>3, <1>4, FS_EmptySet

LEMMA CountFull ==
  ASSUME NEW S, NEW x \in Int, NEW y \in Int, x <= y, \A a \in x..(y - 1) : a \in S
  PROVE  Count(S, x, y) = y - x
<1>1. {a \in x..(y - 1) : a \in S} = x..(y - 1) /\ y - 1 \in Int
  OBVIOUS
<1>2. Cardinality(x..(y - 1)) = IF x > y - 1 THEN 0 ELSE (y - 1) - x + 1
  BY <1>1, FS_Interval
<1>3. Cardinality(x..(y - 1)) = y - x
  BY <1>2
<1>4. QED
  BY <1>1, <1>3 DEF Count

LEMMA CountEmpty ==
  ASSUME NEW S, NEW x \in Int, NEW y \in Int, \A a \in x..(y - 1) : a \notin S
  PROVE  Count(S, x, y) = 0
<1>1. {a \in x..(y - 1) : a \in S} = {}
  OBVIOUS
<1>2. QED
  BY <1>1, FS_EmptySet DEF Count

LEMMA CountBelow ==
  ASSUME NEW S, NEW e \in Int, NEW z \in Int, \A a \in S : a < e
  PROVE  /\ Cardinality({a \in 0..z : a \in S}) <= Count(S, 0, e)
         /\ Cardinality({a \in 0..z : a \in S}) \in Nat
<1> DEFINE A == {a \in 0..z : a \in S}
           B == {a \in 0..(e - 1) : a \in S}
<1>1. A \in SUBSET B
  OBVIOUS
<1>2. IsFiniteSet(B) /\ Count(S, 0, e) = Cardinality(B)
  BY CountType DEF Count
<1> HIDE DEF A, B
<1>3. IsFiniteSet(A) /\ Cardinality(A) <= Cardinality(B)
  BY <1>1, <1>2, FS_Subset
<1>4. Cardinality(A) \in Nat
  BY <1>3, FS_CardinalityType
<1>5. QED
  BY <1>2, <1>3, <1>4 DEF A

(* Sizes and addresses that are rounded. *)

LEMMA Remainder ==
  ASSUME NEW x \in Int, NEW u \in Nat \ {0}
  PROVE  /\ x % u \in 0..(u - 1) /\ x \div u \in Int /\ Floor(x, u) = u * (x \div u)
         /\ Floor(x, u) <= x /\ x < Floor(x, u) + u
<1>1. x % u \in 0..(u - 1) /\ x \div u \in Int /\ x = u * (x \div u) + (x % u)
  OBVIOUS
<1>2. QED
  BY <1>1 DEF Floor

LEMMA FloorAscends ==
  ASSUME NEW x \in Int, NEW y \in Int, NEW u \in Nat \ {0}, x <= y
  PROVE  Floor(x, u) <= Floor(y, u)
<1> DEFINE p == x \div u
           q == y \div u
<1>1. p \in Int /\ q \in Int /\ Floor(x, u) = u * p /\ Floor(y, u) = u * q
      /\ u * p <= x /\ y < u * q + u
  BY Remainder
<1> HIDE DEF p, q
<1>2. SUFFICES ASSUME u * q < u * p
               PROVE  FALSE
  BY <1>1
<1>3. q + 1 <= p
  <2>1. SUFFICES ASSUME p <= q
                 PROVE  FALSE
    BY <1>1
  <2>2. u * (q - p) >= 0 /\ u * q = u * p + u * (q - p)
    BY <1>1, <2>1
  <2>3. QED
    BY <1>1, <1>2, <2>2
<1>4. u * (p - (q + 1)) >= 0 /\ u * p = u * q + u + u * (p - (q + 1))
  BY <1>1, <1>3
<1>5. u * p \in Int /\ u * q \in Int /\ u * (p - (q + 1)) \in Int
  BY <1>1
<1>6. QED
  BY <1>1, <1>4, <1>5

LEMMA FloorNat ==
  ASSUME NEW x \in Nat, NEW u \in Nat \ {0}
  PROVE  Floor(x, u) \in Nat /\ Floor(x, u) <= x
<1>1. Floor(0, u) = 0
  BY DEF Floor
<1>2. Floor(0, u) <= Floor(x, u)
  BY FloorAscends
<1>3. Floor(x, u) \in Int
  BY FloorType
<1>4. QED
  BY <1>1, <1>2, <1>3, Remainder

LEMMA CeilingNat ==
  ASSUME NEW x \in Nat, NEW u \in Nat \ {0}
  PROVE  Ceiling(x, u) \in Nat /\ x <= Ceiling(x, u)
<1>1. Floor(x, u) \in Nat /\ x < Floor(x, u) + u
  BY FloorNat, Remainder
<1>2. QED
  BY <1>1 DEF Ceiling
-----------------------------------------------------------------------------
(* The table of regions. *)

LEMMA MapFacts ==
  ASSUME machine \in Machines
  PROVE  /\ Len(machine.lines) \in Nat
         /\ \A r \in 1..Len(machine.lines) :
              /\ machine.lines[r].start \in Nat /\ machine.lines[r].end \in Nat
              /\ machine.lines[r].start <= machine.lines[r].end
              /\ machine.lines[r].end + 1 < Wrap
         /\ \A r, s \in 1..Len(machine.lines) :
              r < s => machine.lines[r].end <= machine.lines[s].start
         /\ \A n \in Node : NodeSize(n) \in -1..(Wrap - 1)
<1>1. /\ Len(machine.lines) \in Nat
      /\ \A r \in 1..Len(machine.lines) :
           machine.lines[r].start \in Int /\ machine.lines[r].end \in Int
  BY MachineFacts
<1>2. /\ \A r \in 1..Len(machine.lines) :
           /\ 0 <= machine.lines[r].start /\ machine.lines[r].start <= machine.lines[r].end
           /\ machine.lines[r].end + 1 < Wrap
      /\ \A r, s \in 1..Len(machine.lines) :
           r < s => machine.lines[r].end <= machine.lines[s].start
      /\ \A n \in DOMAIN machine.nodes : machine.nodes[n].size \in 0..(Wrap - 1)
  BY MapsAssumption
<1>3. \A n \in Node : NodeSize(n) \in -1..(Wrap - 1)
  BY <1>2, Units DEF NodeSize
<1>4. \A r \in 1..Len(machine.lines) :
        machine.lines[r].start \in Nat /\ machine.lines[r].end \in Nat
  BY <1>1, <1>2
<1>5. QED
  BY <1>1, <1>2, <1>3, <1>4

LEMMA Regions ==
  ASSUME TypeOK
  PROVE  /\ Region = 1..MaxRegions /\ 1 \in Region
         /\ \A r \in Region : amemres[r].start \in Int /\ amemres[r].end \in Int
BY Units DEF TypeOK, Resource, Region

(* Rounding keeps the regions in order, and one behind another is not empty. *)
LEMMA TableIsRead ==
  ASSUME TypeOK, Reading, pc = "read", im = Len(machine.lines), ~IsEmpty(1)
  PROVE  /\ machine.lines # <<>>
         /\ \A r \in Region : /\ amemres[r].start >= 0 /\ amemres[r].start <= amemres[r].end
                              /\ amemres[r].end + 1 < Wrap
         /\ \A r, s \in Region : r < s /\ ~IsEmpty(s) =>
              ~IsEmpty(r) /\ amemres[r].end <= amemres[s].start
<1> DEFINE m == machine.lines
<1>1. machine \in Machines /\ im <= MaxRegions /\ Len(m) \in Nat
  BY MapFacts DEF Reading, TypeOK
<1>2. /\ Region = 1..MaxRegions /\ 1 \in Region /\ MaxRegions \in Nat
      /\ \A r \in Region : amemres[r].start \in Int /\ amemres[r].end \in Int
  BY Regions, Units
<1>3. \A r \in Region : r <= im => /\ amemres[r].start = Floor(m[r].start, Page)
                                   /\ amemres[r].end = Floor(m[r].end, Page)
  BY DEF Reading
<1>4. \A r \in Region : r > im => IsEmpty(r)
  BY DEF Reading
<1>5. /\ \A r \in 1..Len(m) : /\ m[r].start \in Nat /\ m[r].end \in Nat
                              /\ m[r].start <= m[r].end /\ m[r].end + 1 < Wrap
      /\ \A r, s \in 1..Len(m) : r < s => m[r].end <= m[s].start
  BY <1>1, MapFacts
<1>6. 1 <= im /\ m # <<>>
  BY <1>1, <1>2, <1>4
<1> HIDE DEF m
<1>7. ASSUME NEW r \in Region
      PROVE  /\ amemres[r].start >= 0 /\ amemres[r].start <= amemres[r].end
             /\ amemres[r].end + 1 < Wrap
  <2>1. CASE r <= im
    <3>1. r \in 1..Len(m)
      BY <1>1, <1>2, <2>1 DEF m
    <3> DEFINE x == m[r].start
               y == m[r].end
    <3>2. x \in Nat /\ y \in Nat /\ x <= y /\ y + 1 < Wrap
      BY <1>5, <3>1
    <3>a. amemres[r].start = Floor(x, Page) /\ amemres[r].end = Floor(y, Page)
      BY <1>3, <2>1
    <3> HIDE DEF x, y
    <3>3. Floor(x, Page) \in Nat /\ Floor(y, Page) \in Nat /\ Floor(y, Page) <= y
      BY <3>2, FloorNat, Units
    <3>4. Floor(x, Page) <= Floor(y, Page)
      BY <3>2, FloorAscends, Units
    <3>5. QED
      BY <3>2, <3>3, <3>4, <3>a, Units
  <2>2. CASE r > im
    <3>1. amemres[r].start = 0 /\ amemres[r].end = 0
      BY <1>4, <2>2 DEF IsEmpty
    <3>2. Wrap > 1
      <4>1. 1 \in 1..Len(m)
        BY <1>1, <1>6 DEF m
      <4>2. m[1].end \in Nat /\ m[1].end + 1 < Wrap
        BY <1>5, <4>1
      <4>3. QED
        BY <4>2, Units
    <3>3. QED
      BY <3>1, <3>2
  <2>3. QED
    BY <1>1, <1>2, <2>1, <2>2 DEF m
<1>8. ASSUME NEW r \in Region, NEW s \in Region, r < s, ~IsEmpty(s)
      PROVE  amemres[r].end <= amemres[s].start
  <2>1. s <= im /\ r <= im /\ r \in 1..Len(m) /\ s \in 1..Len(m)
    BY <1>1, <1>2, <1>4, <1>8 DEF m
  <2> DEFINE x == m[r].end
             y == m[s].start
  <2>2. x \in Nat /\ y \in Nat /\ x <= y
    BY <1>5, <1>8, <2>1
  <2>3. amemres[r].end = Floor(x, Page) /\ amemres[s].start = Floor(y, Page)
    BY <1>3, <2>1
  <2> HIDE DEF x, y
  <2>4. Floor(x, Page) <= Floor(y, Page)
    BY <2>2, FloorAscends, Units
  <2>5. QED
    BY <2>3, <2>4
<1>9. ASSUME NEW r \in Region, NEW s \in Region, r < s, ~IsEmpty(s)
      PROVE  ~IsEmpty(r)
  <2>1. CASE r = 1
    BY <2>1
  <2>2. CASE r # 1
    <3>1. r <= im /\ 1 < r
      BY <1>1, <1>2, <1>4, <1>9, <2>2 DEF m
    <3>2. amemres[1].start >= 0 /\ amemres[1].start <= amemres[1].end
          /\ amemres[r].start <= amemres[r].end
      BY <1>2, <1>7
    <3>3. amemres[1].end # 0
      BY <1>2, <3>2 DEF IsEmpty
    <3>4. amemres[1].end <= amemres[s].start
      BY <1>2, <1>8, <1>9, <3>1
    <3>5. SUFFICES ASSUME IsEmpty(r)
                   PROVE  FALSE
      OBVIOUS
    <3>6. r \in 1..Len(m) /\ 1 \in 1..Len(m)
      BY <1>1, <1>2, <1>6, <3>1 DEF m
    <3> DEFINE x == m[1].end
               y == m[r].start
    <3>7. x \in Nat /\ y \in Nat /\ x <= y
      BY <1>5, <3>1, <3>6
    <3>8. amemres[1].end = Floor(x, Page) /\ amemres[r].start = Floor(y, Page)
      BY <1>2, <1>3, <1>6, <3>1
    <3> HIDE DEF x, y
    <3>9. Floor(x, Page) <= Floor(y, Page)
      BY <3>7, FloorAscends, Units
    <3>10. QED
      BY <1>2, <3>2, <3>3, <3>5, <3>8, <3>9 DEF IsEmpty
  <2>3. QED
    BY <2>1, <2>2
<1>10. QED
  BY <1>6, <1>7, <1>8, <1>9 DEF m

LEMMA ReadingStep ==
  ASSUME IInv, Reading, Next
  PROVE  Reading'
<1>1. TypeOK /\ Places
  BY DEF IInv
<1>2. CASE pc \notin {"total", "read"}
  <2>1. pc' \notin {"total", "read"}
    <3>1. pc = "node" => policy \notin {"total", "read"}
      BY <1>1, PoliciesAssumption DEF TypeOK
    <3>2. QED
      BY <1>2, <3>1 DEF Next, AddNode, ReadMemory, ReadLine, CountRegions, StartNode, LowerRegion, EndNode,
         CallPolicy, NoNodes, SkipRegion, CountChunks, Realign, GlobalShm, StartAfterCap, Clustered,
         StartChunk, NextRegion, EmitChunk, EndChunks, Undefined
  <2>2. QED
    BY <2>1 DEF Reading
<1>3. CASE AddNode \/ ReadMemory
  <2>1. pc \in {"total", "read"} /\ UNCHANGED <<machine, amemres, im>>
    BY <1>3 DEF AddNode, ReadMemory, input, nodes
  <2>2. QED
    BY <2>1 DEF Reading, Region, IsEmpty
<1>4. CASE CountRegions \/ Undefined
  <2>1. pc' \notin {"total", "read"}
    BY <1>4 DEF CountRegions, Undefined
  <2>2. QED
    BY <2>1 DEF Reading
<1>5. CASE ReadLine /\ ~Undefined
  <2> DEFINE line == machine.lines[im + 1]
             new == [start |-> Floor(line.start, Page), end |-> Floor(line.end, Page)]
  <2>1. /\ pc = "read" /\ im < Len(machine.lines) /\ im # MaxRegions /\ im' = im + 1
        /\ amemres' = [amemres EXCEPT ![im + 1] = new]
        /\ machine' = machine /\ im \in Nat /\ im <= MaxRegions
    BY <1>1, <1>5 DEF ReadLine, Places, input, Reading
  <2>2. /\ Region = 1..MaxRegions /\ Region' = Region /\ MaxRegions \in Nat
        /\ Len(machine.lines) \in Nat /\ amemres \in [Region -> Resource]
    BY <1>1, Units, MapFacts DEF Region, TypeOK
  <2>3. im + 1 \in Region
    BY <2>1, <2>2
  <2>4. new.start = Floor(line.start, Page) /\ new.end = Floor(line.end, Page)
    OBVIOUS
  <2> HIDE DEF new
  <2>5. amemres'[im + 1] = new /\ \A r \in Region : r # im + 1 => amemres'[r] = amemres[r]
    BY <2>1, <2>2, <2>3
  <2>6. im' <= MaxRegions /\ im' <= Len(machine.lines)
    BY <2>1, <2>2
  <2>7. ASSUME NEW r \in Region
        PROVE  /\ r <= im' => /\ amemres'[r].start = Floor(machine.lines[r].start, Page)
                              /\ amemres'[r].end = Floor(machine.lines[r].end, Page)
               /\ r > im' => amemres'[r].start = 0 /\ amemres'[r].end = 0
    <3>1. CASE r = im + 1
      BY <2>1, <2>2, <2>4, <2>5, <3>1
    <3>2. CASE r # im + 1
      <4>1. amemres'[r] = amemres[r] /\ (r <= im' <=> r <= im) /\ (r > im' => r > im)
        BY <2>1, <2>2, <2>5, <3>2
      <4>2. QED
        BY <2>1, <4>1 DEF Reading, IsEmpty
    <3>3. QED
      BY <3>1, <3>2
  <2>8. QED
    BY <2>1, <2>2, <2>6, <2>7 DEF Reading, IsEmpty
<1>6. QED
  BY <1>2, <1>3, <1>4, <1>5 DEF Next, StartNode, LowerRegion, EndNode,
     CallPolicy, NoNodes, SkipRegion, CountChunks, Realign, GlobalShm, StartAfterCap, Clustered,
     StartChunk, NextRegion, EmitChunk, EndChunks

(* Only the realignment changes the table that was read. *)
LEMMA TableKept ==
  ASSUME Next, ~Realign, ~Undefined, pc \notin {"total", "read"}
  PROVE  UNCHANGED <<machine, policy, amemres>> /\ pc # "undefined"
BY DEF Next, AddNode, ReadMemory, ReadLine, CountRegions, StartNode, LowerRegion, EndNode,
   CallPolicy, NoNodes, SkipRegion, CountChunks, GlobalShm, StartAfterCap, Clustered,
   StartChunk, NextRegion, EmitChunk, EndChunks, input

(* A region that the realignment moves does not get larger, and its start  *)
(* stays above 0.                                                          *)
LEMMA RealignRegion ==
  ASSUME TypeOK, Ordered, Realign, ~Undefined, pc' # "place", i > 0
  PROVE  /\ i \in Region /\ i' = i + 1 /\ pc' = "realign" /\ pc = "realign"
         /\ \A r \in Region : r # i => amemres'[r] = amemres[r]
         /\ amemres[i].start > 0 /\ amemres[i].start <= amemres'[i].start
         /\ amemres'[i].end >= 0 /\ amemres'[i].end <= amemres[i].end
         /\ amemres' \in [Region -> Resource]
         /\ UNCHANGED <<machine, policy, smemres, chunk, l, cur, parts, base>>
<1> DEFINE a == amemres[i]
           new == [start |-> IF a.start > Cap THEN Ceiling(a.start, BenChunk) ELSE a.start,
                   end |-> Floor(a.end, BenChunk)]
<1>1. /\ ~(i > MaxRegions) /\ ~(a.start = 0 \/ a.end = 0) /\ pc = "realign"
      /\ amemres' = [amemres EXCEPT ![i] = new] /\ i' = i + 1
      /\ UNCHANGED <<input, pc, total_by_node, im, last, size, anode, nomore, chunks>>
  BY DEF Realign
<1>2. /\ Region = 1..MaxRegions /\ MaxRegions \in Nat /\ i \in Int
      /\ \A r \in Region : amemres[r].start \in Int /\ amemres[r].end \in Int
      /\ amemres \in [Region -> Resource]
  BY Regions, Units DEF TypeOK
<1>3. i \in Region
  BY <1>1, <1>2
<1>4. a.start \in Nat /\ a.end \in Nat /\ a.start > 0
  <2>1. amemres[i].start >= 0 /\ amemres[i].end >= 0
    BY <1>1, <1>3 DEF Ordered
  <2>2. QED
    BY <1>1, <1>2, <1>3, <2>1
<1> DEFINE x == a.start
           y == a.end
<1>5. x \in Nat /\ y \in Nat /\ x > 0
  BY <1>4
<1>6. new = [start |-> IF x > Cap THEN Ceiling(x, BenChunk) ELSE x, end |-> Floor(y, BenChunk)]
  OBVIOUS
<1> HIDE DEF x, y, new
<1>7. Ceiling(x, BenChunk) \in Nat /\ x <= Ceiling(x, BenChunk)
      /\ Floor(y, BenChunk) \in Nat /\ Floor(y, BenChunk) <= y
  BY <1>5, FloorNat, CeilingNat, Units
<1>8. new.start \in Nat /\ x <= new.start /\ new.end \in Nat /\ new.end <= y /\ new \in Resource
  BY <1>5, <1>6, <1>7, Units DEF Resource
<1>9. /\ amemres'[i] = new /\ \A r \in Region : r # i => amemres'[r] = amemres[r]
      /\ amemres' \in [Region -> Resource]
  BY <1>1, <1>2, <1>3, <1>8
<1>10. amemres[i].start = x /\ amemres[i].end = y
  BY DEF x, y
<1>11. UNCHANGED <<machine, policy, smemres, chunk, l, cur, parts, base>> /\ pc' = "realign"
  BY <1>1 DEF input, chunks
<1>12. QED
  BY <1>1, <1>3, <1>5, <1>8, <1>9, <1>10, <1>11

LEMMA OrderedStep ==
  ASSUME IInv, Reading, Ordered, Next
  PROVE  Ordered'
<1>1. TypeOK /\ Places
  BY DEF IInv
<1>2. Region' = Region
  BY DEF Region
<1>3. CASE Undefined \/ pc' \in {"total", "read"}
  BY <1>3 DEF Ordered, Undefined
<1>4. CASE CountRegions /\ ~Undefined
  <2>1. PICK n \in 0..MaxRegions :
          /\ pc = "read" /\ im = Len(machine.lines)
          /\ \A r \in 1..n : ~IsEmpty(r)
          /\ n # 0 /\ UNCHANGED <<input, amemres>>
    BY <1>4 DEF CountRegions
  <2>2. ~IsEmpty(1) /\ UNCHANGED <<machine, amemres>>
    <3>1. 1 \in 1..n
      BY <2>1, Units
    <3>2. QED
      BY <2>1, <3>1 DEF input
  <2>3. /\ machine.lines # <<>>
        /\ \A r \in Region : amemres[r].start >= 0 /\ amemres[r].start <= amemres[r].end
        /\ \A r, s \in Region : r < s /\ ~IsEmpty(s) =>
             ~IsEmpty(r) /\ amemres[r].end <= amemres[s].start
    BY <1>1, <2>1, <2>2, TableIsRead
  <2>4. \A r \in Region : amemres[r].start >= 0 /\ amemres[r].end >= 0
    BY <1>1, <2>3, Regions
  <2>5. QED
    BY <1>2, <2>2, <2>3, <2>4 DEF Ordered, IsEmpty
<1>5. CASE Realign /\ ~Undefined /\ pc' = "place"
  <2>1. UNCHANGED <<machine, amemres>> /\ pc = "realign"
    BY <1>5 DEF Realign, input
  <2>2. QED
    BY <1>2, <2>1 DEF Ordered, IsEmpty
<1>6. CASE Realign /\ ~Undefined /\ pc' # "place"
  <2>1. i > 0 /\ pc = "realign"
    BY <1>1, <1>6 DEF Realign, Places, InPolicy
  <2>2. /\ i \in Region /\ machine' = machine
        /\ \A r \in Region : r # i => amemres'[r] = amemres[r]
        /\ amemres[i].start > 0 /\ amemres[i].start <= amemres'[i].start
        /\ amemres'[i].end >= 0 /\ amemres'[i].end <= amemres[i].end
        /\ amemres' \in [Region -> Resource]
    BY <1>1, <1>6, <2>1, RealignRegion
  <2>3. /\ \A r \in Region : amemres[r].start \in Int /\ amemres[r].end \in Int
        /\ \A r \in Region : amemres'[r].start \in Int /\ amemres'[r].end \in Int
        /\ 1 \in Region
    BY <1>1, <2>2, Regions DEF Resource
  <2>4. /\ machine.lines # <<>>
        /\ \A r \in Region : amemres[r].start >= 0 /\ amemres[r].end >= 0
        /\ \A r, s \in Region : r < s /\ ~IsEmpty(s) =>
             ~IsEmpty(r) /\ amemres[r].end <= amemres[s].start
        /\ ~IsEmpty(1)
    BY <2>1 DEF Ordered
  <2>5. amemres'[i].start > 0 /\ ~IsEmpty(i)
    BY <2>2, <2>3 DEF IsEmpty
  <2>6. \A r \in Region : /\ amemres'[r].start >= amemres[r].start
                          /\ amemres'[r].end <= amemres[r].end
                          /\ amemres'[r].end >= 0
                          /\ (IsEmpty(r) <=> amemres'[r].start = 0 /\ amemres'[r].end = 0)
    BY <2>2, <2>3, <2>4, <2>5 DEF IsEmpty
  <2> DEFINE Empty(r) == amemres'[r].start = 0 /\ amemres'[r].end = 0
  <2>7. \A r \in Region : amemres'[r].start >= 0 /\ amemres'[r].end >= 0
    BY <2>3, <2>4, <2>6
  <2>8. ASSUME NEW r \in Region, NEW s \in Region, r < s, ~Empty(s)
        PROVE  ~Empty(r) /\ amemres'[r].end <= amemres'[s].start
    <3>1. ~IsEmpty(s) /\ ~IsEmpty(r) /\ amemres[r].end <= amemres[s].start
      BY <2>4, <2>6, <2>8
    <3>2. ~Empty(r)
      BY <2>6, <3>1
    <3>3. QED
      BY <2>3, <2>6, <3>1, <3>2
  <2>9. ~Empty(1)
    BY <2>3, <2>4, <2>6
  <2>10. QED
    BY <1>2, <2>2, <2>4, <2>7, <2>8, <2>9 DEF Ordered, IsEmpty
<1>7. CASE ~CountRegions /\ ~Realign /\ ~Undefined /\ pc' \notin {"total", "read"}
  <2>1. pc \notin {"total", "read"}
    BY <1>7 DEF Next, AddNode, ReadMemory, ReadLine, StartNode, LowerRegion, EndNode,
       CallPolicy, NoNodes, SkipRegion, CountChunks, GlobalShm, StartAfterCap, Clustered,
       StartChunk, NextRegion, EmitChunk, EndChunks
  <2>2. UNCHANGED <<machine, amemres>> /\ pc # "undefined"
    BY <1>7, <2>1, TableKept
  <2>3. QED
    BY <1>2, <2>1, <2>2 DEF Ordered, IsEmpty
<1>8. QED
  BY <1>3, <1>4, <1>5, <1>6, <1>7
-----------------------------------------------------------------------------
(* The nodes, from the last one down. *)

LEMMA CountBound ==
  ASSUME NEW S, NEW x \in Int, NEW y \in Int, x <= y
  PROVE  Count(S, x, y) <= y - x
<1> DEFINE A == {a \in x..(y - 1) : a \in S}
           B == x..(y - 1)
<1>1. A \in SUBSET B /\ y - 1 \in Int
  OBVIOUS
<1>2. IsFiniteSet(B) /\ Cardinality(B) = IF x > y - 1 THEN 0 ELSE (y - 1) - x + 1
  BY <1>1, FS_Interval
<1>3. Cardinality(B) = y - x
  BY <1>2
<1>4. Count(S, x, y) = Cardinality(A)
  BY DEF Count
<1> HIDE DEF A, B
<1>5. Cardinality(A) <= Cardinality(B)
  BY <1>1, <1>2, FS_Subset
<1>6. QED
  BY <1>3, <1>4, <1>5

LEMMA Unsigned ==
  ASSUME NEW x \in Int
  PROVE  /\ 0 <= x /\ x < Wrap => U(x) = x
         /\ -Wrap <= x /\ x < 0 => U(x) = x + Wrap
<1>1. /\ 0 <= x /\ x < Wrap => x % Wrap = x
      /\ -Wrap <= x /\ x < 0 => x % Wrap = x + Wrap
  BY Units
<1>2. QED
  BY <1>1 DEF U

(* A region is RAM, and what is between it and the one before is not. *)
LEMMA RamOfRegion ==
  ASSUME TypeOK, Ordered, Downwards, pc \in {"node", "fit"}, NEW r \in Region, ~IsEmpty(r)
  PROVE  /\ \A x, y \in Int : amemres[r].start <= x /\ x <= y /\ y <= amemres[r].end =>
              Count(RamPlaces, x, y) = y - x
         /\ r > 1 => /\ r - 1 \in Region /\ ~IsEmpty(r - 1)
                     /\ amemres[r - 1].end <= amemres[r].start
                     /\ Count(RamPlaces, amemres[r - 1].end, amemres[r].start) = 0
<1>1. /\ Region = 1..MaxRegions /\ MaxRegions \in Nat
      /\ \A s \in Region : amemres[s].start \in Int /\ amemres[s].end \in Int
  BY Regions, Units
<1>2. /\ \A s \in Region : amemres[s].start <= amemres[s].end
      /\ \A q, s \in Region : q < s /\ ~IsEmpty(s) =>
           ~IsEmpty(q) /\ amemres[q].end <= amemres[s].start
  BY DEF Downwards, Ordered
<1>3. ASSUME NEW x \in Int, NEW y \in Int,
             amemres[r].start <= x, x <= y, y <= amemres[r].end
      PROVE  Count(RamPlaces, x, y) = y - x
  <2>1. \A a \in x..(y - 1) : a \in Int /\ amemres[r].start <= a /\ a < amemres[r].end
    BY <1>1, <1>3
  <2>2. \A a \in x..(y - 1) : a \in RamPlaces
    BY <2>1 DEF RamPlaces, Ram
  <2>3. QED
    BY <1>3, <2>2, CountFull
<1>4. ASSUME r > 1
      PROVE  /\ r - 1 \in Region /\ ~IsEmpty(r - 1)
             /\ amemres[r - 1].end <= amemres[r].start
             /\ Count(RamPlaces, amemres[r - 1].end, amemres[r].start) = 0
  <2>1. r - 1 \in Region /\ r - 1 < r
    BY <1>1, <1>4
  <2>2. ~IsEmpty(r - 1) /\ amemres[r - 1].end <= amemres[r].start
    BY <1>2, <2>1
  <2>3. amemres[r - 1].end \in Int /\ amemres[r].start \in Int
    BY <1>1, <2>1
  <2>4. ASSUME NEW a \in amemres[r - 1].end..(amemres[r].start - 1), NEW s \in Region
        PROVE  ~(amemres[s].start <= a /\ a < amemres[s].end)
    <3>1. a \in Int /\ amemres[r - 1].end <= a /\ a < amemres[r].start
      BY <2>3, <2>4
    <3>2. s < r - 1 \/ s = r - 1 \/ s = r \/ r < s
      BY <1>1
    <3>3. CASE s < r - 1
      <4>1. amemres[s].end <= amemres[r - 1].start /\ amemres[r - 1].start <= amemres[r - 1].end
        BY <1>2, <2>1, <2>2, <3>3
      <4>2. QED
        BY <1>1, <2>1, <3>1, <4>1
    <3>4. CASE s = r - 1 \/ s = r
      BY <1>1, <2>1, <3>1, <3>4
    <3>5. CASE r < s
      <4>1. CASE IsEmpty(s)
        BY <1>1, <4>1 DEF IsEmpty
      <4>2. CASE ~IsEmpty(s)
        <5>1. amemres[r].end <= amemres[s].start /\ amemres[r].start <= amemres[r].end
          BY <1>2, <3>5, <4>2
        <5>2. QED
          BY <1>1, <3>1, <5>1
      <4>3. QED
        BY <4>1, <4>2
    <3>6. QED
      BY <3>2, <3>3, <3>4, <3>5
  <2>5. \A a \in amemres[r - 1].end..(amemres[r].start - 1) : a \notin RamPlaces
    BY <2>4 DEF RamPlaces, Ram
  <2>6. QED
    BY <2>1, <2>2, <2>3, <2>5, CountEmpty
<1>5. QED
  BY <1>3, <1>4

(* What the next lemmas begin with. *)
LEMMA AtNode ==
  ASSUME IInv, Ordered, Downwards, pc \in {"node", "fit"}, ~nomore
  PROVE  /\ MaxNode \in Nat \ {0} /\ Node = 1..MaxNode /\ i \in 0..MaxNode
         /\ anode \in [Node -> NumaNode]
         /\ \A n \in Node : anode[n].start \in Int /\ anode[n].end \in Int /\ anode[n].size \in Int
         /\ im \in Region /\ im \in Int /\ last \in Int /\ size \in Int
         /\ amemres[im].start \in Nat /\ amemres[im].end \in Nat
         /\ amemres[im].start <= last /\ last <= amemres[im].end
         /\ ~IsEmpty(im) /\ last \in Nat
         /\ \A r \in Region : /\ amemres[r].start \in Nat /\ amemres[r].end \in Nat
                              /\ amemres[r].start <= amemres[r].end /\ amemres[r].end + 1 < Wrap
<1>1. TypeOK /\ Places /\ machine \in Machines
  BY DEF IInv, TypeOK
<1>2. /\ MaxNode \in Nat \ {0} /\ Node = 1..MaxNode
      /\ im \in Region /\ i \in Int /\ i >= 0 /\ i <= MaxNode
      /\ im \in Int /\ last \in Int /\ size \in Int /\ anode \in [Node -> NumaNode]
  BY <1>1, MachineFacts DEF Node, Places, TypeOK
<1>3. \A n \in Node : anode[n].start \in Int /\ anode[n].end \in Int /\ anode[n].size \in Int
  BY <1>2 DEF NumaNode
<1>4. ASSUME NEW r \in Region
      PROVE  /\ amemres[r].start \in Nat /\ amemres[r].end \in Nat
             /\ amemres[r].start <= amemres[r].end /\ amemres[r].end + 1 < Wrap
  <2>1. amemres[r].start >= 0 /\ amemres[r].end >= 0
    BY DEF Ordered
  <2>2. amemres[r].start \in Int /\ amemres[r].end \in Int
    BY <1>1, Regions
  <2>3. QED
    BY <2>1, <2>2 DEF Downwards
<1>5. amemres[im].start <= last /\ last <= amemres[im].end /\ ~IsEmpty(im)
  BY DEF Downwards, InRegion
<1>6. last \in Nat
  BY <1>2, <1>4, <1>5
<1>7. QED
  BY <1>2, <1>3, <1>4, <1>5, <1>6

(* While a node is fitted, last and size are in the range in which unsigned *)
(* numbers behave.                                                         *)
LEMMA Fitting ==
  ASSUME IInv, Ordered, Downwards, pc = "fit", ~nomore
  PROVE  /\ i \in Node /\ last <= anode[i].end /\ anode[i].end + 1 < Wrap
         /\ Count(RamPlaces, last, anode[i].end) \in Nat
         /\ Count(RamPlaces, last, anode[i].end) + size = anode[i].size
         /\ anode[i].size = NodeSize(i)
         /\ U(last - amemres[im].start) = last - amemres[im].start
         /\ ~Reaches => 0 <= size /\ size <= last - amemres[im].start
<1> DEFINE s == amemres[im].start
           e == anode[i].end
           c == Count(RamPlaces, last, e)
<1>1. /\ MaxNode \in Nat \ {0} /\ Node = 1..MaxNode /\ i \in 0..MaxNode
      /\ \A n \in Node : anode[n].end \in Int
      /\ last \in Nat /\ size \in Int /\ s \in Nat /\ s <= last
  BY AtNode
<1>2. i \in Node
  BY <1>1 DEF IInv, Places
<1>3. /\ anode[i].rend \in Region /\ InRegion(e, anode[i].rend) /\ last <= e
      /\ c + size = NodeSize(i) /\ anode[i].size = NodeSize(i)
  BY DEF Downwards
<1>4. e <= amemres[anode[i].rend].end /\ amemres[anode[i].rend].end \in Nat
      /\ amemres[anode[i].rend].end + 1 < Wrap
  BY <1>3, AtNode DEF InRegion
<1>5. e \in Int /\ e + 1 < Wrap /\ Wrap \in Nat
  BY <1>1, <1>2, <1>4, Units
<1>6. c \in Nat /\ c <= e - last
  <2>1. last \in Int /\ e \in Int /\ last <= e
    BY <1>1, <1>3, <1>5
  <2> HIDE DEF e
  <2>2. c \in Nat
    BY <2>1, CountType
  <2>3. c <= e - last
    BY <2>1, CountBound
  <2>4. QED
    BY <2>2, <2>3
<1>7. NodeSize(i) \in Int /\ NodeSize(i) >= -1 /\ NodeSize(i) < Wrap
  <2>1. machine \in Machines
    BY DEF IInv, TypeOK
  <2>2. NodeSize(i) \in -1..(Wrap - 1)
    BY <1>2, <2>1, MapFacts
  <2>3. QED
    BY <1>5, <2>2
<1>8. Reaches <=> U(last - s) < U(size)
  BY DEF Reaches
<1> HIDE DEF s, e, c
<1>9. U(last - s) = last - s
  <2>1. last - s \in Int /\ 0 <= last - s /\ last - s < Wrap
    BY <1>1, <1>3, <1>5
  <2>2. QED
    BY <2>1, Unsigned
<1>10. ASSUME ~Reaches
       PROVE  0 <= size /\ size <= last - s
  <2>1. size < 0 => FALSE
    <3>1. SUFFICES ASSUME size < 0
                   PROVE  FALSE
      OBVIOUS
    <3>2. size >= -1 - (e - last)
      BY <1>1, <1>3, <1>5, <1>6, <1>7
    <3>3. -Wrap <= size
      BY <1>1, <1>5, <3>2
    <3>4. U(size) = size + Wrap
      BY <1>1, <3>1, <3>3, Unsigned
    <3>5. last - s < size + Wrap
      BY <1>1, <1>5, <3>2
    <3>6. QED
      BY <1>8, <1>9, <1>10, <3>4, <3>5
  <2>2. 0 <= size /\ size < Wrap
    BY <1>1, <1>3, <1>5, <1>6, <1>7, <2>1
  <2>3. U(size) = size
    BY <1>1, <2>2, Unsigned
  <2>4. QED
    BY <1>1, <1>8, <1>9, <1>10, <2>2, <2>3
<1>11. Count(RamPlaces, last, anode[i].end) = c /\ anode[i].end = e /\ amemres[im].start = s
  BY DEF c, e, s
<1>12. QED
  BY <1>2, <1>3, <1>5, <1>6, <1>9, <1>10, <1>11

LEMMA RamKept ==
  ASSUME UNCHANGED <<machine, amemres>>
  PROVE  /\ RamPlaces' = RamPlaces /\ Region' = Region /\ MaxNode' = MaxNode /\ Node' = Node
         /\ \A n : NodeSize(n)' = NodeSize(n)
         /\ \A r : IsEmpty(r)' <=> IsEmpty(r)
         /\ \A x, r : InRegion(x, r)' <=> InRegion(x, r)
<1>1. Region' = Region
  BY DEF Region
<1>2. RamPlaces' = RamPlaces
  BY <1>1 DEF RamPlaces, Ram
<1>3. MaxNode' = MaxNode /\ Node' = Node /\ \A n : NodeSize(n)' = NodeSize(n)
  BY DEF MaxNode, Node, NodeSize
<1>4. \A r : IsEmpty(r)' <=> IsEmpty(r)
  BY DEF IsEmpty
<1>5. \A x, r : InRegion(x, r)' <=> InRegion(x, r)
  BY DEF InRegion
<1>6. QED
  BY <1>1, <1>2, <1>3, <1>4, <1>5

LEMMA TiledKept ==
  ASSUME UNCHANGED <<machine, amemres>>, NEW n \in Nat, Tiled(n),
         anode'[n] = anode[n], n < MaxNode => anode'[n + 1] = anode[n + 1]
  PROVE  Tiled(n)'
<1>1. /\ RamPlaces' = RamPlaces /\ MaxNode' = MaxNode
      /\ \A x, r : InRegion(x, r)' <=> InRegion(x, r)
  BY RamKept
<1>2. /\ n < MaxNode => anode'[n].end = anode'[n + 1].start
      /\ Count(RamPlaces, anode'[n].start, anode'[n].end) = anode'[n].size
      /\ InRegion(anode[n].start, anode[n].rstart)
      /\ InRegion(anode[n].end, anode[n].rend)
  BY DEF Tiled
<1>3. /\ amemres'[anode'[n].rstart].start <= anode'[n].start
      /\ anode'[n].start <= amemres'[anode'[n].rstart].end
      /\ amemres'[anode'[n].rend].start <= anode'[n].end
      /\ anode'[n].end <= amemres'[anode'[n].rend].end
  BY <1>2 DEF InRegion
<1>4. QED
  BY <1>1, <1>2, <1>3 DEF Tiled, InRegion

LEMMA RangesKept ==
  ASSUME UNCHANGED <<machine, amemres>>, Downwards, pc \in {"node", "fit"}
  PROVE  \A r \in Region' : amemres'[r].start <= amemres'[r].end /\ amemres'[r].end + 1 < Wrap
BY RamKept DEF Downwards

LEMMA CountRegionsTiles ==
  ASSUME IInv, Reading, CountRegions, ~Undefined
  PROVE  Downwards'
<1>1. PICK n \in 0..MaxRegions :
        /\ pc = "read" /\ im = Len(machine.lines)
        /\ \A r \in 1..n : ~IsEmpty(r)
        /\ n # 0 /\ im' = n /\ last' = amemres[n].end /\ pc' = "node" /\ i' = MaxNode
        /\ UNCHANGED <<input, amemres>>
  BY DEF CountRegions
<1>2. TypeOK /\ machine \in Machines
  BY DEF IInv, TypeOK
<1>3. n \in Region /\ 1 \in 1..n /\ n \in 1..n /\ UNCHANGED <<machine, amemres>>
  BY <1>1, Units DEF Region, input
<1>4. \A r \in Region : amemres[r].start <= amemres[r].end /\ amemres[r].end + 1 < Wrap
  BY <1>1, <1>2, <1>3, TableIsRead
<1>5. amemres[n].start \in Int /\ amemres[n].end \in Int /\ MaxNode \in Nat
  BY <1>2, <1>3, Regions, MachineFacts
<1>6. /\ Region' = Region /\ MaxNode' = MaxNode
      /\ \A r : IsEmpty(r)' <=> IsEmpty(r)
  BY <1>3, RamKept
<1>7. ~IsEmpty(n)' /\ amemres'[n].start <= last' /\ last' <= amemres'[n].end
  BY <1>1, <1>3, <1>4, <1>5, <1>6
<1>8. \A k \in (i' + 1)..MaxNode' : FALSE
  BY <1>1, <1>5, <1>6
<1>9. ~(i' < MaxNode')
  BY <1>1, <1>5, <1>6
<1>10. InRegion(last, im)'
  BY <1>1, <1>7 DEF InRegion
<1>11. ~IsEmpty(im)'
  BY <1>1, <1>7 DEF IsEmpty
<1>12. \A k \in (i' + 1)..MaxNode' : Tiled(k)'
  BY <1>8
<1>13. \A r \in Region' : amemres'[r].start <= amemres'[r].end /\ amemres'[r].end + 1 < Wrap
  BY <1>3, <1>4, <1>6
<1>14. QED
  BY <1>1, <1>9, <1>10, <1>11, <1>12, <1>13 DEF Downwards

LEMMA StartNodeTiles ==
  ASSUME IInv, Ordered, Downwards, StartNode
  PROVE  Downwards'
<1>1. /\ pc = "node" /\ pc' = "fit" /\ i > 0
      /\ UNCHANGED <<machine, amemres, im, i, last, nomore>>
  BY DEF StartNode, input
<1>2. \A r \in Region' : amemres'[r].start <= amemres'[r].end /\ amemres'[r].end + 1 < Wrap
  BY <1>1, RangesKept
<1>3. CASE nomore
  BY <1>1, <1>2, <1>3 DEF Downwards
<1>4. CASE ~nomore
  <2> DEFINE a == [start |-> 0, end |-> last, size |-> NodeSize(i),
                   rstart |-> 0, rend |-> im, map |-> CpuMap(i)]
  <2>1. /\ MaxNode \in Nat \ {0} /\ Node = 1..MaxNode /\ i \in 0..MaxNode
        /\ anode \in [Node -> NumaNode] /\ im \in Region /\ last \in Int
        /\ amemres[im].start <= last /\ last <= amemres[im].end /\ ~IsEmpty(im)
    BY <1>1, <1>4, AtNode
  <2>2. a.end = last /\ a.size = NodeSize(i) /\ a.rend = im
    OBVIOUS
  <2>3. anode' = [anode EXCEPT ![i] = a] /\ size' = NodeSize(i)
    BY DEF StartNode
  <2> HIDE DEF a
  <2>4. i \in Node /\ anode'[i] = a /\ \A n \in Node : n # i => anode'[n] = anode[n]
    BY <1>1, <2>1, <2>3
  <2>5. /\ RamPlaces' = RamPlaces /\ Region' = Region /\ MaxNode' = MaxNode
        /\ \A n : NodeSize(n)' = NodeSize(n)
        /\ \A r : IsEmpty(r)' <=> IsEmpty(r)
        /\ \A x, r : InRegion(x, r)' <=> InRegion(x, r)
    BY <1>1, RamKept
  <2>6. ASSUME NEW n \in (i + 1)..MaxNode
        PROVE  Tiled(n)'
    <3>1. n \in Nat /\ n \in Node /\ n # i /\ (n < MaxNode => n + 1 \in Node /\ n + 1 # i)
      BY <2>1
    <3>2. Tiled(n)
      BY <1>1, <1>4 DEF Downwards
    <3>3. anode'[n] = anode[n] /\ (n < MaxNode => anode'[n + 1] = anode[n + 1])
      BY <2>4, <3>1
    <3>4. QED
      BY <1>1, <3>1, <3>2, <3>3, TiledKept
  <2>7. i < MaxNode => a.end = anode'[i + 1].start
    <3>1. i < MaxNode => i + 1 \in Node /\ i + 1 # i
      BY <2>1
    <3>2. i < MaxNode => anode[i + 1].start = last
      BY <1>1, <1>4 DEF Downwards
    <3>3. QED
      BY <2>2, <2>4, <3>1, <3>2
  <2>8. Count(RamPlaces, last, last) = 0
    BY <2>1, CountEmpty
  <2>9. NodeSize(i) \in Int
    BY <2>4, MachineFacts DEF IInv, TypeOK
  <2>10. Count(RamPlaces, last, a.end) + size' = NodeSize(i)
    BY <2>2, <2>3, <2>8, <2>9
  <2>11. ~IsEmpty(im)' /\ InRegion(last, im)'
    BY <1>1, <2>1 DEF IsEmpty, InRegion
  <2>12. /\ i' < MaxNode' => anode'[i'].end = anode'[i' + 1].start
         /\ anode'[i'].size = NodeSize(i)'
         /\ anode'[i'].rend \in Region'
         /\ last' <= anode'[i'].end
    BY <1>1, <2>1, <2>2, <2>4, <2>5, <2>7 DEF NodeSize
  <2>13. InRegion(anode[i].end, anode[i].rend)'
    BY <1>1, <2>1, <2>2, <2>4 DEF InRegion
  <2>14. Count(RamPlaces', last', anode'[i'].end) + size' = NodeSize(i)'
    BY <1>1, <2>4, <2>5, <2>10 DEF NodeSize
  <2>15. \A n \in (i' + 1)..MaxNode' : Tiled(n)'
    BY <1>1, <2>5, <2>6
  <2>16. QED
    BY <1>1, <1>2, <2>11, <2>12, <2>13, <2>14, <2>15 DEF Downwards
<1>5. QED
  BY <1>3, <1>4

LEMMA LowerRegionTiles ==
  ASSUME IInv, Ordered, Downwards, LowerRegion
  PROVE  Downwards'
<1>1. /\ pc = "fit" /\ pc' = "fit" /\ im > 1 /\ im' = im - 1
      /\ size' = size - U(last - amemres[im].start)
      /\ last' = amemres[im - 1].end
      /\ UNCHANGED <<machine, amemres, i, anode, nomore>>
  BY DEF LowerRegion, input
<1>2. \A r \in Region' : amemres'[r].start <= amemres'[r].end /\ amemres'[r].end + 1 < Wrap
  BY <1>1, RangesKept
<1>3. CASE nomore
  BY <1>1, <1>2, <1>3 DEF Downwards
<1>4. CASE ~nomore
  <2> DEFINE a == anode[i]
             s == amemres[im].start
             b == amemres[im - 1].end
  <2>1. /\ MaxNode \in Nat \ {0} /\ Node = 1..MaxNode /\ i \in 0..MaxNode
        /\ \A n \in Node : anode[n].end \in Int
        /\ im \in Region /\ last \in Int /\ size \in Int /\ s \in Nat /\ s <= last
        /\ last <= amemres[im].end /\ ~IsEmpty(im)
        /\ \A r \in Region : amemres[r].end \in Nat
    BY <1>1, <1>4, AtNode
  <2>2. /\ i \in Node /\ last <= a.end
        /\ Count(RamPlaces, last, a.end) \in Nat
        /\ Count(RamPlaces, last, a.end) + size = a.size
        /\ a.size = NodeSize(i)
        /\ U(last - s) = last - s
    BY <1>1, <1>4, Fitting
  <2>3. TypeOK
    BY DEF IInv
  <2>4. /\ im - 1 \in Region /\ ~IsEmpty(im - 1) /\ b <= s
        /\ Count(RamPlaces, b, s) = 0
    BY <1>1, <2>1, <2>3, RamOfRegion
  <2>5. Count(RamPlaces, s, last) = last - s
    <3>1. s <= s /\ s \in Int
      BY <2>1
    <3>2. QED
      BY <1>1, <2>1, <2>3, <3>1, RamOfRegion
  <2>6. /\ RamPlaces' = RamPlaces /\ Region' = Region /\ MaxNode' = MaxNode
        /\ \A n : NodeSize(n)' = NodeSize(n)
        /\ \A r : IsEmpty(r)' <=> IsEmpty(r)
        /\ \A x, r : InRegion(x, r)' <=> InRegion(x, r)
    BY <1>1, RamKept
  <2>7. /\ i < MaxNode => a.end = anode[i + 1].start
        /\ a.rend \in Region /\ InRegion(a.end, a.rend)
        /\ \A n \in (i + 1)..MaxNode : Tiled(n)
    BY <1>1, <1>4 DEF Downwards
  <2>8. a.end \in Int /\ b \in Int /\ s \in Int
    BY <2>1, <2>2, <2>4
  <2>9. size' = size - (last - s) /\ last' = b
    BY <1>1, <2>2
  <2>10. Count(RamPlaces, b, a.end) + size' = NodeSize(i)
    <3> DEFINE e == a.end
    <3>1. e \in Int /\ last <= e
      BY <2>2, <2>8
    <3> HIDE DEF b, s, e
    <3>2. Count(RamPlaces, b, e) = Count(RamPlaces, b, s) + Count(RamPlaces, s, e)
      BY <2>1, <2>4, <2>8, <3>1, CountSplit
    <3>3. Count(RamPlaces, s, e) = Count(RamPlaces, s, last) + Count(RamPlaces, last, e)
      BY <2>1, <2>8, <3>1, CountSplit
    <3>4. Count(RamPlaces, last, e) \in Nat /\ Count(RamPlaces, last, e) + size = NodeSize(i)
      BY <2>2 DEF e
    <3>5. Count(RamPlaces, b, e) + size' = NodeSize(i)
      BY <2>1, <2>4, <2>5, <2>8, <2>9, <3>2, <3>3, <3>4
    <3>6. QED
      BY <3>5 DEF e
  <2>11. amemres[im - 1].start <= b /\ b <= b
    BY <1>1, <2>4, <2>8 DEF Downwards
  <2>12. ~IsEmpty(im)' /\ InRegion(last, im)'
    BY <1>1, <2>4, <2>11 DEF IsEmpty, InRegion
  <2>13. /\ i' < MaxNode' => anode'[i'].end = anode'[i' + 1].start
         /\ anode'[i'].size = NodeSize(i)'
         /\ anode'[i'].rend \in Region'
         /\ InRegion(anode[i].end, anode[i].rend)'
    BY <1>1, <2>2, <2>6, <2>7 DEF NodeSize, InRegion
  <2>14. last' <= anode'[i'].end
    <3> DEFINE e == a.end
    <3>1. e \in Int /\ last <= e /\ e = anode'[i'].end
      BY <1>1, <2>2, <2>8
    <3> HIDE DEF b, s, e
    <3>2. b <= e
      BY <2>1, <2>4, <2>8, <3>1
    <3>3. QED
      BY <2>9, <3>1, <3>2
  <2>15. Count(RamPlaces', last', anode'[i'].end) + size' = NodeSize(i)'
    BY <1>1, <2>6, <2>9, <2>10 DEF NodeSize
  <2>16. \A n \in (i' + 1)..MaxNode' : Tiled(n)'
    <3>1. SUFFICES ASSUME NEW n \in (i + 1)..MaxNode
                   PROVE  Tiled(n)'
      BY <1>1, <2>6
    <3>2. n \in Nat /\ Tiled(n)
      BY <2>1, <2>7
    <3>3. QED
      BY <1>1, <3>2, TiledKept
  <2>17. QED
    BY <1>1, <1>2, <2>12, <2>13, <2>14, <2>15, <2>16 DEF Downwards
<1>5. QED
  BY <1>3, <1>4

LEMMA EndNodeTiles ==
  ASSUME IInv, Ordered, Downwards, EndNode
  PROVE  Downwards'
<1>1. /\ pc = "fit" /\ pc' = "node" /\ i' = i - 1 /\ last' = last - size
      /\ nomore' = (nomore \/ Reaches)
      /\ UNCHANGED <<machine, amemres, im>>
  BY DEF EndNode, input
<1>2. \A r \in Region' : amemres'[r].start <= amemres'[r].end /\ amemres'[r].end + 1 < Wrap
  BY <1>1, RangesKept
<1>3. CASE nomore \/ Reaches
  BY <1>1, <1>2, <1>3 DEF Downwards
<1>4. CASE ~nomore /\ ~Reaches
  <2> DEFINE s == amemres[im].start
             a == [anode[i] EXCEPT !.start = last - size, !.rstart = im]
  <2>1. /\ MaxNode \in Nat \ {0} /\ Node = 1..MaxNode /\ i \in 0..MaxNode
        /\ anode \in [Node -> NumaNode]
        /\ \A n \in Node : anode[n].end \in Int
        /\ im \in Region /\ last \in Int /\ size \in Int /\ s \in Nat /\ s <= last
        /\ last <= amemres[im].end /\ ~IsEmpty(im) /\ amemres[im].end \in Nat
    BY <1>1, <1>4, AtNode
  <2>2. /\ i \in Node /\ last <= anode[i].end
        /\ Count(RamPlaces, last, anode[i].end) + size = anode[i].size
        /\ Count(RamPlaces, last, anode[i].end) \in Nat
        /\ 0 <= size /\ size <= last - s
    BY <1>1, <1>4, Fitting
  <2>3. TypeOK
    BY DEF IInv
  <2>4. /\ i < MaxNode => anode[i].end = anode[i + 1].start
        /\ anode[i].rend \in Region /\ InRegion(anode[i].end, anode[i].rend)
        /\ \A n \in (i + 1)..MaxNode : Tiled(n)
    BY <1>1, <1>4 DEF Downwards
  <2>5. /\ RamPlaces' = RamPlaces /\ Region' = Region /\ MaxNode' = MaxNode
        /\ \A r : IsEmpty(r)' <=> IsEmpty(r)
        /\ \A x, r : InRegion(x, r)' <=> InRegion(x, r)
    BY <1>1, RamKept
  <2>6. anode' = [anode EXCEPT ![i] = a]
    BY DEF EndNode
  <2>7. /\ a.start = last - size /\ a.end = anode[i].end /\ a.size = anode[i].size
        /\ a.rstart = im /\ a.rend = anode[i].rend
    <3> DEFINE x == anode[i]
    <3>1. x \in NumaNode
      BY <2>1, <2>2
    <3> HIDE DEF x
    <3>2. [x EXCEPT !.start = last - size, !.rstart = im].start = last - size
          /\ [x EXCEPT !.start = last - size, !.rstart = im].end = x.end
          /\ [x EXCEPT !.start = last - size, !.rstart = im].size = x.size
          /\ [x EXCEPT !.start = last - size, !.rstart = im].rstart = im
          /\ [x EXCEPT !.start = last - size, !.rstart = im].rend = x.rend
      BY <3>1 DEF NumaNode
    <3>3. QED
      BY <3>2 DEF x
  <2> HIDE DEF a
  <2>8. anode'[i] = a /\ \A n \in Node : n # i => anode'[n] = anode[n]
    BY <2>1, <2>2, <2>6
  <2> DEFINE b == last - size
             e == anode[i].end
  <2>9. b \in Int /\ e \in Int /\ s <= b /\ b <= last /\ b <= amemres[im].end
    <3> DEFINE f == amemres[im].end
    <3>1. /\ last \in Int /\ size \in Int /\ s \in Int /\ f \in Int /\ last <= f
          /\ 0 <= size /\ size <= last - s
      BY <2>1, <2>2
    <3>2. e \in Int
      BY <2>1, <2>2
    <3> HIDE DEF s, f
    <3>3. b \in Int /\ s <= b /\ b <= last /\ b <= f
      BY <3>1
    <3>4. QED
      BY <3>2, <3>3 DEF f
  <2>10. Count(RamPlaces, b, last) = last - b
    <3> HIDE DEF b
    <3>1. QED
      BY <1>1, <2>1, <2>3, <2>9, RamOfRegion
  <2>11. Count(RamPlaces, b, e) = a.size
    <3>1. last - b = size /\ Count(RamPlaces, last, e) + size = a.size
          /\ Count(RamPlaces, last, e) \in Nat /\ last <= e
      BY <2>1, <2>2, <2>7
    <3> HIDE DEF b, e
    <3>2. Count(RamPlaces, b, e) = Count(RamPlaces, b, last) + Count(RamPlaces, last, e)
      BY <2>1, <2>9, <3>1, CountSplit
    <3>3. QED
      BY <2>1, <2>10, <3>1, <3>2
  <2>12. \A n \in Node : n = i => Tiled(n)'
    <3>1. i < MaxNode => i + 1 \in Node /\ i + 1 # i
      BY <2>1, <2>2
    <3>2. i < MaxNode' => anode'[i].end = anode'[i + 1].start
      BY <2>4, <2>5, <2>7, <2>8, <3>1
    <3>3. Count(RamPlaces', anode'[i].start, anode'[i].end) = anode'[i].size
      BY <2>5, <2>7, <2>8, <2>11
    <3>4. /\ amemres'[anode'[i].rstart].start <= anode'[i].start
          /\ anode'[i].start <= amemres'[anode'[i].rstart].end
      BY <1>1, <2>7, <2>8, <2>9
    <3>5. /\ amemres'[anode'[i].rend].start <= anode'[i].end
          /\ anode'[i].end <= amemres'[anode'[i].rend].end
      BY <1>1, <2>4, <2>7, <2>8 DEF InRegion
    <3>6. QED
      BY <3>2, <3>3, <3>4, <3>5 DEF Tiled, InRegion
  <2>13. \A n \in (i' + 1)..MaxNode' : Tiled(n)'
    <3>1. SUFFICES ASSUME NEW n \in (i' + 1)..MaxNode'
                   PROVE  Tiled(n)'
      OBVIOUS
    <3>2. CASE n = i
      BY <2>2, <2>12, <3>2
    <3>3. CASE n # i
      <4>1. n \in (i + 1)..MaxNode /\ n \in Nat /\ n \in Node
            /\ (n < MaxNode => n + 1 \in Node /\ n + 1 # i)
        BY <1>1, <2>1, <2>5, <3>1, <3>3
      <4>2. anode'[n] = anode[n] /\ (n < MaxNode => anode'[n + 1] = anode[n + 1])
        BY <2>8, <3>3, <4>1
      <4>3. QED
        BY <1>1, <2>4, <4>1, <4>2, TiledKept
    <3>4. QED
      BY <3>2, <3>3
  <2>14. anode'[i' + 1].start = last'
    <3>1. i' + 1 = i
      BY <1>1, <2>1
    <3>2. QED
      BY <1>1, <2>7, <2>8, <3>1
  <2>15. ~IsEmpty(im)' /\ InRegion(last, im)'
    BY <1>1, <2>1, <2>9 DEF IsEmpty, InRegion
  <2>16. QED
    BY <1>1, <1>2, <2>13, <2>14, <2>15 DEF Downwards
<1>5. QED
  BY <1>3, <1>4

LEMMA DownwardsStep ==
  ASSUME IInv, Reading, Ordered, Downwards, Next
  PROVE  Downwards'
<1>1. CASE pc' \notin {"node", "fit"}
  BY <1>1 DEF Downwards
<1>2. CASE pc' \in {"node", "fit"}
  <2>1. ~Undefined /\ (CountRegions \/ StartNode \/ LowerRegion \/ EndNode)
    <3>1. pc \in {"cap", "realign", "place", "holes", "globalshm", "clustered", "nonodes"} =>
            pc' \notin {"node", "fit"} \/ pc' = pc
      BY DEF Next, AddNode, ReadMemory, ReadLine, CountRegions, StartNode, LowerRegion, EndNode,
         CallPolicy, NoNodes, SkipRegion, CountChunks, Realign, GlobalShm, StartAfterCap, Clustered,
         StartChunk, NextRegion, EmitChunk, EndChunks, Undefined
    <3>2. policy \notin {"node", "fit"} /\ ~Undefined
      BY <1>2, PoliciesAssumption DEF IInv, TypeOK, Undefined
    <3>3. QED
      BY <1>2, <3>1, <3>2
         DEF Next, AddNode, ReadMemory, ReadLine,
         CallPolicy, NoNodes, SkipRegion, CountChunks, Realign, GlobalShm, StartAfterCap, Clustered,
         StartChunk, NextRegion, EmitChunk, EndChunks
  <2>2. QED
    BY <2>1, CountRegionsTiles, StartNodeTiles, LowerRegionTiles, EndNodeTiles
<1>3. QED
  BY <1>1, <1>2
-----------------------------------------------------------------------------
(* The policy without nodes. *)

LEMMA ProductAscends ==
  ASSUME NEW x \in Int, NEW y \in Int, NEW z \in Nat, x <= y
  PROVE  x * z <= y * z /\ x * z \in Int /\ y * z \in Int
<1>1. (y - x) * z >= 0 /\ y * z = x * z + (y - x) * z
  OBVIOUS
<1>2. x * z \in Int /\ y * z \in Int /\ (y - x) * z \in Int
  OBVIOUS
<1>3. QED
  BY <1>1, <1>2

LEMMA ChunkCountNat ==
  ASSUME NEW x \in Int, machine \in Machines
  PROVE  Floor(((U(x) \div BenChunk) \div machine.cpus) * BenChunk, Resolution) \in Nat
<1>1. U(x) \in Nat
  <2>1. x % Wrap \in Nat
    BY Units, Remainder
  <2>2. QED
    BY <2>1 DEF U
<1>2. machine.cpus \in Nat \ {0}
  BY MachineFacts
<1>3. U(x) \div BenChunk \in Nat
  BY <1>1, Units
<1>4. (U(x) \div BenChunk) \div machine.cpus \in Nat
  BY <1>2, <1>3
<1>5. ((U(x) \div BenChunk) \div machine.cpus) * BenChunk \in Nat
  BY <1>4, Units
<1>6. QED
  BY <1>5, FloorNat, Units

LEMMA BegunStep ==
  ASSUME IInv, Ordered, Begun, Next
  PROVE  Begun'
<1>1. TypeOK /\ Places /\ machine \in Machines
  BY DEF IInv, TypeOK
<1> DEFINE Before == {"total", "read", "node", "fit", "nonodes", "cap", "realign"}
<1>2. SUFFICES ASSUME policy' = "nonodes", pc' \in Before, ~Undefined
               PROVE  Begun'
  BY DEF Begun, Undefined
<1>3. policy' = policy
  BY <1>2 DEF Next, AddNode, ReadMemory, ReadLine, CountRegions, StartNode, LowerRegion, EndNode,
     CallPolicy, NoNodes, SkipRegion, CountChunks, Realign, GlobalShm, StartAfterCap, Clustered,
     StartChunk, NextRegion, EmitChunk, EndChunks, input
<1>4. CASE \/ AddNode \/ ReadMemory \/ ReadLine \/ CountRegions
           \/ StartNode \/ LowerRegion \/ EndNode \/ CallPolicy
  <2>1. UNCHANGED chunks /\ pc \in Before /\ pc' \notin {"cap", "realign"}
    BY <1>2, <1>3, <1>4 DEF AddNode, ReadMemory, ReadLine, CountRegions, StartNode, LowerRegion, EndNode,
       CallPolicy
  <2>2. QED
    BY <1>2, <1>3, <2>1 DEF Begun, chunks
<1>5. CASE NoNodes
  <2>1. UNCHANGED <<parts, l, cur>> /\ pc = "nonodes" /\ pc' = "cap" /\ smemres' = 1
    BY <1>5 DEF NoNodes
  <2>2. QED
    BY <1>2, <1>3, <2>1 DEF Begun
<1>6. CASE SkipRegion
  <2>1. UNCHANGED <<parts, l, cur>> /\ pc = "cap" /\ pc' = "cap" /\ amemres[smemres].start < Cap
    BY <1>2, <1>6 DEF SkipRegion, BelowCap
  <2>2. smemres \in Region
    BY <1>1, <2>1 DEF Places
  <2>3. amemres[smemres].start >= 0 /\ amemres[smemres].start \in Int
    BY <1>1, <2>1, <2>2, Regions DEF Ordered
  <2>4. Cap > 0
    BY <2>1, <2>3, Units
  <2>5. QED
    BY <1>2, <1>3, <2>1, <2>4 DEF Begun
<1>7. CASE CountChunks
  <2>1. /\ pc = "cap" /\ pc' = "realign" /\ cur' = NoChunk /\ base' = smemres /\ smemres' = smemres
        /\ i' = smemres /\ ~BelowCap /\ UNCHANGED <<amemres, parts, l>>
        /\ chunk' = Floor(((U(total_by_node + low) \div BenChunk) \div machine.cpus) * BenChunk,
                          Resolution)
    BY <1>7 DEF CountChunks
  <2>2. smemres \in Region /\ smemres \in Int /\ 1 \in Region
    BY <1>1, <2>1, Regions DEF Places, TypeOK
  <2>3. /\ amemres[smemres].start \in Int /\ amemres[smemres].end \in Int
        /\ amemres[smemres].start >= 0 /\ amemres[smemres].end >= 0 /\ ~IsEmpty(1)
    BY <1>1, <2>1, <2>2, Regions DEF Ordered
  <2>4. ~IsEmpty(smemres)
    <3>1. smemres = 1 \/ Cap > 0
      BY <1>2, <1>3, <2>1 DEF Begun
    <3>2. ~(amemres[smemres].start < Cap /\ amemres[smemres].end < Cap)
      BY <2>1 DEF BelowCap
    <3>3. QED
      BY <2>3, <3>1, <3>2 DEF IsEmpty
  <2>5. chunk' \in Nat
    <3>1. total_by_node + low \in Int
      BY <1>1 DEF TypeOK
    <3>2. QED
      BY <1>1, <2>1, <3>1, ChunkCountNat
  <2>6. ~IsEmpty(base)'
    BY <2>1, <2>4 DEF IsEmpty
  <2>7. parts = <<>> /\ l = 0
    BY <1>2, <1>3, <2>1 DEF Begun
  <2>8. i' >= base' /\ base' = smemres' /\ chunk' >= 0
    BY <2>1, <2>2, <2>5
  <2>9. QED
    BY <2>1, <2>6, <2>7, <2>8 DEF Begun
<1>8. CASE Realign
  <2>1. pc = "realign" /\ i > 0 /\ i \in Int /\ pc' # "place"
    BY <1>1, <1>2, <1>8 DEF Realign, Places, InPolicy, TypeOK
  <2>2. /\ i \in Region /\ i' = i + 1 /\ pc' = "realign"
        /\ \A r \in Region : r # i => amemres'[r] = amemres[r]
        /\ amemres[i].start > 0 /\ amemres[i].start <= amemres'[i].start
        /\ amemres' \in [Region -> Resource]
        /\ UNCHANGED <<smemres, chunk, l, cur, parts, base>>
    BY <1>1, <1>2, <1>8, <2>1, RealignRegion
  <2>3. /\ parts = <<>> /\ l = 0 /\ cur = NoChunk
        /\ base = smemres /\ ~IsEmpty(base) /\ i >= base /\ chunk >= 0 /\ base \in Int
        /\ smemres \in Region
    BY <1>1, <1>2, <1>3, <2>1 DEF Begun, TypeOK, Places
  <2>4. amemres'[i].start > 0
    <3>1. amemres[i].start \in Int /\ amemres'[i].start \in Int
      BY <1>1, <2>2, Regions DEF Resource
    <3>2. QED
      BY <2>2, <3>1
  <2>5. ~IsEmpty(base)'
    <3>1. CASE base = i
      BY <2>2, <2>4, <3>1 DEF IsEmpty
    <3>2. CASE base # i
      BY <2>2, <2>3, <3>2 DEF IsEmpty
    <3>3. QED
      BY <3>1, <3>2
  <2>6. i' >= base'
    BY <2>1, <2>2, <2>3
  <2>7. QED
    BY <2>2, <2>3, <2>5, <2>6 DEF Begun
<1>9. CASE \/ GlobalShm \/ StartAfterCap \/ Clustered
           \/ StartChunk \/ NextRegion \/ EmitChunk \/ EndChunks
  <2>1. pc' \in {"done", "place", "holes", "globalshm"} \/ policy # "nonodes"
    BY <1>1, <1>2, <1>9 DEF GlobalShm, StartAfterCap, Clustered,
       StartChunk, NextRegion, EmitChunk, EndChunks, Places, ByNode
  <2>2. QED
    BY <1>2, <1>3, <2>1
<1>10. QED
  BY <1>4, <1>5, <1>6, <1>7, <1>8, <1>9 DEF Next

LEMMA UsableKept ==
  ASSUME UNCHANGED <<machine, amemres, base>>
  PROVE  /\ UsablePlaces' = UsablePlaces /\ (InsideOut' <=> InsideOut) /\ Region' = Region
         /\ \A r : IsEmpty(r)' <=> IsEmpty(r)
         /\ chunk' = chunk => (Short' <=> Short)
<1>1. UsablePlaces' = UsablePlaces
  BY DEF UsablePlaces, Usable
<1>2. InsideOut' <=> InsideOut
  BY DEF InsideOut
<1>3. chunk' = chunk => (Short' <=> Short)
  BY <1>1 DEF Short
<1>4. QED
  BY <1>1, <1>2, <1>3 DEF Region, IsEmpty

(* A region is memory that can be used, what is between it and the next    *)
(* one is not, and there is none behind the last one.                      *)
LEMMA UsableOfRegion ==
  ASSUME TypeOK, Ordered, pc \in {"place", "holes"}, ~InsideOut, base \in Region,
         NEW r \in Region, base <= r, ~IsEmpty(r)
  PROVE  /\ \A x, y \in Int :
              (r = base \/ amemres[r].start <= x) /\ x <= y /\ y <= amemres[r].end =>
                 Count(UsablePlaces, x, y) = y - x
         /\ r < MaxRegions /\ ~IsEmpty(r + 1) =>
              /\ amemres[r].end <= amemres[r + 1].start
              /\ amemres[r + 1].start <= amemres[r + 1].end
              /\ Count(UsablePlaces, amemres[r].end, amemres[r + 1].start) = 0
         /\ r = MaxRegions \/ IsEmpty(r + 1) => \A a \in UsablePlaces : a < amemres[r].end
<1>1. /\ Region = 1..MaxRegions /\ MaxRegions \in Nat /\ base \in Int
      /\ \A s \in Region : amemres[s].start \in Int /\ amemres[s].end \in Int
  BY Regions, Units
<1>2. /\ \A s \in Region : amemres[s].start >= 0 /\ amemres[s].end >= 0
      /\ \A q, s \in Region : q < s /\ ~IsEmpty(s) =>
           ~IsEmpty(q) /\ amemres[q].end <= amemres[s].start
  BY DEF Ordered
<1>3. \A s \in Region : s > base => amemres[s].start <= amemres[s].end
  <2>1. \A s \in (base + 1)..MaxRegions : ~(amemres[s].end < amemres[s].start)
    BY DEF InsideOut
  <2>2. QED
    BY <1>1, <2>1
<1>4. \A s \in Region : base <= s /\ s <= r => amemres[s].end <= amemres[r].end
  <2>1. SUFFICES ASSUME NEW s \in Region, base <= s, s < r
                 PROVE  amemres[s].end <= amemres[r].end
    BY <1>1
  <2>2. amemres[s].end <= amemres[r].start /\ r > base
    BY <1>1, <1>2, <2>1
  <2>3. QED
    BY <1>1, <1>3, <2>2
<1>5. ASSUME NEW x \in Int, NEW y \in Int, r = base \/ amemres[r].start <= x,
             x <= y, y <= amemres[r].end
      PROVE  Count(UsablePlaces, x, y) = y - x
  <2>1. \A a \in x..(y - 1) : /\ a \in Int /\ a < amemres[r].end
                              /\ r = base \/ amemres[r].start <= a
    BY <1>1, <1>5
  <2>2. r \in base..MaxRegions
    BY <1>1
  <2>3. \A a \in x..(y - 1) : a \in UsablePlaces
    BY <2>1, <2>2 DEF UsablePlaces, Usable
  <2>4. QED
    BY <1>5, <2>3, CountFull
<1>6. ASSUME r < MaxRegions, ~IsEmpty(r + 1)
      PROVE  /\ amemres[r].end <= amemres[r + 1].start
             /\ amemres[r + 1].start <= amemres[r + 1].end
             /\ Count(UsablePlaces, amemres[r].end, amemres[r + 1].start) = 0
  <2>1. r + 1 \in Region /\ r < r + 1 /\ r + 1 > base
    BY <1>1, <1>6
  <2>2. amemres[r].end <= amemres[r + 1].start /\ amemres[r + 1].start <= amemres[r + 1].end
    BY <1>2, <1>3, <1>6, <2>1
  <2>3. amemres[r].end \in Int /\ amemres[r + 1].start \in Int
    BY <1>1, <2>1
  <2>4. ASSUME NEW a \in amemres[r].end..(amemres[r + 1].start - 1), NEW s \in base..MaxRegions
        PROVE  ~((s = base \/ amemres[s].start <= a) /\ a < amemres[s].end)
    <3>1. a \in Int /\ amemres[r].end <= a /\ a < amemres[r + 1].start /\ s \in Region /\ base <= s
      BY <1>1, <2>3, <2>4
    <3>2. s <= r \/ s = r + 1 \/ r + 1 < s
      BY <1>1, <3>1
    <3>3. CASE s <= r
      <4>1. amemres[s].end <= amemres[r].end
        BY <1>4, <3>1, <3>3
      <4>2. QED
        BY <1>1, <3>1, <4>1
    <3>4. CASE s = r + 1
      BY <1>1, <2>1, <3>1, <3>4
    <3>5. CASE r + 1 < s
      <4>1. CASE IsEmpty(s)
        BY <1>1, <1>2, <3>1, <4>1 DEF IsEmpty
      <4>2. CASE ~IsEmpty(s)
        <5>1. amemres[r + 1].end <= amemres[s].start /\ s # base
          BY <1>1, <1>2, <2>1, <3>1, <3>5, <4>2
        <5>2. QED
          BY <1>1, <2>1, <2>2, <3>1, <5>1
      <4>3. QED
        BY <4>1, <4>2
    <3>6. QED
      BY <3>2, <3>3, <3>4, <3>5
  <2>5. \A a \in amemres[r].end..(amemres[r + 1].start - 1) : a \notin UsablePlaces
    BY <2>4 DEF UsablePlaces, Usable
  <2>6. QED
    BY <2>2, <2>3, <2>5, CountEmpty
<1>7. ASSUME r = MaxRegions \/ IsEmpty(r + 1), NEW a \in UsablePlaces
      PROVE  a < amemres[r].end
  <2>1. a \in Int /\ \E s \in base..MaxRegions : a < amemres[s].end
    BY DEF UsablePlaces, Usable
  <2>2. PICK s \in base..MaxRegions : a < amemres[s].end
    BY <2>1
  <2>3. s \in Region /\ base <= s
    BY <1>1
  <2>4. CASE s <= r
    <3>1. amemres[s].end <= amemres[r].end
      BY <1>4, <2>3, <2>4
    <3>2. QED
      BY <1>1, <2>1, <2>2, <2>3, <3>1
  <2>5. CASE r < s
    <3>1. IsEmpty(r + 1) /\ r + 1 \in Region
      BY <1>1, <1>7, <2>3, <2>5
    <3>2. IsEmpty(s)
      <4>1. s = r + 1 \/ r + 1 < s
        BY <1>1, <2>3, <2>5
      <4>2. QED
        BY <1>2, <2>3, <3>1, <4>1
    <3>3. QED
      BY <1>1, <1>2, <2>1, <2>2, <2>3, <3>2 DEF IsEmpty
  <2>6. QED
    BY <1>1, <2>3, <2>4, <2>5
<1>8. QED
  BY <1>5, <1>6, <1>7

(* What the steps of the loop over processors begin with. *)
LEMMA AtChunk ==
  ASSUME IInv, Chunking, policy = "nonodes", pc \in {"place", "holes"}, ~InsideOut
  PROVE  /\ TypeOK /\ base \in Region /\ smemres \in Region /\ base <= smemres
         /\ chunk \in Nat /\ l \in Int /\ cur \in Chunk /\ machine.cpus \in Nat
         /\ cur.start \in Nat /\ cur.required \in Int /\ cur.avail \in Int /\ cur.endend \in Int
         /\ \A p \in 1..Len(parts) : Count(UsablePlaces, parts[p].start, parts[p].mem) = chunk
         /\ Count(UsablePlaces, 0, cur.start) = l * chunk
         /\ ~ByNode /\ Holes
<1>1. TypeOK /\ Places
  BY DEF IInv
<1>2. chunk \in Int /\ l \in Int /\ cur \in Chunk /\ smemres \in Region /\ machine.cpus \in Nat
  BY <1>1, MachineFacts DEF TypeOK, Places
<1>3. cur.start \in Int /\ cur.required \in Int /\ cur.avail \in Int /\ cur.endend \in Int
  BY <1>2, ChunkFields
<1>4. /\ base \in Region /\ base <= smemres /\ chunk >= 0 /\ 0 <= cur.start
      /\ Count(UsablePlaces, 0, cur.start) = l * chunk
      /\ \A p \in 1..Len(parts) : Count(UsablePlaces, parts[p].start, parts[p].mem) = chunk
  BY DEF Chunking
<1>5. cur.start \in Nat /\ chunk \in Nat
  BY <1>2, <1>3, <1>4
<1>6. QED
  BY <1>1, <1>2, <1>3, <1>4, <1>5 DEF ByNode, Holes

LEMMA RealignChunks ==
  ASSUME IInv, Ordered, Begun, Realign, ~Undefined
  PROVE  Chunking'
<1>1. TypeOK /\ Places
  BY DEF IInv
<1>2. pc = "realign" /\ policy = "nonodes" /\ i > 0
  BY <1>1 DEF Realign, Places, InPolicy
<1>3. CASE pc' # "place"
  <2>1. pc' = "realign"
    BY <1>1, <1>2, <1>3, RealignRegion
  <2>2. QED
    BY <2>1 DEF Chunking
<1>4. CASE pc' = "place"
  <2>1. UNCHANGED <<machine, amemres, smemres, chunk, l, cur, parts, base>>
    BY <1>2, <1>4 DEF Realign, input, chunks
  <2>2. /\ parts = <<>> /\ l = 0 /\ cur = NoChunk /\ base = smemres /\ ~IsEmpty(base) /\ chunk >= 0
        /\ smemres \in Region /\ smemres \in Int
    BY <1>1, <1>2 DEF Begun, Places, TypeOK
  <2>3. cur.start = 0
    BY <2>2 DEF NoChunk
  <2>4. amemres[smemres].end >= 0
    BY <1>2, <2>2 DEF Ordered
  <2>5. Count(UsablePlaces, 0, 0) = 0
    BY CountEmpty
  <2>6. /\ UsablePlaces' = UsablePlaces /\ Region' = Region
        /\ \A r : IsEmpty(r)' <=> IsEmpty(r)
    BY <2>1, UsableKept
  <2>7. 0 * chunk = 0
    BY <1>1 DEF TypeOK
  <2>8. ~IsEmpty(smemres)'
    BY <2>1, <2>2 DEF IsEmpty
  <2>9. /\ base' \in Region' /\ base' <= smemres' /\ chunk' >= 0
        /\ 0 <= cur'.start /\ cur'.start <= amemres'[smemres'].end /\ smemres' = base'
    BY <2>1, <2>2, <2>3, <2>4, <2>6
  <2>10. Count(UsablePlaces', 0, cur'.start) = l' * chunk'
    BY <2>1, <2>2, <2>3, <2>5, <2>6, <2>7
  <2>11. \A p \in 1..Len(parts') : FALSE
    BY <2>1, <2>2
  <2>12. QED
    BY <1>4, <2>8, <2>9, <2>10, <2>11 DEF Chunking
<1>5. QED
  BY <1>3, <1>4

LEMMA StartChunkChunks ==
  ASSUME IInv, Ordered, Chunking, StartChunk
  PROVE  Chunking'
<1>1. /\ pc = "place" /\ pc' = "holes"
      /\ UNCHANGED <<machine, policy, amemres, smemres, chunk, l, parts, base>>
  BY DEF StartChunk, input
<1>2. SUFFICES ASSUME policy = "nonodes", ~InsideOut
               PROVE  Chunking'
  BY <1>1, UsableKept DEF Chunking
<1> DEFINE s == cur.start
           e == amemres[smemres].end
<1>3. /\ TypeOK /\ base \in Region /\ smemres \in Region /\ base <= smemres
      /\ chunk \in Nat /\ l \in Int /\ s \in Nat /\ machine.cpus \in Nat
      /\ \A p \in 1..Len(parts) : Count(UsablePlaces, parts[p].start, parts[p].mem) = chunk
      /\ Count(UsablePlaces, 0, s) = l * chunk
      /\ ~ByNode /\ Holes
  BY <1>1, <1>2, AtChunk
<1>4. /\ ~IsEmpty(smemres) /\ s <= e
      /\ smemres # base => amemres[smemres].start <= s
  BY <1>1, <1>2 DEF Chunking
<1>5. l < machine.cpus
  BY <1>3 DEF StartChunk
<1>6. cur' = [start |-> s, total |-> chunk, required |-> chunk, avail |-> e - s,
              endend |-> s + chunk]
  <2>1. AlignStart(cur.start) = cur.start
    BY <1>3 DEF AlignStart
  <2>2. QED
    BY <1>3, <2>1 DEF StartChunk
<1>7. e \in Int /\ amemres[smemres].start \in Int
  BY <1>3, Regions
<1>8. Count(UsablePlaces, s, e) = e - s
  BY <1>1, <1>2, <1>3, <1>4, <1>7, UsableOfRegion
<1>9. cur'.start = s /\ cur'.required = chunk /\ cur'.avail = e - s /\ cur'.endend = s + chunk
  BY <1>6
<1>10. e = amemres'[smemres'].end /\ amemres'[smemres'].start = amemres[smemres].start
  BY <1>1
<1> HIDE DEF s, e
<1>11. Count(UsablePlaces, 0, e) = Count(UsablePlaces, 0, s) + Count(UsablePlaces, s, e)
  BY <1>3, <1>4, <1>7, CountSplit
<1>12. (l + 1) * chunk = l * chunk + chunk /\ l * chunk \in Int
  BY <1>3
<1>13. Count(UsablePlaces, 0, e) + cur'.required = (l + 1) * chunk + cur'.avail
  BY <1>3, <1>7, <1>8, <1>9, <1>11, <1>12
<1>14. /\ UsablePlaces' = UsablePlaces /\ Region' = Region
       /\ \A r : IsEmpty(r)' <=> IsEmpty(r)
  BY <1>1, UsableKept
<1>15. ~IsEmpty(smemres)'
  BY <1>1, <1>4 DEF IsEmpty
<1>16. /\ cur'.start <= amemres'[smemres'].end /\ cur'.start <= cur'.endend
       /\ smemres' # base' => amemres'[smemres'].start <= cur'.endend
  BY <1>1, <1>3, <1>4, <1>7, <1>9, <1>10
<1>17. Count(UsablePlaces', 0, amemres'[smemres'].end) + cur'.required = (l' + 1) * chunk' + cur'.avail
  BY <1>1, <1>10, <1>13, <1>14
<1>18. /\ base' \in Region' /\ base' <= smemres' /\ chunk' >= 0 /\ 0 <= cur'.start
       /\ l' < machine'.cpus
       /\ Count(UsablePlaces', 0, cur'.start) = l' * chunk'
       /\ \A p \in 1..Len(parts') : Count(UsablePlaces', parts'[p].start, parts'[p].mem) = chunk'
  BY <1>1, <1>3, <1>5, <1>9, <1>14
<1>19. QED
  BY <1>1, <1>15, <1>16, <1>17, <1>18 DEF Chunking

(* There is not enough memory when the last region is not enough. *)
LEMMA NoMoreRegion ==
  ASSUME IInv, Ordered, Chunking, policy = "nonodes", pc = "holes", ~InsideOut,
         cur.avail < cur.required, smemres = MaxRegions \/ IsEmpty(smemres + 1)
  PROVE  Short
<1>1. CASE IsEmpty(smemres)
  BY <1>1 DEF Chunking
<1>2. CASE ~IsEmpty(smemres)
  <2> DEFINE e == amemres[smemres].end
             n == machine.cpus
  <2>1. /\ TypeOK /\ base \in Region /\ smemres \in Region /\ base <= smemres
        /\ chunk \in Nat /\ l \in Int /\ n \in Nat
        /\ cur.required \in Int /\ cur.avail \in Int
    BY AtChunk
  <2>2. l < n /\ Count(UsablePlaces, 0, e) + cur.required = (l + 1) * chunk + cur.avail
    BY <1>2 DEF Chunking
  <2>3. e \in Nat
    <3>1. e >= 0
      BY <2>1 DEF Ordered
    <3>2. e \in Int
      BY <2>1, Regions
    <3>3. QED
      BY <3>1, <3>2
  <2>4. \A a \in UsablePlaces : a < e
    BY <1>2, <2>1, UsableOfRegion
  <2> HIDE DEF e, n
  <2>5. Count(UsablePlaces, 0, e) \in Nat
    BY <2>3, CountNat
  <2>6. (l + 1) * chunk <= n * chunk /\ (l + 1) * chunk \in Int /\ n * chunk \in Int
    <3>1. l + 1 \in Int /\ l + 1 <= n
      BY <2>1, <2>2
    <3>2. QED
      BY <2>1, <3>1, ProductAscends
  <2>7. Count(UsablePlaces, 0, e) < n * chunk
    BY <2>1, <2>2, <2>5, <2>6
  <2>8. QED
    BY <2>3, <2>4, <2>7 DEF Short, n
<1>3. QED
  BY <1>1, <1>2

LEMMA NextRegionChunks ==
  ASSUME IInv, Ordered, Chunking, NextRegion
  PROVE  Chunking'
<1>1. /\ pc = "holes" /\ cur.avail < cur.required
      /\ UNCHANGED <<machine, policy, amemres, chunk, l, parts, base>>
  BY DEF NextRegion, Undefined, input, nodes, chunks
<1>2. SUFFICES ASSUME policy = "nonodes", ~InsideOut
               PROVE  Chunking'
  BY <1>1, UsableKept DEF Chunking
<1>3. /\ TypeOK /\ base \in Region /\ smemres \in Region /\ base <= smemres
      /\ chunk \in Nat /\ l \in Int /\ cur \in Chunk /\ machine.cpus \in Nat
      /\ cur.start \in Nat /\ cur.required \in Int /\ cur.avail \in Int /\ cur.endend \in Int
      /\ \A p \in 1..Len(parts) : Count(UsablePlaces, parts[p].start, parts[p].mem) = chunk
      /\ Count(UsablePlaces, 0, cur.start) = l * chunk
  BY <1>1, <1>2, AtChunk
<1>4. /\ UsablePlaces' = UsablePlaces /\ (InsideOut' <=> InsideOut) /\ Region' = Region
      /\ \A r : IsEmpty(r)' <=> IsEmpty(r)
      /\ Short' <=> Short
  BY <1>1, UsableKept
<1>5. machine.lines # <<>>
  BY <1>1 DEF Ordered
<1>6. CASE smemres = MaxRegions
  <2>1. Short
    BY <1>1, <1>2, <1>6, NoMoreRegion
  <2>2. pc' = "undefined" /\ cur' = cur
    BY <1>6 DEF NextRegion, Undefined, chunks
  <2>3. \A p \in 1..Len(parts') : Count(UsablePlaces', parts'[p].start, parts'[p].mem) = chunk'
    BY <1>1, <1>3, <1>4
  <2>4. machine'.lines # <<>> /\ Short'
    BY <1>1, <1>4, <1>5, <2>1
  <2>5. QED
    BY <2>2, <2>3, <2>4 DEF Chunking
<1>7. CASE smemres # MaxRegions
  <2> DEFINE e == amemres[smemres].end
             b == amemres[smemres + 1].start
             f == amemres[smemres + 1].end
             required == cur.required - cur.avail
  <2>1. /\ pc' = "holes" /\ smemres' = smemres + 1
        /\ cur' = [cur EXCEPT !.total = @ + amemres[smemres + 1].start - amemres[smemres].end,
                              !.required = required,
                              !.avail = f - b,
                              !.endend = b + required]
    BY <1>1, <1>7 DEF NextRegion
  <2>2. cur'.start = cur.start /\ cur'.required = required /\ cur'.avail = f - b
        /\ cur'.endend = b + required
    <3> HIDE DEF required, f, b
    <3>1. QED
      BY <1>3, <2>1 DEF Chunk
  <2>3. smemres \in Int /\ smemres + 1 \in Region /\ smemres < MaxRegions /\ base \in Int
    BY <1>3, <1>7, Units DEF Region
  <2>4. e \in Int /\ b \in Int /\ f \in Int /\ required \in Int /\ required > 0
    <3>1. required \in Int /\ required > 0
      BY <1>1, <1>3
    <3>2. QED
      BY <1>3, <2>3, <3>1, Regions
  <2>5. e >= 0 /\ b >= 0 /\ f >= 0
    BY <1>1, <1>3, <2>3 DEF Ordered
  <2>6. b = amemres'[smemres'].start /\ f = amemres'[smemres'].end
    BY <1>1, <2>1
  <2>7. /\ base' \in Region' /\ base' <= smemres' /\ chunk' >= 0 /\ 0 <= cur'.start
        /\ Count(UsablePlaces', 0, cur'.start) = l' * chunk'
        /\ \A p \in 1..Len(parts') : Count(UsablePlaces', parts'[p].start, parts'[p].mem) = chunk'
    BY <1>1, <1>3, <1>4, <2>1, <2>2, <2>3
  <2>8. l < machine.cpus
    BY <1>1, <1>2 DEF Chunking
  <2>9. CASE IsEmpty(smemres + 1)
    <3>1. Short
      BY <1>1, <1>2, <2>9, NoMoreRegion
    <3>2. cur'.avail = 0 /\ cur'.avail < cur'.required
      BY <2>2, <2>4, <2>9 DEF IsEmpty
    <3>3. IsEmpty(smemres)'
      BY <2>6, <2>9 DEF IsEmpty
    <3>4. QED
      BY <1>1, <1>4, <2>1, <2>7, <2>8, <3>1, <3>2, <3>3 DEF Chunking
  <2>10. CASE ~IsEmpty(smemres + 1)
    <3>1. ~IsEmpty(smemres)
      BY <1>1, <1>3, <2>3, <2>10 DEF Ordered
    <3>2. /\ cur.start <= e
          /\ Count(UsablePlaces, 0, e) + cur.required = (l + 1) * chunk + cur.avail
      BY <1>1, <1>2, <3>1 DEF Chunking
    <3>3. e <= b /\ b <= f /\ Count(UsablePlaces, e, b) = 0
      BY <1>1, <1>2, <1>3, <2>3, <2>10, <3>1, UsableOfRegion
    <3>4. Count(UsablePlaces, b, f) = f - b
      <4>1. base <= smemres + 1 /\ b <= b
        BY <1>3, <2>3, <2>4
      <4>2. \A x, y \in Int :
              (smemres + 1 = base \/ b <= x) /\ x <= y /\ y <= f =>
                 Count(UsablePlaces, x, y) = y - x
        BY <1>1, <1>2, <1>3, <2>3, <2>10, <4>1, UsableOfRegion
      <4> HIDE DEF b, f
      <4>3. QED
        BY <2>4, <3>3, <4>1, <4>2
    <3>5. Count(UsablePlaces, 0, f) + cur'.required = (l + 1) * chunk + cur'.avail
      <4> DEFINE k == (l + 1) * chunk
      <4>1. k \in Int
        BY <1>3
      <4>2. Count(UsablePlaces, 0, e) + cur.required = k + cur.avail
        BY <3>2
      <4>a. cur'.required = cur.required - cur.avail /\ cur'.avail = f - b
        BY <2>2
      <4> HIDE DEF e, b, f, k
      <4>3. Count(UsablePlaces, 0, b) = Count(UsablePlaces, 0, e) + Count(UsablePlaces, e, b)
        BY <2>4, <2>5, <3>3, CountSplit
      <4>4. Count(UsablePlaces, 0, f) = Count(UsablePlaces, 0, b) + Count(UsablePlaces, b, f)
        BY <2>4, <2>5, <3>3, CountSplit
      <4>5. Count(UsablePlaces, 0, e) \in Nat
        BY <2>4, CountNat
      <4> DEFINE x == Count(UsablePlaces, 0, e)
                 z == Count(UsablePlaces, 0, f)
                 r == cur.required
                 a == cur.avail
      <4>6. /\ x \in Nat /\ z = ((x + 0) + (f - b)) /\ x + r = k + a
            /\ r \in Int /\ a \in Int /\ f \in Int /\ b \in Int /\ k \in Int
            /\ cur'.required = r - a /\ cur'.avail = f - b
        BY <1>3, <2>4, <3>3, <3>4, <4>1, <4>2, <4>3, <4>4, <4>5, <4>a
      <4> HIDE DEF x, z, r, a
      <4>7. z + (r - a) = k + (f - b)
        BY <4>6
      <4>8. QED
        BY <4>6, <4>7 DEF k, z
    <3>6. ~IsEmpty(smemres)'
      BY <2>6, <2>10 DEF IsEmpty
    <3>7. cur'.start <= f /\ cur'.start <= cur'.endend /\ b <= cur'.endend
      <4> DEFINE s == cur.start
      <4>1. s \in Nat /\ s <= e /\ cur'.start = s /\ cur'.endend = b + required
        BY <1>3, <2>2, <3>2
      <4> HIDE DEF s, e, b, f, required
      <4>2. s <= b + required /\ b <= b + required /\ s <= f
        BY <2>4, <3>3, <4>1
      <4>3. QED
        BY <4>1, <4>2
    <3>8. /\ cur'.start <= amemres'[smemres'].end
          /\ smemres' # base' => amemres'[smemres'].start <= cur'.endend
      BY <2>6, <3>7
    <3>9. Count(UsablePlaces', 0, amemres'[smemres'].end) + cur'.required
            = (l' + 1) * chunk' + cur'.avail
      BY <1>1, <1>4, <2>6, <3>5
    <3>10. QED
      BY <1>1, <2>1, <2>7, <2>8, <3>6, <3>7, <3>8, <3>9 DEF Chunking
  <2>11. QED
    BY <2>9, <2>10
<1>8. QED
  BY <1>6, <1>7

LEMMA EmitChunkChunks ==
  ASSUME IInv, Ordered, Chunking, EmitChunk
  PROVE  Chunking'
<1>1. /\ pc = "holes" /\ pc' = "place" /\ cur.avail >= cur.required /\ l' = l + 1
      /\ cur' = [NoChunk EXCEPT !.start = cur.endend]
      /\ UNCHANGED <<machine, policy, amemres, smemres, chunk, base>>
  BY DEF EmitChunk, input
<1>2. SUFFICES ASSUME policy = "nonodes", ~InsideOut
               PROVE  Chunking'
  BY <1>1, UsableKept DEF Chunking
<1> DEFINE s == cur.start
           e == amemres[smemres].end
           m == cur.endend
<1>3. /\ TypeOK /\ base \in Region /\ smemres \in Region /\ base <= smemres
      /\ chunk \in Nat /\ l \in Int /\ cur \in Chunk
      /\ s \in Nat /\ cur.required \in Int /\ cur.avail \in Int /\ m \in Int
      /\ \A p \in 1..Len(parts) : Count(UsablePlaces, parts[p].start, parts[p].mem) = chunk
      /\ Count(UsablePlaces, 0, s) = l * chunk
      /\ Holes
  BY <1>1, <1>2, AtChunk
<1>4. ~IsEmpty(smemres)
  BY <1>1, <1>2, <1>3 DEF Chunking
<1>5. /\ s <= e /\ s <= m
      /\ smemres # base => amemres[smemres].start <= m
      /\ Count(UsablePlaces, 0, e) + cur.required = (l + 1) * chunk + cur.avail
  BY <1>1, <1>2, <1>4 DEF Chunking
<1>6. m + cur.avail = e + cur.required
  BY <1>1, <1>3 DEF IInv, HoleLoop
<1>7. e \in Int /\ amemres[smemres].start \in Int
  BY <1>3, Regions
<1>8. m <= e
  BY <1>1, <1>3, <1>6, <1>7
<1>9. Count(UsablePlaces, m, e) = e - m
  <2>1. \A x, y \in Int :
          (smemres = base \/ amemres[smemres].start <= x) /\ x <= y /\ y <= e =>
             Count(UsablePlaces, x, y) = y - x
    BY <1>1, <1>2, <1>3, <1>4, UsableOfRegion
  <2>2. smemres = base \/ amemres[smemres].start <= m
    BY <1>5
  <2> HIDE DEF m, e
  <2>3. QED
    BY <1>3, <1>7, <1>8, <2>1, <2>2
<1>10. /\ UsablePlaces' = UsablePlaces /\ Region' = Region
       /\ \A r : IsEmpty(r)' <=> IsEmpty(r)
  BY <1>1, UsableKept
<1>11. cur'.start = m
  BY <1>1 DEF NoChunk
<1>12. parts \in Seq(Part) /\ cur.total \in Int
  BY <1>3, ChunkFields DEF TypeOK
<1>13. PICK cpu \in Lowest :
         parts' = Append(parts, [cpus |-> {cpu}, start |-> s, total |-> cur.total, mem |-> m])
  BY DEF EmitChunk
<1> DEFINE q == [cpus |-> {cpu}, start |-> s, total |-> cur.total, mem |-> m]
<1>14. q \in Part /\ q.start = s /\ q.mem = m
  <2>1. cpu = l
    BY <1>2, <1>13 DEF Lowest
  <2>2. {cpu} \in SUBSET Int /\ s \in Int
    BY <1>3, <2>1
  <2> HIDE DEF s, m
  <2>3. QED
    BY <1>3, <1>12, <2>2, PartType
<1>15. parts' = Append(parts, q)
  BY <1>13
<1>16. e = amemres'[smemres'].end
  BY <1>1
<1> HIDE DEF q, s, e, m
<1>17. /\ Len(parts') = Len(parts) + 1 /\ Len(parts) \in Nat
       /\ \A p \in 1..Len(parts) : parts'[p] = parts[p]
       /\ parts'[Len(parts) + 1] = q
       /\ \A p \in 1..Len(parts') : p \in 1..Len(parts) \/ p = Len(parts) + 1
  BY <1>12, <1>14, <1>15, AppendPart
<1>18. (l + 1) * chunk = l * chunk + chunk /\ l * chunk \in Int
  BY <1>3
<1>19. Count(UsablePlaces, 0, m) = (l + 1) * chunk /\ Count(UsablePlaces, s, m) = chunk
  <2>1. Count(UsablePlaces, 0, e) = Count(UsablePlaces, 0, m) + Count(UsablePlaces, m, e)
    <3>1. 0 <= m
      BY <1>3, <1>5
    <3>2. QED
      BY <1>3, <1>7, <1>8, <3>1, CountSplit
  <2>2. Count(UsablePlaces, 0, m) = Count(UsablePlaces, 0, s) + Count(UsablePlaces, s, m)
    BY <1>3, <1>5, CountSplit
  <2>3. Count(UsablePlaces, 0, m) \in Nat /\ Count(UsablePlaces, s, m) \in Nat
        /\ Count(UsablePlaces, 0, e) \in Nat
    <3>1. m \in Int /\ s \in Int /\ e \in Int /\ 0 \in Int
      BY <1>3, <1>7
    <3>2. QED
      BY <3>1, CountNat
  <2>4. Count(UsablePlaces, 0, m) = (l + 1) * chunk
    <3> DEFINE k == (l + 1) * chunk
           x == Count(UsablePlaces, 0, m)
           y == Count(UsablePlaces, m, e)
           z == Count(UsablePlaces, 0, e)
           required == cur.required
           avail == cur.avail
    <3>1. /\ k \in Int /\ z + required = k + avail /\ m + avail = e + required
          /\ z = x + y /\ y = e - m /\ x \in Nat
          /\ m \in Int /\ e \in Int /\ required \in Int /\ avail \in Int
      BY <1>3, <1>5, <1>6, <1>7, <1>9, <2>1, <2>3
    <3> HIDE DEF k, x, y, z, required, avail
    <3>2. x = k
      BY <3>1
    <3>3. QED
      BY <3>2 DEF k, x
  <2>5. QED
    BY <1>3, <1>18, <2>2, <2>3, <2>4
<1>20. \A p \in 1..Len(parts') : Count(UsablePlaces', parts'[p].start, parts'[p].mem) = chunk'
  BY <1>1, <1>3, <1>10, <1>14, <1>17, <1>19
<1>21. ~IsEmpty(smemres)'
  BY <1>1, <1>4 DEF IsEmpty
<1>22. /\ base' \in Region' /\ base' <= smemres' /\ chunk' >= 0
       /\ 0 <= cur'.start /\ cur'.start <= amemres'[smemres'].end
       /\ smemres' # base' => amemres'[smemres'].start <= cur'.start
  <2>1. 0 <= m
    BY <1>3, <1>5
  <2>2. smemres # base => amemres[smemres].start <= m
    BY <1>5
  <2>3. QED
    BY <1>1, <1>3, <1>8, <1>10, <1>11, <1>16, <2>1, <2>2
<1>23. Count(UsablePlaces', 0, cur'.start) = l' * chunk'
  BY <1>1, <1>10, <1>11, <1>19
<1>24. QED
  BY <1>1, <1>20, <1>21, <1>22, <1>23 DEF Chunking

LEMMA ChunkingStep ==
  ASSUME IInv, Ordered, Begun, Chunking, Next
  PROVE  Chunking'
<1>1. TypeOK /\ Places
  BY DEF IInv
<1>2. CASE Realign /\ ~Undefined
  BY <1>2, RealignChunks
<1>3. CASE StartChunk
  BY <1>3, StartChunkChunks
<1>4. CASE NextRegion
  BY <1>4, NextRegionChunks
<1>5. CASE EmitChunk
  BY <1>5, EmitChunkChunks
<1>6. CASE EndChunks
  <2>1. /\ pc = "place" /\ pc' \in {"globalshm", "done"}
        /\ UNCHANGED <<machine, policy, amemres, chunk, parts, base>>
    BY <1>6 DEF EndChunks, input, chunks
  <2>2. UsablePlaces' = UsablePlaces /\ (InsideOut' <=> InsideOut)
    BY <2>1, UsableKept
  <2>3. QED
    BY <2>1, <2>2 DEF Chunking
<1>7. CASE Undefined /\ ~NextRegion
  <2>1. UNCHANGED <<policy, parts, cur>> /\ pc' = "undefined"
    BY <1>7 DEF Undefined, input, chunks
  <2>2. pc \in {"read", "cap", "realign"}
    BY <1>1, <1>7, <2>1, PoliciesAssumption
       DEF Next, AddNode, ReadMemory, ReadLine, CountRegions, StartNode, LowerRegion, EndNode,
       CallPolicy, NoNodes, SkipRegion, CountChunks, Realign, GlobalShm, StartAfterCap, Clustered,
       StartChunk, EmitChunk, EndChunks, TypeOK, InPolicy
  <2>3. SUFFICES ASSUME policy = "nonodes"
                 PROVE  Chunking'
    BY <2>1 DEF Chunking
  <2>4. parts = <<>> /\ cur = NoChunk
    BY <2>2, <2>3 DEF Begun
  <2>5. ~(cur'.avail < cur'.required) /\ \A p \in 1..Len(parts') : FALSE
    BY <2>1, <2>4 DEF NoChunk
  <2>6. QED
    BY <2>1, <2>5 DEF Chunking
<1>8. CASE /\ ~Undefined
           /\ \/ AddNode \/ ReadMemory \/ ReadLine \/ CountRegions
              \/ StartNode \/ LowerRegion \/ EndNode \/ CallPolicy
              \/ NoNodes \/ SkipRegion \/ CountChunks
              \/ GlobalShm \/ StartAfterCap \/ Clustered
  <2>1. policy' = policy /\ (policy = "nonodes" => pc' \notin {"place", "holes", "done", "undefined"})
    BY <1>1, <1>8, PoliciesAssumption DEF AddNode, ReadMemory, ReadLine, CountRegions, StartNode,
       LowerRegion, EndNode, CallPolicy, NoNodes, SkipRegion, CountChunks, GlobalShm, StartAfterCap,
       Clustered, Places, ByNode, input
  <2>2. QED
    BY <2>1 DEF Chunking
<1>9. QED
  BY <1>2, <1>3, <1>4, <1>5, <1>6, <1>7, <1>8 DEF Next
-----------------------------------------------------------------------------
LEMMA InitCounted == Init => Counted
<1> SUFFICES ASSUME Init
             PROVE  Counted
  OBVIOUS
<1>1. /\ pc = "total" /\ im = 0 /\ parts = <<>> /\ l = 0 /\ cur = NoChunk /\ machine \in Machines
      /\ \A r \in Region : amemres[r].start = 0 /\ amemres[r].end = 0
  BY DEF Init
<1>2. MaxRegions \in Nat /\ Len(machine.lines) \in Nat
  BY <1>1, Units, MapFacts
<1>3. \A r \in Region : IsEmpty(r) /\ ~(r <= 0)
  BY <1>1, <1>2 DEF IsEmpty, Region
<1>4. Reading
  BY <1>1, <1>2, <1>3 DEF Reading
<1>5. Ordered /\ Downwards /\ Begun /\ Chunking
  BY <1>1 DEF Ordered, Downwards, Begun, Chunking
<1>6. QED
  BY <1>4, <1>5 DEF Counted

LEMMA StutterCounted == Counted /\ UNCHANGED vars => Counted'
<1> SUFFICES ASSUME Counted, UNCHANGED vars
             PROVE  Counted'
  OBVIOUS
<1>1. UNCHANGED <<machine, policy, pc, amemres, im, i, last, size, anode, nomore,
                  smemres, chunk, l, cur, parts, base>>
  BY DEF vars, input, nodes, chunks
<1>2. Reading'
  BY <1>1 DEF Counted, Reading, Region, IsEmpty
<1>3. Ordered'
  BY <1>1 DEF Counted, Ordered, Region, IsEmpty
<1>4. Downwards'
  BY <1>1 DEF Counted, Downwards, Tiled, RamPlaces, Ram, Region, IsEmpty, InRegion, MaxNode, NodeSize
<1>5. Begun'
  BY <1>1 DEF Counted, Begun, IsEmpty
<1>6. Chunking'
  BY <1>1 DEF Counted, Chunking, UsablePlaces, Usable, InsideOut, Short, Region, IsEmpty
<1>7. QED
  BY <1>2, <1>3, <1>4, <1>5, <1>6 DEF Counted

(* The table ascends from the end of main's reading on, and the nodes and  *)
(* the chunks have as much memory as Downwards and Chunking say.           *)
THEOREM CountingInvariance == Spec => []Counted
<1>1. IInv /\ Counted /\ Next => Counted'
  BY ReadingStep, OrderedStep, DownwardsStep, BegunStep, ChunkingStep DEF Counted
<1>2. IInv /\ Counted /\ [Next]_vars => Counted'
  BY <1>1, StutterCounted
<1>3. QED
  BY <1>2, InitCounted, Invariance, PTL DEF Spec

(* As long as main has not run out of memory, the nodes it is through with *)
(* lie next to each other below the top of memory, and each has as many    *)
(* places of RAM between its ends as the machine says it has, whatever the *)
(* holes.                                                                  *)
THEOREM NodesAreTiled == Spec => []NodesTile
<1>1. Counted => NodesTile
  <2> SUFFICES ASSUME Downwards, pc = "node", ~nomore, NEW n \in (i + 1)..MaxNode
               PROVE  LET a == anode[n] IN
                      /\ n < MaxNode => a.end = anode[n + 1].start
                      /\ Cardinality({x \in a.start..(a.end - 1) : Ram(x)}) = a.size
                      /\ amemres[a.rstart].start <= a.start /\ a.start <= amemres[a.rstart].end
                      /\ amemres[a.rend].start <= a.end /\ a.end <= amemres[a.rend].end
    BY DEF Counted, NodesTile
  <2>1. Tiled(n)
    BY DEF Downwards
  <2>2. {x \in anode[n].start..(anode[n].end - 1) : Ram(x)}
          = {x \in anode[n].start..(anode[n].end - 1) : x \in RamPlaces}
    BY DEF RamPlaces
  <2>3. QED
    BY <2>1, <2>2 DEF Tiled, InRegion, Count
<1>2. QED
  BY <1>1, CountingInvariance, PTL

(* In the policy without nodes every kernel has exactly one chunk of the   *)
(* memory that can be used, over however many holes, and the loop leaves   *)
(* the table only if there is less than one chunk for each processor.      *)
THEOREM ChunksAreWhole == Spec => []ChunksWhole
<1>1. IInv /\ Counted => ChunksWhole
  <2> SUFFICES ASSUME IInv, Chunking, policy = "nonodes",
                      pc \in {"place", "holes", "done", "undefined"}, ~InsideOut
               PROVE  /\ \A p \in 1..Len(parts) :
                           Cardinality({a \in parts[p].start..(parts[p].mem - 1) : Usable(a)}) = chunk
                      /\ cur.avail < cur.required /\ pc = "undefined" =>
                           Cardinality({a \in 0..machine.lines[Len(machine.lines)].end : Usable(a)})
                             < machine.cpus * chunk
    BY DEF Counted, ChunksWhole
  <2>1. ASSUME NEW p \in 1..Len(parts)
        PROVE  Cardinality({a \in parts[p].start..(parts[p].mem - 1) : Usable(a)}) = chunk
    <3>1. {a \in parts[p].start..(parts[p].mem - 1) : Usable(a)}
            = {a \in parts[p].start..(parts[p].mem - 1) : a \in UsablePlaces}
      BY DEF UsablePlaces
    <3>2. Count(UsablePlaces, parts[p].start, parts[p].mem) = chunk
      BY DEF Chunking
    <3>3. QED
      BY <3>1, <3>2 DEF Count
  <2>2. ASSUME cur.avail < cur.required, pc = "undefined"
        PROVE  Cardinality({a \in 0..machine.lines[Len(machine.lines)].end : Usable(a)})
                 < machine.cpus * chunk
    <3>1. Short /\ machine.lines # <<>>
      BY <2>2 DEF Chunking
    <3>2. PICK e \in Nat : /\ \A a \in UsablePlaces : a < e
                           /\ Count(UsablePlaces, 0, e) < machine.cpus * chunk
      BY <3>1 DEF Short
    <3> DEFINE z == machine.lines[Len(machine.lines)].end
    <3>3. {a \in 0..z : Usable(a)} = {a \in 0..z : a \in UsablePlaces}
      BY DEF UsablePlaces
    <3>4. z \in Int
      <4>1. machine \in Machines /\ machine.lines \in Seq([start : Int, end : Int])
        BY MachinesAssumption DEF IInv, TypeOK
      <4>2. Len(machine.lines) \in 1..Len(machine.lines)
        BY <3>1, <4>1
      <4>3. QED
        BY <4>1, <4>2, MapFacts
    <3>5. machine.cpus * chunk \in Int
      <4>1. machine.cpus \in Int /\ chunk \in Int
        BY MachineFacts DEF IInv, TypeOK
      <4>2. QED
        BY <4>1
    <3> HIDE DEF z
    <3>6. /\ Cardinality({a \in 0..z : a \in UsablePlaces}) <= Count(UsablePlaces, 0, e)
          /\ Cardinality({a \in 0..z : a \in UsablePlaces}) \in Nat
      BY <3>2, <3>4, CountBelow
    <3>7. Count(UsablePlaces, 0, e) \in Nat
      BY CountNat
    <3>8. Cardinality({a \in 0..z : a \in UsablePlaces}) < machine.cpus * chunk
      BY <3>2, <3>5, <3>6, <3>7
    <3>9. QED
      BY <3>3, <3>8 DEF z
  <2>3. QED
    BY <2>1, <2>2
<1>2. QED
  BY <1>1, CountingInvariance, Invariance, PTL
=============================================================================
