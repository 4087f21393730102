-------------------------------- MODULE Mpart --------------------------------
(***************************************************************************)
(* mpart.c: divides the memory and the processors of a machine among       *)
(* kernels, and prints the boot parameters of each.  main reads the        *)
(* regions of RAM of /proc/iomem into the table amemres, gives every NUMA  *)
(* node its part of them from the top of memory downwards, and calls a     *)
(* policy.  There are three; which one is called depends on which calls    *)
(* are commented out in main (in the repository: the one without nodes).   *)
(*                                                                         *)
(* A kernel gets one or more processors (present_mask), "total" bytes from *)
(* "start" (memmap), and the limit "mem".                                  *)
(*                                                                         *)
(* The machine - what the files of /proc and /sys say - is chosen at the   *)
(* start.  Addresses are numbers of any unit.  Only where the code mixes   *)
(* signed and unsigned numbers are they taken modulo Wrap.  What the       *)
(* program does after it has left the table is undefined.                  *)
(***************************************************************************)
EXTENDS Integers, Sequences, FiniteSets

CONSTANTS
  Machines,       \* lines of iomem, nodes, processors, digits of a cpumap
  Policies,       \* what main may call: "nonodes", "globalshm", "clustered"
  MaxRegions,     \* MAX_AMEMRES
  Page, Resolution,   \* ALIGN4KB and RESOLUTION_MASK + 1
  Cap,            \* reserved_cap
  BenChunk,       \* BEN_ALIGN_CHUNK
  BenAlignment,   \* BEN_ALIGNMENT
  Wrap            \* one more than the largest unsigned long long

(* Addresses and sizes are integers; nodes have processors of their own.   *)
ASSUME MachinesAssumption == \A m \in Machines :
  /\ m.lines \in Seq([start : Int, end : Int])
  /\ DOMAIN m.nodes \subseteq Nat \ {0}
  /\ \E k \in DOMAIN m.nodes : \A n \in DOMAIN m.nodes : n <= k
  /\ \A n \in DOMAIN m.nodes : /\ m.nodes[n].size \in Int
                              /\ m.nodes[n].cpus \subseteq Nat /\ IsFiniteSet(m.nodes[n].cpus)
  /\ \A n, k \in DOMAIN m.nodes : n # k => m.nodes[n].cpus \cap m.nodes[k].cpus = {}
  /\ m.cpus \in Nat \ {0}

(* /proc/iomem: the regions ascend and do not overlap, and the last place   *)
(* is not the last number.                                                  *)
ASSUME MapsAssumption == \A m \in Machines :
  /\ \A r \in 1..Len(m.lines) : /\ 0 <= m.lines[r].start /\ m.lines[r].start <= m.lines[r].end
                                /\ m.lines[r].end + 1 < Wrap
  /\ \A r, s \in 1..Len(m.lines) : r < s => m.lines[r].end <= m.lines[s].start
  /\ \A n \in DOMAIN m.nodes : m.nodes[n].size \in 0..(Wrap - 1)

ASSUME PoliciesAssumption == Policies \subseteq {"nonodes", "globalshm", "clustered"}

ASSUME UnitsAssumption ==
  /\ {MaxRegions, Page, Resolution, BenChunk, BenAlignment, Wrap} \subseteq Nat \ {0}
  /\ Cap \in Nat

VARIABLES
  machine, policy,
  pc,
  amemres,    \* the table of regions; (0, 0) where it is not filled
  total_by_node,  \* main: what the nodes have together
  im,         \* main: number of regions, then the region the node reaches down to
  i,          \* the node main or a policy is at
  last, size, \* main: lowest address given to a node; what the node still misses
  anode,      \* the nodes: start, end, first and last region, processors
  nomore,     \* whether "THERE IS NO MORE MEMORY" was printed
  smemres,    \* policy: the region that memory is taken from
  low,        \* policy: the places below smemres that are no RAM
  chunk,      \* alignedchunk
  mask, l,    \* processors of the node left, and how many chunks are done
  cur,        \* the locals of the loop over holes
  parts,      \* what the kernels were given, in the order it was printed
  base        \* history: the region the policy began with

input == <<machine, policy>>
nodes == <<total_by_node, im, i, last, size, anode, nomore>>
chunks == <<smemres, low, chunk, mask, l, cur, parts, base>>
vars == <<input, pc, amemres, nodes, chunks>>

Region == 1..MaxRegions
(* set_configured_nodes: the directories may leave out a number.  Node 0 of *)
(* the code is node 1 here, as its region 0 is region 1.                   *)
MaxNode == CHOOSE k \in DOMAIN machine.nodes : \A n \in DOMAIN machine.nodes : n <= k
Node == 1..MaxNode

Floor(x, unit) == x - (x % unit)
Ceiling(x, unit) == IF x % unit = 0 THEN x ELSE Floor(x, unit) + unit
U(x) == x % Wrap    \* as an unsigned long long

NoNode == [start |-> 0, end |-> 0, size |-> 0, rstart |-> 0, rend |-> 0, map |-> {}]
NoChunk == [start |-> 0, total |-> 0, required |-> 0, avail |-> 0, endend |-> 0]

(* numa_node_size64 *)
NodeSize(n) == IF n \in DOMAIN machine.nodes THEN machine.nodes[n].size ELSE -1

(* numa_node_cpumask: line[0], the digit of the highest processors, is not *)
(* read.                                                                   *)
CpuMap(n) == IF n \in DOMAIN machine.nodes
             THEN {c \in machine.nodes[n].cpus : c < 4 * (machine.digits - 1)} ELSE {}

Init == /\ machine \in Machines
        /\ policy \in Policies
        /\ pc = "total"
        /\ total_by_node = 0
        /\ amemres = [r \in Region |-> [start |-> 0, end |-> 0]]
        /\ im = 0
        /\ i = 1
        /\ last = 0 /\ size = 0
        /\ anode = [n \in Node |-> NoNode]
        /\ nomore = FALSE
        /\ smemres = 0
        /\ low = 0
        /\ chunk = 0
        /\ mask = {}
        /\ l = 0
        /\ cur = NoChunk
        /\ parts = <<>>
        /\ base = 0

Undefined == pc' = "undefined" /\ UNCHANGED <<input, amemres, nodes, chunks>>
-----------------------------------------------------------------------------
(* main: numa_node_size64 of all nodes. *)
AddNode ==
  /\ pc = "total"
  /\ i <= MaxNode
  /\ total_by_node' = total_by_node + NodeSize(i)
  /\ i' = i + 1
  /\ UNCHANGED <<input, pc, amemres, im, last, size, anode, nomore, chunks>>

ReadMemory ==
  /\ pc = "total"
  /\ i > MaxNode
  /\ pc' = "read"
  /\ UNCHANGED <<input, amemres, nodes, chunks>>

(* set_present_mem; the end of a line is the first byte behind the region. *)

ReadLine ==
  /\ pc = "read"
  /\ im < Len(machine.lines)
  /\ IF im = MaxRegions THEN Undefined
     ELSE LET line == machine.lines[im + 1] IN
          /\ amemres' = [amemres EXCEPT ![im + 1] = [start |-> Floor(line.start, Page),
                                                     end |-> Floor(line.end, Page)]]
          /\ im' = im + 1
          /\ UNCHANGED <<input, pc, total_by_node, i, last, size, anode, nomore, chunks>>

IsEmpty(r) == amemres[r].start = 0 /\ amemres[r].end = 0

(* main: the regions before the first entry (0, 0); with none of them      *)
(* amemres[-1] is read.                                                    *)
CountRegions ==
  /\ pc = "read"
  /\ im = Len(machine.lines)
  /\ \E n \in 0..MaxRegions :
       /\ \A r \in 1..n : ~IsEmpty(r)
       /\ n < MaxRegions => IsEmpty(n + 1)
       /\ IF n = 0 THEN Undefined
          ELSE /\ im' = n
               /\ last' = amemres[n].end
               /\ pc' = "node"
               /\ i' = MaxNode
               /\ UNCHANGED <<input, amemres, total_by_node, size, anode, nomore, chunks>>
-----------------------------------------------------------------------------
(* The loop of main over the nodes, from the last one down. *)

StartNode ==
  /\ pc = "node"
  /\ i > 0
  /\ size' = NodeSize(i)
  /\ anode' = [anode EXCEPT ![i] = [start |-> 0, end |-> last, size |-> NodeSize(i),
                                    rstart |-> 0, rend |-> im, map |-> CpuMap(i)]]
  /\ pc' = "fit"
  /\ UNCHANGED <<input, amemres, total_by_node, im, i, last, nomore, chunks>>

(* (last - amemres[im].start) < size, between unsigned numbers *)
Reaches == U(last - amemres[im].start) < U(size)

(* A variant of the next definition, a bug this code could have had. *)
RegionOfNextOnly ==
  /\ pc = "fit"
  /\ Reaches /\ im > 1
  /\ im' = im - 1
  /\ size' = size - U(last - amemres[im].start)
  /\ UNCHANGED <<input, pc, amemres, total_by_node, i, last, anode, nomore, chunks>>

LowerRegion ==
  /\ pc = "fit"
  /\ Reaches /\ im > 1
  /\ im' = im - 1
  /\ size' = size - U(last - amemres[im].start)
  /\ last' = amemres[im - 1].end
  /\ UNCHANGED <<input, pc, amemres, total_by_node, i, anode, nomore, chunks>>

EndNode ==
  /\ pc = "fit"
  /\ ~(Reaches /\ im > 1)
  /\ nomore' = (nomore \/ Reaches)
  /\ last' = last - size
  /\ anode' = [anode EXCEPT ![i] = [@ EXCEPT !.start = last - size, !.rstart = im]]
  /\ i' = i - 1
  /\ pc' = "node"
  /\ UNCHANGED <<input, amemres, total_by_node, im, size, chunks>>

CallPolicy ==
  /\ pc = "node"
  /\ i = 0
  /\ pc' = policy
  /\ i' = 1
  /\ UNCHANGED <<input, amemres, total_by_node, im, last, size, anode, nomore, chunks>>
-----------------------------------------------------------------------------
(* Variants of definitions below, each a bug this code could have had. *)

(* The next processor: ffsll_bitmask, or the loop variable. *)
Lowest == IF policy = "globalshm" THEN {c \in mask : \A d \in mask : c <= d} ELSE {l}

TotalWithoutHole ==
  /\ pc = "holes"
  /\ cur.avail < cur.required
  /\ IF smemres = MaxRegions THEN Undefined
     ELSE LET next == amemres[smemres + 1]
              required == cur.required - cur.avail IN
          /\ smemres' = smemres + 1
          /\ cur' = [cur EXCEPT !.required = required,
                                !.avail = next.end - next.start,
                                !.endend = next.start + required]
          /\ UNCHANGED <<input, pc, amemres, nodes, low, chunk, mask, l, parts, base>>

RequiredKept ==
  /\ pc = "holes"
  /\ cur.avail < cur.required
  /\ IF smemres = MaxRegions THEN Undefined
     ELSE LET here == amemres[smemres]
              next == amemres[smemres + 1] IN
          /\ smemres' = smemres + 1
          /\ cur' = [cur EXCEPT !.total = @ + next.start - here.end,
                                !.avail = next.end - next.start,
                                !.endend = next.start + cur.required]
          /\ UNCHANGED <<input, pc, amemres, nodes, low, chunk, mask, l, parts, base>>

EmitWithoutClear ==
  /\ pc = "holes"
  /\ cur.avail >= cur.required
  /\ \E cpu \in Lowest :
       parts' = Append(parts, [cpus |-> {cpu}, start |-> cur.start,
                               total |-> cur.total, mem |-> cur.endend])
  /\ cur' = [NoChunk EXCEPT !.start = cur.endend]
  /\ l' = l + 1
  /\ pc' = "place"
  /\ UNCHANGED <<input, amemres, nodes, smemres, low, chunk, mask, base>>
-----------------------------------------------------------------------------
(* A policy begins with the first region that does not end before the      *)
(* reserved 16 MB do.  On the way there, the places that are no RAM are     *)
(* summed up: they count as memory of the first kernel.                     *)
BelowCap == amemres[smemres].start < Cap /\ amemres[smemres].end < Cap

SkipRegion ==
  /\ pc = "cap"
  /\ BelowCap
  /\ IF smemres = MaxRegions THEN Undefined
     ELSE /\ smemres' = smemres + 1
          /\ low' = low + amemres[smemres + 1].start - amemres[smemres].end
          /\ UNCHANGED <<input, pc, amemres, nodes, chunk, mask, l, cur, parts, base>>

(* partitionedcpu_globalshm_nonodes *)
NoNodes ==
  /\ pc = "nonodes"
  /\ smemres' = 1
  /\ low' = amemres[1].start
  /\ pc' = "cap"
  /\ UNCHANGED <<input, amemres, nodes, chunk, mask, l, cur, parts, base>>

(* The chunks come from the memory as it is before the realignment, and     *)
(* reserved_com, which is subtracted later, does not make them smaller.     *)
CountChunks ==
  /\ pc = "cap" /\ policy = "nonodes"
  /\ ~BelowCap
  /\ chunk' = Floor(((U(total_by_node + low) \div BenChunk) \div machine.cpus) * BenChunk,
                    Resolution)
  /\ base' = smemres
  /\ cur' = NoChunk
  /\ i' = smemres
  /\ pc' = "realign"
  /\ UNCHANGED <<input, amemres, total_by_node, im, last, size, anode, nomore,
                 smemres, low, mask, l, parts>>

(* The regions from smemres on; a region that begins at 0 ends the table,  *)
(* too.                                                                    *)
Realign ==
  /\ pc = "realign"
  /\ IF i > MaxRegions THEN Undefined
     ELSE LET a == amemres[i] IN
          IF a.start = 0 \/ a.end = 0
          THEN pc' = "place" /\ UNCHANGED <<input, amemres, nodes, chunks>>
          ELSE /\ amemres' = [amemres EXCEPT ![i] =
                    [start |-> IF a.start > Cap THEN Ceiling(a.start, BenChunk) ELSE a.start,
                     end |-> Floor(a.end, BenChunk)]]
               /\ i' = i + 1
               /\ UNCHANGED <<input, pc, total_by_node, im, last, size, anode, nomore, chunks>>
-----------------------------------------------------------------------------
ByNode == policy = "globalshm"
Holes == policy = "nonodes" \/ anode[i].rstart # anode[i].rend

(* partitionedcpu_globalshm: the next node.  A node without processors ends *)
(* the function.  Without holes memory is taken from the start of the node, *)
(* with holes from the start of its first region, or from 0 for processor 0. *)
GlobalShm ==
  /\ pc = "globalshm"
  /\ LET n == anode[i] IN
     IF i > MaxNode \/ n.map = {}
     THEN pc' = "done" /\ UNCHANGED <<input, amemres, nodes, chunks>>
     ELSE /\ smemres' = n.rstart
          /\ chunk' = Floor(n.size \div Cardinality(n.map), Resolution)
          /\ mask' = n.map
          /\ l' = 0
          /\ cur' = [NoChunk EXCEPT !.start = n.start]
          /\ pc' = IF Holes THEN "cap" ELSE "place"
          /\ UNCHANGED <<input, amemres, nodes, low, parts, base>>

StartAfterCap ==
  /\ pc = "cap" /\ policy = "globalshm"
  /\ ~BelowCap
  /\ cur' = [NoChunk EXCEPT !.start = IF 0 \in mask THEN 0
                                      ELSE IF amemres[smemres].start < Cap THEN Cap
                                      ELSE amemres[smemres].start]
  /\ pc' = "place"
  /\ UNCHANGED <<input, amemres, nodes, smemres, low, chunk, mask, l, parts, base>>

(* The clustered policy: all processors of a node and as much memory as the *)
(* node has, from its start, holes not considered.                          *)
Clustered ==
  /\ pc = "clustered"
  /\ LET n == anode[i]
         total == Floor(n.size, Resolution) IN
     IF i > MaxNode \/ n.map = {}
     THEN pc' = "done" /\ UNCHANGED <<input, amemres, nodes, chunks>>
     ELSE /\ parts' = Append(parts, [cpus |-> l..(l + Cardinality(n.map) - 1),
                                     start |-> n.start, total |-> total,
                                     mem |-> n.start + total])
          /\ l' = l + Cardinality(n.map)
          /\ i' = i + 1
          /\ UNCHANGED <<input, pc, amemres, total_by_node, im, last, size, anode, nomore,
                         smemres, low, chunk, mask, cur, base>>
-----------------------------------------------------------------------------
(* The loop over the processors, in both policies that have one. *)

(* The alignment to BEN_ALIGNMENT: an address that is aligned goes up, too, *)
(* and one below the first boundary stays.                                  *)
AlignStart(x) == IF ByNode /\ (x < 0 \/ x >= BenAlignment)
                 THEN Floor(x, BenAlignment) + BenAlignment ELSE x

StartChunk ==
  /\ pc = "place"
  /\ l < (IF ByNode THEN Cardinality(anode[i].map) ELSE machine.cpus)
  /\ LET start == AlignStart(cur.start) IN
     cur' = [start |-> start, total |-> chunk, required |-> chunk,
             avail |-> IF Holes THEN amemres[smemres].end - start ELSE chunk,
             endend |-> start + chunk]
  /\ pc' = "holes"
  /\ UNCHANGED <<input, amemres, nodes, smemres, low, chunk, mask, l, parts, base>>

(* while (avail < required): switch to next resource *)
NextRegion ==
  /\ pc = "holes"
  /\ cur.avail < cur.required
  /\ IF smemres = MaxRegions THEN Undefined
     ELSE LET here == amemres[smemres]
              next == amemres[smemres + 1]
              required == cur.required - cur.avail IN
          /\ smemres' = smemres + 1
          /\ cur' = [cur EXCEPT !.total = @ + next.start - here.end,
                                !.required = required,
                                !.avail = next.end - next.start,
                                !.endend = next.start + required]
          /\ UNCHANGED <<input, pc, amemres, nodes, low, chunk, mask, l, parts, base>>

(* The parameters are printed, and the processor is cleared in the mask.    *)
(* parts keeps the numbers that printf is called with before they are       *)
(* shifted to megabytes; the shift changes nothing in multiples of a        *)
(* megabyte, and what it cuts off other numbers is left out.                *)
EmitChunk ==
  /\ pc = "holes"
  /\ cur.avail >= cur.required
  /\ \E cpu \in Lowest :
     /\ parts' = Append(parts, [cpus |-> {cpu}, start |-> cur.start,
                                total |-> cur.total, mem |-> cur.endend])
     /\ mask' = mask \ {cpu}
  /\ cur' = [NoChunk EXCEPT !.start = cur.endend]
  /\ l' = l + 1
  /\ pc' = "place"
  /\ UNCHANGED <<input, amemres, nodes, smemres, low, chunk, base>>

EndChunks ==
  /\ pc = "place"
  /\ l = IF ByNode THEN Cardinality(anode[i].map) ELSE machine.cpus
  /\ i' = i + 1
  /\ pc' = IF ByNode THEN "globalshm" ELSE "done"
  /\ UNCHANGED <<input, amemres, total_by_node, im, last, size, anode, nomore, chunks>>

Next == \/ AddNode \/ ReadMemory \/ ReadLine \/ CountRegions
        \/ StartNode \/ LowerRegion \/ EndNode \/ CallPolicy
        \/ NoNodes \/ SkipRegion \/ CountChunks \/ Realign
        \/ GlobalShm \/ StartAfterCap \/ Clustered
        \/ StartChunk \/ NextRegion \/ EmitChunk \/ EndChunks

Spec == Init /\ [][Next]_vars
-----------------------------------------------------------------------------
Ram(a) == \E r \in Region : amemres[r].start <= a /\ a < amemres[r].end

(* Unless main has said that there is no more memory, the nodes lie next   *)
(* to each other from the top of memory downwards, each has as much RAM    *)
(* between its ends as it should, and its ends are in the regions that     *)
(* main notes for it.                                                      *)
NodesTile == pc = "node" /\ ~nomore =>
  \A n \in (i + 1)..MaxNode :
    LET a == anode[n] IN
    /\ n < MaxNode => a.end = anode[n + 1].start
    /\ Cardinality({x \in a.start..(a.end - 1) : Ram(x)}) = a.size
    /\ amemres[a.rstart].start <= a.start /\ a.start <= amemres[a.rstart].end
    /\ amemres[a.rend].start <= a.end /\ a.end <= amemres[a.rend].end

(* The memory of a kernel ends at the limit it is given, over however many *)
(* holes, and without nodes the kernels follow one another from 0.         *)
MapsEndAtLimit ==
  /\ \A p \in 1..Len(parts) : parts[p].start + parts[p].total = parts[p].mem
  /\ policy = "nonodes" => \A p \in 1..Len(parts) :
       parts[p].start = IF p = 1 THEN 0 ELSE parts[p - 1].mem

(* No processor is given to two kernels. *)
CpuHasOneKernel == \A p, q \in 1..Len(parts) :
  p # q => parts[p].cpus \cap parts[q].cpus = {}

(* What the policy without nodes takes for memory: the regions as they are *)
(* after the realignment, and all below the first one.                     *)
Usable(a) == \E r \in base..MaxRegions :
  (r = base \/ amemres[r].start <= a) /\ a < amemres[r].end
InsideOut == \E r \in (base + 1)..MaxRegions : amemres[r].end < amemres[r].start

(* Every kernel has exactly one chunk of that memory, and the loop leaves  *)
(* the table only if there is less than one chunk for each: provided that  *)
(* the realignment has turned no region inside out (one that has no        *)
(* boundary of 128 MB in it ends before it begins).                        *)
ChunksWhole == policy = "nonodes" /\ pc \in {"place", "holes", "done", "undefined"} /\ ~InsideOut =>
  /\ \A p \in 1..Len(parts) :
       Cardinality({a \in parts[p].start..(parts[p].mem - 1) : Usable(a)}) = chunk
  /\ cur.avail < cur.required /\ pc = "undefined" =>
       Cardinality({a \in 0..machine.lines[Len(machine.lines)].end : Usable(a)}) < machine.cpus * chunk

(* Why MapsEndAtLimit and CpuHasOneKernel hold. *)
Resource == [start : Int, end : Int]
NumaNode == [start : Int, end : Int, size : Int, rstart : Int, rend : Int, map : SUBSET Int]
Chunk == [start : Int, total : Int, required : Int, avail : Int, endend : Int]
Part == [cpus : SUBSET Int, start : Int, total : Int, mem : Int]
InPolicy == {"nonodes", "globalshm", "clustered", "cap", "realign", "place", "holes"}

TypeOK ==
  /\ machine \in Machines /\ policy \in Policies
  /\ pc \in {"total", "read", "node", "fit", "done", "undefined"} \cup InPolicy
  /\ amemres \in [Region -> Resource]
  /\ {total_by_node, im, i, last, size, smemres, low, chunk, l} \subseteq Int
  /\ anode \in [Node -> NumaNode]
  /\ nomore \in BOOLEAN
  /\ mask \subseteq Int
  /\ cur \in Chunk
  /\ parts \in Seq(Part)
  /\ base \in Int

(* Where the program is, and which entries of the tables it uses there. *)
Places ==
  /\ pc \in {"total", "read", "node", "fit"} => parts = <<>> /\ l = 0 /\ mask = {}
  /\ pc \in {"total", "read"} => im \in Nat /\ i > 0
  /\ pc \in {"node", "fit"} =>
       /\ im \in Region /\ i <= MaxNode /\ i >= 0 /\ (pc = "fit" => i > 0)
       /\ \A n \in Node : n > i => anode[n].rstart \in Region
  /\ pc \in InPolicy => i > 0 /\ \A n \in Node : anode[n].rstart \in Region
  /\ pc \in {"cap", "realign", "place", "holes"} =>
       smemres \in Region /\ (ByNode => i <= MaxNode) /\ policy # "clustered"
  /\ pc \in {"nonodes", "realign"} => policy = "nonodes"
  /\ pc = "globalshm" => ByNode
  /\ pc = "clustered" => policy = "clustered"
  /\ pc \in {"nonodes", "realign", "cap"} /\ policy = "nonodes" => parts = <<>> /\ l = 0
  /\ pc = "realign" => cur = NoChunk

(* The loop over holes goes on where the memory that is still required     *)
(* would begin if the regions behind were one with this one.               *)
HoleLoop ==
  /\ pc = "holes" =>
       /\ cur.start + cur.total = cur.endend
       /\ IF Holes THEN cur.endend + cur.avail = amemres[smemres].end + cur.required
          ELSE cur.avail >= cur.required
  /\ pc \in {"place", "holes"} /\ policy = "nonodes" =>
       cur.start = IF parts = <<>> THEN 0 ELSE parts[Len(parts)].mem

(* Processors that are given away are neither left in the mask nor in the  *)
(* maps of the nodes to come; without masks they are below l.              *)
Masks ==
  /\ \A n \in Node : anode[n].map \subseteq CpuMap(n)
  /\ ByNode => \A p \in 1..Len(parts) :
       /\ parts[p].cpus \cap mask = {}
       /\ \A n \in Node : (n > i \/ (n = i /\ pc = "globalshm")) =>
            parts[p].cpus \cap anode[n].map = {}
  /\ ByNode /\ pc \in {"cap", "place", "holes"} => mask \subseteq anode[i].map
  /\ ~ByNode => \A p \in 1..Len(parts) : \A c \in parts[p].cpus : c < l

IInv == TypeOK /\ Places /\ HoleLoop /\ Masks /\ MapsEndAtLimit /\ CpuHasOneKernel
=============================================================================
