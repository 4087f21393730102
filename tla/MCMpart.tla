------------------------------- MODULE MCMpart -------------------------------
(* An instance of Mpart for TLC. *)
EXTENDS Mpart, TLC

Line(a, b) == [start |-> a, end |-> b]

Maps == {<<>>, <<Line(0, 0)>>, <<Line(0, 61)>>,
         <<Line(0, 2), Line(4, 61)>>,
         <<Line(1, 2), Line(4, 25), Line(32, 61)>>,
         <<Line(0, 2), Line(4, 14), Line(17, 23), Line(30, 70)>>,
         <<Line(0, 2), Line(4, 30), Line(34, 37), Line(44, 70)>>,
         <<Line(0, 2), Line(4, 30), Line(34, 37), Line(44, 70), Line(72, 90)>>,
         <<Line(0, 1), Line(2, 3), Line(6, 30), Line(34, 40), Line(44, 70), Line(72, 80)>>,
         <<Line(4, 12), Line(14, 20), Line(22, 30), Line(32, 40), Line(42, 50), Line(52, 60),
           Line(62, 70)>>}

NodeSets == {<<[size |-> a, cpus |-> c]>> : c \in {{0}, 0..3}, a \in {0, 10, 36, 50, 64}} \cup
  {<<[size |-> a, cpus |-> 0..1], [size |-> b, cpus |-> 2..5]>> :
      a \in {0, 16, 24, 33}, b \in {10, 24, 32}} \cup
  {[n \in {1, 3} |-> IF n = 1 THEN [size |-> 20, cpus |-> {0, 2}]
                              ELSE [size |-> 14, cpus |-> {1, 3}]]}

MCMachines ==
  {m \in [lines : Maps, nodes : NodeSets, cpus : {1, 4, 5, 6}, digits : {2, 3}] :
     \A n \in DOMAIN m.nodes : m.nodes[n].cpus \subseteq 0..(m.cpus - 1)}
=============================================================================
