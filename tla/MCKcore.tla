------------------------------- MODULE MCKcore -------------------------------
(* An instance of Kcore for TLC: up to four segments, of up to three pages  *)
(* of two bytes, some with a last page that is not full, one empty.         *)
EXTENDS Kcore

Segment(a, n, t) == [addr |-> a, size |-> n, type |-> t]

MCKlists == {<<Segment(20, 3, "RAM"), Segment(30, a, t), Segment(40, 3, "RAM"), Segment(30, 2, "TEXT")>> :
               a \in {0, 1, 2, 5}, t \in {"RAM", "VMALLOC"}}
            \cup {<<Segment(20, 6, "RAM"), Segment(40, 1, "TEXT")>>}
=============================================================================
