---------------------------- MODULE MCBompParallel ----------------------------
(* Programs for BompParallel, and instances of it for TLC. *)
EXTENDS BompParallel

Mode(b, l) == [backend |-> b, lossy |-> l]
MCModes == {Mode("linux", FALSE), Mode("linux", TRUE), Mode("popcorn", TRUE)}

Parallel(n, body) == [op |-> "parallel", n |-> n, body |-> body]
OnlyDo(id, body) == [op |-> "only", n |-> id, body |-> body]
Set(what, n) == [op |-> what, n |-> n]
Do(what) == [op |-> what]

(* Regions one after the other, of different sizes, asked for in every way, *)
(* with every construct in their bodies.                                    *)
FlatPrograms ==
  { <<Do("single"),
      Parallel(3, <<Do("single"), Do("barrier"), OnlyDo(0, <<Do("single")>>)>>),
      Parallel(2, <<Do("barrier")>>)>>,
    <<Set("num_threads", 2), Parallel(0, <<Do("barrier"), Do("barrier")>>),
      Set("dynamic", 1), Parallel(3, <<Do("single")>>),
      Set("num_threads", 0), Set("dynamic", 0), Parallel(3, <<>>)>>,
    <<Set("num_threads", 2), Set("nested", 1), Parallel(3, <<Do("barrier")>>),
      Set("nested", 0), Parallel(1, <<Do("barrier"), Do("single")>>)>>,
    <<Parallel(4, <<Do("single"), Do("barrier"), Do("single")>>), Do("single")>> }

(* The flat programs are those that the proofs are about: with the           *)
(* statements of the main thread, of the bodies, and of what one member runs *)
(* they have the shape that Flat asks for, and no barrier in serial code.    *)
Statements(bodies) == UNION {{body[k] : k \in DOMAIN body} : body \in bodies}
Inside(statements, op) == Statements({s.body : s \in {x \in statements : x.op = op}})
SerialStmts == Statements(FlatPrograms)
MemberStmts == Inside(Inside(SerialStmts, "parallel"), "only")
BodyStmts == Inside(SerialStmts, "parallel") \cup MemberStmts

ASSUME FlatProgramsAssumption ==
  /\ Flat(FlatPrograms, SerialStmts, BodyStmts, MemberStmts)
  /\ \A s \in SerialStmts : s.op # "barrier"

(* Regions inside a region, where barriers keep every other thread away from *)
(* nested while one starts and ends its own.                                 *)
NestedPrograms ==
  { <<Parallel(3, <<OnlyDo(0, <<Parallel(2, <<Do("single")>>)>>), Do("barrier")>>),
      Parallel(2, <<Do("single")>>)>>,
    <<Parallel(3, <<Do("barrier"), OnlyDo(1, <<Parallel(2, <<Do("single")>>)>>),
                    Do("barrier"), OnlyDo(2, <<Parallel(0, <<>>)>>), Do("barrier")>>)>> }

(* A region that a worker starts, with a single construct in it. *)
NestedByWorker == {<<Parallel(2, <<OnlyDo(1, <<Parallel(2, <<Do("single")>>)>>)>>)>>}

OrderlyPrograms == FlatPrograms \cup NestedPrograms
=============================================================================
