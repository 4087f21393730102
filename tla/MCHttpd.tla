-------------------------------- MODULE MCHttpd --------------------------------
(* Clients and environments for Httpd, and instances of it for TLC. *)
EXTENDS Httpd, TLC

Ask(method, query, file, length, body, todo) ==
  [method |-> method, query |-> query, file |-> file, lines |-> 2, ended |-> TRUE,
   length |-> length, body |-> body, leaves |-> FALSE, script |-> todo]

GetFile == Ask("GET", FALSE, "plain", -1, 0, <<>>)
GetScript == Ask("GET", TRUE, "program", -1, 0, <<"out", "out">>)
PostScript == Ask("POST", FALSE, "program", 2, 2, <<"in", "in", "out">>)
GoodDemands == {GetFile, GetScript, PostScript}

(* Answered without a script, or not at all. *)
Refused == { Ask("other", FALSE, "plain", -1, 0, <<>>),
             Ask("POST", FALSE, "missing", 1, 1, <<>>),
             Ask("POST", FALSE, "program", -1, 0, <<>>),
             Ask("GET", FALSE, "unreadable", -1, 0, <<>>) }

EarlyExit == Ask("POST", FALSE, "program", 2, 2, <<"in", "out">>)
Drain == Ask("GET", FALSE, "program", -1, 0, <<"out", "drain">>)
CutFile == [GetFile EXCEPT !.ended = FALSE]

(* A script that cannot be run, one that ends before it has read all, one    *)
(* that reads until the pipe ends, one that writes before it reads, a body   *)
(* shorter than announced, a file without a last newline, and clients that   *)
(* leave.                                                                    *)
Awkward == { Ask("POST", FALSE, "plain", 1, 1, <<>>),
             EarlyExit,
             Drain,
             Ask("POST", FALSE, "program", 2, 2, <<"out", "out", "in", "in">>),
             Ask("POST", FALSE, "program", 3, 1, <<"in", "in", "in">>),
             CutFile,
             [GetFile EXCEPT !.leaves = TRUE],
             [PostScript EXCEPT !.leaves = TRUE] }

Pair(a, b) == 1 :> a @@ 2 :> b
Pairs(A, B) == {Pair(a, b) : a \in A, b \in B}

MixedLoads == Pairs({GetScript, PostScript}, GoodDemands)
              \cup Pairs({GetScript}, Refused)
              \cup Pairs({PostScript}, Awkward)
              \cup Pairs({Drain}, {Drain, EarlyExit})

(* A file without a last newline, and another request. *)
FileLoads == Pairs({CutFile}, {GetFile, GetScript})

Calm == [table |-> 14, faults |-> FALSE]
Narrow == [table |-> 9, faults |-> FALSE]
Faulty == [table |-> 14, faults |-> TRUE]
OnlyCalm == {Calm}
AllEnvironments == {Calm, Narrow, Faulty}
=============================================================================
