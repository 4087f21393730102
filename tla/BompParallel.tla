----------------------------- MODULE BompParallel -----------------------------
(***************************************************************************)
(* Parallel regions of the OpenMP runtime: GOMP_parallel_start and         *)
(* GOMP_parallel_end of parallel.c, bomp_start_processing, bomp_thread_fn  *)
(* and bomp_end_processing of processing.c, the settings of omp.c and the  *)
(* two thread backends.                                                    *)
(*                                                                         *)
(* A program is what gcc makes of an OpenMP program, a sequence of         *)
(* statements: settings, barriers, single constructs, code for one member  *)
(* of the team (as master is) and parallel constructs.  The main thread    *)
(* runs it; for a parallel construct it calls GOMP_parallel_start, runs    *)
(* the body itself and calls GOMP_parallel_end, and the workers of the     *)
(* team run the body too.                                                  *)
(*                                                                         *)
(* One action is one step between two accesses that another thread can     *)
(* interleave with.  The barrier is taken at the grain that BompBarrier    *)
(* justifies: arriving (with the release, for the last) and leaving.       *)
(***************************************************************************)
EXTENDS Integers, Sequences

CONSTANTS
  Programs,     \* the programs, sequences of statements
  MaxWorkers,   \* a bound on the workers a program creates
  Modes         \* [backend, lossy]: the backends the library may be linked
                \* with, and whether the creation of a thread may fail

ASSUME MaxWorkersAssumption == MaxWorkers \in Nat
ASSUME ModesAssumption ==
  Modes \subseteq [backend : {"linux", "popcorn"}, lossy : BOOLEAN]

Main == 0
Tid == 0..MaxWorkers
Null == 0       \* the NULL of g_array_thread_local_data; blocks count from 1
NoTls == [block |-> Null, id |-> 0]

VARIABLES
  status,         \* the process: "running", "exited" or "crashed"
  nested,         \* parallel.c
  gThreads,       \* g_thread_numbers
  gArray,         \* g_array_thread_local_data, the number of a block
  numThreads,     \* bomp_num_threads
  dynamic,        \* bomp_dynamic_behaviour
  mode,           \* the backend, linux_backend.c or popcorn_backend.c, and its luck
  block,          \* the blocks bomp_start_processing has allocated
  workers,        \* the number of threads created
  pc,             \* pc[t]: where thread t is
  stack,          \* stack[t]: what is left of the bodies t runs, innermost first
  work,           \* work[t]: the bomp_work the thread was created with
  tls,            \* tls[t]: the work its thread local data points to
  reg,            \* reg[t]: a local variable of the function t is in
  at,             \* at[t]: the block whose barrier t waits on
  team,           \* history: the block of the last region begun by serial code
  ran             \* history: the members <<block, id>> that have run their body

settings == <<numThreads, dynamic, mode>>
history == <<team, ran>>
globals == <<nested, gThreads, gArray>>
vars == <<status, globals, settings, block, workers, pc, stack, work, tls, reg, at, history>>

PC == {"unborn", "born", "run", "single", "spawn", "inc", "incremented",
       "end", "clear", "restore", "dec", "decremented",
       "barrier", "endBarrier", "exitBarrier", "exit", "dead"}

Init == /\ status = "running"
        /\ nested = 0
        /\ gThreads = 1
        /\ gArray = Null
        /\ numThreads = 1
        /\ dynamic = FALSE
        /\ mode \in Modes
        /\ block = <<>>
        /\ workers = 0
        /\ pc = [t \in Tid |-> IF t = Main THEN "run" ELSE "unborn"]
        /\ stack \in {[t \in Tid |-> IF t = Main THEN <<p>> ELSE <<>>] : p \in Programs}
        /\ work = [t \in Tid |-> NoTls]
        /\ tls = [t \in Tid |-> NoTls]
        /\ reg = [t \in Tid |-> 0]
        /\ at = [t \in Tid |-> Null]
        /\ team = Null
        /\ ran = {}

Goto(t, p) == pc' = [pc EXCEPT ![t] = p]
Keep(t, n) == reg' = [reg EXCEPT ![t] = n]

(* Thread t is about to execute a statement of this kind. *)
Todo(t) == Head(stack[t])
At(t, op) == /\ status = "running"
             /\ pc[t] = "run"
             /\ Todo(t) # <<>>
             /\ Head(Todo(t)).op = op
Stmt(t) == Head(Todo(t))
Advance(t) == stack' = [stack EXCEPT ![t] = <<Tail(Todo(t))>> \o Tail(@)]
Is(t, p) == status = "running" /\ pc[t] = p

(* exit, a failed assertion or a wild pointer ends the process. *)
EndProcess(how) ==
  /\ status' = how
  /\ UNCHANGED <<globals, settings, block, workers, pc, stack, work, tls, reg, at, history>>

-----------------------------------------------------------------------------
(* omp.c: the settings and what the runtime asks itself.                     *)

(* omp_get_thread_num, where it does not follow a null pointer *)
ThreadNum(t) == IF gThreads = 1 THEN 0 ELSE tls[t].id

(* omp_in_parallel *)
InParallel == gThreads # 1

SetNumThreads(t) ==
  /\ At(t, "num_threads")
  /\ numThreads' = IF Stmt(t).n > 0 THEN Stmt(t).n ELSE numThreads
  /\ Advance(t)
  /\ UNCHANGED <<status, globals, dynamic, mode, block, workers, pc, work, tls, reg, at, history>>

SetDynamic(t) ==
  /\ At(t, "dynamic")
  /\ dynamic' = (Stmt(t).n # 0)
  /\ Advance(t)
  /\ UNCHANGED <<status, globals, numThreads, mode, block, workers, pc, work, tls, reg, at, history>>

(* omp_set_nested: zero clears bomp_nested_behaviour, which nothing reads; *)
(* any other value sets bomp_dynamic_behaviour.                            *)
SetNested(t) ==
  /\ At(t, "nested")
  /\ dynamic' = IF Stmt(t).n = 0 THEN dynamic ELSE TRUE
  /\ Advance(t)
  /\ UNCHANGED <<status, globals, numThreads, mode, block, workers, pc, work, tls, reg, at, history>>
-----------------------------------------------------------------------------
(* Variants of definitions below, each a bug this code could have had. *)

ArriveOneLate(t, b, waiting, released) ==
  LET last == block[b].counter = block[b].max IN
  /\ block' = [block EXCEPT ![b].counter = IF last THEN 0 ELSE @ + 1,
                            ![b].cycle = IF last THEN 1 - @ ELSE @]
  /\ Keep(t, block[b].cycle)
  /\ at' = [at EXCEPT ![t] = b]
  /\ Goto(t, IF last THEN released ELSE waiting)

SpawnFailsUnseen(t) ==
  /\ mode.lossy
  /\ Is(t, "spawn")
  /\ reg[t] < block[tls[t].block].max
  /\ Keep(t, reg[t] + 1)
  /\ UNCHANGED <<status, globals, settings, block, workers, pc, stack, work,
                 tls, at, history>>

RegisterNoTable(w) ==
  /\ Is(w, "born")
  /\ tls' = [tls EXCEPT ![w] = work[w]]
  /\ Goto(w, "run")
  /\ UNCHANGED <<status, globals, settings, block, workers, stack, work, reg, at, history>>

EndRegionAnyDepth(t) ==
  /\ Is(t, "run")
  /\ Todo(t) = <<>>
  /\ Len(stack[t]) > 1
  /\ Goto(t, IF nested >= 1 THEN "end" ELSE "dec")
  /\ ran' = IF t = Main /\ Len(stack[t]) = 2 THEN ran \cup {<<team, 0>>} ELSE ran
  /\ UNCHANGED <<status, globals, settings, block, workers, stack, work, tls, reg, at, team>>

EndBarrierSkipped(t) ==
  /\ Is(t, "end")
  /\ Goto(t, "clear")
  /\ UNCHANGED <<status, globals, settings, block, workers, stack, work, tls, reg, at, history>>

WorkerDoneNoWait(w) ==
  /\ Is(w, "run")
  /\ w # Main
  /\ stack[w] = <<<<>>>>
  /\ Goto(w, "exit")
  /\ ran' = ran \cup {<<work[w].block, work[w].id>>}
  /\ UNCHANGED <<status, globals, settings, block, workers, stack, work, tls, reg, at, team>>

ClearForgotten(t) ==
  /\ Is(t, "clear")
  /\ Goto(t, "restore")
  /\ UNCHANGED <<status, globals, settings, block, workers, stack, work,
                 tls, reg, at, history>>

-----------------------------------------------------------------------------
(* spin.h: bomp_barrier_wait on the barrier of block b, whose fields are     *)
(* max, cycle and counter.  The last to arrive goes on to label released.    *)

Arrive(t, b, waiting, released) ==
  LET last == block[b].counter = block[b].max - 1 IN
  /\ block' = [block EXCEPT ![b].counter = IF last THEN 0 ELSE @ + 1,
                            ![b].cycle = IF last THEN 1 - @ ELSE @]
  /\ Keep(t, block[b].cycle)
  /\ at' = [at EXCEPT ![t] = b]
  /\ Goto(t, IF last THEN released ELSE waiting)

Leave(t, waiting, released) ==
  /\ Is(t, waiting)
  /\ block[at[t]].cycle # reg[t]
  /\ Goto(t, released)
  /\ UNCHANGED <<status, globals, settings, block, workers, stack, work, tls, reg, at, history>>

-----------------------------------------------------------------------------
(* The start of a region.                                                    *)

(* GOMP_parallel_start inside a region only counts. *)
StartNested(t) ==
  /\ At(t, "parallel")
  /\ InParallel
  /\ Goto(t, "inc")
  /\ UNCHANGED <<status, globals, settings, block, workers, stack, work, tls, reg, at, history>>

(* The size of the team of a region that asks for n threads. *)
TeamSize(n) == IF n = 0 \/ (dynamic /\ numThreads < n) THEN numThreads ELSE n

(* GOMP_parallel_start outside a region, and bomp_start_processing up to the *)
(* creation of the workers: a block with the table of the team, its barrier  *)
(* and its works, and the caller as member 0.                                *)
StartRegion(t) ==
  LET n == TeamSize(Stmt(t).n)
      b == Len(block) + 1 IN
  /\ At(t, "parallel")
  /\ ~InParallel
  /\ workers + n - 1 <= MaxWorkers
  /\ gThreads' = n
  /\ block' = Append(block, [max |-> n, cycle |-> 0, counter |-> 0,
                             table |-> [i \in 0..(n - 1) |-> IF i = 0 THEN t ELSE -1]])
  /\ gArray' = b
  /\ tls' = [tls EXCEPT ![t] = [block |-> b, id |-> 0]]
  /\ Keep(t, 1)
  /\ Goto(t, "spawn")
  /\ team' = IF Len(stack[t]) = 1 THEN b ELSE team
  /\ UNCHANGED <<status, nested, settings, workers, stack, work, at, ran>>

(* One turn of the loop that creates the workers. *)
Spawn(t) ==
  LET w == workers + 1 IN
  /\ Is(t, "spawn")
  /\ reg[t] < block[tls[t].block].max
  /\ workers' = w
  /\ work' = [work EXCEPT ![w] = [block |-> tls[t].block, id |-> reg[t]]]
  /\ stack' = [stack EXCEPT ![w] = <<Stmt(t).body>>]
  /\ pc' = [pc EXCEPT ![w] = "born"]
  /\ Keep(t, reg[t] + 1)
  /\ UNCHANGED <<status, globals, settings, block, tls, at, history>>

(* pthread_create fails: linux_backend.c prints a line and goes on.  When    *)
(* clone fails, popcorn_backend.c ends the process.                          *)
SpawnFails(t) ==
  /\ mode.lossy
  /\ Is(t, "spawn")
  /\ reg[t] < block[tls[t].block].max
  /\ \/ /\ mode.backend = "linux"
        /\ Keep(t, reg[t] + 1)
        /\ UNCHANGED <<status, globals, settings, block, workers, pc, stack, work,
                       tls, at, history>>
     \/ /\ mode.backend = "popcorn"
        /\ EndProcess("exited")

Spawned(t) ==
  /\ Is(t, "spawn")
  /\ reg[t] = block[tls[t].block].max
  /\ Goto(t, "inc")
  /\ UNCHANGED <<status, globals, settings, block, workers, stack, work, tls, reg, at, history>>

(* nested++ is a load and a store, and then the caller runs the body. *)
LoadToInc(t) ==
  /\ Is(t, "inc")
  /\ Keep(t, nested)
  /\ Goto(t, "incremented")
  /\ UNCHANGED <<status, globals, settings, block, workers, stack, work, tls, at, history>>

StoreInc(t) ==
  /\ Is(t, "incremented")
  /\ nested' = reg[t] + 1
  /\ stack' = [stack EXCEPT ![t] = <<Stmt(t).body, Tail(Todo(t))>> \o Tail(@)]
  /\ Goto(t, "run")
  /\ UNCHANGED <<status, gThreads, gArray, settings, block, workers, work, tls, reg, at, history>>

-----------------------------------------------------------------------------
(* bomp_thread_fn.                                                           *)

(* bomp_set_tls of a worker: it enters itself in the table that              *)
(* g_array_thread_local_data points to now.                                  *)
Register(w) ==
  /\ Is(w, "born")
  /\ IF gArray = Null \/ work[w].id >= block[gArray].max
     THEN EndProcess("crashed")
     ELSE /\ block' = [block EXCEPT ![gArray].table[work[w].id] = w]
          /\ tls' = [tls EXCEPT ![w] = work[w]]
          /\ Goto(w, "run")
          /\ UNCHANGED <<status, globals, settings, workers, stack, work, reg, at, history>>

(* A worker has run the body and waits for the team. *)
WorkerDone(w) ==
  /\ Is(w, "run")
  /\ w # Main
  /\ stack[w] = <<<<>>>>
  /\ Arrive(w, work[w].block, "exitBarrier", "exit")
  /\ ran' = ran \cup {<<work[w].block, work[w].id>>}
  /\ UNCHANGED <<status, globals, settings, workers, stack, work, tls, team>>

(* The end of a worker: a pthread returns; backend_start_func of cthread.c    *)
(* calls clone_exit, which calls exit.                                       *)
WorkerExit(w) ==
  /\ Is(w, "exit")
  /\ \/ /\ mode.backend = "linux"
        /\ Goto(w, "dead")
        /\ UNCHANGED <<status, globals, settings, block, workers, stack, work,
                       tls, reg, at, history>>
     \/ /\ mode.backend = "popcorn"
        /\ EndProcess("exited")

-----------------------------------------------------------------------------
(* The body: barriers, single constructs, code for one member.               *)

(* GOMP_barrier, with the assertion that the thread has local data. *)
Barrier(t) ==
  /\ At(t, "barrier")
  /\ IF tls[t] = NoTls
     THEN EndProcess("crashed")
     ELSE /\ Arrive(t, tls[t].block, "barrier", "run")
          /\ Advance(t)
          /\ UNCHANGED <<status, globals, settings, workers, work, tls, history>>

(* GOMP_single_start: the thread runs the construct or skips it. *)
Single(t) ==
  /\ At(t, "single")
  /\ Advance(t)
  /\ Goto(t, IF tls[t] = NoTls \/ tls[t].id = 0 THEN "single" ELSE "run")
  /\ UNCHANGED <<status, globals, settings, block, workers, work, tls, reg, at, history>>

EndSingle(t) ==
  /\ Is(t, "single")
  /\ Goto(t, "run")
  /\ UNCHANGED <<status, globals, settings, block, workers, stack, work, tls, reg, at, history>>

(* The program tests omp_get_thread_num(), as #pragma omp master does for 0. *)
Only(t) ==
  /\ At(t, "only")
  /\ stack' = [stack EXCEPT ![t] =
       <<(IF ThreadNum(t) = Stmt(t).n THEN Stmt(t).body ELSE <<>>) \o Tail(Todo(t))>> \o Tail(@)]
  /\ UNCHANGED <<status, globals, settings, block, workers, pc, work, tls, reg, at, history>>

-----------------------------------------------------------------------------
(* GOMP_parallel_end and bomp_end_processing.                                *)

(* The body of a region that t has started is over: test nested. *)
EndRegion(t) ==
  /\ Is(t, "run")
  /\ Todo(t) = <<>>
  /\ Len(stack[t]) > 1
  /\ Goto(t, IF nested = 1 THEN "end" ELSE "dec")
  /\ ran' = IF t = Main /\ Len(stack[t]) = 2 THEN ran \cup {<<team, 0>>} ELSE ran
  /\ UNCHANGED <<status, globals, settings, block, workers, stack, work, tls, reg, at, team>>

(* bomp_barrier_wait(g_array_thread_local_data[0]->work->barrier) *)
EndBarrier(t) ==
  /\ Is(t, "end")
  /\ IF gArray = Null
     THEN EndProcess("crashed")
     ELSE /\ Arrive(t, gArray, "endBarrier", "clear")
          /\ UNCHANGED <<status, globals, settings, workers, stack, work, tls, history>>

(* g_array_thread_local_data = NULL; *)
Clear(t) ==
  /\ Is(t, "clear")
  /\ gArray' = Null
  /\ Goto(t, "restore")
  /\ UNCHANGED <<status, nested, gThreads, settings, block, workers, stack, work,
                 tls, reg, at, history>>

(* g_thread_numbers = 1; *)
Restore(t) ==
  /\ Is(t, "restore")
  /\ gThreads' = 1
  /\ Goto(t, "dec")
  /\ UNCHANGED <<status, nested, gArray, settings, block, workers, stack, work,
                 tls, reg, at, history>>

(* nested-- is a load and a store. *)
LoadToDec(t) ==
  /\ Is(t, "dec")
  /\ Keep(t, nested)
  /\ Goto(t, "decremented")
  /\ UNCHANGED <<status, globals, settings, block, workers, stack, work, tls, at, history>>

StoreDec(t) ==
  /\ Is(t, "decremented")
  /\ nested' = reg[t] - 1
  /\ stack' = [stack EXCEPT ![t] = Tail(@)]
  /\ Goto(t, "run")
  /\ UNCHANGED <<status, gThreads, gArray, settings, block, workers, work, tls, reg, at, history>>

(* The program is over: main returns. *)
MainReturns ==
  /\ Is(Main, "run")
  /\ stack[Main] = <<<<>>>>
  /\ EndProcess("exited")

-----------------------------------------------------------------------------
Step(t) ==
  \/ SetNumThreads(t) \/ SetDynamic(t) \/ SetNested(t)
  \/ StartNested(t) \/ StartRegion(t) \/ Spawn(t) \/ Spawned(t)
  \/ LoadToInc(t) \/ StoreInc(t)
  \/ Register(t) \/ WorkerDone(t) \/ WorkerExit(t)
  \/ Barrier(t) \/ Single(t) \/ EndSingle(t) \/ Only(t)
  \/ EndRegion(t) \/ EndBarrier(t) \/ Clear(t) \/ Restore(t)
  \/ LoadToDec(t) \/ StoreDec(t)
  \/ Leave(t, "barrier", "run")
  \/ Leave(t, "endBarrier", "clear")
  \/ Leave(t, "exitBarrier", "exit")

(* The process is gone. *)
Over == status # "running" /\ UNCHANGED vars

Next == \/ \E t \in Tid : Step(t) \/ SpawnFails(t)
        \/ MainReturns
        \/ Over

Spec == Init /\ [][Next]_vars

(* The kernel keeps scheduling every thread that can run. *)
Fairness == WF_vars(MainReturns) /\ \A t \in Tid : WF_vars(Step(t))

FairSpec == Spec /\ Fairness
-----------------------------------------------------------------------------
(* Programs without a region inside a region, in which a barrier is in the   *)
(* way of all members of a team or of none.  The main thread runs statements *)
(* of the set serial, a body consists of statements of the set body, and     *)
(* what only one member runs of statements of the set member.                *)
Flat(programs, serial, body, member) ==
  /\ programs \subseteq Seq(serial)
  /\ member \subseteq body
  /\ \A s \in serial : /\ s.op = "parallel" => s.n \in Nat /\ s.body \in Seq(body)
                       /\ s.op = "only" => s.body \in Seq(serial)
  /\ \A s \in body : /\ s.op # "parallel"
                     /\ s.op = "only" => s.body \in Seq(member)
  /\ \A s \in member : s.op # "barrier"
  /\ \A s \in serial \cup body : s.op = "num_threads" => s.n \in Int
-----------------------------------------------------------------------------
TypeOK ==
  /\ status \in {"running", "exited", "crashed"}
  /\ nested \in Int /\ gThreads \in Nat /\ gArray \in 0..Len(block)
  /\ numThreads \in Nat \ {0} /\ dynamic \in BOOLEAN
  /\ workers \in 0..MaxWorkers
  /\ pc \in [Tid -> PC]
  /\ \A t \in Tid : /\ work[t].block \in 0..Len(block)
                    /\ tls[t].block \in 0..Len(block)
                    /\ at[t] \in 0..Len(block)
  /\ \A b \in DOMAIN block : block[b].counter \in 0..(block[b].max - 1)

(* The main thread runs the serial part of the program. *)
Serial == pc[Main] \in {"run", "single", "barrier"} /\ Len(stack[Main]) = 1

InBody(t) == pc[t] \in {"run", "single", "barrier"}

(* After a region every member of its team has run the body, and so has     *)
(* every worker ever created: the program may use what they computed.       *)
JoinComplete == Serial =>
  /\ team # Null => \A i \in 0..(block[team].max - 1) : <<team, i>> \in ran
  /\ \A w \in 1..workers : <<work[w].block, work[w].id>> \in ran

(* A worker in the body finds the tables of its own team: the global array  *)
(* is the one of its region and it is entered there under its number.       *)
OwnTeam == \A w \in 1..workers : InBody(w) /\ status = "running" =>
             /\ tls[w] = work[w]
             /\ gArray = work[w].block
             /\ block[gArray].table[tls[w].id] = w
             /\ gThreads = block[gArray].max

(* Nothing of a region is left in the globals of the runtime. *)
SerialGlobals == Serial => nested = 0 /\ gThreads = 1 /\ gArray = Null

(* With the popcorn backend the main thread runs the body of a region only   *)
(* if the whole team exists.                                                 *)
TeamComplete == Len(stack[Main]) > 1 /\ status = "running" /\ mode.backend = "popcorn" =>
  \A i \in 1..(block[team].max - 1) :
    \E w \in 1..workers : work[w] = [block |-> team, id |-> i]

(* t is the first thread of the innermost region it executes: whoever       *)
(* started a region is, a worker is not in the region it was created for.   *)
FirstThread(t) == t = Main \/ Len(stack[t]) > 1

(* GOMP_single_start: "This function should return true for just the first  *)
(* thread" (parallel.c, line 64).  The code asks for the number of the      *)
(* thread in the team it was created for, so the only thread of a nested    *)
(* region that a worker has started runs no single construct of it: the     *)
(* property does not hold.                                                  *)
SingleByFirst == [][\A t \in Tid : Single(t) => (pc'[t] = "single") = FirstThread(t)]_vars

(* If no creation of a thread fails, every region ends and so does the      *)
(* program.                                                                 *)
ProgramEnds == mode.lossy \/ <>(status # "running")

(* The runtime implements fork and join, and a program whose worker could   *)
(* not be created goes on in no other way.  Only a thread of the popcorn    *)
(* backend, whose end takes the process with it, has no place there.        *)
Abstract == INSTANCE ForkJoin WITH
  Sizes <- 1..(MaxWorkers + 1),
  phase <- IF mode.backend = "popcorn" THEN "serial"
           ELSE CASE status = "exited"  -> "over"
                  [] status = "crashed" -> "crashed"
                  [] OTHER -> IF Serial THEN "serial" ELSE "parallel",
  todo <- IF mode.backend = "popcorn" \/ team = Null THEN {}
          ELSE {i \in 0..(block[team].max - 1) : <<team, i>> \notin ran}
ImplementsForkJoin == Abstract!Spec
=============================================================================
