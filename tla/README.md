# A formal model of mklinux-utils

mklinux-utils holds the user-space tools of Popcorn Linux, which runs several
Linux kernels on one machine: an OpenMP runtime, an IP tunnel between kernels,
the tools that partition the machine and boot the other kernels, and a set of
servers, tests and benchmarks. The modules of this directory model the parts in
which threads, processes or kernels share memory, and two programs whose
arithmetic over tables of memory is easy to get wrong; TLC checks them on small
instances, and TLAPS proves the central properties for every instance.

To check: `tlc -config X.cfg M` for a run of the table below (the module is the
`MC` module that `PROJECT.json` names for it), `tlapm M.tla` for a module of
proofs. `PROJECT.json` lists the runs, the lines each definition models, the
hazards, the findings and the theorems.

## The system

| part | state | operations | talks to | hard behaviour |
|---|---|---|---|---|
| team barrier, `bomp/lib/spin.h` | `max`, `cycle`, `counter` | init, wait | the threads of a team | reuse at once, reset against arrival |
| spinlock, `spin.h`, `parallel.c` | one word per lock | lock, unlock; critical and atomic sections | threads | test and set, spinning |
| parallel regions, `parallel.c`, `processing.c`, `omp.c` | `nested`, `g_thread_numbers`, `g_array_thread_local_data`, settings, a block per region | start and end of a region, barrier, single, settings, thread numbers | barrier, backend, cthread | fork and join, nesting, globals read by workers, creation failing |
| backends, `linux_backend.c`, `popcorn_backend.c` | a key of thread local data | create a thread, get and set local data | pthread, cthread | failures |
| cthread library, `cthread.c` | table of keys, thread areas, the register `fs` | initialize, create, keys, specific values, restore, exit | clone, the backend | a compare-and-swap in C, a change of area under a running thread, exit of the group |
| IP tunnel, `tunnel.c` | a slot per kernel: `magic`, `status`, `lock`, `i`, `buffer` | open, send, receive | tun device, the tunnels of other kernels | several senders, restart, no common lock with the receiver |
| partitioning, `mpart.c` | tables of regions, nodes and chunks | read the machine, divide memory among nodes, place each kernel on cores and memory | boot scripts | alignment, holes, signed against unsigned |
| boot, `copy_ramdisk.c`, `write_cmdline.c`, `read_cmdline.c`, `lib/popcorn.c`, `mklinux_boot*.sh` | boot parameters, physical memory, the other kernel | place ramdisk and command line, start, wait for it, retry | kernel, tunnel area | order, retry, lost updates of the parameters |
| image tools, `kcore.c`, `dump_shdr.c` | files | compute offsets, write headers, copy segments | `/dev/mem` | a position nobody sets, calls that fail or are short |
| web server, `tinyhttpd/httpd.c` | sockets, pipes, threads, processes | accept, serve a file, run a CGI | clients | pipes between three parties |
| latency tests, `latency_tests/` | a packet in shared memory | call, answer | each other | a ready flag as the only order, restarts |
| migration tests, `migration_tests/` | spinning flags | rendezvous, migrate | kernel | what the kernel does with a migrated thread |
| benchmarks, `bomp/benchmark/` | arrays | phases of parallel loops | the OpenMP runtime | phases that rely on barriers |

What makes each part correct:

- Barrier: nobody leaves an episode before everybody has arrived; it can be
  used again at once; every wait returns.
- Lock: one holder; no lost update; somebody gets it.
- Regions: the program continues after a region only when every member has run
  the body; a worker finds the tables of its own team; nothing of a region is
  left behind; a single construct is run by the first thread of its region;
  failures of thread creation are not taken for success.
- cthread: a key is given to one caller; each thread finds its own area and in it
  its own values.
- Tunnel: packets arrive whole, in order, at most once, at the right kernel; a
  full slot is not overwritten; a sender gets through; all this over restarts.
- Partitioning: nodes and kernels do not overlap, a chunk holds as much memory as
  was promised whatever holes it crosses, no processor is given away twice.
- Image tools: a segment is where its program header says, whatever failed.
- Boot: a kernel is started with the parameters written for it.
- Web server: every request is answered in full and closed, no process waits
  for ever. (The code does not do all of this: see Runs.)
- Benchmarks: what the members of a team add up is complete when one of them uses
  the sum.
- Latency tests: an answer belongs to its call, and no message is misread.

## Modules

| module | what it is |
|---|---|
| `Barrier` | what a barrier promises (abstract) |
| `Team` | the threads that share barrier and locks |
| `BompBarrier` | `bomp_barrier_wait`, one action per access to the structure |
| `BompBarrierProofs` | its invariant, its safety properties, that it implements `Barrier`, that somebody can always go on and that a release reaches every thread |
| `Mutex` | what a lock promises (abstract) |
| `BompLock` | `bomp_lock`, instruction by instruction, and the sections built on it |
| `Checksum` | the iterations of `checksum()` in `benchmark/ft.c`: `BompLock` and `BompBarrier` composed |
| `ChecksumProofs` | of `BompLock`: the invariant, `NoLostUpdate`, that it implements `Mutex`, that somebody can always go on, and `LockGranted` for each thread; of the composition: `SumsComplete` |
| `ForkJoin` | what a parallel region promises (abstract) |
| `BompParallel` | regions: `GOMP_*`, `bomp_*_processing`, `omp_*`, the backends |
| `BompParallelProofs` | its invariant, its safety properties, that it implements `ForkJoin` and that its threads never all wait |
| `Cthread` | `cthread.c` under `popcorn_backend.c`: keys, values, areas, `fs` |
| `CthreadProofs` | its invariant and its three properties |
| `Link` | what the tunnel promises of each destination, over kills and restarts (abstract) |
| `Tunnel` | `open_shm`, `pop_send`, `pop_recv`, one action per access to a slot |
| `BootSequence` | the boot scripts, the tools they run, the kernels they start |
| `Httpd` | the web server: accept loop, request threads, forked scripts, pipes |
| `HttpdProofs` | its invariant, types, `AnswerWhole`, `ScriptGetsBody`, `LeftOpen` |
| `RemoteCall` | what a remote call promises when parties may die (abstract) |
| `ShmRpc` | `latency_tests/client.c` and `server.c`, one action per access to the packet |
| `SharedMemoryProofs` | of `Tunnel`: types, the lock, whole packets, order, addressees, the safety part of `Link`, that every packet arrives and every sender gets through; of `ShmRpc`, its instance `R`: the invariant, `MessagesUnderstood`, the safety part of `RemoteCall`, that calls are served and return |
| `Mpart` | `mpart.c`: reading the machine, dividing it, the three policies |
| `MpartProofs` | its two invariants and its four properties |
| `Kcore` | `kcore.c`: offsets, headers, the copying loop with failing calls |
| `KernelProofs` | of `BootSequence`: types, the invariant, `StartsPrepared`, `OwnParameters`, `NotSpoiled`; of `Kcore`, its instance `K`: the invariant and `ErrorsStayLocal` |
| `MC*` | instances of these for TLC |

### BompBarrier

A thread is at `pc` "out", and inside the wait at "add" (it has read `cycle`),
"spin", or, if it arrived last, "reset" and "flip". The two stores of the last
arriver are two actions: a thread that was released by an earlier flip can come
back between them. `done` and `flips` are history. The word `counter` is
unbounded in the model and never exceeds `max` (`RoomOnArrival`, proved).
The code compiled is the code modelled: `cycle` and `counter` are volatile and
x86 keeps stores in order.

### BompLock

`Cmp` is the `cmpq` that finds zero, `Bts` the locked `btsq` with the test of
its carry, `Unlock` the plain store. Between them a thread loads and stores a
word of its lock. A word is protected by one of the two locks: `critical_lock`
and `atomic_lock` do not exclude each other, and gcc never uses both for one
construct.

### Checksum

`checksum()` of `ft.c` is called by every member of a team in each iteration: the
member adds its part to a shared sum in a critical section (`AddPart`,
`InSection`), waits at a barrier and comes to a single, which ends with another
barrier (`CallBarrier`, `InBarrier`). The reductions of `cg.c` do the same under
the atomic lock; `LockOf` says which lock an iteration takes. The steps are those
of `BompLock` and `BompBarrier`, unchanged, and a member does one or the other.
The numbers that are added, and how a loop is divided among the members, are
left out: each member adds 1. `SumsWhole` is what neither part says alone: whoever
is between the two waits sees the sum of all parts of this iteration and of none
of the next.

### BompParallel

A program is what gcc makes of an OpenMP program: a sequence of statements, of
which "parallel" has a body that the team runs. `stack[t]` is what is left of
the bodies thread `t` runs. The steps of `bomp_start_processing` that only the
caller can see are one action (`StartRegion`), those another thread can see in
between are separate: each creation of a worker, the load and the store of
`nested++`, the registration of a worker in the table, the store of NULL to the
global array, the restoring of `g_thread_numbers`. A barrier is used at the
grain that `BompBarrier` justifies. A null or wild pointer and a failed
assertion end the process as "crashed", `exit` as "exited". A behaviour has one
of the backends and either reliable or unreliable creation of threads (`Modes`).
With pthreads a failure is only logged, so that the team waits for the missing
member for ever; with clone the process ends. With clone it also ends when the
first worker has run its body, since the library ends a thread with `exit`
(`cthread.c:96`, reached from `clone_exit`): the properties that a program goes
on after a region (`ProgramEnds`, `ImplementsForkJoin`) are about pthreads.

### Cthread

`area[t]` is the thread control block the library allocates for `t`, of which
`self`, the stack guard and the first block of values matter; `fs[t]` is the
register. `Initialize` moves the main thread from libc's area to one of the
library's while it runs; the memory of this area is not cleared where the values
are, which the model has as `Junk`. `cthread_key_create` is split into the read
of `seq`, the comparison and the store, as the macro in `cthread.c:401` is an
expression and no locked instruction. Everything else touches the area of its
own thread or one word of the table and is one action. With eight keys and 32
places per block the second level of tables is never entered.

### Tunnel

`slot[d]` is the area of kernel `d`; a packet is copied in two halves so that a
copy can be seen half done, and the length in field `i` is represented by the
packet it belongs to, so that a length and a buffer that do not match can be
told. What memory holds at boot is arbitrary except that it is not the magic
number. `Kill` ends a process anywhere and leaves the area as it is; `Start`
runs `main` again. Out-of-range slots (`Wild`) fault or read memory without the
magic number. The fields are not volatile; the Makefile compiles without
optimisation, so every access of the source is one of the program. An optimised
build could keep `i` in a register, which is outside this model. So are the
failures of the tun device: `tun_read` that returns -1, which the code takes for
a length, and `tun_write`, whose result the code ignores: what is `delivered` was
handed to the device. `Link` has a destination open while its process is past
`open_shm`'s first store and closed while it is down; `OnItsWay` is the packet a
sender has published and the receiver has not handed over.

### BootSequence

`pc` is the place in the script, `a` its loop variable. `mklinux_boot.sh` is one
action per tool, and `copy_ramdisk` and `wr_cmdline` one per access to the
memory the kernels share: load, save and re-read of `boot_params`, clearing and
writing of the command line. `Fail` is any early exit of `mklinux_boot.sh` or of
a tool; the loops do not look at it. A kernel that was started reads the
parameters in two actions of its own, at any time, or hangs, or opens its tunnel
and so writes the magic number the script looks for. Addresses keep what the
fields keep of them (`Split`), a command line is the number of its kernel and a
length that is cut. The script chosen and what may go wrong are a record `env`
fixed by `Init`: which of the two loops, failing tools, hanging starts, whether
a kernel is done before the script's time is over (`prompt`, `soon`), slots with
the magic number of an earlier boot (`stale`). Time is only this: whether a wait
was long enough. What a kernel does with its image, and the log files, are left
out; so is the size of the ramdisk, which takes the same way as its address.

### ShmRpc

The packet has three registers that are used and a bit that says whose turn it
is. Every load and store of a register is an action; setting and clearing the
bit is one, because nothing else is in its word. Kills and restarts of either
program are not handled in the code but happen: the segment has a fixed key and
outlives both. `spoiled` records a kill that whoever starts anew cannot know of,
a client's while its call is with the server or a server's between the answer
and the end of the call. Everything is promised until then, over any number of
other kills; `RemoteCall` has this as `Break`.

### Mpart

A machine (`Machines`) is what the files of `/proc` and `/sys` say: lines of RAM,
nodes with sizes and processors, how many digits a map of processors has. `pc`
follows `main`: summing the nodes, reading the regions, the loop that gives each
node its part from the top of memory downwards, and one policy. Which policy is
called depends on the calls that are commented out in `main`; all three are
modelled. The loop over holes is one action per region (`NextRegion`). Addresses
are integers in any unit; where the code compares signed with unsigned numbers
they are taken modulo `Wrap`. Where the program reads or writes outside its
table it is "undefined" and the model stops. `parts` has the numbers that
`printf` is called with before they are shifted to megabytes; the shift changes
nothing in multiples of a megabyte, and its cutting of others is left out. Lists are numbered from 1: node 1
and region 1 of the model are 0 of the code. `vty_offset` and the other words of
the printed line that follow from these are left out.

### Kcore

The file is a function from positions to bytes, memory holds at each address the
address. `WriteHdr`, `Seek` and `CopyPage` fail or are short at any time, up to a
bound; a page whose read failed keeps what the buffer held, a short write moves
the position by what arrived. The file may have an older, longer content, since
it is not truncated. The position in the file is never set by the code:
`ErrorsStayLocal` says that it is nevertheless where the headers promised.

### Httpd

One process serves all requests, so its descriptors are one set, `server`, of
ends: the client's socket, the file, four pipe ends per request. `Fork` copies
the whole set into the new process, `Exec` closes the two ends the code closes;
an end is `Open` while any process holds it, and a reader of a pipe sees its end
only when the writing end is not open. This is what makes requests depend on
each other. A thread is at a label between two system calls; reading the request
line and the headers concerns nobody else and is part of `Dispatch`. A body is
its bytes, counted; an answer is the status and what follows it. What the client
asks and what the script does (read a byte, read to the end, write a byte) are
inputs. An answer 501 ends in `accept_request`'s return without `close`: the
thread is done and the connection stays open. The server ends as "exited" (`error_die`), "crashed" (`fclose(NULL)`) or
"killed" (SIGPIPE). The stdio buffer a forked
process inherits is left out: when the output of the server is not a terminal, a
process whose `execl` fails writes the line that `main` printed at its start into
the answer. The counters `i` and `c` are those of the function a thread is in.

## Runs

| run | instance | shows |
|---|---|---|
| checksum | 4 threads, 2 iterations, one under each lock | complete sums, no early release, no lost arrival, every wait returns, refinement of `Barrier`, no lost update, locks are granted, refinement of `Mutex` |
| parallel | 6 programs, up to 4 workers, both backends, failing creations | join, whole teams, own team, clean globals, termination, refinement of `ForkJoin` |
| parallel_single | a nested region of a worker, violation | a single construct nobody runs |
| tunnel | 2 kernels, 3 packets, 3 starts each, addresses up to 255 | the inductive invariant for whole packets, order and no second delivery, right addressee, the sender gets through, refinement of `Link` |
| tunnel_overwrite | 3 kernels, violation | two senders, one slot |
| httpd | 2 requests, pipes of 1 byte | whole answers, bodies in order, what stays open and when, good requests end, connections are closed |
| httpd_cat | files without a last newline, violation | the last line is not sent |
| boot | 3 kernels, both scripts | own parameters, no running kernel overwritten, started prepared, all come up |
| cthread | 3 threads, 2 keys | keys given once, own area, own values |
| mpart | 10 memory maps, up to 3 nodes, 3 policies | nodes tile memory, maps end at their limit, one kernel per processor, whole chunks |
| kcore | 9 tables of 2 or 4 segments, 2 faults | faults stay in their segment |
| rpc | 3 calls, 3 kills | messages understood, refinement of `RemoteCall` |

The deadlock check is off where the system really stops: `PROJECT.json` says why
for each run.

In three runs the code disagrees with its own comment, and TLC shows the shortest
way to it.

`tunnel_overwrite`: `src/tunnel.c:147`, "lock is for multi writer".
`pop_send` looks whether the slot is empty before it takes the lock and not again
after it, so that a second sender overwrites a packet that was published and not taken.

`parallel_single`: `src/bomp/lib/parallel.c:64`, "This function should return true
for just the first thread". `GOMP_single_start` asks for the number that the
thread has in the team it was created for. A worker that starts a nested region
is its first thread and still has its number in the outer team, so that
the block of a single construct in that region is run by nobody.

`httpd_cat`: `src/tinyhttpd/httpd.c:151`, "Put the entire contents of a file out on
a socket". The loop of `cat` tests `feof` between reading a line and sending it, so
that a last line without a newline is read and not sent.

Why the bounds are enough. The barrier tells episodes apart by one bit, so what
can go wrong needs two episodes and a thread left behind; four of each leave
room on both sides. The lock has no memory beyond its word; with four threads
two can wait at the same word while others are at the barrier, and the second
iteration has the other lock. The programs of
`MCBompParallel` contain every kind of statement, regions of one to four
threads after each other in both orders of size, nested regions of the master
and of a worker, and all settings. For the tunnel three packets let a sender
wait on a slot that is full, taken and full again; one sender and one receiver
suffice for what concerns one slot and its owner, as slots share nothing, and a
third kernel is there when senders compete. Three starts put a restart before and
after another. Two requests are enough for one script to inherit the
ends of the other, in either order; pipes of one byte are full at once; the
tables hold either everything both requests need, or not. Three kernels give one
that is first, one between others and one that is last; one address fits the
lower field, one needs the shift, one does not fit it; command lines are shorter
than, as long as and longer than the buffer. Three threads and two keys let two
callers race for one key, leave one for a third, and find the table full.
The maps of `MCMpart` have no region, one, and several, holes below and above the
reserved part, regions smaller than a chunk and smaller than a unit of alignment,
a table that is filled to its end and one that is too short; nodes end inside a
region or reach down over holes, miss a number, or have no size; there are
processors that the digits read do not cover. The segments of `MCKcore` are
empty, have partial and full last pages, up to three pages, and a type that is
left out; with two faults one may hide the other. Three kills let
client and server be killed in the same call and in different ones.

What the model leaves open and the programs avoid: nested regions that two
threads of a team start or end at the same time (`nested++` is not atomic), a
region inside a region of one thread, barriers in serial code. The hazards in
`PROJECT.json` say what happens then.

## Fairness

Every thread is scheduled again and again: weak fairness of the steps of each
thread (in `Checksum`, of `Member` for each), nothing more. The spinlock is not
fair and `LockGranted` does not say which thread gets it. Weak fairness of `Start`
says that whoever killed a tunnel starts it again; `pop_send` gets its packets from outside, so `Read` has
no fairness. `SenderGetsThrough` excludes the case of a sender that was killed:
it may leave `lock` at 1, and the others then spin for ever.

In `ShmRpc` both programs are scheduled and the server is started again when it
was killed; nobody has to start a client or to make a call, so `RemoteCall` asks
only that a call which was made is served and returns, and counts a client that
was killed as `Forget`. `Cthread`, `Mpart` and `Kcore` have no liveness property:
the first is a library, the other two are single sequences of steps over tables
of fixed size that stop at their ends.

In `Httpd` the kernel schedules every thread and every script, and the accept
loop takes each connection; a client is under no obligation. `EndsUnlessHeld`
speaks of requests whose script reads its whole body before it writes, since
with others the two pipes may block both sides, and it admits one exception,
which does occur: a script forked for a bad request that has inherited a pipe end
and never exits. `AnswerEnds` excepts the connection of an answer 501, which
`accept_request` never closes. In `BootSequence` the script takes its steps, its time passes
and a started kernel boots; a kernel that hangs is never up. `AllUp` therefore
asks for the script that retries when first starts may hang.

## Proofs

Barrier. `IInv` says that `cycle` is the parity of the episodes, that the place
of a thread tells which episode it is in, that `counter` counts the threads
that have arrived in the open one and that the thread between reset and flip is
alone with everybody arrived. `NoEarlyRelease` alone is not inductive: nothing
in it tells how many have been counted. The proof has one lemma per action;
the cardinality of the arrived set is what the fetch-and-add returns.
`SomebodyGoesOn` is the absence of deadlock with any number of threads.
`CanStep` is the guard of a thread's next access. `PInv` adds to `IInv` that who is in
a call had a call to make (`Entitled`) and that, when all have arrived, one of them
is at the reset or the flip (`LastCloses`): if everybody who is in a call spins,
somebody else has still to arrive, and may. `ReleaseIsNotTakenBack` says why one bit is enough for
`cycle`: it cannot flip a second time while a thread that the first flip released
still compares. `ReleaseReachesAll` is its use: from the last arrival on, each
thread returns if it and the last one are scheduled, whatever the others do.

Lock (in `ChecksumProofs`). Mutual exclusion rests on the word being 1 exactly while somebody is
inside, and `NoLostUpdate` on a holder's register being current. It also gives
`SomebodyGoesIn`: a thread that sees 1 waits for a holder, and the next
instruction of a holder waits for nothing. `Granted` is `LockGranted` for each
thread.

Composition. A step of `Checksum` is a step of the lock or of the barrier that
leaves the other alone (`OneAtATime`), so that what is proved of the two carries
over (`Composed`). `Places` adds how they follow each other: a member in a section
is at no wait, and its waits are two for each part it has added, less those it has
still to make. Together with the place that the invariant of the barrier gives
each thread in the episode, `SumsComplete` follows: whoever is between the two waits
of an iteration finds every member's part added and nobody at one of the next, and
no update lost. That the numbers then add up as `SumsWhole` says is checked, not
proved.

Parallel regions. The proof is about flat programs, `ProgramsFlat`: the main
thread starts regions one after the other, and no body starts another. They are
the programs the compiler makes of loops without nesting; TLC evaluates
`FlatProgramsAssumption`, that the instance has such programs, in the run
`parallel`, whose nested programs stay with TLC. Everything else is arbitrary:
the statements, the number of workers, both backends, which creations fail.
The properties say what the caller sees, and none of them is inductive. The
invariant follows a region from the fork to the join. `MainPlace` and `SpawnLoop`
say where the caller is and how many members exist by then; `WorkerPlace` does
so for a worker, `BusyInOpen` says that one which is not yet on its way out
belongs to the region that is open, and `Distinct` and `TablesFit` that its number is
its own and inside the table. `CounterCounts` and `InStep` tie the counter of each
barrier of the block to the threads that stand at it, so that the caller
passes the last barrier only when the body has been run by all (`RanBody`);
`WholeTeam` adds for clone that the team has no gap. `JoinIsComplete`,
`TeamIsComplete`, `TablesAreOwn` and `GlobalsRestored` follow from it. `ForkJoinRefinement` maps each step to a step of `ForkJoin` or to none:
`StartRegion` forks, the last statement of a body finishes a member, the store
of `nested--` joins. It takes `NoSerialBarrier` in addition, since a barrier
outside a region crashes the process, or waits for a team that is gone, neither of
which is a behaviour of `ForkJoin`.
`SomebodyGoesOn` says that the threads of the process never all wait, unless a
worker is missing because it could not be created. It needs nearly all of `IInv`:
if the main thread waits, the region is open and its team is whole (`WholeTeam`),
every worker of it is still in front of the last barrier (`BusyInOpen`) and, if it
waits too, waits at the same one with the same `cycle` (`WorkerPlace`); then the counter
is the size of the team, which it never is (`CounterCounts`). The liveness half of
`ForkJoin` stays with the run.

Tunnel. `TypeCorrect` holds for any set of kernels, addresses and restarts.
`LockExcludes` takes `UpSpec`, where every tunnel is up, and that none is
started again: `open_shm` publishes the magic number before it clears `lock`, so
that a starting tunnel may free a lock that a sender has just taken. Its
invariant is that whoever writes a slot finds its lock at 1. `PacketsWhole` and
`PacketsKeptUntilTaken` take the condition `Exclusive`, that no two kernels send
to the same slot, as on a machine with two kernels; `tunnel_overwrite` shows that
it cannot be dropped. Their invariant `WholeInv` follows a packet through the
slot: it is filled while `i` is zero, is whole while `i` is not, and stays until
the receiver has written it. Kills and restarts are unrestricted.

`PacketsInOrder` and `AddresseeRight` need no such condition: with any number of
senders to a slot, with the lock held by several or left at 1 by one that was
killed, the length that is handed over is of a packet for this kernel and later
than all before it of the same sender. The reason is in `OrderInv`. A sender
reads its next packet only after it has published or dropped the one before, so
its packets enter a slot in order; `i` is what publishes them, and pop_recv
clears it itself or `open_shm` does, before the receiver looks at it again. What
the slot holds is therefore later than what was given, except in the one step
between the write and the clearing. `Held` is what may still be given, and a
packet that is still to be published is after all of it.

`LinkRefinement` shows the safety part of `Link` under `Exclusive`, over any kills
and restarts. A restart drops the packet that the slot holds, which is `Open` of
`Link`; every other way to lose, repeat or change a packet is excluded. Nothing
is assumed of the order in which the tunnels come up, nor that they stay up: a
sender may fault on an address outside the area. `RefInv` joins to `WholeInv` and `OrderInv` that
who is past `CheckMagic` has seen the magic number, which stays (`FoundStep`), and
that what pop_recv is about to clear was handed over (`ClearedStep`). `OnItsWay` is the packet in the slot unless
pop_recv has written it already and is about to clear it. A `Publish` is then a
`Send` (`LinkSend`), the second half of a `Write` a `Receive` (`LinkRecv`), the steps of
`open_shm` are `Open` and `Announce`, a fault or a kill is `Close` (`LinkMain`), and every
other step a stutter, a `Publish` into the slot of no kernel included.

`PacketsArrive` is what the fairness of `Link` is about, where no two kernels send to
one slot and none is started twice (`MaxStarts = 1`, since a restart drops the packet
in the slot): a packet that was sent is handed over, if `main` and `pop_recv` of its
destination are scheduled. The packet may have been sent before `pop_recv` exists,
as the magic number is stored first, so that the proof begins in `open_shm`. Its
invariant `Channel` says that what was handed over is a prefix of what was sent
(`Prefix`), and that exactly one more was sent while the slot holds a packet that
pop_recv is not about to clear (`InTransit`), which is what pop_recv polls for.
`SendersGetThrough` is the other end: a sender that polls the slot leaves it with its
packet published, if it and the tunnel of its destination are scheduled. It may find
the lock set by what memory held at boot and go round until `open_shm` has stored 0;
from then on (`LockHeld`) a lock that is set has somebody who writes, and with one
sender to a slot that is nobody else. A full slot is emptied by `pop_recv` and stays
empty for the sender that waits for it (`SlotStays`).

Boot. `PrepInv` says what each step of `mklinux_boot.sh` has left for those after
it; it is what `StartPrepared` needs, and it holds whatever fails. `LoopInv` says
that kernels beyond the loop variable are off and that one that is being booted
does not run; `WaitInv` that only the kernel the script waits for can be about to
read, and that the shared parameters are still its own. `OwnParameters` is not
inductive without them: it says nothing of a kernel that has not read yet. The
conditions (`Waits`, `soon`) are in the properties, not in the specification.

Cthread. `TakenIsUsed` carries the keys: `seq` of a key that was given is 1 for
ever, and a caller past its test looks at a key that was not given before it
began. That two calls at the same time may get one key is in the code, so
`KeyGivenOnce` speaks of the calls that began later. `StoredIsCurrent` ties what a
thread stored to the number its key has.

Web server. `Descriptors` says which ends the server holds for a request at each
place of its thread, and which a finished request has left: the connection after
an answer 501, pipes after `cannot_execute`, and otherwise none; `Table` that all
of them fit the table of descriptors. `LeftOpen` follows at once. `AnswerWhole` needs the pipes: the loop of
`execute_cgi` stops when the pipe `cgi_output` ends, and other processes may hold
its writing end or may not. `OwnProcess` says that the script of the request
itself holds it until it exits, so the pipe cannot end earlier; that the pipe may
end later is a matter of liveness. `Written` says that what was sent together
with what is in the pipe is what the script has written, and `Descriptors` that
the reading end is open meanwhile, so that the script is not stopped before it
has written everything. `BodyRead` counts the bytes of the body in the loop over
the Content-Length, those in the pipe and those read together. None of this
depends on other requests, which is why the lemma `Others` holds and the
proof goes request by request. `EnvironmentsAssumption` asks for a table of at least
the four descriptors that are taken before the first connection; without it
`TypeOK` would be false in the first state.

ShmRpc. While the ready bit is set the packet is the server's and holds the call
or the answer; while it is not, the server is outside. Both hold until `spoiled`,
over any number of kills. `RpcRefinement` proves `Abstract!Spec`. `CallsAreServed`
and `CallsReturn` are what its fairness is about: a call that was made is served or a
kill comes between, after which the server is started again and finds the bit still
set; and a call that was served returns, or its caller is gone, or the server was killed
before it cleared the bit. `SharedMemoryProofs` and `KernelProofs` each speak of two modules
that have nothing to do with each other but their subject, one of which is
extended and the other an instance with variables of its own; what `Kcore`
assumes of its constants is a hypothesis of each lemma there.

Mpart. `HoleLoop` is the loop invariant of `NextRegion`: the limit plus what this
region still has is its end plus what is still required. It gives
`MapsEndAtLimit` without any assumption on the map of memory, aligned, sorted or
not. `Masks` says that a processor that was printed is out of the masks and below
the loop variable; that the maps of different nodes are disjoint is an assumption
on the machine.

`NodesTile` and `ChunksWhole` count places, and do need that the lines of
`/proc/iomem` ascend and are addresses below the largest number
(`MapsAssumption`). `Reading` and `Ordered` carry this into the table: rounding
keeps the order of the regions, main stops before the first empty one, and the
realignment only shrinks regions and leaves no start at 0. `Downwards` is the
invariant of the loop over the nodes: the RAM from `last` to the end of the node
plus the `size` that is still missing is the size of the node. `Fitting` shows
that the unsigned comparison is then what it seems to be. It also treats a node
whose directory is missing, for which `numa_node_size64` returns -1: the comparison
then always finds too little memory, so that such a node ends with "no more
memory" and never with a size. `Chunking` is the invariant of the loop over processors:
in front of the start of the next kernel there is one chunk for each kernel
before it, and up to the end of the region `smemres` there are these, this
kernel's and what the region has left. The way out of the table is covered by
`NoMoreRegion`: when no region is left, all the memory there is holds less than
one chunk for each processor. The condition `InsideOut` is in the property
because the realignment can turn a region inside out; the proof needs it exactly
where a region is counted by its ends. The lemmas on `Count` (splitting an
interval, one that is full, one that is empty) replace an induction: the library
gives the number of elements of an interval.

Kcore. `Position` says that the position in the file is the offset of the header
of the segment plus the pages written, as long as no segment was left out and no
write was short. Its step from one segment to the next is the lemma `Aligned`,
that the pages the loop writes are what `calcolate_offs` has reserved; it is
proved for every page size.

The proofs use the assumptions named in the modules (`ThreadAssumption` and so
on), which TLC evaluates in every run.

Liveness. The prover does not know ENABLED. The theorems about liveness state
fairness without it (`Scheduled`, `BothScheduled`): whenever the guard of the
operation holds from some moment on, the operation is executed. The guard
(`CanStep`, `CanRecv`, `CanServe` and so on) is the condition on which the step is
enabled in the model, so that this is weak fairness with ENABLED spelled out; the equality
itself is not proved. Each proof is a chain of steps, in which the operation leads from
one place to the next and every other step leaves the place alone or ends in the goal.
They need fairness of the threads they name only.

Only model-checked are `SumsWhole` and the liveness that needs
induction or speaks of all threads at once, which the temporal prover cannot combine
from single ones: the fairness in `Link` and `RemoteCall` (`Barrier`, `Mutex` and
`ForkJoin` have none), and the properties that something is reached (`EveryWaitReturns` of `BompBarrier`,
`ProgramEnds` of `BompParallel`, `SenderGetsThrough` of `Tunnel` where tunnels are
killed and started again, `AllUp` of `BootSequence`, `EndsUnlessHeld` and `AnswerEnds`
of `Httpd`). Every other invariant a passing run checks is stated by a theorem.

## Known behaviour

The code does these things and no comment or test says otherwise, so that no
property forbids them; the hazards in `PROJECT.json` name the lines.

- A worker of the popcorn backend that returns ends the process.
- While a tunnel is starting, two senders may hold the lock of its slot.
- A magic number left by an earlier boot is taken for a tunnel that is up.
- A request with a method other than GET and POST leaves its connection open in
  the server. The properties of `Httpd` have this in them: `LeftOpen` and
  `AnswerEnds` say what stays open and for whom.
- One request may end the server: a client that leaves, a script that ends before
  it has read the body, a file that cannot be opened.
- A segment of `kcore.c` that is neither RAM nor TEXT has a header and no place:
  the segments after it are not where their headers say. The table in the file
  has none.
- Two calls of `cthread_key_create` at the same time may return one key.

## Not modelled

- `tunnel_shm.c` and `deprecated/` are superseded by `tunnel.c` and the boot
  scripts.
- `lib/memory.c` is unfinished: it does not compile and nothing calls it.
- The migration tests and `readonly_tests` ask the modified kernel to move a
  thread or to share a page and print what it does; their own steps are system
  calls in a line, and what they are about is not in this repository.
- The benchmarks are numerical third-party code and timing loops over what
  `BompParallel`, `BompBarrier` and `BompLock` model, but for the pattern of lock
  and barrier that `Checksum` takes from them.
- `comm_tests`, `launch_xml`, `test_kmsg.c`, `test_ipi_latency.c`,
  `read_cmdline.c`, `dump_shdr.c` and `create_elf.sh` are straight sequences of
  calls that keep no state.
- `generate_all.sh`, `create_bootargs.sh` and `create_lspci.sh` edit the text
  that `mpart` prints.
- Of the modelled parts: affinity of threads, stacks, the text of messages,
  headers and log files.
