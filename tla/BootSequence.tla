----------------------------- MODULE BootSequence -----------------------------
(***************************************************************************)
(* Booting the other kernels: the loops of mklinux_boot_all.sh and         *)
(* mklinux_boot_all_netcheck.sh, mklinux_boot.sh, which they run for one   *)
(* kernel after the other, and what it runs in turn: copy_ramdisk and      *)
(* wr_cmdline over lib/popcorn.c, and kexec.                               *)
(*                                                                         *)
(* All kernels get their parameters through one place, the boot_params and *)
(* the command line of the running kernel in /dev/mem.  A kernel that was  *)
(* started reads them on its own while the script goes on; the script only *)
(* waits, or looks for the magic number in the kernel's tunnel slot.       *)
(*                                                                         *)
(* An address is cut into its remainder by LowSize and what is left above, *)
(* of which a field keeps the remainder by ShiftSize: 2^32 and 2^8 for     *)
(* ramdisk_image and ramdisk_shift.  A command line is the number of a     *)
(* kernel and a length.                                                    *)
(***************************************************************************)
EXTENDS Integers

CONSTANTS
  Last,          \* the kernels are 1..Last
  RamdiskAddr,   \* RamdiskAddr[a]: from boot_args_a.param
  ArgsLen,       \* ArgsLen[a]: the length of the command line of a
  CmdlineSize,   \* the size of the buffer of the command line
  LowSize, ShiftSize,
  Environments   \* how a boot may go

Kernel == 1..Last

ASSUME LastAssumption == Last \in Nat \ {0}
ASSUME RamdiskAddrAssumption == RamdiskAddr \in [Kernel -> Nat \ {0}]
ASSUME ArgsLenAssumption == ArgsLen \in [Kernel -> Nat \ {0}]
ASSUME CmdlineSizeAssumption == CmdlineSize \in Nat \ {0}
ASSUME SizesAssumption == LowSize \in Nat \ {0} /\ ShiftSize \in Nat \ {0}

(* An environment: whether the script looks for the tunnel (netcheck),       *)
(* whether a tool may fail, whether the first start of a kernel may hang,    *)
(* whether a kernel reads its parameters before the script's time is over    *)
(* (prompt), whether its tunnel is up by then too (soon), and whether tunnel *)
(* slots may hold the magic number of an earlier boot.                       *)
Environment == [netcheck : BOOLEAN, fails : BOOLEAN, hangs : BOOLEAN,
                prompt : BOOLEAN, soon : BOOLEAN, stale : BOOLEAN]
ASSUME EnvironmentsAssumption == Environments \subseteq Environment

VARIABLES
  env,       \* the environment
  a,         \* the loop variable of the script
  attempt,   \* 1, or 2 when the script retries
  pc,        \* where the script is
  found,     \* LOADED
  copy,      \* boot_params_ptr of copy_ramdisk
  params,    \* the ramdisk fields of boot_params
  cmdline,   \* the buffer of the command line
  placed,    \* the kernels whose ramdisk is in memory
  image,     \* the kernels whose image is in memory
  kernel,    \* kernel[k]: "off", "started", "ramdisk" (has read it), "up", "hung"
  got,       \* got[k]: what the kernel read
  magic,     \* magic[k]: the tunnel slot of k has the magic number
  starts,    \* history: starts[k] counts the starts of k
  failed,    \* history: the kernels for which some tool failed
  spoiled    \* history: the kernels whose memory was written while they ran

script == <<a, attempt, pc, found, copy>>
shared == <<params, cmdline, placed, image>>
kernels == <<kernel, got, magic>>
history == <<starts, failed, spoiled>>
vars == <<env, script, shared, kernels, history>>

Unset == [image |-> 0, shift |-> 0, set |-> FALSE]
NoLine == [of |-> 0, len |-> 0]
Nothing == [ramdisk |-> Unset, line |-> NoLine]

Init == /\ env \in Environments
        /\ a = 1
        /\ attempt = 1
        /\ pc = "check"
        /\ found = FALSE
        /\ copy = Unset
        /\ params = Unset
        /\ cmdline = NoLine
        /\ placed = {}
        /\ image = {}
        /\ kernel = [k \in Kernel |-> "off"]
        /\ got = [k \in Kernel |-> Nothing]
        /\ magic \in [Kernel -> BOOLEAN]
        /\ ~env.stale => magic = [k \in Kernel |-> FALSE]
        /\ starts = [k \in Kernel |-> 0]
        /\ failed = {}
        /\ spoiled = {}

Running(k) == kernel[k] \in {"started", "ramdisk", "up"}
Spoil(k) == spoiled' = IF Running(k) THEN spoiled \cup {k} ELSE spoiled

-----------------------------------------------------------------------------
(* Variants of definitions below, each a bug this code could have had. *)

VerifyNothing ==
  /\ pc = "verify"
  /\ pc' = "line"
  /\ UNCHANGED <<env, a, attempt, found, copy, shared, kernels, history>>

SleepOverAtOnce ==
  /\ pc = "sleep"
  /\ pc' = IF a < Last THEN "check" ELSE "over"
  /\ a' = IF a < Last THEN a + 1 ELSE a
  /\ attempt' = 1
  /\ found' = FALSE
  /\ UNCHANGED <<env, copy, shared, kernels, history>>

TimeoutAnyway ==
  /\ pc = "watch"
  /\ pc' = "check"
  /\ attempt' = 2
  /\ UNCHANGED <<env, a, found, copy, shared, kernels, history>>

TimeoutNoRetry ==
  /\ pc = "watch"
  /\ env.soon => kernel[a] \in {"off", "hung"}
  /\ pc' = "sleep"
  /\ UNCHANGED <<env, a, attempt, found, copy, shared, kernels, history>>

-----------------------------------------------------------------------------
(* mklinux_boot.sh.  When a tool fails it exits; the loop that ran it does   *)
(* not look at its status and goes on as after a success.                    *)

After == IF env.netcheck /\ attempt = 1 THEN "watch" ELSE "sleep"

Goto(p) == pc' = p

Check ==
  /\ pc = "check"
  /\ Goto("ramdisk")
  /\ UNCHANGED <<env, a, attempt, found, copy, shared, kernels, history>>

(* The parameters of a kernel are missing: the loop dies. *)
ParamMissing ==
  /\ pc = "check"
  /\ attempt = 1
  /\ env.fails
  /\ failed' = failed \cup Kernel
  /\ Goto("over")
  /\ UNCHANGED <<env, a, attempt, found, copy, shared, kernels, starts, spoiled>>

(* copy_ramdisk *)
Split(addr) == [image |-> addr % LowSize,
                shift |-> (addr \div LowSize) % ShiftSize,
                set |-> TRUE]

CopyRamdisk ==
  /\ pc = "ramdisk"
  /\ placed' = placed \cup {a}
  /\ Spoil(a)
  /\ Goto("load")
  /\ UNCHANGED <<env, a, attempt, found, copy, params, cmdline, image, kernels, starts, failed>>

LoadParams ==
  /\ pc = "load"
  /\ copy' = params
  /\ Goto("save")
  /\ UNCHANGED <<env, a, attempt, found, shared, kernels, history>>

SaveParams ==
  /\ pc = "save"
  /\ copy' = Split(RamdiskAddr[a])
  /\ params' = copy'
  /\ Goto("verify")
  /\ UNCHANGED <<env, a, attempt, found, cmdline, placed, image, kernels, history>>

(* What is read again is compared with the whole address. *)
Verify ==
  /\ pc = "verify"
  /\ copy' = params
  /\ IF /\ params.image = RamdiskAddr[a] % LowSize
        /\ params.shift = RamdiskAddr[a] \div LowSize
        /\ params.set
     THEN Goto("line") /\ UNCHANGED failed
     ELSE Goto(After) /\ failed' = failed \cup {a}
  /\ UNCHANGED <<env, a, attempt, found, shared, kernels, starts, spoiled>>

(* wr_cmdline: load_boot_params for the address of the buffer, then          *)
(* save_cmd_line, which cuts what does not fit and reports no error.         *)
LoadForLine ==
  /\ pc = "line"
  /\ Goto("clear")
  /\ UNCHANGED <<env, a, attempt, found, copy, shared, kernels, history>>

ClearLine ==
  /\ pc = "clear"
  /\ cmdline' = NoLine
  /\ Goto("write")
  /\ UNCHANGED <<env, a, attempt, found, copy, params, placed, image, kernels, history>>

Cut(len) == IF len > CmdlineSize THEN CmdlineSize ELSE len

WriteLine ==
  /\ pc = "write"
  /\ cmdline' = [of |-> a, len |-> Cut(ArgsLen[a])]
  /\ Goto("kexecLoad")
  /\ UNCHANGED <<env, a, attempt, found, copy, params, placed, image, kernels, history>>

KexecLoad ==
  /\ pc = "kexecLoad"
  /\ image' = image \cup {a}
  /\ Spoil(a)
  /\ Goto("kexecStart")
  /\ UNCHANGED <<env, a, attempt, found, copy, params, cmdline, placed, kernels, starts, failed>>

KexecStart ==
  /\ pc = "kexecStart"
  /\ kernel' = [kernel EXCEPT ![a] = "started"]
  /\ got' = [got EXCEPT ![a] = Nothing]
  /\ starts' = [starts EXCEPT ![a] = @ + 1]
  /\ Goto(After)
  /\ UNCHANGED <<env, a, attempt, found, copy, shared, magic, failed, spoiled>>

(* A test of mklinux_boot.sh or one of the tools fails, at any point where   *)
(* it has left the shared memory as it was.                                  *)
Fail ==
  /\ env.fails
  /\ pc \in {"check", "ramdisk", "load", "save", "verify", "line", "clear", "kexecLoad", "kexecStart"}
  /\ failed' = failed \cup {a}
  /\ Goto(After)
  /\ UNCHANGED <<env, a, attempt, found, copy, shared, kernels, starts, spoiled>>

-----------------------------------------------------------------------------
(* The loops *)

NextKernel ==
  /\ IF a < Last THEN Goto("check") /\ a' = a + 1 ELSE Goto("over") /\ a' = a
  /\ attempt' = 1
  /\ found' = FALSE
  /\ UNCHANGED <<env, copy, shared, kernels, history>>

(* sleep: the time given to the kernel is over. *)
SleepOver ==
  /\ pc = "sleep"
  /\ env.prompt => kernel[a] \notin {"started", "ramdisk"}
  /\ NextKernel

(* The test of the tunnel slot finds the magic number; the loop ends. *)
See ==
  /\ pc = "watch"
  /\ ~found
  /\ magic[a]
  /\ found' = TRUE
  /\ UNCHANGED <<env, a, attempt, pc, copy, shared, kernels, history>>

Found ==
  /\ pc = "watch"
  /\ found
  /\ NextKernel

(* The time is over and the number was not seen: the kernel is booted again. *)
Timeout ==
  /\ pc = "watch"
  /\ ~found
  /\ env.soon => kernel[a] \in {"off", "hung"}
  /\ attempt' = 2
  /\ Goto("check")
  /\ UNCHANGED <<env, a, found, copy, shared, kernels, history>>

-----------------------------------------------------------------------------
(* The kernels that were started. *)

ReadRamdisk(k) ==
  /\ kernel[k] = "started"
  /\ kernel' = [kernel EXCEPT ![k] = "ramdisk"]
  /\ got' = [got EXCEPT ![k].ramdisk = params]
  /\ UNCHANGED <<env, script, shared, magic, history>>

ReadLine(k) ==
  /\ kernel[k] = "ramdisk"
  /\ kernel' = [kernel EXCEPT ![k] = "up"]
  /\ got' = [got EXCEPT ![k].line = cmdline]
  /\ UNCHANGED <<env, script, shared, magic, history>>

OpenTunnel(k) ==
  /\ kernel[k] = "up"
  /\ ~magic[k]
  /\ magic' = [magic EXCEPT ![k] = TRUE]
  /\ UNCHANGED <<env, script, shared, kernel, got, history>>

Hang(k) ==
  /\ env.hangs
  /\ starts[k] = 1
  /\ kernel[k] \in {"started", "ramdisk"}
  /\ kernel' = [kernel EXCEPT ![k] = "hung"]
  /\ UNCHANGED <<env, script, shared, got, magic, history>>

-----------------------------------------------------------------------------

Tools == \/ Check \/ CopyRamdisk \/ LoadParams \/ SaveParams \/ Verify
         \/ LoadForLine \/ ClearLine \/ WriteLine \/ KexecLoad \/ KexecStart
Loop == SleepOver \/ See \/ Found \/ Timeout
Boots(k) == ReadRamdisk(k) \/ ReadLine(k) \/ OpenTunnel(k)

Over == pc = "over" /\ UNCHANGED vars

Next == \/ Tools \/ ParamMissing \/ Fail \/ Loop \/ Over
        \/ \E k \in Kernel : Boots(k) \/ Hang(k)

Spec == Init /\ [][Next]_vars

(* The script runs, its time passes, and a kernel that was started boots. *)
FairSpec == /\ Spec
            /\ WF_vars(Tools) /\ WF_vars(Loop)
            /\ \A k \in Kernel : WF_vars(Boots(k))

-----------------------------------------------------------------------------
(* Properties *)

OwnRamdisk(k, r) == /\ r.set
                    /\ r.image = RamdiskAddr[k] % LowSize
                    /\ r.shift = RamdiskAddr[k] \div LowSize
OwnLine(k, line) == line = [of |-> k, len |-> Cut(ArgsLen[k])]

PC == {"check", "ramdisk", "load", "save", "verify", "line", "clear", "write",
       "kexecLoad", "kexecStart", "sleep", "watch", "over"}
Ramdisk == [image : 0..(LowSize - 1), shift : 0..(ShiftSize - 1), set : BOOLEAN]
Line == [of : 0..Last, len : 0..CmdlineSize]

TypeOK ==
  /\ env \in Environments
  /\ a \in Kernel /\ attempt \in {1, 2} /\ pc \in PC /\ found \in BOOLEAN
  /\ copy \in Ramdisk /\ params \in Ramdisk /\ cmdline \in Line
  /\ placed \subseteq Kernel /\ image \subseteq Kernel
  /\ kernel \in [Kernel -> {"off", "started", "ramdisk", "up", "hung"}]
  /\ got \in [Kernel -> [ramdisk : Ramdisk, line : Line]]
  /\ magic \in [Kernel -> BOOLEAN]
  /\ starts \in [Kernel -> Nat] /\ failed \subseteq Kernel /\ spoiled \subseteq Kernel

(* mklinux_boot.sh: whatever failed before, for this kernel or for others, a *)
(* kernel is started only when its own ramdisk and image are in memory and   *)
(* the shared parameters are its own.                                        *)
Prepared == /\ a \in placed /\ a \in image
            /\ OwnRamdisk(a, params)
            /\ OwnLine(a, cmdline)

StartsPrepared == [][starts' # starts => Prepared /\ starts' = [starts EXCEPT ![a] = @ + 1]]_vars

(* mklinux_boot_all.sh line 39 and the loop of the other script: the wait    *)
(* keeps the parameters in place until the kernel has read them.  The loop   *)
(* that watches the tunnel waits long enough unless a magic number was there *)
(* before, in which case it does not wait at all.                            *)
Waits == env.prompt /\ (env.netcheck => env.soon /\ ~env.stale)

OwnParameters == Waits =>
  \A k \in Kernel : /\ kernel[k] \in {"ramdisk", "up"} => OwnRamdisk(k, got[k].ramdisk)
                    /\ kernel[k] = "up" => OwnLine(k, got[k].line)

(* The retry writes ramdisk and image again: not over a kernel that runs.    *)
NotSpoiled == (env.netcheck => env.soon) => spoiled = {}

(* The inductive invariant of these: what each step of mklinux_boot.sh has   *)
(* left for the next ones, and that only the kernel the script waits for can *)
(* be about to read.                                                         *)
Preparing == {"check", "ramdisk", "load", "save", "verify", "line", "clear", "write",
              "kexecLoad", "kexecStart"}

PrepInv ==
  /\ pc \in Preparing \ {"check", "ramdisk"} => a \in placed
  /\ pc \in {"line", "clear", "write", "kexecLoad", "kexecStart"} => OwnRamdisk(a, params)
  /\ pc \in {"kexecLoad", "kexecStart"} => OwnLine(a, cmdline)
  /\ pc = "kexecStart" => a \in image

LoopInv ==
  /\ pc = "watch" => env.netcheck
  /\ found => pc = "watch" /\ magic[a]
  /\ \A k \in Kernel : kernel[k] # "off" => k <= a
  /\ pc \in Preparing /\ (env.netcheck => env.soon) => kernel[a] \in {"off", "hung"}
  /\ env.netcheck /\ env.soon /\ ~env.stale =>
       \A k \in Kernel : magic[k] => kernel[k] = "up"

WaitInv == Waits => \A k \in Kernel :
  kernel[k] \in {"started", "ramdisk"} =>
    /\ k = a /\ pc \in {"sleep", "watch"}
    /\ OwnRamdisk(a, params) /\ OwnLine(a, cmdline)

IInv == PrepInv /\ LoopInv /\ WaitInv /\ OwnParameters /\ NotSpoiled

(* When no tool fails and the script waits long enough, every kernel comes   *)
(* up with its own parameters; the retry makes up for a first start that     *)
(* hung.                                                                     *)
AllUp ==
  Waits /\ (env.hangs => env.netcheck) =>
    <>(\A k \in Kernel : kernel[k] = "up" \/ k \in failed)
=============================================================================
