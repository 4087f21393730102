----------------------------- MODULE KernelProofs -----------------------------
(***************************************************************************)
(* Proofs about the two programs that handle kernel images: BootSequence,  *)
(* for any number of kernels, any addresses, command lines and             *)
(* environments; and Kcore, which is the instance K, for every table of    *)
(* segments, every page size and any number of calls that fail or are      *)
(* short.  What Kcore assumes of its constants is a hypothesis here.       *)
(***************************************************************************)
EXTENDS BootSequence, Sequences, TLAPS

CONSTANTS Klists, Page, Ehdr, Phdr, Leftover, MaxFaults
VARIABLES klist, at, i, off, file_off, phdr, file, fd, kcfd, kcbuffer, count, faults, short, bad
K == INSTANCE Kcore WITH pc <- at

USE LastAssumption

(* The variables keep their types; an address that is cut fits its fields.   *)
LEMMA SplitType == \A addr \in Nat : Split(addr) \in Ramdisk
<1> SUFFICES ASSUME NEW addr \in Nat PROVE Split(addr) \in Ramdisk
  OBVIOUS
<1> DEFINE q == addr \div LowSize
<1>1. addr % LowSize \in 0..(LowSize - 1) /\ q \in Nat
  BY SizesAssumption
<1>2. q % ShiftSize \in 0..(ShiftSize - 1)
  BY <1>1, SizesAssumption
<1> QED
  BY <1>1, <1>2 DEF Split, Ramdisk

LEMMA CutType == \A k \in Kernel : Cut(ArgsLen[k]) \in 0..CmdlineSize
  BY ArgsLenAssumption, CmdlineSizeAssumption DEF Cut

(* The shared memory, the script and the kernels keep their types.           *)
THEOREM TypeCorrect == Spec => []TypeOK
<1>1. Init => TypeOK
  <2>1. Unset \in Ramdisk
    BY SizesAssumption DEF Unset, Ramdisk
  <2>2. NoLine \in Line
    BY CmdlineSizeAssumption DEF NoLine, Line
  <2>3. Nothing \in [ramdisk : Ramdisk, line : Line]
    BY <2>1, <2>2 DEF Nothing
  <2>4. 1 \in Kernel
    BY DEF Kernel
  <2> SUFFICES ASSUME Init PROVE TypeOK
    OBVIOUS
  <2>5. env \in Environments /\ a \in Kernel /\ attempt \in {1, 2} /\ pc \in PC /\ found \in BOOLEAN
    BY <2>4 DEF Init, PC
  <2>6. copy \in Ramdisk /\ params \in Ramdisk /\ cmdline \in Line
    BY <2>1, <2>2 DEF Init
  <2>7. got \in [Kernel -> [ramdisk : Ramdisk, line : Line]]
    BY <2>3 DEF Init
  <2>8. /\ kernel \in [Kernel -> {"off", "started", "ramdisk", "up", "hung"}]
        /\ magic \in [Kernel -> BOOLEAN] /\ starts \in [Kernel -> Nat]
    BY DEF Init
  <2> QED
    BY <2>5, <2>6, <2>7, <2>8 DEF Init, TypeOK
<1>2. TypeOK /\ [Next]_vars => TypeOK'
  <2> SUFFICES ASSUME TypeOK, [Next]_vars PROVE TypeOK'
    OBVIOUS
  <2> USE DEF TypeOK, script, shared, kernels, history, Goto, PC
  <2> After \in PC
    BY DEF After
  <2>1. CASE Check \/ ParamMissing \/ LoadParams \/ LoadForLine \/ Fail
    BY <2>1 DEF Check, ParamMissing, LoadParams, LoadForLine, Fail
  <2>2. CASE CopyRamdisk \/ KexecLoad
    BY <2>2 DEF CopyRamdisk, KexecLoad, Spoil
  <2>3. CASE SaveParams
    <3>1. Split(RamdiskAddr[a]) \in Ramdisk
      BY SplitType, RamdiskAddrAssumption
    <3> QED
      BY <2>3, <3>1 DEF SaveParams
  <2>4. CASE Verify
    BY <2>4 DEF Verify
  <2>5. CASE ClearLine \/ WriteLine
    <3>1. NoLine \in Line
      BY CmdlineSizeAssumption DEF NoLine, Line
    <3>2. [of |-> a, len |-> Cut(ArgsLen[a])] \in Line
      BY CutType DEF Line, Kernel
    <3> QED
      BY <2>5, <3>1, <3>2 DEF ClearLine, WriteLine
  <2>6. CASE KexecStart
    <3>1. Nothing \in [ramdisk : Ramdisk, line : Line]
      BY SizesAssumption, CmdlineSizeAssumption DEF Nothing, Unset, NoLine, Ramdisk, Line
    <3> QED
      BY <2>6, <3>1 DEF KexecStart
  <2>7. CASE SleepOver \/ Found
    <3>1. a < Last => a + 1 \in Kernel
      BY DEF Kernel
    <3> QED
      BY <2>7, <3>1 DEF SleepOver, Found, NextKernel
  <2>8. CASE See \/ Timeout
    BY <2>8 DEF See, Timeout
  <2>9. ASSUME NEW k \in Kernel, ReadRamdisk(k) \/ ReadLine(k) PROVE TypeOK'
    <3>1. [got[k] EXCEPT !.ramdisk = params] \in [ramdisk : Ramdisk, line : Line]
      OBVIOUS
    <3>2. [got[k] EXCEPT !.line = cmdline] \in [ramdisk : Ramdisk, line : Line]
      OBVIOUS
    <3>3. CASE ReadRamdisk(k)
      <4>1. got' \in [Kernel -> [ramdisk : Ramdisk, line : Line]]
        BY <3>1, <3>3 DEF ReadRamdisk
      <4> QED
        BY <3>3, <4>1 DEF ReadRamdisk
    <3>4. CASE ReadLine(k)
      <4>1. got' \in [Kernel -> [ramdisk : Ramdisk, line : Line]]
        BY <3>2, <3>4 DEF ReadLine
      <4> QED
        BY <3>4, <4>1 DEF ReadLine
    <3> QED
      BY <2>9, <3>3, <3>4
  <2>10. ASSUME NEW k \in Kernel, OpenTunnel(k) \/ Hang(k) PROVE TypeOK'
    BY <2>10 DEF OpenTunnel, Hang
  <2>11. CASE UNCHANGED vars
    BY <2>11 DEF vars
  <2> QED
    BY <2>1, <2>2, <2>3, <2>4, <2>5, <2>6, <2>7, <2>8, <2>9, <2>10, <2>11
       DEF Next, Tools, Loop, Boots, Over
<1> QED
  BY <1>1, <1>2, PTL DEF Spec

-----------------------------------------------------------------------------
(* The inductive invariant.  A kernel that is being prepared does not run,   *)
(* and one that is about to read is the one the script waits for, so that    *)
(* no step of the script changes what it is about to read.                   *)

LEMMA ToolsKeepIInv == TypeOK /\ IInv /\ Tools => IInv'
<1> SUFFICES ASSUME TypeOK, IInv, Tools PROVE IInv'
  OBVIOUS
<1> USE DEF script, shared, kernels, history, Goto, Preparing, Running
<1>0. a \in Kernel /\ After \in {"watch", "sleep"} /\ (After = "watch" => env.netcheck)
  BY DEF TypeOK, After
<1>1. PrepInv'
  <2>1. CASE Check \/ CopyRamdisk \/ LoadParams \/ SaveParams \/ LoadForLine \/ ClearLine
    BY <2>1 DEF Check, CopyRamdisk, LoadParams, SaveParams, LoadForLine, ClearLine,
                IInv, PrepInv, OwnRamdisk
  <2>2. CASE Verify
    BY <2>2, <1>0 DEF Verify, IInv, PrepInv, OwnRamdisk
  <2>3. CASE WriteLine
    BY <2>3 DEF WriteLine, IInv, PrepInv, OwnRamdisk, OwnLine
  <2>4. CASE KexecLoad
    BY <2>4 DEF KexecLoad, IInv, PrepInv, OwnRamdisk, OwnLine
  <2>5. CASE KexecStart
    BY <2>5, <1>0 DEF KexecStart, PrepInv
  <2> QED
    BY <2>1, <2>2, <2>3, <2>4, <2>5 DEF Tools
<1>2. LoopInv'
  <2>1. CASE KexecStart
    <3>1. \A k \in Kernel : kernel'[k] = IF k = a THEN "started" ELSE kernel[k]
      BY <2>1 DEF KexecStart, TypeOK
    <3>2. ~found /\ ((env.netcheck => env.soon) => kernel[a] # "up")
      BY <2>1, <1>0 DEF KexecStart, IInv, LoopInv
    <3> QED
      BY <2>1, <1>0, <3>1, <3>2 DEF KexecStart, IInv, LoopInv, Kernel
  <2>2. CASE ~KexecStart
    BY <2>2, <1>0 DEF Tools, Check, CopyRamdisk, LoadParams, SaveParams, Verify, LoadForLine,
       ClearLine, WriteLine, KexecLoad, IInv, LoopInv
  <2> QED
    BY <2>1, <2>2
<1>3. WaitInv'
  <2>1. CASE KexecStart
    <3>1. \A k \in Kernel : kernel'[k] = IF k = a THEN "started" ELSE kernel[k]
      BY <2>1 DEF KexecStart, TypeOK
    <3> QED
      BY <2>1, <1>0, <3>1 DEF KexecStart, IInv, PrepInv, WaitInv, Waits, OwnRamdisk, OwnLine
  <2>2. CASE ~KexecStart
    BY <2>2, <1>0 DEF Tools, Check, CopyRamdisk, LoadParams, SaveParams, Verify, LoadForLine,
       ClearLine, WriteLine, KexecLoad, IInv, WaitInv, Waits
  <2> QED
    BY <2>1, <2>2
<1>4. OwnParameters'
  <2>1. CASE KexecStart
    <3>1. \A k \in Kernel : k # a => kernel'[k] = kernel[k] /\ got'[k] = got[k]
      BY <2>1 DEF KexecStart, TypeOK
    <3>2. kernel'[a] = "started"
      BY <2>1, <1>0 DEF KexecStart, TypeOK
    <3> QED
      BY <2>1, <3>1, <3>2 DEF KexecStart, IInv, OwnParameters, Waits
  <2>2. CASE ~KexecStart
    BY <2>2 DEF Tools, Check, CopyRamdisk, LoadParams, SaveParams, Verify, LoadForLine,
       ClearLine, WriteLine, KexecLoad, IInv, OwnParameters, Waits
  <2> QED
    BY <2>1, <2>2
<1>5. NotSpoiled'
  BY <1>0 DEF Tools, Check, CopyRamdisk, LoadParams, SaveParams, Verify, LoadForLine, ClearLine,
     WriteLine, KexecLoad, KexecStart, Spoil, IInv, LoopInv, NotSpoiled
<1> QED
  BY <1>1, <1>2, <1>3, <1>4, <1>5 DEF IInv

LEMMA LoopKeepsIInv == TypeOK /\ IInv /\ (Loop \/ ParamMissing \/ Fail) => IInv'
<1> SUFFICES ASSUME TypeOK, IInv, Loop \/ ParamMissing \/ Fail PROVE IInv'
  OBVIOUS
<1> USE DEF script, shared, kernels, history, Goto, Preparing
<1>0. a \in Kernel /\ a \in Nat /\ (a < Last => a + 1 \in Kernel)
      /\ After \in {"watch", "sleep"} /\ (After = "watch" => env.netcheck)
  BY DEF TypeOK, After, Kernel
<1>1. CASE ParamMissing \/ Fail
  BY <1>0, <1>1 DEF ParamMissing, Fail, IInv, PrepInv, LoopInv, WaitInv, OwnParameters, NotSpoiled,
     Waits
<1>2. CASE See \/ Timeout
  BY <1>2 DEF See, Timeout, IInv, PrepInv, LoopInv, WaitInv, OwnParameters, NotSpoiled,
     Waits, OwnRamdisk, OwnLine
<1>3. CASE SleepOver \/ Found
  <2>1. NextKernel /\ pc \in {"sleep", "watch"} /\ (pc = "watch" => found)
    BY <1>3 DEF SleepOver, Found
  <2>2. UNCHANGED <<env, params, cmdline, placed, image, kernel, got, magic, spoiled>>
    BY <2>1 DEF NextKernel
  <2>3. PrepInv'
    BY <2>1 DEF NextKernel, PrepInv
  <2>4. a' = a \/ (a < Last /\ a' = a + 1 /\ kernel[a + 1] = "off")
    BY <2>1, <1>0 DEF NextKernel, IInv, LoopInv
  <2>5. LoopInv'
    BY <2>1, <2>2, <2>4, <1>0 DEF NextKernel, IInv, LoopInv, Kernel
  <2>6. Waits => \A k \in Kernel : kernel[k] \notin {"started", "ramdisk"}
    BY <1>3, <1>0 DEF SleepOver, Found, IInv, LoopInv, WaitInv, Waits
  <2>7. WaitInv' /\ OwnParameters' /\ NotSpoiled'
    BY <2>2, <2>6 DEF IInv, WaitInv, OwnParameters, NotSpoiled, Waits
  <2> QED
    BY <2>3, <2>5, <2>7 DEF IInv
<1> QED
  BY <1>1, <1>2, <1>3 DEF Loop

LEMMA BootsKeepIInv == TypeOK /\ IInv /\ (\E k \in Kernel : Boots(k) \/ Hang(k)) => IInv'
<1> SUFFICES ASSUME TypeOK, IInv, NEW k \in Kernel, Boots(k) \/ Hang(k) PROVE IInv'
  OBVIOUS
<1> USE DEF script, shared, history
<1>1. /\ UNCHANGED <<env, pc, a, found, params, cmdline, placed, image, spoiled>>
      /\ \A j \in Kernel : j # k => kernel'[j] = kernel[j] /\ got'[j] = got[j] /\ magic'[j] = magic[j]
  BY DEF Boots, ReadRamdisk, ReadLine, OpenTunnel, Hang, TypeOK
<1>2. \/ kernel[k] = "started" /\ kernel'[k] = "ramdisk" /\ got'[k].ramdisk = params /\ magic' = magic
      \/ /\ kernel[k] = "ramdisk" /\ kernel'[k] = "up" /\ magic' = magic
         /\ got'[k].ramdisk = got[k].ramdisk /\ got'[k].line = cmdline
      \/ kernel[k] = "up" /\ kernel' = kernel /\ got' = got /\ magic'[k]
      \/ kernel[k] \in {"started", "ramdisk"} /\ kernel'[k] = "hung" /\ got' = got /\ magic' = magic
  BY DEF Boots, ReadRamdisk, ReadLine, OpenTunnel, Hang, TypeOK
<1>3. PrepInv'
  BY <1>1 DEF IInv, PrepInv, OwnRamdisk, OwnLine
<1>4. LoopInv'
  BY <1>1, <1>2 DEF IInv, LoopInv, Preparing, TypeOK
<1>5. WaitInv'
  BY <1>1, <1>2 DEF IInv, WaitInv, Waits, OwnRamdisk, OwnLine
<1>6. OwnParameters'
  BY <1>1, <1>2 DEF IInv, WaitInv, OwnParameters, Waits, OwnRamdisk, OwnLine
<1>7. NotSpoiled'
  BY <1>1 DEF IInv, NotSpoiled
<1> QED
  BY <1>3, <1>4, <1>5, <1>6, <1>7 DEF IInv

(* mklinux_boot.sh and both loops: the inductive invariant always holds.     *)
THEOREM Invariance == Spec => []IInv
<1>1. Init => IInv
  <2> SUFFICES ASSUME Init PROVE IInv
    OBVIOUS
  <2>1. \A k \in Kernel : kernel[k] = "off"
    BY DEF Init
  <2>2. ~env.stale => \A k \in Kernel : ~magic[k]
    BY DEF Init
  <2>3. PrepInv /\ NotSpoiled
    BY DEF Init, PrepInv, Preparing, NotSpoiled
  <2>4. LoopInv
    BY <2>1, <2>2 DEF Init, LoopInv, Kernel
  <2>5. WaitInv /\ OwnParameters
    BY <2>1 DEF WaitInv, OwnParameters
  <2> QED
    BY <2>3, <2>4, <2>5 DEF IInv
<1>2. TypeOK /\ IInv /\ [Next]_vars => IInv'
  <2> SUFFICES ASSUME TypeOK, IInv, [Next]_vars PROVE IInv'
    OBVIOUS
  <2>1. CASE UNCHANGED vars
    BY <2>1 DEF vars, script, shared, kernels, history, IInv, PrepInv, LoopInv, WaitInv,
       OwnParameters, NotSpoiled, Waits, OwnRamdisk, OwnLine
  <2>2. CASE Next
    BY <2>1, <2>2, ToolsKeepIInv, LoopKeepsIInv, BootsKeepIInv DEF Next, Over
  <2> QED
    BY <2>1, <2>2
<1> QED
  BY <1>1, <1>2, TypeCorrect, PTL DEF Spec

(* Every kernel reads its own parameters if the script waits long enough.    *)
THEOREM ParametersOwn == Spec => []OwnParameters
<1>1. IInv => OwnParameters
  BY DEF IInv
<1> QED
  BY <1>1, Invariance, PTL

(* Nothing is placed over a kernel that runs if the tunnel of a kernel is up *)
(* before the script gives it up.                                            *)
THEOREM RunningKept == Spec => []NotSpoiled
<1>1. IInv => NotSpoiled
  BY DEF IInv
<1> QED
  BY <1>1, Invariance, PTL

(* mklinux_boot.sh: a kernel is started only when everything it needs is its *)
(* own, whatever failed before and in every environment.                     *)
THEOREM StartPrepared == Spec => StartsPrepared
<1>1. TypeOK /\ IInv /\ [Next]_vars =>
        [starts' # starts => Prepared /\ starts' = [starts EXCEPT ![a] = @ + 1]]_vars
  <2> SUFFICES ASSUME IInv, Next, starts' # starts
               PROVE Prepared /\ starts' = [starts EXCEPT ![a] = @ + 1]
    OBVIOUS
  <2>1. KexecStart
    BY DEF Next, Tools, Loop, Over, Boots, Check, ParamMissing, CopyRamdisk, LoadParams, SaveParams,
       Verify, LoadForLine, ClearLine, WriteLine, KexecLoad, Fail, SleepOver, See, Found, Timeout,
       NextKernel, ReadRamdisk, ReadLine, OpenTunnel, Hang, history, vars
  <2> QED
    BY <2>1 DEF KexecStart, IInv, PrepInv, Preparing, Prepared
<1> QED
  BY <1>1, TypeCorrect, Invariance, PTL DEF Spec, StartsPrepared

-----------------------------------------------------------------------------
(* Kcore: arithmetic of pages.                                               *)

LEMMA PageFact == K!KcoreAssumption => Page \in Nat /\ Page > 0
BY DEF K!KcoreAssumption

LEMMA Parts ==
  ASSUME K!KcoreAssumption, NEW n \in Nat
  PROVE  /\ n % Page \in 0..(Page - 1) /\ n \div Page \in Nat
         /\ n = (n \div Page) * Page + (n % Page)
BY PageFact, SMT

LEMMA Products ==
  ASSUME K!KcoreAssumption, NEW x \in Int, NEW y \in Int
  PROVE  /\ x < y => x * Page + Page <= y * Page
         /\ (x + 1) * Page = x * Page + Page
         /\ x * Page \in Int
BY PageFact, SMT

LEMMA Padding ==
  ASSUME K!KcoreAssumption, NEW n \in Nat
  PROVE  K!Ceiling(n) = IF n % Page = 0 THEN n ELSE n + Page - (n % Page)
<1>1. n % Page \in 0..(Page - 1)
  BY Parts
<1>2. n % Page = 0 => (Page - (n % Page)) % Page = 0
  BY PageFact, SMT
<1>3. n % Page # 0 => (Page - (n % Page)) % Page = Page - (n % Page)
  BY <1>1, PageFact, SMT
<1>4. QED
  BY <1>1, <1>2, <1>3, PageFact DEF K!Ceiling

LEMMA CeilingFacts ==
  ASSUME K!KcoreAssumption, NEW n \in Nat
  PROVE  K!Ceiling(n) \in Nat /\ K!Ceiling(n) >= n
<1>1. n % Page \in 0..(Page - 1)
  BY Parts
<1>2. QED
  BY <1>1, Padding, PageFact

(* The loop over the pages of a segment writes just what was reserved. *)
LEMMA Aligned ==
  ASSUME K!KcoreAssumption, NEW n \in Nat, NEW c \in Nat, c * Page >= n, c = 0 \/ (c - 1) * Page < n
  PROVE  K!Ceiling(n) = c * Page
<1> DEFINE q == n \div Page
           r == n % Page
<1>1. r \in 0..(Page - 1) /\ q \in Nat /\ n = q * Page + r
  BY Parts
<1> HIDE DEF q, r
<1>2. K!Ceiling(n) = IF r = 0 THEN n ELSE n + Page - r
  BY Padding DEF r
<1>3. c * Page \in Int /\ q * Page \in Int /\ (c - 1) * Page \in Int
  BY <1>1, Products
<1>4. CASE r = 0
  <2>1. ~(c < q)
    <3>1. c < q => c * Page + Page <= q * Page
      BY <1>1, Products
    <3>2. QED
      BY <1>1, <1>3, <1>4, <3>1, PageFact
  <2>2. ~(q < c)
    <3>1. q < c => q * Page + Page <= c * Page
      BY <1>1, Products
    <3>2. c = (c - 1) + 1 /\ c - 1 \in Int
      OBVIOUS
    <3>3. c * Page = (c - 1) * Page + Page
      BY <3>2, Products
    <3>4. QED
      BY <1>1, <1>3, <1>4, <3>1, <3>3, PageFact
  <2>3. q = c
    BY <1>1, <2>1, <2>2
  <2>4. QED
    BY <1>1, <1>2, <1>3, <1>4, <2>3
<1>5. CASE r # 0
  <2>1. (q + 1) * Page = q * Page + Page /\ (q + 1) * Page \in Int
    BY <1>1, Products
  <2>2. ~(c < q + 1)
    <3>1. c < q + 1 => c * Page + Page <= (q + 1) * Page
      BY <1>1, Products
    <3>2. QED
      BY <1>1, <1>3, <1>5, <2>1, <3>1, PageFact
  <2>3. ~(q + 1 < c)
    <3>1. q + 1 < c => (q + 1) * Page + Page <= c * Page
      BY <1>1, Products
    <3>2. c = (c - 1) + 1 /\ c - 1 \in Int
      OBVIOUS
    <3>3. c * Page = (c - 1) * Page + Page
      BY <3>2, Products
    <3>4. QED
      BY <1>1, <1>3, <1>5, <2>1, <3>1, <3>3, PageFact
  <2>4. q + 1 = c
    BY <1>1, <2>2, <2>3
  <2>5. (q + 1) * Page = c * Page
    BY <2>4
  <2>6. n + Page - r = q * Page + Page
    BY <1>1, <1>3, PageFact
  <2>7. QED
    BY <1>2, <1>5, <2>1, <2>5, <2>6
<1>6. QED
  BY <1>4, <1>5

-----------------------------------------------------------------------------
(* The segments of the table. *)

Segments == DOMAIN klist

LEMMA Table ==
  ASSUME K!KcoreAssumption, klist \in Klists
  PROVE  /\ Len(klist) \in Nat /\ Segments = 1..Len(klist)
         /\ \A s \in Segments : /\ klist[s].addr \in Nat /\ klist[s].size \in Nat
                                /\ K!Ceiling(klist[s].size) \in Nat
                                /\ K!Ceiling(klist[s].size) >= klist[s].size
<1> DEFINE Entry == [addr : Nat, size : Nat,
                     type : {"TEXT", "VMALLOC", "RAM", "VMEMMAP", "OTHER"}]
<1>1. klist \in Seq(Entry)
  BY DEF K!KcoreAssumption
<1>2. Len(klist) \in Nat /\ Segments = 1..Len(klist)
  BY <1>1 DEF Segments
<1>3. \A s \in Segments : klist[s] \in Entry
  <2> HIDE DEF Entry
  <2>1. QED
    BY <1>1, <1>2
<1>4. \A s \in Segments : klist[s].addr \in Nat /\ klist[s].size \in Nat
  BY <1>3
<1>5. QED
  BY <1>2, <1>4, CeilingFacts

LEMMA Product == ASSUME NEW x \in Nat, NEW y \in Nat PROVE x * y \in Nat
BY SMT

LEMMA HeaderSize ==
  ASSUME K!KcoreAssumption, klist \in Klists
  PROVE  K!elf_buflen \in Nat /\ K!elf_buflen > 0
<1> DEFINE n == Ehdr + (Len(klist) + 1) * Phdr
<1>1. Ehdr \in Nat /\ Ehdr > 0 /\ Phdr \in Nat /\ Len(klist) \in Nat
  BY Table DEF K!KcoreAssumption
<1>2. (Len(klist) + 1) * Phdr \in Nat
  <2>1. Len(klist) + 1 \in Nat
    BY <1>1
  <2>2. QED
    BY <1>1, <2>1, Product
<1>3. n \in Nat /\ n > 0
  BY <1>1, <1>2
<1> HIDE DEF n
<1>4. K!Ceiling(n) \in Nat /\ K!Ceiling(n) >= n
  BY <1>3, CeilingFacts
<1>5. QED
  BY <1>3, <1>4 DEF K!elf_buflen, n

LEMMA FirstIInv ==
  ASSUME K!KcoreAssumption, K!Init
  PROVE  K!IInv
<1>1. K!Types
  <2>1. klist \in Klists /\ at = "offs" /\ i = 1 /\ off = 0 /\ fd = 0 /\ kcfd = 0 /\ count = 0
    BY DEF K!Init
  <2>2. file_off \in [DOMAIN klist -> Nat] /\ phdr \in [DOMAIN klist -> Nat] /\ short = FALSE
    BY DEF K!Init
  <2>3. 1 \in 1..(Len(klist) + 1)
    BY <2>1, Table
  <2>4. QED
    BY <2>1, <2>2, <2>3 DEF K!Types
<1>2. K!Offsets
  BY DEF K!Init, K!Offsets, K!Following
<1>3. K!Headers /\ K!Position /\ K!Copying /\ K!ErrorsStayLocal
  BY DEF K!Init, K!Headers, K!Position, K!Copying, K!ErrorsStayLocal
<1>4. QED
  BY <1>1, <1>2, <1>3 DEF K!IInv

-----------------------------------------------------------------------------
(* One lemma for each step. *)

LEMMA OffsKept ==
  ASSUME K!KcoreAssumption, K!IInv, K!CalcolateOff
  PROVE  K!IInv'
<1>1. /\ klist \in Klists /\ i \in 1..Len(klist) /\ off \in Nat
      /\ file_off \in [Segments -> Nat]
      /\ at = "offs" /\ at' = "offs"
      /\ i' = i + 1 /\ off' = off + K!Ceiling(klist[i].size)
      /\ file_off' = [file_off EXCEPT ![i] = off]
      /\ UNCHANGED <<klist, phdr, fd, kcfd, count, short>>
      /\ fd = 0 /\ ~short
  <2>1. i \in 1..(Len(klist) + 1) /\ i <= Len(klist) /\ Len(klist) \in Nat
    BY Table DEF K!IInv, K!Types, K!CalcolateOff
  <2>2. i \in 1..Len(klist)
    BY <2>1
  <2>3. QED
    BY <2>2 DEF K!IInv, K!Types, K!Offsets, K!CalcolateOff, Segments, K!out
<1>2. /\ Len(klist) \in Nat /\ Segments = 1..Len(klist)
      /\ \A s \in Segments : K!Ceiling(klist[s].size) \in Nat
  BY <1>1, Table
<1>3. K!Types'
  <2>1. off' \in Nat /\ i' \in 1..(Len(klist) + 1) /\ file_off' \in [Segments -> Nat]
    BY <1>1, <1>2
  <2>2. QED
    BY <1>1, <2>1 DEF K!IInv, K!Types, Segments
<1>4. /\ \A s \in 1..(i - 2) : file_off[s + 1] = file_off[s] + K!Ceiling(klist[s].size)
      /\ off = IF i = 1 THEN 0 ELSE file_off[i - 1] + K!Ceiling(klist[i - 1].size)
      /\ i > 1 => file_off[1] = 0
  BY <1>1 DEF K!IInv, K!Offsets, K!Following
<1>5. file_off'[i] = off /\ \A s \in Segments : s # i => file_off'[s] = file_off[s]
  BY <1>1, <1>2
<1>6. \A s \in 1..(i - 1) : file_off'[s + 1] = file_off'[s] + K!Ceiling(klist[s].size)
  <2>1. ASSUME NEW s \in 1..(i - 1)
        PROVE  file_off'[s + 1] = file_off'[s] + K!Ceiling(klist[s].size)
    <3>1. CASE s = i - 1
      BY <1>1, <1>2, <1>4, <1>5, <3>1
    <3>2. CASE s # i - 1
      <4>1. s \in 1..(i - 2) /\ s \in Segments /\ s + 1 \in Segments /\ s # i /\ s + 1 # i
        BY <1>1, <1>2, <3>2
      <4>2. QED
        BY <1>4, <1>5, <4>1
    <3>3. QED
      BY <3>1, <3>2
  <2>2. QED
    BY <2>1
<1>7. K!Offsets'
  <2>1. i' - 1 = i /\ i' # 1 /\ i' > 1
    BY <1>1, <1>2
  <2>2. file_off'[1] = 0
    <3>1. 1 \in Segments
      BY <1>1, <1>2
    <3>2. QED
      BY <1>4, <1>5, <1>1, <3>1
  <2>3. K!Following(file_off, i - 1)'
    <3>1. \A n : K!Ceiling(n)' = K!Ceiling(n)
      BY DEF K!Ceiling
    <3>2. QED
      BY <1>1, <1>6, <2>1, <3>1 DEF K!Following
  <2>4. \A n : K!Ceiling(n)' = K!Ceiling(n)
    BY DEF K!Ceiling
  <2>5. QED
    BY <1>1, <1>5, <2>1, <2>2, <2>3, <2>4 DEF K!Offsets
<1>8. K!Headers' /\ K!Position' /\ K!Copying' /\ K!ErrorsStayLocal'
  BY <1>1 DEF K!Headers, K!Position, K!Copying, K!ErrorsStayLocal
<1>9. QED
  BY <1>3, <1>7, <1>8 DEF K!IInv

LEMMA HdrKept ==
  ASSUME K!KcoreAssumption, K!IInv, K!StoreHdr
  PROVE  K!IInv'
<1>1. /\ klist \in Klists /\ file_off \in [Segments -> Nat]
      /\ at = "offs" /\ at' = "open"
      /\ phdr' = [s \in Segments |-> file_off[s] + K!elf_buflen]
      /\ UNCHANGED <<klist, i, off, file_off, fd, kcfd, count, short>>
      /\ fd = 0 /\ ~short
  BY DEF K!IInv, K!Types, K!Offsets, K!StoreHdr, Segments, K!out
<1>2. /\ Len(klist) \in Nat /\ Segments = 1..Len(klist) /\ K!elf_buflen \in Nat
      /\ \A s \in Segments : K!Ceiling(klist[s].size) \in Nat
  BY <1>1, Table, HeaderSize
<1>3. i = Len(klist) + 1
  BY <1>2 DEF K!IInv, K!Types, K!StoreHdr
<1>4. phdr' \in [Segments -> Nat]
  BY <1>1, <1>2
<1>5. K!Types'
  BY <1>1, <1>4 DEF K!IInv, K!Types, Segments
<1>6. K!Headers'
  <2>1. \A s \in 1..(Len(klist) - 1) : phdr'[s + 1] = phdr'[s] + K!Ceiling(klist[s].size)
    <3>1. ASSUME NEW s \in 1..(Len(klist) - 1)
          PROVE  phdr'[s + 1] = phdr'[s] + K!Ceiling(klist[s].size)
      <4>1. file_off[s + 1] = file_off[s] + K!Ceiling(klist[s].size)
        BY <1>1, <1>2, <1>3 DEF K!IInv, K!Offsets, K!Following
      <4>2. s \in Segments /\ s + 1 \in Segments
        BY <1>2
      <4>3. phdr'[s] = file_off[s] + K!elf_buflen /\ phdr'[s + 1] = file_off[s + 1] + K!elf_buflen
        BY <1>1, <4>2
      <4>4. file_off[s] \in Nat /\ K!Ceiling(klist[s].size) \in Nat
        BY <1>1, <1>2, <4>2
      <4>5. QED
        BY <1>2, <4>1, <4>3, <4>4
    <3>2. QED
      BY <3>1
  <2>2. Len(klist) > 0 => phdr'[1] = K!elf_buflen
    <3>1. Len(klist) > 0 => 1 \in Segments /\ file_off[1] = 0
      BY <1>1, <1>2, <1>3 DEF K!IInv, K!Offsets
    <3>2. ASSUME 1 \in Segments, file_off[1] = 0 PROVE phdr'[1] = K!elf_buflen
      <4>1. phdr'[1] = file_off[1] + K!elf_buflen
        BY <1>1, <3>2
      <4>2. QED
        BY <1>2, <3>2, <4>1
    <3>3. QED
      BY <3>1, <3>2
  <2>3. K!elf_buflen' = K!elf_buflen /\ \A n : K!Ceiling(n)' = K!Ceiling(n)
    BY <1>1 DEF K!elf_buflen, K!Ceiling
  <2>4. QED
    BY <1>1, <2>1, <2>2, <2>3 DEF K!Headers, K!Following
<1>7. K!Offsets' /\ K!Position' /\ K!Copying' /\ K!ErrorsStayLocal'
  BY <1>1 DEF K!Offsets, K!Position, K!Copying, K!ErrorsStayLocal
<1>8. QED
  BY <1>5, <1>6, <1>7 DEF K!IInv

(* What the steps of main after the headers have in common. *)
LEMMA Common ==
  ASSUME K!KcoreAssumption, K!IInv, UNCHANGED <<klist, off, file_off, phdr>>,
         at \in {"open", "seek", "copy"}, at' \in {"seek", "copy", "end"},
         i' \in 1..(Len(klist) + 1), at' = "copy" => i' <= Len(klist) /\ K!Stored(i'),
         fd' \in Nat, kcfd' \in Nat, count' \in Nat, short' \in BOOLEAN
  PROVE  /\ K!Types' /\ K!Offsets' /\ K!Headers'
         /\ klist \in Klists /\ Len(klist) \in Nat /\ Segments = 1..Len(klist)
         /\ \A s \in 1..(i - 1) : s \in Segments
         /\ \A s \in Segments : /\ phdr[s] \in Nat /\ klist[s].size \in Nat
                                /\ K!Ceiling(klist[s].size) \in Nat /\ klist[s].addr \in Nat
         /\ \A s \in Segments : s + 1 \in Segments => phdr[s + 1] = phdr[s] + K!Ceiling(klist[s].size)
         /\ \A s : K!NoneLeftOut(s)' = K!NoneLeftOut(s) /\ K!Stored(s)' = K!Stored(s)
<1>0. klist \in Klists /\ phdr \in [Segments -> Nat] /\ i \in 1..(Len(klist) + 1)
  BY DEF K!IInv, K!Types, Segments
<1>1. K!Types' /\ K!Offsets'
  BY DEF K!IInv, K!Types, K!Offsets, K!Stored
<1>2. K!elf_buflen' = K!elf_buflen /\ \A n : K!Ceiling(n)' = K!Ceiling(n)
  BY DEF K!elf_buflen, K!Ceiling
<1>3. K!Headers'
  BY <1>2 DEF K!IInv, K!Headers, K!Following
<1>4. /\ Len(klist) \in Nat /\ Segments = 1..Len(klist)
      /\ \A s \in Segments : /\ klist[s].addr \in Nat /\ klist[s].size \in Nat
                             /\ K!Ceiling(klist[s].size) \in Nat
  BY <1>0, Table
<1>5. \A s \in Segments : s + 1 \in Segments => phdr[s + 1] = phdr[s] + K!Ceiling(klist[s].size)
  <2>1. \A s \in 1..(Len(klist) - 1) : phdr[s + 1] = phdr[s] + K!Ceiling(klist[s].size)
    BY DEF K!IInv, K!Headers, K!Following
  <2>2. \A s \in Segments : s + 1 \in Segments => s \in 1..(Len(klist) - 1)
    BY <1>4
  <2>3. QED
    BY <2>1, <2>2
<1>6. \A s : K!NoneLeftOut(s)' = K!NoneLeftOut(s) /\ K!Stored(s)' = K!Stored(s)
  BY DEF K!NoneLeftOut, K!Stored
<1>7. \A s \in 1..(i - 1) : s \in Segments
  BY <1>0, <1>4
<1>8. QED
  BY <1>0, <1>1, <1>3, <1>4, <1>5, <1>6, <1>7

LEMMA HdrWritten ==
  ASSUME K!KcoreAssumption, K!IInv, K!WriteHdr
  PROVE  K!IInv'
<1>0. /\ klist \in Klists /\ at = "open" /\ kcfd \in Nat /\ count \in Nat
      /\ fd = 0 /\ ~short /\ (Len(klist) > 0 => phdr[1] = K!elf_buflen)
  BY DEF K!IInv, K!Types, K!Headers, K!WriteHdr
<1>1. K!elf_buflen \in Nat /\ K!elf_buflen > 0 /\ Len(klist) \in Nat
  BY <1>0, HeaderSize, Table
<1>2. PICK m \in {0, 1, K!elf_buflen} :
        K!Write([b \in 0..(K!elf_buflen - 1) |-> "header"], K!elf_buflen, m)
  BY DEF K!WriteHdr
<1>3. /\ at' \in {"seek", "end"} /\ i' = 1
      /\ UNCHANGED <<klist, off, file_off, phdr, kcfd, count>>
  BY DEF K!WriteHdr
<1>4. fd' \in Nat /\ short' \in BOOLEAN /\ (~short' => fd' = K!elf_buflen)
  <2>1. fd' = 0 + m /\ short' = (short \/ m < K!elf_buflen)
    BY <1>0, <1>2 DEF K!Write
  <2>2. short' \in BOOLEAN
    BY <2>1
  <2>3. ~short' => ~(m < K!elf_buflen)
    BY <2>1
  <2>4. QED
    BY <1>1, <2>1, <2>2, <2>3
<1>5. K!Types' /\ K!Offsets' /\ K!Headers'
  BY <1>0, <1>1, <1>3, <1>4, Common
<1>6. K!Position'
  BY <1>0, <1>3, <1>4 DEF K!Position
<1>7. K!Copying' /\ K!ErrorsStayLocal'
  BY <1>3 DEF K!Copying, K!ErrorsStayLocal
<1>8. QED
  BY <1>5, <1>6, <1>7 DEF K!IInv

LEMMA GivenUp ==
  ASSUME K!KcoreAssumption, K!IInv, K!GiveUp
  PROVE  K!IInv'
<1>1. at = "open" /\ at' = "end" /\ UNCHANGED <<klist, i, off, file_off, phdr, fd, kcfd, count, short>>
  BY DEF K!GiveUp, K!out
<1>2. K!Types' /\ K!Offsets' /\ K!Headers'
  BY <1>1, Common DEF K!IInv, K!Types
<1>3. K!Position' /\ K!Copying' /\ K!ErrorsStayLocal'
  BY <1>1 DEF K!Position, K!Copying, K!ErrorsStayLocal
<1>4. QED
  BY <1>2, <1>3 DEF K!IInv

LEMMA LeftOut ==
  ASSUME K!KcoreAssumption, K!IInv, K!LeaveOut
  PROVE  K!IInv'
<1>1. /\ at = "seek" /\ at' = "seek" /\ i' = i + 1 /\ ~K!Stored(i) /\ i <= Len(klist)
      /\ UNCHANGED <<klist, off, file_off, phdr, file, fd, kcfd, count, short, bad>>
  BY DEF K!LeaveOut, K!out
<1>2. /\ klist \in Klists /\ i \in 1..(Len(klist) + 1) /\ fd \in Nat /\ kcfd \in Nat
      /\ count \in Nat /\ short \in BOOLEAN /\ K!Position /\ K!ErrorsStayLocal
  BY DEF K!IInv, K!Types
<1>3. Len(klist) \in Nat /\ i' \in 1..(Len(klist) + 1) /\ i \in Nat /\ i >= 1
  BY <1>1, <1>2, Table
<1>4. /\ K!Types' /\ K!Offsets' /\ K!Headers'
      /\ \A s : K!NoneLeftOut(s)' = K!NoneLeftOut(s)
  BY <1>1, <1>2, <1>3, Common
<1>5. ~K!NoneLeftOut(i) /\ \A s \in 1..(i' - 1) : s # i => s \in 1..(i - 1)
  BY <1>1, <1>3 DEF K!NoneLeftOut
<1>6. K!Position'
  <2>1. i' - 1 = i
    BY <1>1, <1>3
  <2>2. QED
    BY <1>1, <1>2, <1>4, <1>5, <2>1 DEF K!Position
<1>7. K!Copying'
  BY <1>1 DEF K!Copying
<1>8. K!ErrorsStayLocal'
  <2>1. \A s, n : K!Copied(s, n)' = K!Copied(s, n)
    BY <1>1 DEF K!Copied
  <2>2. QED
    BY <1>1, <1>2, <1>4, <1>5, <2>1 DEF K!ErrorsStayLocal
<1>9. QED
  BY <1>4, <1>6, <1>7, <1>8 DEF K!IInv

LEMMA Sought ==
  ASSUME K!KcoreAssumption, K!IInv, K!Seek
  PROVE  K!IInv'
<1>1. /\ at = "seek" /\ at' = "copy" /\ i' = i /\ i <= Len(klist) /\ K!Stored(i) /\ count' = 0
      /\ kcfd' = klist[i].addr \/ (kcfd' = kcfd /\ i \in bad')
      /\ bad \subseteq bad'
      /\ UNCHANGED <<klist, off, file_off, phdr, file, fd, short>>
  BY DEF K!Seek, K!out
<1>2. /\ klist \in Klists /\ i \in 1..(Len(klist) + 1) /\ fd \in Nat /\ kcfd \in Nat
      /\ short \in BOOLEAN /\ K!Position /\ K!ErrorsStayLocal
  BY DEF K!IInv, K!Types
<1>3. Len(klist) \in Nat /\ i \in Segments /\ klist[i].addr \in Nat
  <2>1. Len(klist) \in Nat /\ Segments = 1..Len(klist)
    BY <1>2, Table
  <2>2. i \in Segments
    BY <1>1, <1>2, <2>1
  <2>3. QED
    BY <1>2, <2>1, <2>2, Table
<1>4. /\ K!Types' /\ K!Offsets' /\ K!Headers' /\ phdr[i] \in Nat
      /\ \A s : K!NoneLeftOut(s)' = K!NoneLeftOut(s) /\ K!Stored(s)' = K!Stored(s)
  <2>1. kcfd' \in Nat /\ count' \in Nat
    BY <1>1, <1>2, <1>3
  <2>2. QED
    BY <1>1, <1>2, <1>3, <2>1, Common
<1>5. 0 * Page = 0
  BY PageFact
<1>6. K!Position'
  <2>1. K!NoneLeftOut(i) => K!NoneLeftOut(i - 1)
    BY <1>2, <1>3 DEF K!NoneLeftOut
  <2>2. ~short /\ K!NoneLeftOut(i) => fd = phdr[i] + 0 * Page
    BY <1>1, <1>2, <1>4, <1>5, <2>1 DEF K!Position
  <2>3. QED
    BY <1>1, <1>2, <1>4, <2>2 DEF K!Position
<1>7. K!Copying'
  <2>1. K!Copied(i, count * Page)'
    <3>1. 0..(0 * Page - 1) = {}
      BY <1>5
    <3>2. QED
      BY <1>1, <3>1 DEF K!Copied
  <2>2. i \notin bad' => kcfd' = klist[i].addr + 0 * Page
    BY <1>1, <1>3, <1>5
  <2>3. QED
    BY <1>1, <2>1, <2>2 DEF K!Copying
<1>8. K!ErrorsStayLocal'
  <2>1. \A s, n : K!Copied(s, n)' = K!Copied(s, n)
    BY <1>1 DEF K!Copied
  <2>2. QED
    BY <1>1, <1>2, <1>4, <2>1 DEF K!ErrorsStayLocal
<1>9. QED
  BY <1>4, <1>6, <1>7, <1>8 DEF K!IInv

(* A page goes behind everything that was written before. *)
LEMMA PageCopied ==
  ASSUME K!KcoreAssumption, K!IInv, K!CopyPage
  PROVE  K!IInv'
<1>1. PICK n \in 0..Page, m \in 0..Page :
        /\ kcbuffer' = [b \in 0..(Page - 1) |-> IF b < n THEN kcfd + b ELSE kcbuffer[b]]
        /\ kcfd' = kcfd + n
        /\ K!Write(kcbuffer', Page, m)
        /\ bad' = IF n < Page THEN bad \cup {i} ELSE bad
  BY DEF K!CopyPage
<1>2. /\ at = "copy" /\ at' = "copy" /\ i' = i /\ count' = count + 1
      /\ count * Page < klist[i].size
      /\ UNCHANGED <<klist, off, file_off, phdr>>
      /\ fd' = fd + m /\ short' = (short \/ m < Page)
      /\ file' = [b \in DOMAIN file \cup fd..(fd + m - 1) |->
                    IF b \in fd..(fd + m - 1) THEN kcbuffer'[b - fd] ELSE file[b]]
  BY <1>1 DEF K!CopyPage, K!Write
<1>3. /\ klist \in Klists /\ i \in 1..(Len(klist) + 1) /\ fd \in Nat /\ kcfd \in Nat
      /\ count \in Nat /\ short \in BOOLEAN /\ K!Position /\ K!Copying /\ K!ErrorsStayLocal
  BY DEF K!IInv, K!Types
<1>4. Page \in Nat /\ Page > 0
  BY PageFact
<1>5. /\ K!Types' /\ K!Offsets' /\ K!Headers'
      /\ Len(klist) \in Nat /\ Segments = 1..Len(klist)
      /\ \A s \in 1..(i - 1) : s \in Segments
      /\ \A s \in Segments : /\ phdr[s] \in Nat /\ klist[s].size \in Nat
                             /\ klist[s].addr \in Nat
      /\ \A s : K!NoneLeftOut(s)' = K!NoneLeftOut(s) /\ K!Stored(s)' = K!Stored(s)
  <2>1. fd' \in Nat /\ kcfd' \in Nat /\ count' \in Nat
    <3>1. fd' = fd + m /\ kcfd' = kcfd + n /\ count' = count + 1
      BY <1>1, <1>2
    <3>2. fd \in Nat /\ kcfd \in Nat /\ count \in Nat /\ n \in Nat /\ m \in Nat
      BY <1>3, <1>4
    <3>3. QED
      BY <3>1, <3>2
  <2>2. short' \in BOOLEAN
    BY <1>2
  <2>3. Len(klist) \in Nat /\ i <= Len(klist) /\ K!Stored(i)
    BY <1>2, <1>3, Table DEF K!IInv, K!Types
  <2>4. QED
    BY <1>2, <1>3, <2>1, <2>2, <2>3, Common
<1>6. count * Page \in Int /\ count' * Page = count * Page + Page /\ count' - 1 = count
  <2>1. count * Page \in Int /\ (count + 1) * Page = count * Page + Page
    <3>1. count \in Int
      BY <1>3
    <3>2. QED
      BY <3>1, Products
  <2>2. count' = count + 1 /\ count \in Nat
    BY <1>2, <1>3
  <2>3. count' * Page = (count + 1) * Page /\ count' - 1 = count
    BY <2>2
  <2>4. QED
    BY <2>1, <2>3
<1>7. CASE short'
  BY <1>5, <1>7 DEF K!Position, K!Copying, K!ErrorsStayLocal, K!IInv
<1>8. CASE ~short'
  <2>1. m = Page /\ ~short
    <3>1. ~short /\ ~(m < Page)
      BY <1>2, <1>8
    <3>2. QED
      BY <1>4, <3>1
  <2>2. /\ i \in Segments /\ K!Stored(i) /\ i <= Len(klist)
        /\ K!NoneLeftOut(i) => fd = phdr[i] + count * Page
        /\ \A s \in 1..(i - 1) : K!NoneLeftOut(s) => phdr[s] + klist[s].size <= fd
    BY <1>2, <1>3, <1>5, <2>1 DEF K!Position, K!IInv, K!Types
  <2>3. \A s \in 1..(i - 1) : K!NoneLeftOut(s) => phdr[s] + klist[s].size <= fd'
    <3>1. fd' = fd + Page /\ fd \in Nat
      BY <1>2, <1>3, <2>1
    <3>2. ASSUME NEW s \in 1..(i - 1), K!NoneLeftOut(s)
          PROVE  phdr[s] + klist[s].size <= fd'
      <4>1. phdr[s] \in Nat /\ klist[s].size \in Nat
        BY <1>5
      <4>2. phdr[s] + klist[s].size <= fd
        BY <2>2, <3>2
      <4>3. QED
        BY <1>4, <3>1, <4>1, <4>2
    <3>3. QED
      BY <3>2
  <2>4. K!NoneLeftOut(i) => fd' = phdr[i] + count' * Page
    <3> DEFINE p == count * Page
               end == count' * Page
    <3>1. end = p + Page /\ p \in Int /\ (K!NoneLeftOut(i) => fd = phdr[i] + p)
      BY <1>6, <2>2
    <3> HIDE DEF p, end
    <3>2. fd' = fd + Page /\ phdr[i] \in Nat
      BY <1>2, <1>5, <2>1, <2>2
    <3>3. K!NoneLeftOut(i) => fd' = phdr[i] + end
      BY <1>4, <3>1, <3>2
    <3>4. QED
      BY <3>3 DEF end
  <2>5. K!Position'
    <3>1. (count' - 1) * Page < klist'[i'].size
      BY <1>2, <1>6
    <3>2. QED
      BY <1>2, <1>5, <2>2, <2>3, <2>4, <3>1 DEF K!Position
  <2>6. ASSUME NEW x \in Nat, x < fd, x \in DOMAIN file
        PROVE  x \in DOMAIN file' /\ file'[x] = file[x]
    BY <1>2, <1>3, <2>6
  <2>7. K!ErrorsStayLocal'
    <3>1. ASSUME NEW s \in 1..(i - 1), s \notin bad, K!NoneLeftOut(s)
          PROVE  K!Copied(s, klist[s].size)'
      <4>1. K!Copied(s, klist[s].size) /\ phdr[s] + klist[s].size <= fd
        BY <1>2, <1>3, <2>1, <2>2, <3>1 DEF K!ErrorsStayLocal
      <4>2. ASSUME NEW b \in 0..(klist[s].size - 1)
            PROVE  phdr[s] + b \in DOMAIN file' /\ file'[phdr[s] + b] = klist[s].addr + b
        <5>1. phdr[s] + b \in DOMAIN file /\ file[phdr[s] + b] = klist[s].addr + b
          BY <4>1 DEF K!Copied
        <5>2. phdr[s] + b \in Nat /\ phdr[s] + b < fd
          <6>1. phdr[s] \in Nat /\ klist[s].size \in Nat
            BY <1>5
          <6>2. fd \in Nat /\ phdr[s] + klist[s].size <= fd
            BY <1>3, <4>1
          <6>3. QED
            BY <6>1, <6>2, <4>2
        <5>3. QED
          BY <2>6, <5>1, <5>2
      <4>3. QED
        BY <1>2, <4>2 DEF K!Copied
    <3>2. QED
      BY <1>1, <1>2, <1>5, <3>1 DEF K!ErrorsStayLocal
  <2>8. K!Copying'
    <3>1. SUFFICES ASSUME i \notin bad', K!NoneLeftOut(i)
                   PROVE  kcfd' = klist[i].addr + count' * Page /\ K!Copied(i, count * Page)'
      BY <1>2, <1>5 DEF K!Copying
    <3>2. n = Page /\ i \notin bad
      BY <1>1, <1>4, <3>1
    <3>3. kcfd = klist[i].addr + count * Page /\ K!Copied(i, count * Page) /\ fd = phdr[i] + count * Page
      BY <1>2, <2>1, <2>2, <3>1, <3>2 DEF K!IInv, K!Copying
    <3>4. kcfd' = klist[i].addr + count' * Page
      <4>1. kcfd' = kcfd + Page /\ klist[i].addr \in Nat
        BY <1>1, <1>5, <2>2, <3>2
      <4>2. QED
        BY <1>4, <1>6, <3>3, <4>1
    <3> DEFINE p == count * Page
               end == count' * Page
    <3>5. /\ end = p + Page /\ p \in Int
          /\ phdr[i] \in Nat /\ klist[i].addr \in Nat
          /\ kcfd = klist[i].addr + p /\ K!Copied(i, p) /\ fd = phdr[i] + p
      BY <1>5, <1>6, <2>2, <3>3
    <3>6. K!Copied(i, count * Page)' <=> \A b \in 0..(end - 1) :
            phdr[i] + b \in DOMAIN file' /\ file'[phdr[i] + b] = klist[i].addr + b
      BY <1>2 DEF K!Copied
    <3> HIDE DEF p, end
    <3>7. ASSUME NEW b \in 0..(end - 1)
          PROVE  phdr[i] + b \in DOMAIN file' /\ file'[phdr[i] + b] = klist[i].addr + b
      <4>1. CASE b < p
        <5>1. b \in 0..(p - 1)
          BY <3>5, <4>1, <3>7, <1>4
        <5>2. phdr[i] + b \in DOMAIN file /\ file[phdr[i] + b] = klist[i].addr + b
          BY <3>5, <5>1 DEF K!Copied
        <5>3. phdr[i] + b \in Nat /\ phdr[i] + b < fd
          <6>1. phdr[i] \in Nat /\ fd = phdr[i] + p /\ p \in Int
            BY <3>5
          <6>2. QED
            BY <5>1, <6>1
        <5>4. QED
          BY <2>6, <5>2, <5>3
      <4>2. CASE ~(b < p)
        <5>1. b - p \in 0..(Page - 1) /\ phdr[i] + b \in fd..(fd + Page - 1)
              /\ (phdr[i] + b) - fd = b - p
          <6>1. /\ end = p + Page /\ p \in Int /\ phdr[i] \in Nat /\ fd = phdr[i] + p
                /\ b \in 0..(end - 1) /\ Page \in Nat
            BY <1>4, <3>5, <3>7
          <6>2. b - p \in 0..(Page - 1)
            BY <4>2, <6>1
          <6>3. QED
            BY <6>1, <6>2
        <5>2. kcbuffer'[b - p] = kcfd + (b - p)
          BY <1>1, <1>4, <3>2, <5>1
        <5>3. kcfd + (b - p) = klist[i].addr + b
          BY <3>5, <3>7
        <5>4. phdr[i] + b \in DOMAIN file' /\ file'[phdr[i] + b] = kcbuffer'[(phdr[i] + b) - fd]
          BY <1>2, <2>1, <5>1
        <5>5. QED
          BY <5>1, <5>2, <5>3, <5>4
      <4>3. QED
        BY <4>1, <4>2
    <3>8. QED
      BY <3>4, <3>6, <3>7
  <2>9. QED
    BY <1>5, <2>5, <2>7, <2>8 DEF K!IInv
<1>9. QED
  BY <1>7, <1>8

(* After its last page a segment is whole, and the next begins where the    *)
(* position is.                                                              *)
LEMMA SegmentEnded ==
  ASSUME K!KcoreAssumption, K!IInv, K!EndSegment
  PROVE  K!IInv'
<1> DEFINE p == count * Page
<1>1. /\ at = "copy" /\ at' = "seek" /\ i' = i + 1 /\ p >= klist[i].size
      /\ UNCHANGED <<klist, off, file_off, phdr, file, fd, kcfd, count, short, bad>>
  BY DEF K!EndSegment, K!out
<1>2. /\ klist \in Klists /\ i \in 1..(Len(klist) + 1) /\ fd \in Nat /\ kcfd \in Nat
      /\ count \in Nat /\ short \in BOOLEAN /\ K!Position /\ K!Copying /\ K!ErrorsStayLocal
      /\ i <= Len(klist) /\ K!Stored(i)
  BY <1>1 DEF K!IInv, K!Types
<1>3. Len(klist) \in Nat /\ i' \in 1..(Len(klist) + 1) /\ i' - 1 = i
  BY <1>1, <1>2, Table
<1>4. /\ K!Types' /\ K!Offsets' /\ K!Headers'
      /\ Segments = 1..Len(klist)
      /\ \A s \in Segments : /\ phdr[s] \in Nat /\ klist[s].size \in Nat
                             /\ K!Ceiling(klist[s].size) \in Nat /\ klist[s].addr \in Nat
      /\ \A s \in Segments : s + 1 \in Segments => phdr[s + 1] = phdr[s] + K!Ceiling(klist[s].size)
      /\ \A s : K!NoneLeftOut(s)' = K!NoneLeftOut(s) /\ K!Stored(s)' = K!Stored(s)
  BY <1>1, <1>2, <1>3, Common
<1>5. i \in Segments /\ p \in Int
  <2>1. count \in Int
    BY <1>2
  <2>2. QED
    BY <1>2, <1>3, <1>4, <2>1, Products
<1>6. CASE short
  BY <1>1, <1>4, <1>6 DEF K!Position, K!Copying, K!ErrorsStayLocal, K!IInv
<1>7. CASE ~short
  <2>1. /\ count = 0 \/ (count - 1) * Page < klist[i].size
        /\ K!NoneLeftOut(i) => fd = phdr[i] + p
        /\ \A s \in 1..(i - 1) : K!NoneLeftOut(s) => phdr[s] + klist[s].size <= fd
    BY <1>1, <1>2, <1>7 DEF K!Position
  <2>2. K!Ceiling(klist[i].size) = p
    BY <1>1, <1>2, <1>4, <1>5, <2>1, Aligned
  <2> HIDE DEF p
  <2>3. K!Position'
    <3>1. \A s \in 1..i : K!NoneLeftOut(s) => phdr[s] + klist[s].size <= fd
      <4>1. K!NoneLeftOut(i) => phdr[i] + klist[i].size <= fd
        <5>1. phdr[i] \in Nat /\ klist[i].size \in Nat
          BY <1>4, <1>5
        <5>2. QED
          BY <1>1, <1>5, <2>1, <5>1
      <4>2. \A s \in 1..i : s = i \/ s \in 1..(i - 1)
        BY <1>2
      <4>3. QED
        BY <2>1, <4>1, <4>2
    <3>2. i + 1 <= Len(klist) /\ K!NoneLeftOut(i) => fd = phdr[i + 1]
      <4>1. i + 1 <= Len(klist) => i + 1 \in Segments
        BY <1>2, <1>3, <1>4
      <4>2. QED
        BY <1>4, <1>5, <2>1, <2>2, <4>1
    <3>3. QED
      BY <1>1, <1>3, <1>4, <3>1, <3>2 DEF K!Position
  <2>4. \A s, n : K!Copied(s, n)' = K!Copied(s, n)
    BY <1>1 DEF K!Copied
  <2>5. K!ErrorsStayLocal'
    <3>1. ASSUME i \notin bad, K!NoneLeftOut(i)
          PROVE  K!Copied(i, klist[i].size)
      <4>1. K!Copied(i, p)
        BY <1>1, <1>2, <1>7, <3>1 DEF K!Copying, p
      <4>2. \A b \in 0..(klist[i].size - 1) : b \in 0..(p - 1)
        <5>1. klist[i].size \in Nat
          BY <1>4, <1>5
        <5>2. QED
          BY <1>1, <1>5, <5>1
      <4>3. QED
        BY <4>1, <4>2 DEF K!Copied
    <3>2. \A s \in 1..(i - 1) : s \notin bad /\ K!NoneLeftOut(s) => K!Copied(s, klist[s].size)
      BY <1>1, <1>2, <1>7 DEF K!ErrorsStayLocal
    <3>3. \A s \in 1..i : s = i \/ s \in 1..(i - 1)
      BY <1>2
    <3>4. QED
      BY <1>1, <1>3, <1>4, <2>4, <3>1, <3>2, <3>3 DEF K!ErrorsStayLocal
  <2>6. K!Copying'
    BY <1>1 DEF K!Copying
  <2>7. QED
    BY <1>4, <2>3, <2>5, <2>6 DEF K!IInv
<1>8. QED
  BY <1>2, <1>6, <1>7

LEMMA StepIInv ==
  ASSUME K!KcoreAssumption, K!IInv, [K!Next]_(K!vars)
  PROVE  K!IInv'
<1>1. CASE UNCHANGED K!vars
  <2>1. UNCHANGED <<klist, at, i, off, file_off, phdr, file, fd, kcfd, count, short, bad>>
    BY <1>1 DEF K!vars, K!out
  <2>2. K!Types'
    BY <2>1 DEF K!IInv, K!Types, K!Stored
  <2>3. K!Offsets' /\ K!Headers'
    BY <2>1 DEF K!IInv, K!Offsets, K!Following, K!Headers, K!elf_buflen, K!Ceiling
  <2>4. /\ \A t : K!NoneLeftOut(t)' = K!NoneLeftOut(t)
        /\ \A t, n : K!Copied(t, n)' = K!Copied(t, n)
    BY <2>1 DEF K!NoneLeftOut, K!Stored, K!Copied
  <2>5. K!Position'
    BY <2>1, <2>4 DEF K!IInv, K!Position
  <2>6. K!Copying' /\ K!ErrorsStayLocal'
    BY <2>1, <2>4 DEF K!IInv, K!Copying, K!ErrorsStayLocal
  <2>7. QED
    BY <2>2, <2>3, <2>5, <2>6 DEF K!IInv
<1>2. CASE K!Next
  BY <1>2, OffsKept, HdrKept, HdrWritten, GivenUp, LeftOut, Sought, PageCopied, SegmentEnded
     DEF K!Next
<1>3. QED
  BY <1>1, <1>2

(* The offsets, the headers and the position in the file stay in step, for   *)
(* every table of segments and every sequence of failing and short calls.   *)
THEOREM CopyInvariance ==
  ASSUME K!KcoreAssumption
  PROVE  K!Spec => []K!IInv
BY FirstIInv, StepIInv, PTL DEF K!Spec

(* A failed seek or read costs no other segment: what was copied is where   *)
(* its program header says, unless a write was short or a segment before it *)
(* was left out.                                                             *)
THEOREM ErrorsAreLocal ==
  ASSUME K!KcoreAssumption
  PROVE  K!Spec => []K!ErrorsStayLocal
<1>1. K!IInv => K!ErrorsStayLocal
  BY DEF K!IInv
<1>2. QED
  BY <1>1, CopyInvariance, PTL
==============================================================================
