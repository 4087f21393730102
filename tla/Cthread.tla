------------------------------- MODULE Cthread -------------------------------
(***************************************************************************)
(* The cthread library of cthread.c under popcorn_backend.c: keys, values  *)
(* of a key per thread, and the areas of memory (thread control blocks)    *)
(* that the register fs points to and that hold them.                      *)
(*                                                                         *)
(* backend_init reserves a key and calls cthread_initialize, which takes   *)
(* the main thread from the area libc gave it to one of the library's own. *)
(* Threads made by cthread_create get an area of the library.  From then   *)
(* on any thread may call the functions of the library.                    *)
(*                                                                         *)
(* The table of keys is the only memory the threads share without          *)
(* protection, so only cthread_key_create is taken apart: the macro called *)
(* atomic_compare_and_exchange_bool_acq is a load, a comparison and a      *)
(* store.  Every other function touches one word of the table and the area *)
(* of its thread.  PTHREAD_KEYS_MAX (8) is less than                       *)
(* PTHREAD_KEY_2NDLEVEL_SIZE (32): a valid key always selects the first    *)
(* block, and the branches for a second level only reject the key -1.      *)
(* Destructors are stored and never called.                                *)
(***************************************************************************)
EXTENDS Integers

CONSTANTS
  KeysMax,      \* PTHREAD_KEYS_MAX
  MaxThreads,   \* a bound on the threads that are created
  Value,        \* the values threads store
  Junk          \* what unused memory may hold

Key == 0..(KeysMax - 1)
NoKey == -1
Main == 0
Tid == 0..MaxThreads
Libc == -1      \* the area libc gave the main thread
NoSelector == -2
Null == 0       \* the null pointer
Guard == 1      \* the stack guard libc has chosen

ASSUME KeysMaxAssumption == KeysMax \in Nat \ {0}
ASSUME MaxThreadsAssumption == MaxThreads \in Nat
ASSUME ValueAssumption == Null \notin Value /\ Junk \notin Value \cup {Null}

VARIABLES
  status,     \* the process: "running" or "exited"
  seq,        \* ____pthread_keys[].seq
  saved,      \* saved_selector of popcorn_backend.c
  area,       \* area[t]: self, stack guard and first block of thread t's area
  fs,         \* fs[t]: the area the register of t points to
  pc, cnt, old,   \* cthread_key_create: label and locals of each thread
  got,        \* history: got[t] is the key t was given last
  begun,      \* history: begun[t], the keys given out before t asked for its own
  given,      \* history: the keys given out
  last        \* history: last[t][k] is what t stored last under key k

table == <<seq, cnt, old, got, begun, given>>
vars == <<status, table, saved, area, fs, pc, last>>

Zero == [seq |-> 0, data |-> Null]
NewArea(self, guard) == [self |-> self, guard |-> guard, block |-> [k \in Key |-> Zero]]

Init == /\ status = "running"
        /\ seq = [k \in Key |-> 0]
        /\ saved = NoSelector
        /\ area = [t \in Tid |-> NewArea(NoSelector, 0)]
        /\ fs = [t \in Tid |-> Libc]
        /\ pc = [t \in Tid |-> IF t = Main THEN "scan" ELSE "unborn"]
        /\ cnt = [t \in Tid |-> 0]
        /\ old = [t \in Tid |-> 0]
        /\ got = [t \in Tid |-> NoKey]
        /\ begun = [t \in Tid |-> {}]
        /\ given = {}
        /\ last = [t \in Tid |-> [k \in Key |-> Null]]

Goto(t, p) == pc' = [pc EXCEPT ![t] = p]
Runs(t, p) == status = "running" /\ pc[t] = p

Exit == /\ status' = "exited"
        /\ UNCHANGED <<table, saved, area, fs, pc, last>>

Unused(s) == s % 2 = 0

(* THREAD_SELF: the field self of the area fs points to.  libc's points to *)
(* itself.                                                                 *)
Self(t) == IF fs[t] = Libc THEN Libc ELSE area[fs[t]].self
GuardOf(t) == IF fs[t] = Libc THEN Guard ELSE area[fs[t]].guard
-----------------------------------------------------------------------------
(* Variants of definitions below, each a bug this code could have had. *)

ReadSeqAnyway(t) ==
  /\ Runs(t, "scan")
  /\ cnt[t] < KeysMax
  /\ old' = [old EXCEPT ![t] = seq[cnt[t]]]
  /\ Goto(t, "compare")
  /\ UNCHANGED <<status, seq, cnt, got, begun, given, saved, area, fs, last>>

InitializeKeepsSelf ==
  /\ Runs(Main, "initialize")
  /\ area' = [area EXCEPT ![Main] = NewArea(Libc, Guard)]
  /\ saved' = fs[Main]
  /\ fs' = [fs EXCEPT ![Main] = Main]
  /\ Goto(Main, "run")
  /\ UNCHANGED <<status, table, last>>

CreateWithoutSetTls(t, w) ==
  /\ Runs(t, "run")
  /\ pc[w] = "unborn"
  /\ area' = [area EXCEPT ![w] = NewArea(w, GuardOf(t))]
  /\ fs' = [fs EXCEPT ![w] = fs[t]]
  /\ Goto(w, "run")
  /\ UNCHANGED <<status, table, saved, last>>

-----------------------------------------------------------------------------
(* cthread_key_create; the first call is the one in backend_init.            *)

KeyCreate(t) ==
  /\ Runs(t, "run")
  /\ cnt' = [cnt EXCEPT ![t] = 0]
  /\ begun' = [begun EXCEPT ![t] = given]
  /\ got' = [got EXCEPT ![t] = NoKey]
  /\ Goto(t, "scan")
  /\ UNCHANGED <<status, seq, old, given, saved, area, fs, last>>

(* uintptr_t seq = ____pthread_keys[cnt].seq, and whether it is unused. *)
ReadSeq(t) ==
  /\ Runs(t, "scan")
  /\ cnt[t] < KeysMax
  /\ IF Unused(seq[cnt[t]])
     THEN /\ old' = [old EXCEPT ![t] = seq[cnt[t]]]
          /\ Goto(t, "compare")
          /\ UNCHANGED cnt
     ELSE cnt' = [cnt EXCEPT ![t] = @ + 1] /\ UNCHANGED <<old, pc>>
  /\ UNCHANGED <<status, seq, got, begun, given, saved, area, fs, last>>

(* *__gmemp == (oldval) *)
Compare(t) ==
  /\ Runs(t, "compare")
  /\ IF seq[cnt[t]] = old[t]
     THEN Goto(t, "reserve") /\ UNCHANGED cnt
     ELSE cnt' = [cnt EXCEPT ![t] = @ + 1] /\ Goto(t, "scan")
  /\ UNCHANGED <<status, seq, old, got, begun, given, saved, area, fs, last>>

(* *__gmemp = __gnewval, and the key is returned. *)
Reserve(t) ==
  /\ Runs(t, "reserve")
  /\ seq' = [seq EXCEPT ![cnt[t]] = old[t] + 1]
  /\ got' = [got EXCEPT ![t] = cnt[t]]
  /\ given' = given \cup {cnt[t]}
  /\ Goto(t, IF saved = NoSelector THEN "initialize" ELSE "run")
  /\ UNCHANGED <<status, cnt, old, begun, saved, area, fs, last>>

(* return EAGAIN, with which backend_init would exit. *)
TableFull(t) ==
  /\ Runs(t, "scan")
  /\ cnt[t] = KeysMax
  /\ IF saved = NoSelector THEN Exit
     ELSE Goto(t, "run") /\ UNCHANGED <<status, table, saved, area, fs, last>>
-----------------------------------------------------------------------------
(* cthread_initialize.  The memset clears the front of the allocation, and   *)
(* the area is behind it: its block holds what the memory held.  The header  *)
(* is copied from libc's area, self set to the new one.  An allocation may   *)
(* fail, which ends the process.                                             *)
Initialize ==
  /\ Runs(Main, "initialize")
  /\ \/ \E block \in [Key -> {Zero, [seq |-> 1, data |-> Junk]}] :
          /\ area' = [area EXCEPT ![Main] =
                       [self |-> Main, guard |-> GuardOf(Main), block |-> block]]
          /\ saved' = fs[Main]
          /\ fs' = [fs EXCEPT ![Main] = Main]
          /\ Goto(Main, "run")
          /\ UNCHANGED <<status, table, last>>
     \/ Exit

(* cthread_create: the area is cleared, guard and pointers come from the     *)
(* caller's; clone starts the thread with fs at the area.                    *)
Create(t, w) ==
  /\ Runs(t, "run")
  /\ pc[w] = "unborn"
  /\ area' = [area EXCEPT ![w] = NewArea(w, area[Self(t)].guard)]
  /\ fs' = [fs EXCEPT ![w] = w]
  /\ Goto(w, "run")
  /\ UNCHANGED <<status, table, saved, last>>

(* An allocation in cthread_create exits when it fails; backend_run_func_on *)
(* exits when clone does.                                                   *)
CreateFails(t) == Runs(t, "run") /\ Exit

(* backend_start_func: the function has returned, and clone_exit exits. *)
End(w) == w # Main /\ Runs(w, "run") /\ Exit

(* cthread_restore, from backend_exit: main has libc's area again. *)
Restore ==
  /\ Runs(Main, "run")
  /\ fs' = [fs EXCEPT ![Main] = saved]
  /\ Goto(Main, "done")
  /\ UNCHANGED <<status, table, saved, area, last>>

(* What cthread_getspecific returns for a key of the table; for -1 it      *)
(* returns NULL.                                                           *)
Result(t, k) ==
  LET d == area[Self(t)].block[k] IN
  IF d.data # Null /\ d.seq # seq[k] THEN Null ELSE d.data

(* cthread_getspecific also forgets a value that is stale. *)
GetSpecific(t, k) ==
  /\ Runs(t, "run")
  /\ area' = [area EXCEPT ![Self(t)].block[k].data = Result(t, k)]
  /\ UNCHANGED <<status, table, saved, fs, pc, last>>

(* cthread_setspecific; EINVAL for a key that is not in use, or for -1. *)
SetSpecific(t, k, v) ==
  /\ Runs(t, "run")
  /\ ~Unused(seq[k])
  /\ area' = [area EXCEPT ![Self(t)].block[k] = [seq |-> seq[k], data |-> v]]
  /\ last' = [last EXCEPT ![t][k] = v]
  /\ UNCHANGED <<status, table, saved, fs, pc>>

Next == \/ \E t \in Tid : \/ KeyCreate(t) \/ ReadSeq(t) \/ Compare(t)
                          \/ Reserve(t) \/ TableFull(t)
                          \/ \E w \in Tid : Create(t, w)
                          \/ CreateFails(t) \/ End(t)
                          \/ \E k \in Key : GetSpecific(t, k)
                          \/ \E k \in Key, v \in Value \cup {Null} : SetSpecific(t, k, v)
        \/ Initialize \/ Restore

Spec == Init /\ [][Next]_vars
-----------------------------------------------------------------------------
Datum == [seq : Nat, data : Value \cup {Null, Junk}]
Area == [self : Tid \cup {Libc, NoSelector}, guard : {0, Guard}, block : [Key -> Datum]]
PC == {"unborn", "scan", "compare", "reserve", "initialize", "run", "done"}

TypeOK ==
  /\ status \in {"running", "exited"}
  /\ seq \in [Key -> Nat]
  /\ saved \in {NoSelector, Libc}
  /\ area \in [Tid -> Area]
  /\ fs \in [Tid -> Tid \cup {Libc}]
  /\ pc \in [Tid -> PC]
  /\ cnt \in [Tid -> 0..KeysMax]
  /\ old \in [Tid -> Nat]
  /\ got \in [Tid -> Key \cup {NoKey}]
  /\ begun \in [Tid -> SUBSET Key]
  /\ given \in SUBSET Key
  /\ last \in [Tid -> [Key -> Value \cup {Null}]]

(* A key is given to one caller only, as far as calls do not overlap: a    *)
(* key that was given out before a call began is not given to that call.   *)
(* (Two calls at the same time may both pass Compare and get one key.)     *)
KeyGivenOnce == \A t \in Tid : got[t] # NoKey => got[t] \notin begun[t]

(* The thread has an area of the library. *)
Settled(t) == IF t = Main THEN saved # NoSelector /\ pc[t] # "done" ELSE pc[t] # "unborn"

(* Every thread finds its own area through fs, and in it the stack guard   *)
(* with which the process began: functions compiled with a guard read it   *)
(* before and after cthread_initialize has changed fs.                     *)
OwnArea == \A t \in Tid :
  Settled(t) => fs[t] = t /\ area[t].self = t /\ area[t].guard = Guard

(* A thread gets what it stored itself, or NULL.  The exception is the     *)
(* main thread, which may find what was in the memory of its area as long  *)
(* as it has stored nothing under the key.                                 *)
OwnValue == \A t \in Tid, k \in Key :
  Settled(t) => \/ Result(t, k) = last[t][k]
                \/ t = Main /\ Result(t, k) = Junk /\ last[t][k] = Null

(* Why: a key is out of use until it is given, and never again; what a     *)
(* thread stored carries the number its key still has.                     *)
TakenIsUsed ==
  /\ \A k \in given : seq[k] = 1
  /\ \A k \in Key : seq[k] \in {0, 1}
  /\ \A t \in Tid :
       /\ begun[t] \subseteq given
       /\ pc[t] \in {"compare", "reserve"} =>
            cnt[t] \in Key /\ cnt[t] \notin begun[t] /\ old[t] = 0

StoredIsCurrent == \A t \in Tid, k \in Key :
  LET d == area[t].block[k] IN
  /\ d.data \in Value => d.seq = 1 /\ seq[k] = 1
  /\ Settled(t) => \/ d.data = last[t][k]
                   \/ t = Main /\ d.data = Junk /\ last[t][k] = Null
  /\ saved = NoSelector \/ pc[t] = "unborn" => last[t][k] = Null

Places == \A t \in Tid :
  /\ pc[t] = "initialize" => t = Main /\ saved = NoSelector
  /\ saved = NoSelector =>
       IF t = Main THEN /\ pc[t] \in {"scan", "compare", "reserve", "initialize"}
                        /\ fs[t] = Libc
       ELSE pc[t] = "unborn"
  /\ pc[t] = "unborn" => t # Main

IInv == TypeOK /\ KeyGivenOnce /\ OwnArea /\ TakenIsUsed /\ StoredIsCurrent /\ Places
=============================================================================
