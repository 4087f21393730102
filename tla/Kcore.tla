-------------------------------- MODULE Kcore --------------------------------
(***************************************************************************)
(* kcore.c: writes an ELF core of a kernel, with one program header for    *)
(* each segment of the static table klist, and then the segments, page by  *)
(* page, as /dev/mem has them.  The place of a segment in the file is not  *)
(* looked up when it is written: calcolate_offs computes it for the header *)
(* before, and main relies on its own writes to arrive there.              *)
(*                                                                         *)
(* Reads, writes and seeks may fail or be short; main reports it and goes  *)
(* on.  The content of memory at an address is the address.                *)
(***************************************************************************)
EXTENDS Integers, Sequences

CONSTANTS
  Klists,       \* the tables klist that may be compiled in
  Page,         \* PAGE_SIZE, also SEG_ALIGNMENT
  Ehdr, Phdr,   \* the sizes of the ELF header and of a program header
  Leftover,     \* sizes of the file from an earlier run; 0 for none
  MaxFaults     \* bound on the calls that fail or are short

ASSUME KcoreAssumption ==
  /\ Page \in Nat \ {0} /\ Ehdr \in Nat \ {0} /\ Phdr \in Nat /\ MaxFaults \in Nat
  /\ Klists \subseteq Seq([addr : Nat, size : Nat,
                          type : {"TEXT", "VMALLOC", "RAM", "VMEMMAP", "OTHER"}])

VARIABLES
  klist,      \* addr, size and type of the segments
  pc, i,
  off,        \* calcolate_offs: the end of the segments so far
  file_off,   \* of the segments
  phdr,       \* p_offset of the segments' headers
  file, fd,   \* the bytes of the file, and the position in it
  kcfd,       \* the position in /dev/mem
  kcbuffer, count,
  faults,
  short,      \* history: a write to the file was not whole
  bad         \* history: the segments with a failed seek or read

out == <<file, fd>>
vars == <<klist, pc, i, off, file_off, phdr, out, kcfd, kcbuffer, count, faults, short, bad>>

Ceiling(n) == n + ((Page - (n % Page)) % Page)
elf_buflen == Ceiling(Ehdr + (Len(klist) + 1) * Phdr)
Stored(s) == klist[s].type \in {"RAM", "TEXT"}

Init == /\ klist \in Klists
        /\ pc = "offs" /\ i = 1
        /\ off = 0
        /\ file_off = [s \in DOMAIN klist |-> 0]
        /\ phdr = [s \in DOMAIN klist |-> 0]
        /\ \E n \in Leftover : file = [b \in 0..(n - 1) |-> "old"]
        /\ fd = 0 /\ kcfd = 0
        /\ kcbuffer = [b \in 0..(Page - 1) |-> "junk"]
        /\ count = 0
        /\ faults = 0
        /\ short = FALSE /\ bad = {}

(* A variant of the next definition, a bug this code could have had. *)
OffWithoutPadding ==
  /\ pc = "offs" /\ i <= Len(klist)
  /\ file_off' = [file_off EXCEPT ![i] = off]
  /\ off' = off + klist[i].size
  /\ i' = i + 1
  /\ UNCHANGED <<klist, pc, phdr, out, kcfd, kcbuffer, count, faults, short, bad>>

CalcolateOff ==
  /\ pc = "offs" /\ i <= Len(klist)
  /\ file_off' = [file_off EXCEPT ![i] = off]
  /\ off' = off + Ceiling(klist[i].size)
  /\ i' = i + 1
  /\ UNCHANGED <<klist, pc, phdr, out, kcfd, kcbuffer, count, faults, short, bad>>

(* elf_kcore_store_hdr *)
StoreHdr ==
  /\ pc = "offs" /\ i > Len(klist)
  /\ phdr' = [s \in DOMAIN klist |-> file_off[s] + elf_buflen]
  /\ pc' = "open"
  /\ UNCHANGED <<klist, i, off, file_off, out, kcfd, kcbuffer, count, faults, short, bad>>

(* write(fd, buffer, n), of which m bytes arrive; the file is not truncated *)
(* when it is opened.                                                      *)
Write(buffer, n, m) ==
  /\ m = n \/ faults < MaxFaults
  /\ file' = [b \in DOMAIN file \cup fd..(fd + m - 1) |->
                IF b \in fd..(fd + m - 1) THEN buffer[b - fd] ELSE file[b]]
  /\ fd' = fd + m
  /\ short' = (short \/ m < n)

(* The header is written; if /dev/mem cannot be opened, nothing else is. *)
WriteHdr ==
  /\ pc = "open"
  /\ \E m \in {0, 1, elf_buflen} :
       /\ Write([b \in 0..(elf_buflen - 1) |-> "header"], elf_buflen, m)
       /\ faults' = IF m = elf_buflen THEN faults ELSE faults + 1
  /\ pc' \in {"seek", "end"} /\ i' = 1
  /\ UNCHANGED <<klist, off, file_off, phdr, kcfd, kcbuffer, count, bad>>

(* There is no memory, or the file cannot be opened. *)
GiveUp ==
  /\ pc = "open"
  /\ pc' = "end"
  /\ UNCHANGED <<klist, i, off, file_off, phdr, out, kcfd, kcbuffer, count, faults, short, bad>>

(* A segment of another type is left out of the file - and the segments    *)
(* after it are not where their headers say.                               *)
LeaveOut ==
  /\ pc = "seek" /\ i <= Len(klist)
  /\ ~Stored(i)
  /\ i' = i + 1
  /\ UNCHANGED <<klist, pc, off, file_off, phdr, out, kcfd, kcbuffer, count, faults, short, bad>>

(* lseek64 to the segment; if it fails the position stays. *)
Seek ==
  /\ pc = "seek" /\ i <= Len(klist)
  /\ Stored(i)
  /\ \/ kcfd' = klist[i].addr /\ UNCHANGED <<faults, bad>>
     \/ faults < MaxFaults /\ faults' = faults + 1 /\ bad' = bad \cup {i} /\ UNCHANGED kcfd
  /\ pc' = "copy"
  /\ count' = 0
  /\ UNCHANGED <<klist, i, off, file_off, phdr, out, kcbuffer, short>>

(* A variant of the next definition, a bug this code could have had. *)
CopyWhatWasRead ==
  /\ pc = "copy" /\ count * Page < klist[i].size
  /\ \E n, m \in 0..Page :
       /\ n < Page => faults < MaxFaults
       /\ kcbuffer' = [b \in 0..(Page - 1) |-> IF b < n THEN kcfd + b ELSE kcbuffer[b]]
       /\ kcfd' = kcfd + n
       /\ Write(kcbuffer', n, m)
       /\ bad' = IF n < Page THEN bad \cup {i} ELSE bad
       /\ faults' = IF n < Page \/ m < n THEN faults + 1 ELSE faults
  /\ count' = count + 1
  /\ UNCHANGED <<klist, pc, i, off, file_off, phdr>>

(* One page: n bytes are read (0 also for an error), the buffer keeps the  *)
(* rest of what it had, and a whole page is written, of which m arrive.    *)
CopyPage ==
  /\ pc = "copy" /\ count * Page < klist[i].size
  /\ \E n, m \in 0..Page :
       /\ n < Page => faults < MaxFaults
       /\ kcbuffer' = [b \in 0..(Page - 1) |-> IF b < n THEN kcfd + b ELSE kcbuffer[b]]
       /\ kcfd' = kcfd + n
       /\ Write(kcbuffer', Page, m)
       /\ bad' = IF n < Page THEN bad \cup {i} ELSE bad
       /\ faults' = IF n < Page \/ m < Page THEN faults + 1 ELSE faults
  /\ count' = count + 1
  /\ UNCHANGED <<klist, pc, i, off, file_off, phdr>>

EndSegment ==
  /\ pc = "copy" /\ count * Page >= klist[i].size
  /\ pc' = "seek" /\ i' = i + 1
  /\ UNCHANGED <<klist, off, file_off, phdr, out, kcfd, kcbuffer, count, faults, short, bad>>

Next == \/ CalcolateOff \/ StoreHdr \/ WriteHdr \/ GiveUp
        \/ LeaveOut \/ Seek \/ CopyPage \/ EndSegment

Spec == Init /\ [][Next]_vars
-----------------------------------------------------------------------------
(* A failed seek or read costs the segment it happens in and no other:     *)
(* unless a write was short, every other segment that has been copied is   *)
(* where its program header says, to the last byte - as long as no segment *)
(* before it was left out.                                                 *)
Copied(s, n) == \A b \in 0..(n - 1) :
  phdr[s] + b \in DOMAIN file /\ file[phdr[s] + b] = klist[s].addr + b
NoneLeftOut(s) == \A t \in 1..s : Stored(t)

ErrorsStayLocal == pc \in {"seek", "copy"} /\ ~short =>
  \A s \in 1..(i - 1) : s \notin bad /\ NoneLeftOut(s) => Copied(s, klist[s].size)

(* Why: the offsets follow one another, and so do the headers; and the     *)
(* position in the file, which main never sets, is that of the segment.    *)
Following(p, n) == \A s \in 1..(n - 1) : p[s + 1] = p[s] + Ceiling(klist[s].size)

Types ==
  /\ klist \in Klists
  /\ pc \in {"offs", "open", "seek", "copy", "end"} /\ i \in 1..(Len(klist) + 1)
  /\ off \in Nat /\ fd \in Nat /\ kcfd \in Nat /\ count \in Nat
  /\ file_off \in [DOMAIN klist -> Nat] /\ phdr \in [DOMAIN klist -> Nat]
  /\ short \in BOOLEAN
  /\ pc = "copy" => i <= Len(klist) /\ Stored(i)

Offsets == pc = "offs" =>
  /\ Following(file_off, i - 1)
  /\ off = IF i = 1 THEN 0 ELSE file_off[i - 1] + Ceiling(klist[i - 1].size)
  /\ i > 1 => file_off[1] = 0
  /\ fd = 0 /\ ~short

Headers == pc \in {"open", "seek", "copy"} =>
  /\ Following(phdr, Len(klist))
  /\ Len(klist) > 0 => phdr[1] = elf_buflen
  /\ pc = "open" => fd = 0 /\ ~short

Position == pc \in {"seek", "copy"} /\ ~short =>
  /\ \A s \in 1..(i - 1) : NoneLeftOut(s) => phdr[s] + klist[s].size <= fd
  /\ pc = "seek" /\ i <= Len(klist) /\ NoneLeftOut(i - 1) => fd = phdr[i]
  /\ pc = "copy" =>
       /\ count = 0 \/ (count - 1) * Page < klist[i].size
       /\ NoneLeftOut(i) => fd = phdr[i] + count * Page

Copying == pc = "copy" /\ ~short /\ i \notin bad /\ NoneLeftOut(i) =>
  kcfd = klist[i].addr + count * Page /\ Copied(i, count * Page)

IInv == Types /\ Offsets /\ Headers /\ Position /\ Copying /\ ErrorsStayLocal
=============================================================================
