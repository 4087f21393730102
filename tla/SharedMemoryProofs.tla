-------------------------- MODULE SharedMemoryProofs --------------------------
(***************************************************************************)
(* Proofs about the two protocols whose only ground is memory that several *)
(* programs map: Tunnel, for every number of kernels, packets and          *)
(* restarts; and ShmRpc, which is the instance R, for any number of calls  *)
(* and of kills.                                                           *)
(***************************************************************************)
EXTENDS Tunnel, TLAPS

CONSTANTS N, MaxKills
VARIABLES segment, packet, cpc, srv, round, arg1, arg2, kills, spoiled, served, returned
R == INSTANCE ShmRpc WITH exists <- segment, pkt <- packet, spc <- srv,
                          i <- round, a <- arg1, b <- arg2


-----------------------------------------------------------------------------
(* Types.                                                                    *)

LEMMA Values == Empty \in Word /\ Junk \in Word /\ Packet \subseteq Word
BY DEF Word

LEMMA InitType == Init => TypeOK
<1> SUFFICES ASSUME Init PROVE TypeOK
  OBVIOUS
<1>1. ASSUME NEW d \in Slots
      PROVE  slot[d] \in [magic : BOOLEAN, status : {"none", "connected"}, lock : {0, 1},
                          i : Word, buffer : [1..2 -> Word]]
  <2>1. slot[d] \in [magic : {FALSE}, status : {"none"}, lock : {0, 1},
                     i : {Empty, Junk}, buffer : {<<Junk, Junk>>}]
    BY DEF Init
  <2>2. <<Junk, Junk>> \in [1..2 -> Word]
    BY Values
  <2>3. QED
    BY <2>1, <2>2, Values
<1>2. TypeSlots
  BY <1>1 DEF Init, TypeSlots
<1>3. QED
  BY <1>2, Values, BoundsAssumption DEF Init, TypeOK, MainPC, SendPC, RecvPC

LEMMA InitUpType == InitUp => TypeOK
BY Values, KernelAssumption, BoundsAssumption
   DEF InitUp, TypeOK, TypeSlots, Slots, MainPC, SendPC, RecvPC

LEMMA ReadType ==
  ASSUME TypeOK, NEW k \in Kernel, NEW b \in Octets[k], Read(k, b)
  PROVE  TypeOK'
<1>1. b \in 0..255
  BY OctetsAssumption
<1>2. [src |-> k, seq |-> next[k], octet |-> b] \in Word
  BY <1>1, BoundsAssumption DEF TypeOK, Read, Word, Packet
<1>3. spc' \in [Kernel -> SendPC] /\ pkt' \in [Kernel -> Word]
  BY <1>2 DEF TypeOK, Read, Send, SendPC
<1>4. next' \in [Kernel -> 1..(MaxPackets + 1)]
  BY BoundsAssumption DEF TypeOK, Read
<1>5. QED
  BY <1>3, <1>4 DEF TypeOK, TypeSlots, Read, history

LEMMA MainType ==
  ASSUME TypeOK, NEW k \in Kernel, Start(k) \/ Open(k) \/ Kill(k)
  PROVE  TypeOK'
<1> USE KernelAssumption, BoundsAssumption, Values
    DEF TypeOK, TypeSlots, Slots, MainPC, SendPC, RecvPC, Main, history
<1>1. CASE Start(k)
  <2>1. starts' \in [Kernel -> 0..MaxStarts]
    BY <1>1 DEF Start
  <2>2. main' \in [Kernel -> MainPC]
    BY <1>1 DEF Start
  <2>3. QED
    BY <1>1, <2>1, <2>2 DEF Start
<1>2. CASE OpenI(k)
  BY <1>2, ZenonT(60) DEF OpenI
<1>3. CASE OpenMagic(k)
  BY <1>3, ZenonT(60) DEF OpenMagic
<1>4. CASE OpenLock(k)
  BY <1>4, ZenonT(60) DEF OpenLock
<1>5. CASE Kill(k)
  BY <1>5 DEF Kill, Die
<1>6. QED
  BY <1>1, <1>2, <1>3, <1>4, <1>5 DEF Open

LEMMA SendType ==
  ASSUME TypeOK, NEW k \in Kernel, PopSend(k)
  PROVE  TypeOK'
<1> USE KernelAssumption, BoundsAssumption, Values
    DEF TypeOK, TypeSlots, Slots, MainPC, SendPC, RecvPC, Send, history
<1>1. CASE Wild(k)
  BY <1>1 DEF Wild, Die
<1>2. CASE CheckMagic(k)
  BY <1>2 DEF CheckMagic
<1>3. CASE SpinEmpty(k)
  BY <1>3 DEF SpinEmpty
<1>4. CASE TestAndSet(k)
  BY <1>4, ZenonT(60) DEF TestAndSet
<1>5. CASE Copy(k)
  <2>1. ASSUME NEW n \in 1..2, slot' = [slot EXCEPT ![Dest(k)].buffer[n] = pkt[k]]
        PROVE  TypeSlots'
    <3>1. CASE Dest(k) \in Slots
      <4> DEFINE old == slot[Dest(k)]
                 new == [old EXCEPT !.buffer = [old.buffer EXCEPT ![n] = pkt[k]]]
                 SlotType == [magic : BOOLEAN, status : {"none", "connected"},
                              lock : {0, 1}, i : Word, buffer : [1..2 -> Word]]
      <4>1. old \in SlotType
        BY <3>1
      <4>2. [old.buffer EXCEPT ![n] = pkt[k]] \in [1..2 -> Word]
        BY <4>1
      <4>3. new \in SlotType
        BY <4>1, <4>2
      <4>4. slot' = [slot EXCEPT ![Dest(k)] = new]
        BY <2>1
      <4>5. slot \in [Slots -> SlotType]
        OBVIOUS
      <4> HIDE DEF new, old, SlotType
      <4>6. slot' \in [Slots -> SlotType]
        BY <4>3, <4>4, <4>5
      <4>7. QED
        BY <4>6 DEF SlotType
    <3>2. CASE Dest(k) \notin Slots
      BY <2>1, <3>2
    <3>3. QED
      BY <3>1, <3>2
  <2>2. TypeSlots'
    BY <1>5, <2>1 DEF Copy
  <2>3. spc' \in [Kernel -> SendPC]
    BY <1>5 DEF Copy
  <2>4. QED
    BY <1>5, <2>2, <2>3 DEF Copy
<1>6. CASE Publish(k)
  BY <1>6, ZenonT(60) DEF Publish
<1>7. CASE Unlock(k)
  BY <1>7, ZenonT(60) DEF Unlock
<1>8. QED
  BY <1>1, <1>2, <1>3, <1>4, <1>5, <1>6, <1>7 DEF PopSend

LEMMA RecvType ==
  ASSUME TypeOK, NEW k \in Kernel, PopRecv(k)
  PROVE  TypeOK'
<1> USE KernelAssumption, BoundsAssumption, Values
    DEF TypeOK, TypeSlots, Slots, MainPC, SendPC, RecvPC, Recv, history
<1>0. k \in Slots
  OBVIOUS
<1>1. CASE Connect(k)
  BY <1>1, ZenonT(60) DEF Connect
<1>2. CASE Poll(k)
  BY <1>2 DEF Poll
<1>3. CASE Take(k)
  BY <1>3 DEF Take
<1>4. CASE Write(k)
  <2>1. /\ byte[k] \in Word /\ half[k] \in Word
        /\ slot[k].buffer[1] \in Word /\ slot[k].buffer[2] \in Word
    BY <1>0
  <2>2. CASE Recv(k, "write", "writeRest")
    BY <1>4, <2>1, <2>2 DEF Write
  <2>3. CASE Recv(k, "writeRest", "clear")
    <3> DEFINE m == [length |-> byte[k], first |-> half[k], rest |-> slot[k].buffer[2]]
               Message == [length : Word, first : Word, rest : Word]
    <3>1. m \in Message
      BY <2>1
    <3>2. delivered' = [delivered EXCEPT ![k] = Append(@, m)] /\ UNCHANGED half
      BY <1>4, <2>3 DEF Write
    <3>3. delivered \in [Kernel -> Seq(Message)]
      OBVIOUS
    <3>4. delivered' \in [Kernel -> Seq(Message)]
      <4> HIDE DEF m, Message
      <4>1. Append(delivered[k], m) \in Seq(Message)
        BY <3>1, <3>3
      <4>2. QED
        BY <3>2, <3>3, <4>1
    <3>5. rpc' \in [Kernel -> RecvPC]
      BY <2>3
    <3>6. QED
      BY <1>4, <3>2, <3>4, <3>5 DEF Write
  <2>4. QED
    BY <1>4, <2>2, <2>3 DEF Write
<1>5. CASE Clear(k)
  BY <1>5, ZenonT(60) DEF Clear
<1>6. QED
  BY <1>1, <1>2, <1>3, <1>4, <1>5 DEF PopRecv

LEMMA NextType == TypeOK /\ [Next]_vars => TypeOK'
<1> SUFFICES ASSUME TypeOK, [Next]_vars PROVE TypeOK'
  OBVIOUS
<1>1. CASE UNCHANGED vars
  BY <1>1 DEF vars, local, history, TypeOK, TypeSlots
<1>2. QED
  BY <1>1, ReadType, MainType, SendType, RecvType DEF Next

(* The fields of the area and the locals of the threads have their types. *)
THEOREM TypeCorrect == Spec => []TypeOK
BY InitType, NextType, PTL DEF Spec

-----------------------------------------------------------------------------
(* A sender that is busy has a packet for a slot, to an address it sends to. *)

LEMMA AddressedStep ==
  ASSUME TypeOK, Addressed, [Next]_vars
  PROVE  Addressed'
<1> USE DEF TypeOK, Addressed, Busy, Dest, Send, SendPC, history
<1>1. ASSUME NEW k \in Kernel, NEW b \in Octets[k], Read(k, b) PROVE Addressed'
  BY <1>1 DEF Read
<1>2. ASSUME NEW k \in Kernel, Start(k) \/ Open(k) \/ Kill(k) PROVE Addressed'
  BY <1>2 DEF Start, Open, OpenI, OpenMagic, OpenLock, Kill, Die
<1>3. ASSUME NEW k \in Kernel, PopSend(k) PROVE Addressed'
  BY <1>3 DEF PopSend, Wild, Die, CheckMagic, SpinEmpty, TestAndSet, Copy, Publish, Unlock
<1>4. ASSUME NEW k \in Kernel, PopRecv(k) PROVE Addressed'
  BY <1>4 DEF PopRecv, Connect, Poll, Take, Write, Clear
<1>5. CASE UNCHANGED vars
  BY <1>5 DEF vars, local
<1>6. QED
  BY <1>1, <1>2, <1>3, <1>4, <1>5 DEF Next

-----------------------------------------------------------------------------
(* The lock.  While no open_shm runs, only TestAndSet and Unlock write a     *)
(* lock, and both keep the lock of a written slot at 1.                      *)

LEMMA LockInit == InitUp /\ MaxStarts = 1 => LockInv
<1> SUFFICES ASSUME InitUp, MaxStarts = 1 PROVE LockInv
  OBVIOUS
<1>1. TypeOK
  BY InitUpType
<1>2. \A k \in Kernel : ~Busy(k) /\ main[k] = "up" /\ starts[k] = 1
  BY DEF InitUp, Busy
<1>3. \A d \in Slots : Writers(d) = {}
  BY DEF InitUp, Writers
<1>4. QED
  BY <1>1, <1>2, <1>3 DEF LockInv, Addressed, Opened, HoldsLock, OneWriter

(* Steps that leave the locks alone and let no thread become a writer. *)
LEMMA LockKept ==
  ASSUME LockInv, Opened',
         \A d \in Slots : slot'[d].lock = slot[d].lock,
         \A d \in Slots : Writers(d)' \subseteq Writers(d)
  PROVE  Opened' /\ HoldsLock' /\ OneWriter'
BY DEF LockInv, HoldsLock, OneWriter

LEMMA LockSend ==
  ASSUME LockInv, NEW k \in Kernel, PopSend(k)
  PROVE  Opened' /\ HoldsLock' /\ OneWriter'
<1> USE DEF Send, Dest
<1>0. /\ TypeOK /\ TypeSlots /\ Addressed /\ Opened /\ HoldsLock /\ OneWriter
      /\ main \in [Kernel -> MainPC] /\ spc \in [Kernel -> SendPC]
  BY DEF LockInv, TypeOK
<1>1. CASE Wild(k)
  <2>1. Opened' /\ \A d \in Slots : slot'[d].lock = slot[d].lock
    BY <1>0, <1>1 DEF Wild, Die, Opened
  <2>2. \A d \in Slots : Writers(d)' \subseteq Writers(d)
    BY <1>0, <1>1 DEF Wild, Die, Writers
  <2>3. QED
    BY <2>1, <2>2, LockKept
<1>2. CASE CheckMagic(k) \/ SpinEmpty(k)
  <2>1. Opened' /\ \A d \in Slots : slot'[d].lock = slot[d].lock
    BY <1>0, <1>2 DEF CheckMagic, SpinEmpty, Opened
  <2>2. \A d \in Slots : Writers(d)' \subseteq Writers(d)
    BY <1>0, <1>2 DEF CheckMagic, SpinEmpty, Writers
  <2>3. QED
    BY <2>1, <2>2, LockKept
<1>3. CASE TestAndSet(k)
  <2>1. Dest(k) \in Slots
    BY <1>0, <1>3 DEF TestAndSet, Addressed, Busy, SendPC
  <2>2. Opened'
    BY <1>0, <1>3 DEF TestAndSet, Opened
  <2>3. /\ slot'[Dest(k)].lock = 1
        /\ \A d \in Slots \ {Dest(k)} : slot'[d].lock = slot[d].lock
    BY <1>0, <1>3, <2>1 DEF TestAndSet, TypeSlots
  <2>4. CASE slot[Dest(k)].lock = 1
    <3>1. \A d \in Slots : Writers(d)' \subseteq Writers(d)
      BY <1>0, <1>3, <2>4 DEF TestAndSet, Writers
    <3>2. \A d \in Slots : slot'[d].lock = slot[d].lock
      BY <2>3, <2>4
    <3>3. QED
      BY <2>2, <3>1, <3>2, LockKept
  <2>5. CASE slot[Dest(k)].lock # 1
    <3>1. Writers(Dest(k)) = {}
      BY <1>0, <2>1, <2>5 DEF HoldsLock
    <3>2. \A d \in Slots : Writers(d)' = IF d = Dest(k) THEN {k} ELSE Writers(d)
      <4>1. spc' = [spc EXCEPT ![k] = "copy"] /\ spc[k] = "lock" /\ pkt' = pkt
        BY <1>3, <2>5 DEF TestAndSet
      <4>2. QED
        BY <1>0, <3>1, <4>1 DEF Writers
    <3>3. QED
      <4> HIDE DEF Dest
      <4>1. QED
        BY <1>0, <2>2, <2>3, <3>2 DEF HoldsLock, OneWriter
  <2>6. QED
    BY <2>4, <2>5
<1>4. CASE Copy(k) \/ Publish(k)
  <2>1. Opened' /\ \A d \in Slots : slot'[d].lock = slot[d].lock
    BY <1>0, <1>4 DEF Copy, Publish, Opened, TypeSlots
  <2>2. \A d \in Slots : Writers(d)' \subseteq Writers(d)
    BY <1>0, <1>4 DEF Copy, Publish, Writers
  <2>3. QED
    BY <2>1, <2>2, LockKept
<1>5. CASE Unlock(k)
  <2>1. k \in Writers(Dest(k)) /\ Dest(k) \in Slots
    BY <1>0, <1>5 DEF Unlock, Writers, Addressed, Busy, SendPC
  <2>2. Writers(Dest(k)) = {k}
    BY <1>0, <2>1 DEF OneWriter
  <2>3. \A d \in Slots : Writers(d)' = IF d = Dest(k) THEN {} ELSE Writers(d)
    BY <1>0, <1>5, <2>2 DEF Unlock, Writers
  <2>4. /\ Opened'
        /\ \A d \in Slots \ {Dest(k)} : slot'[d].lock = slot[d].lock
    BY <1>0, <1>5 DEF Unlock, Opened, TypeSlots
  <2>5. QED
    BY <1>0, <2>3, <2>4 DEF HoldsLock, OneWriter
<1>6. QED
  BY <1>1, <1>2, <1>3, <1>4, <1>5 DEF PopSend

LEMMA LockStep ==
  ASSUME LockInv, MaxStarts = 1, [Next]_vars
  PROVE  LockInv'
<1>0. /\ TypeOK /\ TypeSlots /\ Addressed /\ Opened /\ HoldsLock /\ OneWriter
      /\ main \in [Kernel -> MainPC] /\ spc \in [Kernel -> SendPC]
      /\ pkt \in [Kernel -> Word]
  BY DEF LockInv, TypeOK
<1>1. TypeOK' /\ Addressed'
  BY <1>0, NextType, AddressedStep
<1>2. ASSUME NEW k \in Kernel, NEW b \in Octets[k], Read(k, b)
      PROVE  Opened' /\ HoldsLock' /\ OneWriter'
  <2>1. Opened' /\ \A d \in Slots : slot'[d].lock = slot[d].lock
    BY <1>0, <1>2 DEF Read, Opened
  <2>2. \A d \in Slots : Writers(d)' \subseteq Writers(d)
    BY <1>0, <1>2 DEF Read, Send, Writers, Dest
  <2>3. QED
    BY <2>1, <2>2, LockKept
<1>3. ASSUME NEW k \in Kernel
      PROVE  ~Start(k) /\ ~Open(k) /\ ~Kill(k)
  BY <1>0 DEF Opened, Start, Open, OpenI, OpenMagic, OpenLock, Main, Kill
<1>4. ASSUME NEW k \in Kernel, PopRecv(k)
      PROVE  Opened' /\ HoldsLock' /\ OneWriter'
  <2>1. Opened' /\ \A d \in Slots : Writers(d)' \subseteq Writers(d)
    BY <1>0, <1>4 DEF PopRecv, Connect, Poll, Take, Write, Clear, Opened, Writers, Dest
  <2>2. \A d \in Slots : slot'[d].lock = slot[d].lock
    BY <1>0, <1>4, SMTT(30) DEF PopRecv, Connect, Poll, Take, Write, Clear, TypeSlots
  <2>3. QED
    BY <2>1, <2>2, LockKept
<1>5. ASSUME UNCHANGED vars
      PROVE  Opened' /\ HoldsLock' /\ OneWriter'
  BY <1>0, <1>5 DEF vars, local, Opened, HoldsLock, OneWriter, Writers, Dest
<1>6. Opened' /\ HoldsLock' /\ OneWriter'
  BY <1>2, <1>3, <1>4, <1>5, LockSend DEF Next
<1>7. QED
  BY <1>1, <1>6 DEF LockInv

(* Between tunnels that are all up and that nobody starts again, the lock of *)
(* a slot admits one writer at a time, however many kernels send to it.      *)
THEOREM LockExcludes == ASSUME MaxStarts = 1 PROVE UpSpec => []OneWriter
<1>1. InitUp => LockInv
  BY LockInit
<1>2. LockInv /\ [Next]_vars => LockInv'
  BY LockStep
<1>3. LockInv => OneWriter
  BY DEF LockInv
<1>4. QED
  BY <1>1, <1>2, <1>3, PTL DEF UpSpec

-----------------------------------------------------------------------------
(* Whole packets, where no two kernels send to the same slot.                *)

LEMMA WholeInit == Init => WholeInv
<1> SUFFICES ASSUME Init PROVE WholeInv
  OBVIOUS
<1>1. TypeOK
  BY InitType
<1>2. \A k \in Kernel : spc[k] = "off" /\ rpc[k] = "off" /\ delivered[k] = <<>>
  BY DEF Init
<1>3. ASSUME NEW d \in Slots, slot[d].i # Empty
      PROVE  slot[d].buffer[1] = slot[d].i /\ slot[d].buffer[2] = slot[d].i
  <2>1. slot[d] \in [magic : {FALSE}, status : {"none"}, lock : {0, 1},
                     i : {Empty, Junk}, buffer : {<<Junk, Junk>>}]
    BY DEF Init
  <2>2. slot[d].i = Junk /\ slot[d].buffer = <<Junk, Junk>>
    BY <1>3, <2>1
  <2>3. QED
    BY <2>2
<1>4. NothingTorn
  <2>1. \A k \in Kernel : DOMAIN delivered[k] = {}
    BY <1>2
  <2>2. QED
    BY <2>1 DEF NothingTorn
<1>5. Addressed /\ ThreadsUp /\ Filling /\ Taking
  BY <1>2 DEF Addressed, Busy, ThreadsUp, Filling, Taking
<1>6. QED
  BY <1>1, <1>3, <1>4, <1>5 DEF WholeInv, Whole

LEMMA OneSender ==
  ASSUME Exclusive, Addressed, NEW j \in Kernel, NEW k \in Kernel,
         Busy(j), Busy(k), Dest(j) = Dest(k)
  PROVE  j = k
BY DEF Exclusive, Addressed, Dest

(* A step writes no buffer and no length; no pop_send gets further with its  *)
(* packet, other than to a slot that is empty; every pop_recv stays where it *)
(* is or returns to polling, and hands over nothing.                         *)
PacketsKept == \A d \in Slots :
  slot'[d].buffer = slot[d].buffer /\ slot'[d].i = slot[d].i

SendKept(k) ==
  \/ spc'[k] \in {"off", "read", "wild", "magic", "spin", "unlock"}
  \/ spc'[k] = spc[k] /\ pkt'[k] = pkt[k]
  \/ /\ spc'[k] \in {"lock", "copy"} /\ pkt'[k] = pkt[k]
     /\ Dest(k) \in Slots /\ slot[Dest(k)].i = Empty

RecvKept(k) ==
  \/ rpc'[k] \in {"off", "connect", "poll"}
  \/ rpc'[k] = rpc[k] /\ byte'[k] = byte[k] /\ half'[k] = half[k]

LEMMA WholeKept ==
  ASSUME WholeInv, PacketsKept, \A k \in Kernel : SendKept(k),
         \A k \in Kernel : RecvKept(k), delivered' = delivered
  PROVE  Filling' /\ Whole' /\ Taking' /\ NothingTorn'
<1> USE DEF PacketsKept, SendKept, RecvKept
<1>1. NothingTorn'
  BY DEF WholeInv, NothingTorn
<1>2. Whole'
  BY DEF WholeInv, Whole
<1>3. \A k \in Kernel : k \in Slots
  BY KernelAssumption DEF Slots
<1>4. Taking'
  BY <1>3 DEF WholeInv, Taking
<1>5. ASSUME NEW k \in Kernel
      PROVE  (/\ spc[k] \in {"lock", "copy", "copyRest", "publish"} => slot[Dest(k)].i = Empty
              /\ spc[k] \in {"copyRest", "publish"} => slot[Dest(k)].buffer[1] = pkt[k]
              /\ spc[k] = "publish" => slot[Dest(k)].buffer[2] = pkt[k])'
  <2>1. CASE spc'[k] \in {"off", "read", "wild", "magic", "spin", "unlock"}
    BY <2>1
  <2>2. CASE spc'[k] = spc[k] /\ pkt'[k] = pkt[k]
    <3>1. Busy(k) => Dest(k) \in Slots
      BY DEF WholeInv, Addressed
    <3>2. QED
      BY <2>2, <3>1 DEF WholeInv, Filling, Dest, Busy, SendPC
  <2>3. CASE spc'[k] \in {"lock", "copy"} /\ pkt'[k] = pkt[k]
             /\ Dest(k) \in Slots /\ slot[Dest(k)].i = Empty
    BY <2>3 DEF Dest
  <2>4. QED
    BY <2>1, <2>2, <2>3
<1>6. Filling'
  BY <1>5 DEF Filling
<1>7. QED
  BY <1>1, <1>2, <1>4, <1>6

LEMMA ThreadsStep ==
  ASSUME TypeOK, ThreadsUp, [Next]_vars
  PROVE  ThreadsUp'
<1> USE DEF TypeOK, ThreadsUp, Send, Recv, Main, history
<1>1. ASSUME NEW k \in Kernel, NEW b \in Octets[k], Read(k, b) PROVE ThreadsUp'
  BY <1>1 DEF Read
<1>2. ASSUME NEW k \in Kernel, Start(k) \/ Open(k) \/ Kill(k) PROVE ThreadsUp'
  BY <1>2 DEF Start, Open, OpenI, OpenMagic, OpenLock, Kill, Die
<1>3. ASSUME NEW k \in Kernel, PopSend(k) PROVE ThreadsUp'
  BY <1>3 DEF PopSend, Wild, Die, CheckMagic, SpinEmpty, TestAndSet, Copy, Publish, Unlock
<1>4. ASSUME NEW k \in Kernel, PopRecv(k) PROVE ThreadsUp'
  BY <1>4 DEF PopRecv, Connect, Poll, Take, Write, Clear
<1>5. CASE UNCHANGED vars
  BY <1>5 DEF vars, local
<1>6. QED
  BY <1>1, <1>2, <1>3, <1>4, <1>5 DEF Next

LEMMA WholeMain ==
  ASSUME WholeInv, NEW k \in Kernel, Start(k) \/ Open(k) \/ Kill(k)
  PROVE  Filling' /\ Whole' /\ Taking' /\ NothingTorn'
<1>0. /\ TypeOK /\ TypeSlots /\ Addressed /\ ThreadsUp
      /\ Filling /\ Whole /\ Taking /\ NothingTorn
      /\ spc \in [Kernel -> SendPC] /\ rpc \in [Kernel -> RecvPC]
  BY DEF WholeInv, TypeOK
<1>1. CASE OpenI(k)
  <2>1. /\ UNCHANGED <<spc, pkt, rpc, byte, half, delivered>>
        /\ rpc[k] = "off"
    BY <1>0, <1>1 DEF OpenI, Main, ThreadsUp, history
  <2>2. \A d \in Slots : /\ slot'[d].buffer = slot[d].buffer
                          /\ slot'[d].i = IF d = k THEN Empty ELSE slot[d].i
    BY <1>0, <1>1 DEF OpenI, TypeSlots
  <2>3. Whole' /\ NothingTorn'
    BY <1>0, <2>1, <2>2 DEF Whole, NothingTorn
  <2>4. Taking'
    <3>1. \A j \in Kernel : j \in Slots
      BY KernelAssumption DEF Slots
    <3>2. QED
      BY <1>0, <2>1, <2>2, <3>1 DEF Taking
  <2>5. Filling'
    <3>1. \A j \in Kernel : Busy(j) => Dest(j) \in Slots
      BY <1>0 DEF Addressed
    <3>2. QED
      BY <1>0, <2>1, <2>2, <3>1 DEF Filling, Busy, SendPC, Dest
  <2>6. QED
    BY <2>3, <2>4, <2>5
<1>2. CASE ~OpenI(k)
  <2>1. PacketsKept
    BY <1>0, <1>2 DEF Start, Open, OpenMagic, OpenLock, Kill, Die, TypeSlots, PacketsKept
  <2>2. ASSUME NEW j \in Kernel PROVE SendKept(j)
    BY <1>0, <1>2 DEF Start, Open, OpenMagic, OpenLock, Kill, Die, SendKept
  <2>3. ASSUME NEW j \in Kernel PROVE RecvKept(j)
    BY <1>0, <1>2 DEF Start, Open, OpenMagic, OpenLock, Kill, Die, RecvKept
  <2>4. delivered' = delivered
    BY <1>2 DEF Start, Open, OpenMagic, OpenLock, Kill, Die, history
  <2>5. QED
    BY <2>1, <2>2, <2>3, <2>4, WholeKept
<1>3. QED
  BY <1>1, <1>2

LEMMA WholeRead ==
  ASSUME WholeInv, NEW k \in Kernel, NEW b \in Octets[k], Read(k, b)
  PROVE  Filling' /\ Whole' /\ Taking' /\ NothingTorn'
<1>1. /\ spc \in [Kernel -> SendPC]
      /\ UNCHANGED <<slot, rpc, byte, half, delivered>>
  BY DEF WholeInv, TypeOK, Read, history
<1>2. PacketsKept /\ \A j \in Kernel : RecvKept(j)
  BY <1>1 DEF PacketsKept, RecvKept
<1>3. ASSUME NEW j \in Kernel PROVE SendKept(j)
  <2>1. CASE j = k
    BY <1>1, <2>1 DEF Read, Send, SendKept
  <2>2. CASE j # k
    <3>1. pkt'[j] = pkt[j]
      BY <2>2 DEF Read, WholeInv, TypeOK
    <3>2. spc'[j] = spc[j]
      BY <1>1, <2>2 DEF Read, Send
    <3>3. QED
      BY <3>1, <3>2 DEF SendKept
  <2>3. QED
    BY <2>1, <2>2
<1>4. QED
  BY <1>1, <1>2, <1>3, WholeKept

LEMMA WholeSend ==
  ASSUME Exclusive, WholeInv, NEW k \in Kernel, PopSend(k)
  PROVE  Filling' /\ Whole' /\ Taking' /\ NothingTorn'
<1>0. /\ TypeOK /\ TypeSlots /\ Addressed /\ Filling /\ Whole /\ Taking /\ NothingTorn
      /\ spc \in [Kernel -> SendPC] /\ rpc \in [Kernel -> RecvPC]
      /\ main \in [Kernel -> MainPC]
  BY DEF WholeInv, TypeOK
<1>1. \A j \in Kernel : Busy(j) => Dest(j) \in Slots
  BY <1>0 DEF Addressed
<1>2. CASE Copy(k)
  <2> DEFINE d == Dest(k)
  <2>1. /\ UNCHANGED <<pkt, rpc, byte, half, delivered>>
        /\ Busy(k) /\ d \in Slots /\ slot[d].i = Empty
        /\ \A e \in Slots : slot'[e].i = slot[e].i
        /\ \A e \in Slots \ {d} : slot'[e].buffer = slot[e].buffer
    BY <1>0, <1>1, <1>2 DEF Copy, Send, history, Busy, SendPC, Filling, TypeSlots
  <2>2. Taking' /\ NothingTorn'
    <3>1. \A j \in Kernel : j \in Slots
      BY KernelAssumption DEF Slots
    <3>2. QED
      BY <1>0, <2>1, <3>1 DEF Taking, NothingTorn
  <2>3. Whole'
    BY <1>0, <2>1 DEF Whole
  <2>4. ASSUME NEW j \in Kernel, j # k, Busy(j)
        PROVE  /\ slot'[Dest(j)].i = slot[Dest(j)].i
               /\ slot'[Dest(j)].buffer = slot[Dest(j)].buffer
    <3>1. Dest(j) \in Slots /\ Dest(j) # d
      BY <1>0, <1>1, <2>1, <2>4, OneSender
    <3>2. QED
      BY <2>1, <3>1
  <2>5. \A j \in Kernel \ {k} : spc'[j] = spc[j]
    BY <1>0, <1>2 DEF Copy, Send
  <2>6. /\ spc'[k] \in {"copyRest", "publish"} /\ slot'[d].buffer[1] = pkt[k]
        /\ spc'[k] = "publish" => slot'[d].buffer[2] = pkt[k]
    BY <1>0, <1>2, <2>1 DEF Copy, Send, TypeSlots, Filling
  <2>7. Filling'
    <3>1. ASSUME NEW j \in Kernel
          PROVE  (/\ spc[j] \in {"lock", "copy", "copyRest", "publish"} => slot[Dest(j)].i = Empty
                  /\ spc[j] \in {"copyRest", "publish"} => slot[Dest(j)].buffer[1] = pkt[j]
                  /\ spc[j] = "publish" => slot[Dest(j)].buffer[2] = pkt[j])'
      <4>1. CASE j = k
        BY <2>1, <2>6, <4>1 DEF Dest
      <4>2. CASE j # k
        BY <1>0, <2>1, <2>4, <2>5, <4>2 DEF Dest, Busy, SendPC, Filling
      <4>3. QED
        BY <4>1, <4>2
    <3>2. QED
      BY <3>1 DEF Filling
  <2>8. QED
    BY <2>2, <2>3, <2>7
<1>3. CASE Publish(k)
  <2> DEFINE d == Dest(k)
  <2>1. /\ UNCHANGED <<pkt, rpc, byte, half, delivered>>
        /\ Busy(k) /\ d \in Slots /\ slot[d].i = Empty
        /\ slot[d].buffer[1] = pkt[k] /\ slot[d].buffer[2] = pkt[k]
    BY <1>0, <1>1, <1>3 DEF Publish, Send, history, Busy, SendPC, Filling
  <2>2. /\ \A e \in Slots : slot'[e].buffer = slot[e].buffer
        /\ \A e \in Slots \ {d} : slot'[e].i = slot[e].i
        /\ slot'[d].i = pkt[k]
    BY <1>0, <1>3, <2>1 DEF Publish, TypeSlots
  <2>3. Whole' /\ NothingTorn'
    BY <1>0, <2>1, <2>2 DEF Whole, NothingTorn
  <2>4. Taking'
    <3>1. ASSUME NEW j \in Kernel
          PROVE  j = d => rpc[j] \notin {"take", "write", "writeRest", "clear"}
      BY <1>0, <2>1 DEF Taking
    <3>2. ASSUME NEW j \in Kernel
          PROVE  j # d => slot'[j].i = slot[j].i
      BY <2>2, KernelAssumption DEF Slots
    <3>3. QED
      BY <1>0, <2>1, <3>1, <3>2 DEF Taking
  <2>5. ASSUME NEW j \in Kernel, j # k, Busy(j)
        PROVE  /\ slot'[Dest(j)].i = slot[Dest(j)].i
               /\ slot'[Dest(j)].buffer = slot[Dest(j)].buffer
    <3>1. Dest(j) \in Slots /\ Dest(j) # d
      BY <1>0, <1>1, <2>1, <2>5, OneSender
    <3>2. QED
      BY <2>2, <3>1
  <2>6. spc'[k] = "unlock" /\ \A j \in Kernel \ {k} : spc'[j] = spc[j]
    BY <1>0, <1>3 DEF Publish, Send
  <2>7. Filling'
    BY <1>0, <2>1, <2>5, <2>6 DEF Filling, Dest, Busy, SendPC
  <2>8. QED
    BY <2>3, <2>4, <2>7
<1>4. CASE ~Copy(k) /\ ~Publish(k)
  <2>1. PacketsKept
    BY <1>0, <1>4
       DEF PopSend, Wild, Die, CheckMagic, SpinEmpty, TestAndSet, Unlock, TypeSlots, PacketsKept
  <2>2. ASSUME NEW j \in Kernel PROVE SendKept(j)
    <3>1. pkt' = pkt /\ (j # k => spc'[j] = spc[j])
      BY <1>0, <1>4 DEF PopSend, Wild, Die, CheckMagic, SpinEmpty, TestAndSet, Unlock, Send
    <3>2. CASE Wild(k) \/ CheckMagic(k) \/ Unlock(k)
      BY <1>0, <3>1, <3>2 DEF Wild, Die, CheckMagic, Unlock, Send, SendKept
    <3>3. CASE SpinEmpty(k) \/ TestAndSet(k)
      <4>1. Busy(k) /\ slot[Dest(k)].i = Empty
        BY <1>0, <3>3 DEF SpinEmpty, TestAndSet, Send, Busy, SendPC, Filling
      <4>2. spc'[k] \in {"lock", "copy", "spin"}
        BY <1>0, <3>3 DEF SpinEmpty, TestAndSet, Send
      <4>3. QED
        BY <1>1, <3>1, <4>1, <4>2 DEF SendKept
    <3>4. QED
      BY <1>4, <3>2, <3>3 DEF PopSend
  <2>3. ASSUME NEW j \in Kernel PROVE RecvKept(j)
    BY <1>0, <1>4
       DEF PopSend, Wild, Die, CheckMagic, SpinEmpty, TestAndSet, Unlock, RecvKept
  <2>4. delivered' = delivered
    BY <1>4 DEF PopSend, Wild, Die, CheckMagic, SpinEmpty, TestAndSet, Unlock, history
  <2>5. QED
    BY <2>1, <2>2, <2>3, <2>4, WholeKept
<1>5. QED
  BY <1>2, <1>3, <1>4

LEMMA WholeRecv ==
  ASSUME WholeInv, NEW k \in Kernel, PopRecv(k)
  PROVE  Filling' /\ Whole' /\ Taking' /\ NothingTorn'
<1>0. /\ TypeOK /\ TypeSlots /\ Addressed /\ Filling /\ Whole /\ Taking /\ NothingTorn
      /\ spc \in [Kernel -> SendPC] /\ rpc \in [Kernel -> RecvPC]
      /\ byte \in [Kernel -> Word] /\ half \in [Kernel -> Word]
      /\ delivered \in [Kernel -> Seq([length : Word, first : Word, rest : Word])]
      /\ \A j \in Kernel : j \in Slots
  BY KernelAssumption DEF WholeInv, TypeOK, Slots
<1>1. CASE Connect(k)
  <2>1. PacketsKept /\ delivered' = delivered
    BY <1>0, <1>1 DEF Connect, TypeSlots, PacketsKept, history
  <2>2. \A j \in Kernel : SendKept(j) /\ RecvKept(j)
    BY <1>0, <1>1 DEF Connect, Recv, SendKept, RecvKept
  <2>3. QED
    BY <2>1, <2>2, WholeKept
<1>2. CASE Poll(k) \/ Take(k)
  <2>1. UNCHANGED <<slot, spc, pkt, half, delivered>>
    BY <1>2 DEF Poll, Take, history
  <2>2. Filling' /\ Whole' /\ NothingTorn'
    BY <1>0, <2>1 DEF Filling, Whole, NothingTorn, Dest
  <2>3. Taking'
    BY <1>0, <1>2, <2>1 DEF Poll, Take, Recv, Taking
  <2>4. QED
    BY <2>2, <2>3
<1>3. CASE Write(k)
  <2>1. UNCHANGED <<slot, spc, pkt, byte>>
    BY <1>3 DEF Write
  <2>2. Filling' /\ Whole'
    BY <1>0, <2>1 DEF Filling, Whole, Dest
  <2>3. rpc[k] \in {"write", "writeRest"}
    BY <1>3 DEF Write, Recv
  <2>4. slot[k].buffer[1] = slot[k].i /\ slot[k].buffer[2] = slot[k].i
    BY <1>0, <2>3 DEF Taking, Whole
  <2>5. Taking'
    BY <1>0, <1>3, <2>1, <2>4 DEF Write, Recv, Taking
  <2>6. NothingTorn'
    <3>1. CASE delivered' = delivered
      BY <1>0, <3>1 DEF NothingTorn
    <3>2. CASE Recv(k, "writeRest", "clear")
      <4> DEFINE m == [length |-> byte[k], first |-> half[k], rest |-> slot[k].buffer[2]]
      <4>0. rpc[k] = "writeRest" /\ byte[k] = slot[k].i /\ half[k] = slot[k].i
        BY <1>0, <3>2 DEF Recv, Taking
      <4>1. m.length = m.first /\ m.first = m.rest
        BY <2>4, <4>0
      <4>2. delivered' = [delivered EXCEPT ![k] = Append(@, m)]
        BY <1>3, <3>2 DEF Write, Recv
      <4> DEFINE Message == [length : Word, first : Word, rest : Word]
      <4>3. m \in Message /\ delivered[k] \in Seq(Message)
        <5>1. byte[k] \in Word /\ half[k] \in Word /\ slot[k].buffer[2] = byte[k]
          BY <1>0, <2>4, <4>0
        <5>2. QED
          BY <1>0, <5>1
      <4> HIDE DEF m, Message
      <4>4. \A n \in DOMAIN delivered'[k] :
              \/ delivered'[k][n] = m
              \/ n \in DOMAIN delivered[k] /\ delivered'[k][n] = delivered[k][n]
        <5>1. delivered'[k] = Append(delivered[k], m)
          BY <1>0, <4>2
        <5>2. QED
          BY <4>3, <5>1
      <4>5. \A j \in Kernel \ {k} : delivered'[j] = delivered[j]
        BY <1>0, <4>2
      <4>6. ASSUME NEW j \in Kernel, NEW n \in DOMAIN delivered'[j]
            PROVE  /\ delivered'[j][n].length = delivered'[j][n].first
                   /\ delivered'[j][n].first = delivered'[j][n].rest
        <5>1. CASE delivered'[j][n] = m
          BY <4>1, <5>1
        <5>2. CASE n \in DOMAIN delivered[j] /\ delivered'[j][n] = delivered[j][n]
          BY <1>0, <5>2 DEF NothingTorn
        <5>3. QED
          BY <4>4, <4>5, <4>6, <5>1, <5>2
      <4>7. QED
        BY <4>6 DEF NothingTorn
    <3>3. QED
      BY <1>3, <3>1, <3>2 DEF Write
  <2>7. QED
    BY <2>2, <2>5, <2>6
<1>4. CASE Clear(k)
  <2>1. /\ UNCHANGED <<spc, pkt, byte, half, delivered>>
        /\ rpc' = [rpc EXCEPT ![k] = "poll"]
    BY <1>4 DEF Clear, Recv, history
  <2>2. \A d \in Slots : /\ slot'[d].buffer = slot[d].buffer
                          /\ slot'[d].i = IF d = k THEN Empty ELSE slot[d].i
    BY <1>0, <1>4 DEF Clear, TypeSlots
  <2>3. Whole' /\ NothingTorn' /\ Taking'
    BY <1>0, <2>1, <2>2 DEF Whole, NothingTorn, Taking
  <2>4. Filling'
    <3>1. \A j \in Kernel : Busy(j) => Dest(j) \in Slots
      BY <1>0 DEF Addressed
    <3>2. QED
      BY <1>0, <2>1, <2>2, <3>1 DEF Filling, Busy, SendPC, Dest
  <2>5. QED
    BY <2>3, <2>4
<1>5. QED
  BY <1>1, <1>2, <1>3, <1>4 DEF PopRecv

LEMMA WholeStep ==
  ASSUME Exclusive, WholeInv, [Next]_vars
  PROVE  WholeInv'
<1>1. TypeOK' /\ Addressed' /\ ThreadsUp'
  BY NextType, AddressedStep, ThreadsStep DEF WholeInv
<1>2. ASSUME UNCHANGED vars
      PROVE  Filling' /\ Whole' /\ Taking' /\ NothingTorn'
  BY <1>2 DEF vars, local, history, WholeInv, Filling, Whole, Taking, NothingTorn, Dest
<1>3. Filling' /\ Whole' /\ Taking' /\ NothingTorn'
  BY <1>2, WholeMain, WholeRead, WholeSend, WholeRecv DEF Next
<1>4. QED
  BY <1>1, <1>3 DEF WholeInv

(* Where no two kernels send to the same slot, which holds on a machine with *)
(* two kernels, what WholeInv says of the slots and of the locals of both    *)
(* threads is kept, whichever tunnels are killed and started again and in    *)
(* whatever order open_shm, pop_send and pop_recv access the slot.           *)
THEOREM Invariance == ASSUME Exclusive PROVE Spec => []WholeInv
<1>1. Init => WholeInv
  BY WholeInit
<1>2. WholeInv /\ [Next]_vars => WholeInv'
  BY WholeStep
<1>3. QED
  BY <1>1, <1>2, PTL DEF Spec

(* So every packet handed to a tun device is one that was sent, in one piece. *)
THEOREM PacketsWhole == ASSUME Exclusive PROVE Spec => []NothingTorn
<1>1. WholeInv => NothingTorn
  BY DEF WholeInv
<1>2. QED
  BY <1>1, Invariance, PTL

(* Under the same condition no packet is overwritten before its destination  *)
(* took it.                                                                  *)
THEOREM PacketsKeptUntilTaken == ASSUME Exclusive PROVE Spec => []NoOverwrite
<1>1. WholeInv => NoOverwrite
  BY DEF WholeInv, Filling, NoOverwrite, Writers
<1>2. QED
  BY <1>1, Invariance, PTL
-----------------------------------------------------------------------------
(* Order and addressee, with any number of senders to a slot.                *)

LEMMA EmptyIsNoPacket ==
  /\ \A k \in Kernel : k \in Slots /\ k # -1
  /\ Empty.src = -1 /\ Empty \notin Packet
BY KernelAssumption DEF Slots, Empty, Packet

LEMMA OrderInit == Init => OrderInv
<1> SUFFICES ASSUME Init PROVE OrderInv
  OBVIOUS
<1>1. TypeOK
  BY InitType
<1>2. \A k \in Kernel : /\ spc[k] = "off" /\ rpc[k] = "off" /\ main[k] = "down"
                         /\ delivered[k] = <<>> /\ DOMAIN delivered[k] = {}
  BY DEF Init
<1>3. \A d \in Kernel : Given(d) = {} /\ Held(d) = {slot[d].i}
  BY <1>2 DEF Given, Held, Reading
<1>4. \A d \in Kernel : slot[d].i \in {Empty, Junk} /\ slot[d].i.src = -1
  <2>1. \A d \in Slots : slot[d].i \in {Empty, Junk}
    <3>1. \A d \in Slots :
            slot[d] \in [magic : {FALSE}, status : {"none"}, lock : {0, 1},
                         i : {Empty, Junk}, buffer : {<<Junk, Junk>>}]
      BY DEF Init
    <3>2. QED
      BY <3>1
  <2>2. QED
    BY <2>1, EmptyIsNoPacket DEF Empty, Junk
<1>5. Addressed /\ ThreadsUp
  BY <1>2 DEF Addressed, Busy, ThreadsUp
<1>6. Carried /\ NotYetGiven /\ InOrder
  BY <1>2, <1>3 DEF Carried, NotYetGiven, InOrder, IsOpen, Reading
<1>7. Numbered
  BY <1>2, <1>3, <1>4, EmptyIsNoPacket DEF Numbered, Busy, Pending
<1>8. QED
  BY <1>1, <1>5, <1>6, <1>7 DEF OrderInv

(* A step of slot d that publishes nothing and hands nothing over: the length *)
(* is kept or cleared, the slot is opened only when it is empty, and pop_recv *)
(* stops, polls, or goes on with the length it finds.                         *)
Kept(d) == slot'[d].i = slot[d].i

SlotMoves(d) ==
  /\ slot'[d].i \in {slot[d].i, Empty}
  /\ IsOpen(d)' => IsOpen(d) \/ slot'[d].i = Empty
  /\ \/ /\ rpc'[d] \in {"off", "connect", "poll"}
        /\ slot'[d].i = Empty \/ ~IsOpen(d)' \/ rpc[d] # "clear"
     \/ rpc'[d] = rpc[d] /\ byte'[d] = byte[d] /\ Kept(d)
     \/ rpc'[d] = "take" /\ rpc[d] = "poll" /\ slot[d].i # Empty /\ Kept(d)
     \/ rpc'[d] = "write" /\ rpc[d] = "take" /\ byte'[d] = slot[d].i /\ Kept(d)
     \/ rpc'[d] = "writeRest" /\ rpc[d] = "write" /\ byte'[d] = byte[d] /\ Kept(d)

(* A step of a pop_send that reads and publishes nothing. *)
SenderMoves(k) ==
  /\ pkt'[k] = pkt[k]
  /\ Busy(k)' => Busy(k)
  /\ Pending(k)' => Pending(k)

LEMMA OrderKept ==
  ASSUME OrderInv, \A d \in Kernel : SlotMoves(d), \A k \in Kernel : SenderMoves(k),
         delivered' = delivered, next' = next
  PROVE  Carried' /\ Numbered' /\ NotYetGiven' /\ InOrder'
<1>0. Carried /\ Numbered /\ NotYetGiven /\ InOrder /\ ThreadsUp
  BY DEF OrderInv
<1>1. InOrder'
  BY <1>0 DEF InOrder
<1>2. \A d : Given(d)' = Given(d)
  BY DEF Given
<1>3. ASSUME NEW d \in Kernel
      PROVE  (/\ IsOpen(d) => slot[d].i \in PacketsTo(d) \cup {Empty}
              /\ rpc[d] = "take" => slot[d].i # Empty
              /\ Reading(d) => byte[d] \in PacketsTo(d)
              /\ Given(d) \subseteq PacketsTo(d))'
  <2>1. PacketsTo(d)' = PacketsTo(d)
    BY DEF PacketsTo
  <2>2. rpc[d] = "take" => IsOpen(d)
    BY <1>0 DEF ThreadsUp, IsOpen
  <2>3. QED
    BY <1>0, <1>2, <2>1, <2>2 DEF Carried, SlotMoves, Kept, Reading
<1>4. Carried'
  BY <1>3 DEF Carried
<1>5. ASSUME NEW d \in Kernel
      PROVE  Held(d)' \subseteq Held(d) \cup {Empty}
  <2>1. slot'[d].i \in {slot[d].i, Empty}
    BY DEF SlotMoves
  <2>2. Reading(d)' => byte'[d] = slot[d].i \/ (Reading(d) /\ byte'[d] = byte[d])
    BY DEF SlotMoves, Reading
  <2>3. QED
    BY <1>2, <2>1, <2>2 DEF Held
<1>6. Numbered'
  <2>1. \A k \in Kernel : Busy(k)' =>
          pkt'[k] \in Packet /\ pkt'[k].src = k /\ pkt'[k].seq < next'[k]
    BY <1>0 DEF SenderMoves, Numbered
  <2>2. \A d \in Kernel : \A p \in Held(d)' : p.src \in Kernel => p.seq < next'[p.src]
    BY <1>0, <1>5, EmptyIsNoPacket DEF Numbered
  <2>3. ASSUME NEW k \in Kernel, (Pending(k) /\ Dest(k) \in Kernel)'
        PROVE  After(Held(Dest(k)), pkt[k])'
    <3>1. Pending(k) /\ pkt'[k] = pkt[k] /\ Dest(k)' = Dest(k) /\ Dest(k) \in Kernel
      BY <2>3 DEF SenderMoves, Dest
    <3>2. pkt[k].src = k /\ After(Held(Dest(k)), pkt[k])
      BY <1>0, <3>1 DEF Numbered, Pending, Busy, SendPC
    <3>3. \A q \in Held(Dest(k))' : q \in Held(Dest(k)) \/ q = Empty
      BY <1>5, <3>1
    <3>4. QED
      BY <3>1, <3>2, <3>3, EmptyIsNoPacket DEF After
  <2>4. QED
    BY <2>1, <2>2, <2>3 DEF Numbered
<1>7. ASSUME NEW d \in Kernel
      PROVE  (/\ IsOpen(d) /\ rpc[d] # "clear" /\ slot[d].i # Empty => After(Given(d), slot[d].i)
              /\ rpc[d] \in {"write", "writeRest"} => After(Given(d), byte[d]))'
  <2>1. rpc[d] = "take" => IsOpen(d)
    BY <1>0 DEF ThreadsUp, IsOpen
  <2>2. /\ IsOpen(d) /\ rpc[d] # "clear" /\ slot[d].i # Empty => After(Given(d), slot[d].i)
        /\ rpc[d] \in {"write", "writeRest"} => After(Given(d), byte[d])
        /\ rpc[d] = "take" => slot[d].i # Empty
    BY <1>0 DEF NotYetGiven, Carried
  <2>3. SlotMoves(d)
    OBVIOUS
  <2>4. QED
    BY <1>2, <2>1, <2>2, <2>3 DEF SlotMoves, Kept, After
<1>8. NotYetGiven'
  BY <1>7 DEF NotYetGiven
<1>9. QED
  BY <1>1, <1>4, <1>6, <1>8

(* The new packet has a number that no packet had before. *)
LEMMA OrderRead ==
  ASSUME OrderInv, NEW k \in Kernel, NEW b \in Octets[k], Read(k, b)
  PROVE  Carried' /\ Numbered' /\ NotYetGiven' /\ InOrder'
<1> DEFINE p == [src |-> k, seq |-> next[k], octet |-> b]
<1>0. /\ Carried /\ Numbered /\ NotYetGiven /\ InOrder /\ TypeOK
      /\ spc \in [Kernel -> SendPC] /\ pkt \in [Kernel -> Word]
      /\ next \in [Kernel -> 1..(MaxPackets + 1)]
  BY DEF OrderInv, TypeOK
<1>1. /\ pkt' = [pkt EXCEPT ![k] = p] /\ next' = [next EXCEPT ![k] = @ + 1]
      /\ UNCHANGED <<slot, main, rpc, byte, delivered>>
      /\ \A j \in Kernel : j # k => spc'[j] = spc[j]
      /\ next[k] <= MaxPackets
  BY <1>0 DEF Read, Send, history
<1>2. p \in Packet /\ p.src = k /\ p.seq = next[k]
  <2>1. b \in 0..255
    BY OctetsAssumption
  <2>2. next[k] \in 1..(MaxPackets + 1)
    BY <1>0
  <2>3. next[k] \in 1..MaxPackets
    BY <1>1, <2>2, BoundsAssumption
  <2>4. QED
    BY <2>1, <2>3 DEF Packet
<1>3. next[k] \in Nat /\ next'[k] = next[k] + 1 /\ \A j \in Kernel : j # k => next'[j] = next[j]
  BY <1>0, <1>1
<1>4. \A d : Given(d)' = Given(d) /\ Held(d)' = Held(d) /\ PacketsTo(d)' = PacketsTo(d)
  BY <1>1 DEF Given, Held, Reading, PacketsTo
<1>5. Carried'
  BY <1>0, <1>1, <1>4 DEF Carried, IsOpen, Reading
<1>6. NotYetGiven' /\ InOrder'
  BY <1>0, <1>1, <1>4 DEF NotYetGiven, IsOpen, After, InOrder
<1> HIDE DEF p
<1>7. ASSUME NEW j \in Kernel, Busy(j)'
      PROVE  pkt'[j] \in Packet /\ pkt'[j].src = j /\ pkt'[j].seq < next'[j]
  <2>1. CASE j = k
    BY <1>0, <1>1, <1>2, <1>3, <2>1
  <2>2. CASE j # k
    BY <1>0, <1>1, <1>3, <1>7, <2>2 DEF Numbered, Busy
  <2>3. QED
    BY <2>1, <2>2
<1>8. ASSUME NEW d \in Kernel, NEW q \in Held(d), q.src \in Kernel
      PROVE  q.seq < next'[q.src]
  <2>1. q.seq < next[q.src]
    BY <1>0, <1>8 DEF Numbered
  <2>2. q \in Word
    <3>1. q \in PacketsTo(d) \/ q = slot[d].i
      BY <1>0 DEF Held, Carried
    <3>2. slot[d].i \in Word
      BY <1>0, EmptyIsNoPacket DEF TypeOK, TypeSlots
    <3>3. QED
      BY <3>1, <3>2 DEF PacketsTo, Word
  <2>3. q.seq \in Int
    BY <2>2 DEF Word, Packet, Empty, Junk
  <2>4. CASE q.src = k
    BY <1>3, <2>1, <2>3, <2>4
  <2>5. CASE q.src # k
    BY <1>3, <1>8, <2>1, <2>5
  <2>6. QED
    BY <2>4, <2>5
<1>9. ASSUME NEW j \in Kernel, (Pending(j) /\ Dest(j) \in Kernel)'
      PROVE  After(Held(Dest(j)), pkt[j])'
  <2>1. CASE j = k
    <3>1. pkt'[j] = p /\ Dest(j)' \in Kernel /\ Held(Dest(j))' = Held(Dest(j)')
      BY <1>0, <1>1, <1>9, <2>1 DEF Held, Given, Reading
    <3>2. \A q \in Held(Dest(j)') : q.src = k => q.seq < next[k]
      BY <1>0, <3>1 DEF Numbered
    <3>3. QED
      BY <1>2, <3>1, <3>2 DEF After
  <2>2. CASE j # k
    <3>1. pkt'[j] = pkt[j] /\ spc'[j] = spc[j]
      BY <1>0, <1>1, <2>2
    <3>2. Pending(j) /\ Dest(j) \in Kernel /\ Dest(j)' = Dest(j)
      BY <1>9, <3>1 DEF Pending, Dest
    <3>3. QED
      BY <1>0, <1>4, <3>1, <3>2 DEF Numbered, After
  <2>3. QED
    BY <2>1, <2>2
<1>10. Numbered'
  BY <1>4, <1>7, <1>8, <1>9 DEF Numbered
<1>11. QED
  BY <1>5, <1>6, <1>10

(* Publishing puts the latest packet of its sender into the slot. *)
LEMMA OrderPublish ==
  ASSUME OrderInv, NEW k \in Kernel, Publish(k)
  PROVE  Carried' /\ Numbered' /\ NotYetGiven' /\ InOrder'
<1> DEFINE e == Dest(k)
<1>0. /\ Carried /\ Numbered /\ NotYetGiven /\ InOrder /\ TypeOK /\ TypeSlots /\ Addressed
      /\ spc \in [Kernel -> SendPC]
  BY DEF OrderInv, TypeOK
<1>1. /\ UNCHANGED <<main, pkt, rpc, byte, delivered, next>>
      /\ spc[k] = "publish" /\ spc' = [spc EXCEPT ![k] = "unlock"]
      /\ slot' = [slot EXCEPT ![e].i = pkt[k]]
  BY DEF Publish, Send
<1>2. /\ Busy(k) /\ Pending(k) /\ e \in Slots
      /\ pkt[k] \in Packet /\ pkt[k].src = k /\ pkt[k].seq < next[k]
      /\ e \in Kernel => After(Held(e), pkt[k])
  BY <1>0, <1>1 DEF Busy, SendPC, Pending, Addressed, Numbered
<1>3. \A d \in Kernel : slot'[d].i = IF d = e THEN pkt[k] ELSE slot[d].i
  BY <1>0, <1>1, <1>2, EmptyIsNoPacket DEF TypeSlots
<1>4. \A d : Given(d)' = Given(d) /\ PacketsTo(d)' = PacketsTo(d)
               /\ IsOpen(d)' = IsOpen(d) /\ Reading(d)' = Reading(d)
  BY <1>1 DEF Given, PacketsTo, IsOpen, Reading
<1>5. \A d \in Kernel : Held(d)' \subseteq IF d = e THEN Held(d) \cup {pkt[k]} ELSE Held(d)
  BY <1>1, <1>3, <1>4 DEF Held
<1>6. pkt[k] \in PacketsTo(e) /\ pkt[k] # Empty
  BY <1>2, EmptyIsNoPacket DEF PacketsTo, Dest
<1> HIDE DEF e
<1>7. Carried'
  BY <1>0, <1>1, <1>3, <1>4, <1>6 DEF Carried
<1>8. \A j \in Kernel : /\ Busy(j)' => Busy(j)
                        /\ Pending(j)' => Pending(j) /\ j # k
                        /\ Dest(j)' = Dest(j)
  BY <1>0, <1>1 DEF Busy, Pending, SendPC, Dest
<1>9. Numbered'
  <2>1. \A j \in Kernel : Busy(j)' =>
          pkt'[j] \in Packet /\ pkt'[j].src = j /\ pkt'[j].seq < next'[j]
    BY <1>0, <1>1, <1>8 DEF Numbered
  <2>2. \A d \in Kernel : \A p \in Held(d)' : p.src \in Kernel => p.seq < next'[p.src]
    BY <1>0, <1>1, <1>2, <1>5 DEF Numbered
  <2>3. ASSUME NEW j \in Kernel, (Pending(j) /\ Dest(j) \in Kernel)'
        PROVE  After(Held(Dest(j)), pkt[j])'
    <3>1. /\ Pending(j) /\ j # k /\ Dest(j)' = Dest(j) /\ Dest(j) \in Kernel
          /\ pkt'[j] = pkt[j]
      BY <1>1, <1>8, <2>3
    <3>2. pkt[j].src = j /\ After(Held(Dest(j)), pkt[j])
      BY <1>0, <3>1 DEF Numbered, Pending, Busy, SendPC
    <3>3. \A q \in Held(Dest(j))' : q \in Held(Dest(j)) \/ q = pkt[k]
      BY <1>5, <3>1
    <3>4. QED
      BY <1>2, <3>1, <3>2, <3>3 DEF After
  <2>4. QED
    BY <2>1, <2>2, <2>3 DEF Numbered
<1>10. NotYetGiven'
  <2>1. e \in Kernel => After(Given(e), pkt[k])
    BY <1>2 DEF After, Held
  <2>2. QED
    BY <1>0, <1>1, <1>3, <1>4, <2>1 DEF NotYetGiven, After
<1>11. InOrder'
  BY <1>0, <1>1 DEF InOrder
<1>12. QED
  BY <1>7, <1>9, <1>10, <1>11

(* The packet handed over is later than those before it, and earlier than   *)
(* those that are to come.                                                   *)
LEMMA OrderDeliver ==
  ASSUME OrderInv, NEW k \in Kernel, Write(k), Recv(k, "writeRest", "clear")
  PROVE  Carried' /\ Numbered' /\ NotYetGiven' /\ InOrder'
<1> DEFINE m == [length |-> byte[k], first |-> half[k], rest |-> slot[k].buffer[2]]
           Message == [length : Word, first : Word, rest : Word]
<1>0. /\ Carried /\ Numbered /\ NotYetGiven /\ InOrder /\ TypeOK /\ TypeSlots
      /\ rpc \in [Kernel -> RecvPC] /\ byte \in [Kernel -> Word] /\ half \in [Kernel -> Word]
      /\ delivered \in [Kernel -> Seq(Message)]
  BY DEF OrderInv, TypeOK
<1>1. /\ UNCHANGED <<slot, main, spc, pkt, byte, next>>
      /\ rpc[k] = "writeRest" /\ rpc' = [rpc EXCEPT ![k] = "clear"]
      /\ delivered' = [delivered EXCEPT ![k] = Append(@, m)]
  BY DEF Write, Recv
<1>2. m \in Message /\ m.length = byte[k]
  <2>1. slot[k].buffer[2] \in Word
    BY <1>0, EmptyIsNoPacket DEF TypeSlots
  <2>2. QED
    BY <1>0, <2>1
<1> HIDE DEF m, Message
<1>3. /\ byte[k] \in PacketsTo(k) /\ After(Given(k), byte[k]) /\ byte[k] \in Held(k)
  BY <1>0, <1>1 DEF Carried, Reading, NotYetGiven, Held
<1>4. /\ DOMAIN delivered[k] = 1..Len(delivered[k])
      /\ DOMAIN delivered'[k] = 1..(Len(delivered[k]) + 1) /\ Len(delivered[k]) \in Nat
      /\ delivered'[k][Len(delivered[k]) + 1] = m
      /\ \A n \in DOMAIN delivered[k] : delivered'[k][n] = delivered[k][n]
  <2>1. delivered[k] \in Seq(Message) /\ delivered'[k] = Append(delivered[k], m)
    BY <1>0, <1>1
  <2>2. QED
    BY <1>2, <2>1
<1>5. \A d \in Kernel : d # k => delivered'[d] = delivered[d] /\ rpc'[d] = rpc[d]
  BY <1>0, <1>1
<1>6. \A d \in Kernel : Given(d)' = IF d = k THEN Given(d) \cup {byte[k]} ELSE Given(d)
  <2>1. Given(k)' = Given(k) \cup {byte[k]}
    BY <1>2, <1>4 DEF Given
  <2>2. QED
    BY <1>5, <2>1 DEF Given
<1>7. \A d \in Kernel : /\ Held(d)' = Held(d) /\ Reading(d)' = Reading(d)
                        /\ IsOpen(d)' = IsOpen(d) /\ PacketsTo(d)' = PacketsTo(d)
  <2>1. \A d \in Kernel : Reading(d)' = Reading(d)
    BY <1>0, <1>1 DEF Reading
  <2>2. \A d \in Kernel : Held(d)' = Held(d)
    BY <1>1, <1>3, <1>6, <2>1 DEF Held
  <2>3. QED
    BY <1>1, <2>1, <2>2 DEF IsOpen, PacketsTo
<1>8. Carried'
  BY <1>0, <1>1, <1>3, <1>5, <1>6, <1>7 DEF Carried
<1>9. Numbered'
  <2>1. \A j \in Kernel : Busy(j)' = Busy(j) /\ Pending(j)' = Pending(j) /\ Dest(j)' = Dest(j)
    BY <1>1 DEF Busy, Pending, Dest
  <2>2. \A j \in Kernel : Dest(j) \in Kernel => Held(Dest(j))' = Held(Dest(j))
    BY <1>7, <2>1
  <2>3. QED
    BY <1>0, <1>1, <1>7, <2>1, <2>2 DEF Numbered, After
<1>10. NotYetGiven'
  BY <1>0, <1>1, <1>5, <1>6, <1>7 DEF NotYetGiven, After
<1>11. InOrder'
  <2>1. ASSUME NEW n \in DOMAIN delivered[k],
               delivered[k][n].length.src = byte[k].src
        PROVE  delivered[k][n].length.seq < byte[k].seq
    <3>1. delivered[k][n].length \in Given(k)
      BY DEF Given
    <3>2. QED
      BY <1>3, <2>1, <3>1 DEF After
  <2>2. ASSUME NEW n \in DOMAIN delivered'[k], NEW o \in DOMAIN delivered'[k], n < o,
               delivered'[k][n].length.src = delivered'[k][o].length.src
        PROVE  delivered'[k][n].length.seq < delivered'[k][o].length.seq
    <3>1. n \in DOMAIN delivered[k]
      BY <1>4, <2>2
    <3>2. CASE o \in DOMAIN delivered[k]
      BY <1>0, <1>4, <2>2, <3>1, <3>2 DEF InOrder
    <3>3. CASE o = Len(delivered[k]) + 1
      BY <1>2, <1>4, <2>1, <2>2, <3>1, <3>3
    <3>4. QED
      BY <1>4, <3>2, <3>3
  <2>3. ASSUME NEW d \in Kernel, NEW n \in DOMAIN delivered'[d], NEW o \in DOMAIN delivered'[d],
               n < o, delivered'[d][n].length.src = delivered'[d][o].length.src
        PROVE  delivered'[d][n].length.seq < delivered'[d][o].length.seq
    <3>1. CASE d = k
      BY <2>2, <2>3, <3>1
    <3>2. CASE d # k
      BY <1>0, <1>5, <2>3, <3>2 DEF InOrder
    <3>3. QED
      BY <3>1, <3>2
  <2>4. QED
    BY <2>3 DEF InOrder
<1>12. QED
  BY <1>8, <1>9, <1>10, <1>11

(* What main, pop_send and pop_recv do besides. *)
LEMMA OrderMain ==
  ASSUME OrderInv, NEW k \in Kernel, Start(k) \/ Open(k) \/ Kill(k)
  PROVE  Carried' /\ Numbered' /\ NotYetGiven' /\ InOrder'
<1> USE DEF Main, SenderMoves, Busy, Pending
<1>0. /\ TypeSlots /\ main \in [Kernel -> MainPC] /\ rpc \in [Kernel -> RecvPC]
      /\ spc \in [Kernel -> SendPC] /\ k \in Slots /\ ThreadsUp
  BY EmptyIsNoPacket DEF OrderInv, TypeOK
<1>1. delivered' = delivered /\ next' = next /\ byte' = byte
  BY DEF Start, Open, OpenI, OpenMagic, OpenLock, Kill, Die, history
<1>2. CASE Start(k)
  <2>1. \A d \in Kernel : SlotMoves(d) /\ SenderMoves(d)
    BY <1>0, <1>1, <1>2 DEF Start, SlotMoves, IsOpen, Kept
  <2>2. QED
    BY <1>1, <2>1, OrderKept
<1>3. CASE OpenI(k)
  <2>1. rpc[k] = "off" /\ slot'[k].i = Empty
    BY <1>0, <1>3 DEF OpenI, TypeSlots, ThreadsUp
  <2>2. \A d \in Kernel \ {k} : slot'[d] = slot[d]
    BY <1>0, <1>3, EmptyIsNoPacket DEF OpenI, TypeSlots
  <2>3. \A d \in Kernel : SlotMoves(d) /\ SenderMoves(d)
    BY <1>0, <1>1, <1>3, <2>1, <2>2 DEF OpenI, SlotMoves, IsOpen, Kept
  <2>4. QED
    BY <1>1, <2>3, OrderKept
<1>4. CASE OpenMagic(k) \/ OpenLock(k)
  <2>1. \A d \in Kernel : slot'[d].i = slot[d].i
    BY <1>0, <1>4, EmptyIsNoPacket DEF OpenMagic, OpenLock, TypeSlots
  <2>2. rpc[k] = "off"
    BY <1>0, <1>4 DEF OpenMagic, OpenLock, ThreadsUp
  <2>3. \A d \in Kernel : SlotMoves(d) /\ SenderMoves(d)
    BY <1>0, <1>1, <1>4, <2>1, <2>2 DEF OpenMagic, OpenLock, SlotMoves, IsOpen, Kept
  <2>4. QED
    BY <1>1, <2>3, OrderKept
<1>5. CASE Kill(k)
  <2>1. \A d \in Kernel : SlotMoves(d) /\ SenderMoves(d)
    BY <1>0, <1>1, <1>5 DEF Kill, Die, SlotMoves, IsOpen, Kept
  <2>2. QED
    BY <1>1, <2>1, OrderKept
<1>6. QED
  BY <1>2, <1>3, <1>4, <1>5 DEF Open

LEMMA OrderSend ==
  ASSUME OrderInv, NEW k \in Kernel, PopSend(k)
  PROVE  Carried' /\ Numbered' /\ NotYetGiven' /\ InOrder'
<1> USE DEF Send, SenderMoves, Busy, Pending, SendPC
<1>0. /\ TypeSlots /\ main \in [Kernel -> MainPC] /\ rpc \in [Kernel -> RecvPC]
      /\ spc \in [Kernel -> SendPC]
  BY DEF OrderInv, TypeOK
<1>1. CASE Wild(k)
  <2>1. \A d \in Kernel : SlotMoves(d) /\ SenderMoves(d)
    BY <1>0, <1>1 DEF Wild, Die, SlotMoves, IsOpen, Kept
  <2>2. delivered' = delivered /\ next' = next
    BY <1>1 DEF Wild, Die, history
  <2>3. QED
    BY <2>1, <2>2, OrderKept
<1>2. CASE CheckMagic(k) \/ SpinEmpty(k) \/ TestAndSet(k) \/ Copy(k) \/ Unlock(k)
  <2>1. UNCHANGED <<main, pkt, rpc, byte, delivered, next>>
    BY <1>2 DEF CheckMagic, SpinEmpty, TestAndSet, Copy, Unlock, history
  <2>2. \A d \in Kernel : slot'[d].i = slot[d].i
    <3>1. CASE CheckMagic(k) \/ SpinEmpty(k)
      BY <3>1 DEF CheckMagic, SpinEmpty
    <3>2. CASE TestAndSet(k) \/ Unlock(k)
      <4>1. \A d \in Slots : slot'[d].i = slot[d].i
        BY <1>0, <3>2 DEF TestAndSet, Unlock, TypeSlots
      <4>2. QED
        BY <4>1, EmptyIsNoPacket
    <3>3. CASE Copy(k)
      <4>1. PICK n \in 1..2 : slot' = [slot EXCEPT ![Dest(k)].buffer[n] = pkt[k]]
        BY <3>3 DEF Copy
      <4>2. \A d \in Slots : slot'[d].i = slot[d].i
        BY <1>0, <4>1 DEF TypeSlots
      <4>3. QED
        BY <4>2, EmptyIsNoPacket
    <3>4. QED
      BY <1>2, <3>1, <3>2, <3>3
  <2>3. \A j \in Kernel : SenderMoves(j)
    BY <1>0, <1>2, <2>1 DEF CheckMagic, SpinEmpty, TestAndSet, Copy, Unlock
  <2>4. \A d \in Kernel : SlotMoves(d)
    BY <2>1, <2>2 DEF SlotMoves, IsOpen, Kept
  <2>5. QED
    BY <2>1, <2>3, <2>4, OrderKept
<1>3. QED
  BY <1>1, <1>2, OrderPublish DEF PopSend

LEMMA OrderRecv ==
  ASSUME OrderInv, NEW k \in Kernel, PopRecv(k)
  PROVE  Carried' /\ Numbered' /\ NotYetGiven' /\ InOrder'
<1> USE DEF Recv
<1>0. /\ TypeSlots /\ rpc \in [Kernel -> RecvPC] /\ byte \in [Kernel -> Word]
  BY DEF OrderInv, TypeOK
<1>1. CASE Write(k) /\ Recv(k, "writeRest", "clear")
  BY <1>1, OrderDeliver
<1>2. CASE Connect(k) \/ Poll(k) \/ Take(k) \/ (Write(k) /\ Recv(k, "write", "writeRest")) \/ Clear(k)
  <2>1. UNCHANGED <<main, spc, pkt, delivered, next>>
    BY <1>2 DEF Connect, Poll, Take, Write, Clear, history
  <2>2. \A j \in Kernel : SenderMoves(j)
    BY <2>1 DEF SenderMoves, Busy, Pending
  <2>3. \A d \in Kernel \ {k} :
          slot'[d].i = slot[d].i /\ rpc'[d] = rpc[d] /\ byte'[d] = byte[d]
    BY <1>0, <1>2, EmptyIsNoPacket DEF Connect, Poll, Take, Write, Clear, TypeSlots
  <2>4. SlotMoves(k)
    <3>1. CASE Connect(k)
      BY <1>0, <2>1, <3>1, EmptyIsNoPacket DEF Connect, TypeSlots, SlotMoves, IsOpen
    <3>2. CASE Poll(k)
      BY <1>0, <2>1, <3>2 DEF Poll, SlotMoves, IsOpen, Kept
    <3>3. CASE Take(k)
      BY <1>0, <2>1, <3>3 DEF Take, SlotMoves, IsOpen, Kept
    <3>4. CASE Write(k) /\ Recv(k, "write", "writeRest")
      BY <1>0, <2>1, <3>4 DEF Write, SlotMoves, IsOpen, Kept
    <3>5. CASE Clear(k)
      BY <1>0, <2>1, <3>5, EmptyIsNoPacket DEF Clear, TypeSlots, SlotMoves, IsOpen
    <3>6. QED
      BY <1>2, <3>1, <3>2, <3>3, <3>4, <3>5
  <2>5. \A d \in Kernel : SlotMoves(d)
    BY <2>1, <2>3, <2>4 DEF SlotMoves, IsOpen, Kept
  <2>6. QED
    BY <2>1, <2>2, <2>5, OrderKept
<1>3. QED
  BY <1>1, <1>2 DEF PopRecv, Write

LEMMA OrderStep ==
  ASSUME OrderInv, [Next]_vars
  PROVE  OrderInv'
<1>1. TypeOK' /\ Addressed' /\ ThreadsUp'
  BY NextType, AddressedStep, ThreadsStep DEF OrderInv
<1>2. CASE UNCHANGED vars
  <2>1. UNCHANGED <<slot, main, spc, pkt, rpc, byte, delivered, next>>
    BY <1>2 DEF vars, local, history
  <2>2. \A d \in Kernel : SlotMoves(d) /\ SenderMoves(d)
    BY <2>1 DEF SlotMoves, SenderMoves, IsOpen, Kept, Busy, Pending
  <2>3. Carried' /\ Numbered' /\ NotYetGiven' /\ InOrder'
    BY <2>1, <2>2, OrderKept
  <2>4. QED
    BY <1>1, <2>3 DEF OrderInv
<1>3. CASE Next
  <2>1. Carried' /\ Numbered' /\ NotYetGiven' /\ InOrder'
    BY <1>2, <1>3, <1>1, OrderRead, OrderMain, OrderSend, OrderRecv DEF Next, OrderInv
  <2>2. QED
    BY <1>1, <2>1 DEF OrderInv
<1>4. QED
  BY <1>2, <1>3

(* A packet that was handed over is numbered below every packet of the same *)
(* sender that may still reach that kernel.                                  *)
THEOREM OrderInvariance == Spec => []OrderInv
BY OrderInit, OrderStep, PTL DEF Spec

(* The packets of one sender reach a kernel in the order they were sent and *)
(* none twice: with any number of senders to a slot, whether or not the     *)
(* lock excludes them, and whichever tunnels are killed and started again.  *)
THEOREM PacketsInOrder == Spec => []InOrder
BY OrderInvariance, PTL DEF OrderInv

(* What pop_recv hands over is a packet, of one of the senders, that was    *)
(* addressed to its own kernel, even after a writer of the slot was killed. *)
THEOREM AddresseeRight == Spec => []RightAddressee
<1>1. OrderInv => RightAddressee
  BY DEF OrderInv, Carried, Given, PacketsTo, RightAddressee
<1>2. QED
  BY <1>1, OrderInvariance, PTL

-----------------------------------------------------------------------------
(* What was sent and what was handed over, where no two kernels send to the  *)
(* same slot and no tunnel is started twice: then nothing is lost.  A slot   *)
(* has the magic number from the moment open_shm stores it; before, nothing was sent to it.  What was handed over *)
(* are the packets sent first, and one more was sent while the slot holds a  *)
(* packet that pop_recv is not about to clear.                               *)

Message == [length : Word, first : Word, rest : Word]
SentTyped == sent \in [Slots -> Seq(Word)]
Invited(d) == main[d] \in {"lock", "up"} \/ (main[d] = "down" /\ starts[d] = 1)
OpenedOnce == \A d \in Kernel :
  /\ main[d] # "down" => starts[d] = 1
  /\ slot[d].magic <=> Invited(d)
  /\ ~Invited(d) => sent[d] = <<>> /\ delivered[d] = <<>>
Entered(k) == Busy(k) /\ spc[k] # "magic"
SlotsFound == \A k \in Kernel : Entered(k) => slot[Dest(k)].magic
Prefix == \A d \in Kernel :
  /\ Len(delivered[d]) <= Len(sent[d])
  /\ \A n \in 1..Len(delivered[d]) : delivered[d][n].rest = sent[d][n]
Waiting(d) == slot[d].i # Empty /\ rpc[d] # "clear"
InTransit == \A d \in Kernel : IsOpen(d) =>
  /\ Waiting(d) => /\ Len(sent[d]) = Len(delivered[d]) + 1
                   /\ sent[d][Len(sent[d])] = slot[d].i
  /\ ~Waiting(d) => Len(sent[d]) = Len(delivered[d])

Channel == SentTyped /\ OpenedOnce /\ SlotsFound /\ Prefix /\ InTransit

LEMMA ChannelInit == Init => Channel
<1> SUFFICES ASSUME Init PROVE Channel
  OBVIOUS
<1>1. \A d \in Kernel : d \in Slots
  BY KernelAssumption DEF Slots
<1>2. SentTyped
  BY DEF Init, SentTyped
<1>3. \A d \in Slots : slot[d].magic = FALSE
  BY DEF Init
<1>4. OpenedOnce
  BY <1>1, <1>3 DEF Init, OpenedOnce, Invited
<1>5. SlotsFound
  BY DEF Init, SlotsFound, Entered, Busy
<1>6. Prefix /\ InTransit
  BY <1>1 DEF Init, Prefix, InTransit, IsOpen
<1>7. QED
  BY <1>2, <1>4, <1>5, <1>6 DEF Channel

(* Steps that send and hand over nothing, write no length and no magic       *)
(* number, and neither open a slot nor move pop_recv to or from its last     *)
(* store.                                                                    *)
LEMMA ChannelKept ==
  ASSUME Channel, sent' = sent, delivered' = delivered,
         \A d \in Slots : slot'[d].magic = slot[d].magic,
         \A d \in Kernel :
           /\ slot'[d].i = slot[d].i
           /\ main'[d] # "down" => starts'[d] = 1
           /\ Invited(d)' <=> Invited(d)
           /\ IsOpen(d)' => IsOpen(d) /\ (rpc'[d] = "clear" <=> rpc[d] = "clear"),
         \A k \in Kernel : Entered(k)' =>
           pkt'[k] = pkt[k] /\ Dest(k) \in Slots /\ slot[Dest(k)].magic
  PROVE  Channel'
<1>1. SentTyped' /\ Prefix'
  BY DEF Channel, SentTyped, Prefix
<1>2. OpenedOnce'
  <2>1. \A d \in Kernel : d \in Slots
    BY KernelAssumption DEF Slots
  <2>2. QED
    BY <2>1 DEF Channel, OpenedOnce
<1>3. SlotsFound'
  BY DEF SlotsFound, Dest
<1>4. \A d \in Kernel : IsOpen(d)' => (Waiting(d)' <=> Waiting(d))
  BY DEF Waiting
<1>5. InTransit'
  BY <1>4 DEF Channel, InTransit
<1>6. QED
  BY <1>1, <1>2, <1>3, <1>5 DEF Channel

LEMMA ChannelMain ==
  ASSUME WholeInv, Channel, MaxStarts = 1, NEW k \in Kernel, Start(k) \/ Open(k) \/ Kill(k)
  PROVE  Channel'
<1>0. /\ ThreadsUp /\ TypeSlots /\ k \in Slots /\ \A d \in Kernel : d \in Slots
      /\ main \in [Kernel -> MainPC] /\ starts \in [Kernel -> 0..1]
      /\ spc \in [Kernel -> SendPC] /\ rpc \in [Kernel -> RecvPC]
      /\ SentTyped /\ OpenedOnce /\ SlotsFound /\ Prefix /\ InTransit
      /\ \A j \in Kernel : Entered(j) => Dest(j) \in Slots /\ slot[Dest(j)].magic
  BY KernelAssumption
     DEF WholeInv, TypeOK, Channel, Slots, Addressed, SlotsFound, Entered
<1>1. CASE Start(k)
  <2>1. /\ starts[k] = 0 /\ main[k] = "down"
        /\ main' = [main EXCEPT ![k] = "i"] /\ starts' = [starts EXCEPT ![k] = 1]
        /\ UNCHANGED <<slot, spc, pkt, rpc, sent, delivered>>
    <3>1. /\ starts[k] = 0 /\ main[k] = "down" /\ main' = [main EXCEPT ![k] = "i"]
          /\ starts' = [starts EXCEPT ![k] = starts[k] + 1]
      BY <1>0, <1>1 DEF Start, Main
    <3>2. UNCHANGED <<slot, spc, pkt, rpc, sent, delivered>>
      BY <1>1 DEF Start, history
    <3>3. QED
      BY <3>1, <3>2
  <2>2. \A d \in Kernel : /\ main'[d] # "down" => starts'[d] = 1
                          /\ Invited(d)' <=> Invited(d)
                          /\ IsOpen(d)' => IsOpen(d)
    BY <1>0, <2>1 DEF OpenedOnce, Invited, IsOpen
  <2>3. \A j \in Kernel : Entered(j)' => Entered(j)
    BY <2>1 DEF Entered, Busy
  <2>4. QED
    BY <1>0, <2>1, <2>2, <2>3, ChannelKept
<1>2. CASE OpenI(k)
  <2>1. /\ main[k] = "i" /\ main' = [main EXCEPT ![k] = "magic"]
        /\ slot' = [slot EXCEPT ![k].i = Empty]
        /\ UNCHANGED <<spc, pkt, rpc, sent, delivered, starts>>
    BY <1>2 DEF OpenI, Main, history
  <2>2. /\ slot'[k].i = Empty
        /\ \A d \in Slots : slot'[d].magic = slot[d].magic
        /\ \A d \in Kernel \ {k} : slot'[d].i = slot[d].i
    BY <1>0, <2>1 DEF TypeSlots
  <2>3. ~Invited(k) /\ starts[k] = 1 /\ sent[k] = <<>> /\ delivered[k] = <<>>
    BY <1>0, <2>1 DEF OpenedOnce, Invited
  <2>4. \A d \in Kernel : Invited(d)' <=> Invited(d)
    BY <1>0, <2>1 DEF Invited
  <2>5. OpenedOnce'
    BY <1>0, <2>1, <2>2, <2>3, <2>4 DEF OpenedOnce
  <2>6. SentTyped' /\ Prefix' /\ SlotsFound'
    BY <1>0, <2>1, <2>2 DEF SentTyped, Prefix, SlotsFound, Entered, Busy, Dest
  <2>7. \A d \in Kernel \ {k} : /\ IsOpen(d)' <=> IsOpen(d)
                                /\ Waiting(d)' <=> Waiting(d)
    BY <1>0, <2>1, <2>2 DEF IsOpen, Waiting
  <2>8. ~Waiting(k)' /\ Len(sent'[k]) = Len(delivered'[k])
    BY <2>1, <2>2, <2>3 DEF Waiting
  <2>9. InTransit'
    BY <1>0, <2>1, <2>2, <2>7, <2>8 DEF InTransit
  <2>10. QED
    BY <2>5, <2>6, <2>9 DEF Channel
<1>3. CASE OpenMagic(k)
  <2>1. /\ main[k] = "magic" /\ main' = [main EXCEPT ![k] = "lock"]
        /\ slot' = [slot EXCEPT ![k].magic = TRUE]
        /\ UNCHANGED <<spc, pkt, rpc, sent, delivered, starts>>
    BY <1>3 DEF OpenMagic, Main, history
  <2>2. /\ slot'[k].magic = TRUE
        /\ \A d \in Slots \ {k} : slot'[d].magic = slot[d].magic
        /\ \A d \in Kernel : slot'[d].i = slot[d].i
    BY <1>0, <2>1 DEF TypeSlots
  <2>3. Invited(k)' /\ \A d \in Kernel \ {k} : Invited(d)' <=> Invited(d)
    BY <1>0, <2>1 DEF Invited
  <2>4. OpenedOnce'
    BY <1>0, <2>1, <2>2, <2>3 DEF OpenedOnce
  <2>5. SentTyped' /\ Prefix'
    BY <1>0, <2>1 DEF SentTyped, Prefix
  <2>6. SlotsFound'
    <3>1. \A j \in Kernel : Entered(j)' => Entered(j) /\ Dest(j)' = Dest(j)
      BY <2>1 DEF Entered, Busy, Dest
    <3>2. QED
      BY <1>0, <2>2, <3>1 DEF SlotsFound
  <2>7. \A d \in Kernel : /\ IsOpen(d)' <=> IsOpen(d)
                          /\ Waiting(d)' <=> Waiting(d)
    BY <1>0, <2>1, <2>2 DEF IsOpen, Waiting
  <2>8. InTransit'
    BY <1>0, <2>1, <2>2, <2>7 DEF InTransit
  <2>9. QED
    BY <2>4, <2>5, <2>6, <2>8 DEF Channel
<1>4. CASE OpenLock(k)
  <2>1. /\ main[k] = "lock" /\ main' = [main EXCEPT ![k] = "up"]
        /\ slot' = [slot EXCEPT ![k].lock = 0]
        /\ spc' = [spc EXCEPT ![k] = "read"] /\ rpc' = [rpc EXCEPT ![k] = "connect"]
        /\ UNCHANGED <<pkt, sent, delivered, starts>>
    BY <1>4 DEF OpenLock, Main, history
  <2>2. /\ \A d \in Slots : slot'[d].magic = slot[d].magic
        /\ \A d \in Kernel : slot'[d].i = slot[d].i
    BY <1>0, <2>1 DEF TypeSlots
  <2>3. rpc[k] = "off"
    BY <1>0, <2>1 DEF ThreadsUp
  <2>4. \A d \in Kernel :
          /\ main'[d] # "down" => starts'[d] = 1
          /\ Invited(d)' <=> Invited(d)
          /\ IsOpen(d)' => IsOpen(d) /\ (rpc'[d] = "clear" <=> rpc[d] = "clear")
    BY <1>0, <2>1, <2>3 DEF OpenedOnce, Invited, IsOpen
  <2>5. \A j \in Kernel : Entered(j)' => Entered(j)
    BY <1>0, <2>1 DEF Entered, Busy
  <2>6. QED
    BY <1>0, <2>1, <2>2, <2>4, <2>5, ChannelKept
<1>5. CASE Kill(k)
  BY <1>0, <1>5 DEF Kill, OpenedOnce
<1>6. QED
  BY <1>1, <1>2, <1>3, <1>4, <1>5 DEF Open

LEMMA ChannelRead ==
  ASSUME WholeInv, Channel, NEW k \in Kernel, NEW b \in Octets[k], Read(k, b)
  PROVE  Channel'
<1>1. /\ spc \in [Kernel -> SendPC] /\ pkt \in [Kernel -> Word]
      /\ \A j \in Kernel : Entered(j) => Dest(j) \in Slots /\ slot[Dest(j)].magic
  BY DEF WholeInv, TypeOK, Channel, Addressed, SlotsFound, Entered
<1>2. UNCHANGED <<slot, main, rpc, sent, delivered, starts>>
  BY DEF Read, history
<1>3. \A j \in Kernel : Entered(j)' => Entered(j) /\ pkt'[j] = pkt[j]
  BY <1>1 DEF Read, Send, Entered, Busy
<1>4. \A d \in Kernel :
        /\ main'[d] # "down" => starts'[d] = 1
        /\ Invited(d)' <=> Invited(d)
        /\ IsOpen(d)' => IsOpen(d) /\ (rpc'[d] = "clear" <=> rpc[d] = "clear")
  BY <1>2 DEF Channel, OpenedOnce, Invited, IsOpen
<1>5. QED
  BY <1>1, <1>2, <1>3, <1>4, ChannelKept

LEMMA ChannelPublish ==
  ASSUME WholeInv, Channel, NEW k \in Kernel, Publish(k)
  PROVE  /\ Channel'
         /\ delivered' = delivered
         /\ sent' = [sent EXCEPT ![Dest(k)] = Append(@, pkt[k])]
<1> DEFINE d == Dest(k)
           p == pkt[k]
<1>0. /\ TypeSlots /\ \A e \in Kernel : e \in Slots
      /\ spc \in [Kernel -> SendPC] /\ p \in Word
      /\ SentTyped /\ OpenedOnce /\ SlotsFound /\ Prefix /\ InTransit
  BY KernelAssumption DEF WholeInv, TypeOK, Channel, Slots
<1>1. /\ spc[k] = "publish" /\ spc' = [spc EXCEPT ![k] = "unlock"]
      /\ slot' = [slot EXCEPT ![d].i = p]
      /\ sent' = [sent EXCEPT ![d] = Append(@, p)]
      /\ UNCHANGED <<main, pkt, rpc, delivered, starts>>
  BY DEF Publish, Send
<1>2. d \in Slots /\ slot[d].magic /\ slot[d].i = Empty /\ p # Empty
  <2>1. Busy(k) /\ Entered(k)
    BY <1>1 DEF Busy, Entered, SendPC
  <2>2. d \in Slots /\ slot[d].magic
    BY <1>0, <2>1 DEF WholeInv, Addressed, SlotsFound
  <2>3. slot[d].i = Empty
    BY <1>1 DEF WholeInv, Filling
  <2>4. p # Empty
    BY <2>1, <2>2 DEF WholeInv, Addressed, Empty, Dest, Index, Signed, Slots
  <2>5. QED
    BY <2>2, <2>3, <2>4
<1>3. /\ slot'[d].i = p
      /\ \A e \in Slots : slot'[e].magic = slot[e].magic
      /\ \A e \in Slots \ {d} : slot'[e].i = slot[e].i
  BY <1>0, <1>1, <1>2 DEF TypeSlots
<1>4. /\ sent'[d] = Append(sent[d], p)
      /\ \A e \in Slots \ {d} : sent'[e] = sent[e]
      /\ sent[d] \in Seq(Word)
  BY <1>0, <1>1, <1>2 DEF SentTyped
<1> HIDE DEF d, p
<1>5. /\ Len(sent'[d]) = Len(sent[d]) + 1 /\ Len(sent[d]) \in Nat
      /\ sent'[d][Len(sent'[d])] = p
      /\ \A n \in 1..Len(sent[d]) : sent'[d][n] = sent[d][n]
      /\ sent'[d] \in Seq(Word)
  BY <1>0, <1>4
<1>6. SentTyped'
  BY <1>0, <1>1, <1>2, <1>5 DEF SentTyped
<1>7. OpenedOnce'
  <2>1. \A e \in Kernel : Invited(e)' <=> Invited(e)
    BY <1>1 DEF Invited
  <2>2. d \in Kernel => Invited(d)
    BY <1>0, <1>2 DEF OpenedOnce
  <2>3. QED
    BY <1>0, <1>1, <1>3, <1>4, <2>1, <2>2 DEF OpenedOnce
<1>8. SlotsFound'
  <2>1. \A j \in Kernel : Entered(j)' => Entered(j) /\ Dest(j)' = Dest(j)
    BY <1>0, <1>1 DEF Entered, Busy, Dest, SendPC
  <2>2. \A j \in Kernel : Entered(j) => Dest(j) \in Slots
    BY DEF WholeInv, Addressed, Entered
  <2>3. QED
    BY <1>0, <1>3, <2>1, <2>2 DEF SlotsFound
<1>9. Prefix'
  <2>1. \A e \in Kernel : Len(delivered[e]) \in Nat
    BY DEF WholeInv, TypeOK
  <2>2. ASSUME NEW e \in Kernel
        PROVE  /\ Len(delivered[e]) <= Len(sent'[e])
               /\ \A n \in 1..Len(delivered[e]) : delivered[e][n].rest = sent'[e][n]
    <3>1. CASE e = d
      <4>1. /\ Len(delivered[e]) <= Len(sent[e])
            /\ \A n \in 1..Len(delivered[e]) : delivered[e][n].rest = sent[e][n]
        BY <1>0 DEF Prefix
      <4>2. \A n \in 1..Len(delivered[e]) : n \in 1..Len(sent[e])
        BY <1>5, <2>1, <3>1, <4>1
      <4>3. QED
        BY <1>5, <2>1, <3>1, <4>1, <4>2
    <3>2. CASE e # d
      BY <1>0, <1>4, <3>2 DEF Prefix
    <3>3. QED
      BY <3>1, <3>2
  <2>3. QED
    BY <1>1, <2>2 DEF Prefix
<1>10. InTransit'
  <2>1. ASSUME NEW e \in Kernel, e # d, IsOpen(e)'
        PROVE  /\ Waiting(e)' => /\ Len(sent'[e]) = Len(delivered'[e]) + 1
                                 /\ sent'[e][Len(sent'[e])] = slot'[e].i
               /\ ~Waiting(e)' => Len(sent'[e]) = Len(delivered'[e])
    <3>1. IsOpen(e) /\ (Waiting(e)' <=> Waiting(e)) /\ sent'[e] = sent[e]
          /\ slot'[e].i = slot[e].i /\ delivered'[e] = delivered[e]
      BY <1>0, <1>1, <1>3, <1>4, <2>1 DEF IsOpen, Waiting
    <3>2. QED
      BY <1>0, <3>1 DEF InTransit
  <2>2. ASSUME NEW e \in Kernel, e = d, IsOpen(e)'
        PROVE  /\ Waiting(e)' /\ Len(sent'[e]) = Len(delivered'[e]) + 1
               /\ sent'[e][Len(sent'[e])] = slot'[e].i
    <3>1. IsOpen(e) /\ ~Waiting(e)
      BY <1>1, <1>2, <2>2 DEF IsOpen, Waiting
    <3>2. rpc[e] # "clear"
      BY <1>2, <2>2 DEF WholeInv, Taking
    <3>3. Len(sent[e]) = Len(delivered[e])
      BY <1>0, <3>1 DEF InTransit
    <3>4. Waiting(e)'
      BY <1>1, <1>2, <1>3, <2>2, <3>2 DEF Waiting
    <3>5. QED
      BY <1>1, <1>3, <1>5, <2>2, <3>3, <3>4
  <2>3. QED
    BY <2>1, <2>2 DEF InTransit
<1>11. QED
  BY <1>1, <1>6, <1>7, <1>8, <1>9, <1>10 DEF Channel, d, p

LEMMA ChannelSend ==
  ASSUME WholeInv, Channel, NEW k \in Kernel, PopSend(k), ~Publish(k)
  PROVE  Channel' /\ sent' = sent /\ delivered' = delivered
<1>0. /\ TypeSlots /\ ThreadsUp /\ k \in Slots /\ \A d \in Kernel : d \in Slots
      /\ main \in [Kernel -> MainPC] /\ rpc \in [Kernel -> RecvPC]
      /\ spc \in [Kernel -> SendPC] /\ OpenedOnce
      /\ \A j \in Kernel : Busy(j) => Dest(j) \in Slots
      /\ \A j \in Kernel : Entered(j) => slot[Dest(j)].magic
  BY KernelAssumption
     DEF WholeInv, TypeOK, Addressed, Channel, SlotsFound, Entered, Slots
<1>1. sent' = sent /\ delivered' = delivered /\ pkt' = pkt /\ starts' = starts
  BY DEF PopSend, Wild, Die, CheckMagic, SpinEmpty, TestAndSet, Copy, Unlock, history
<1>2. \A d \in Slots : slot'[d].magic = slot[d].magic /\ slot'[d].i = slot[d].i
  <2>1. CASE Wild(k) \/ CheckMagic(k) \/ SpinEmpty(k)
    BY <2>1 DEF Wild, Die, CheckMagic, SpinEmpty
  <2>2. CASE TestAndSet(k) \/ Unlock(k)
    BY <1>0, <2>2 DEF TestAndSet, Unlock, TypeSlots
  <2>3. CASE Copy(k)
    BY <1>0, <2>3 DEF Copy, TypeSlots
  <2>4. QED
    BY <2>1, <2>2, <2>3 DEF PopSend
<1>3. \A j \in Kernel : Entered(j)' => Dest(j) \in Slots /\ slot[Dest(j)].magic
  <2>1. CASE CheckMagic(k)
    BY <1>0, <2>1 DEF CheckMagic, Send, Entered, Busy, SendPC
  <2>2. CASE Wild(k) \/ SpinEmpty(k) \/ TestAndSet(k) \/ Copy(k) \/ Unlock(k)
    <3>1. \A j \in Kernel : Entered(j)' => Entered(j)
      BY <1>0, <2>2
         DEF Wild, Die, SpinEmpty, TestAndSet, Copy, Unlock, Send, Entered, Busy, SendPC
    <3>2. QED
      BY <1>0, <3>1 DEF Entered
  <2>3. QED
    BY <2>1, <2>2 DEF PopSend
<1>4. CASE spc[k] = "wild" /\ Die(k)
  <2>1. main[k] = "up"
    BY <1>0, <1>4 DEF ThreadsUp
  <2>2. \A d \in Kernel :
          /\ main'[d] # "down" => starts'[d] = 1
          /\ Invited(d)' <=> Invited(d)
          /\ IsOpen(d)' => IsOpen(d) /\ (rpc'[d] = "clear" <=> rpc[d] = "clear")
    BY <1>0, <1>1, <1>4, <2>1 DEF Die, OpenedOnce, Invited, IsOpen
  <2>3. QED
    BY <1>0, <1>1, <1>2, <1>3, <2>2, ChannelKept
<1>5. CASE ~(spc[k] = "wild" /\ Die(k))
  <2>1. main' = main /\ rpc' = rpc
    BY <1>5 DEF PopSend, Wild, CheckMagic, SpinEmpty, TestAndSet, Copy, Unlock
  <2>2. \A d \in Kernel :
          /\ main'[d] # "down" => starts'[d] = 1
          /\ Invited(d)' <=> Invited(d)
          /\ IsOpen(d)' => IsOpen(d) /\ (rpc'[d] = "clear" <=> rpc[d] = "clear")
    BY <1>0, <1>1, <2>1 DEF OpenedOnce, Invited, IsOpen
  <2>3. QED
    BY <1>0, <1>1, <1>2, <1>3, <2>2, ChannelKept
<1>6. QED
  BY <1>1, <1>4, <1>5

(* The second half of a packet is handed over: the packet sent next.         *)
LEMMA ChannelDeliver ==
  ASSUME WholeInv, Channel, NEW k \in Kernel, Write(k), Recv(k, "writeRest", "clear")
  PROVE  /\ Channel'
         /\ sent' = sent
         /\ Len(delivered[k]) < Len(sent[k])
         /\ \E m \in Message : /\ delivered' = [delivered EXCEPT ![k] = Append(@, m)]
                               /\ m.rest = sent[k][Len(delivered[k]) + 1]
<1> DEFINE m == [length |-> byte[k], first |-> half[k], rest |-> slot[k].buffer[2]]
<1>0. /\ ThreadsUp /\ \A d \in Kernel : d \in Slots
      /\ rpc \in [Kernel -> RecvPC] /\ delivered \in [Kernel -> Seq(Message)]
      /\ SentTyped /\ OpenedOnce /\ SlotsFound /\ Prefix /\ InTransit
  BY KernelAssumption DEF WholeInv, TypeOK, Channel, Slots, Message
<1>1. /\ rpc[k] = "writeRest" /\ rpc' = [rpc EXCEPT ![k] = "clear"]
      /\ delivered' = [delivered EXCEPT ![k] = Append(@, m)]
      /\ UNCHANGED <<slot, main, spc, pkt, sent, starts>>
  BY DEF Write, Recv
<1>2. /\ slot[k].i # Empty /\ m.rest = slot[k].i
      /\ IsOpen(k) /\ Invited(k) /\ Waiting(k)
  <2>1. slot[k].i # Empty
    BY <1>1 DEF WholeInv, Taking
  <2>2. slot[k].buffer[2] = slot[k].i
    BY <1>0, <2>1 DEF WholeInv, Whole
  <2>3. main[k] = "up"
    BY <1>0, <1>1 DEF ThreadsUp
  <2>4. QED
    BY <1>1, <2>1, <2>2, <2>3 DEF IsOpen, Invited, Waiting
<1>3. /\ Len(sent[k]) = Len(delivered[k]) + 1
      /\ sent[k][Len(sent[k])] = m.rest
  BY <1>0, <1>2 DEF InTransit
<1> HIDE DEF m
<1>4. /\ delivered'[k] = Append(delivered[k], m)
      /\ \A d \in Kernel \ {k} : delivered'[d] = delivered[d]
      /\ delivered[k] \in Seq(Message)
  BY <1>0, <1>1
<1>5. /\ Len(delivered[k]) \in Nat /\ Len(delivered'[k]) = Len(delivered[k]) + 1
      /\ delivered'[k][Len(delivered[k]) + 1] = m
      /\ \A n \in 1..Len(delivered[k]) : delivered'[k][n] = delivered[k][n]
  BY <1>4
<1>6. SentTyped'
  BY <1>0, <1>1 DEF SentTyped
<1>7. OpenedOnce'
  <2>1. \A d \in Kernel : Invited(d)' <=> Invited(d)
    BY <1>1 DEF Invited
  <2>2. QED
    BY <1>0, <1>1, <1>2, <1>4, <2>1 DEF OpenedOnce
<1>8. SlotsFound'
  BY <1>0, <1>1 DEF SlotsFound, Entered, Busy, Dest
<1>9. Prefix'
  <2>1. ASSUME NEW d \in Kernel
        PROVE  /\ Len(delivered'[d]) <= Len(sent[d])
               /\ \A n \in 1..Len(delivered'[d]) : delivered'[d][n].rest = sent[d][n]
    <3>1. /\ Len(delivered[d]) <= Len(sent[d])
          /\ \A n \in 1..Len(delivered[d]) : delivered[d][n].rest = sent[d][n]
      BY <1>0 DEF Prefix
    <3>2. CASE d # k
      BY <1>4, <3>1, <3>2
    <3>3. CASE d = k
      <4>1. ASSUME NEW n \in 1..Len(delivered'[k])
            PROVE  delivered'[k][n].rest = sent[k][n]
        <5>1. CASE n = Len(delivered[k]) + 1
          BY <1>3, <1>5, <5>1
        <5>2. CASE n # Len(delivered[k]) + 1
          <6>1. n \in 1..Len(delivered[k])
            BY <1>5, <4>1, <5>2
          <6>2. QED
            BY <1>5, <3>1, <3>3, <6>1
        <5>3. QED
          BY <5>1, <5>2
      <4>2. QED
        BY <1>3, <1>5, <3>3, <4>1
    <3>4. QED
      BY <3>2, <3>3
  <2>2. QED
    BY <1>1, <2>1 DEF Prefix
<1>10. InTransit'
  <2>1. ASSUME NEW d \in Kernel \ {k}
        PROVE  /\ IsOpen(d)' <=> IsOpen(d)
               /\ Waiting(d)' <=> Waiting(d)
               /\ delivered'[d] = delivered[d]
    BY <1>0, <1>1, <1>4 DEF IsOpen, Waiting
  <2>2. ~Waiting(k)' /\ Len(sent'[k]) = Len(delivered'[k])
    BY <1>0, <1>1, <1>3, <1>5 DEF Waiting
  <2>3. QED
    BY <1>0, <1>1, <2>1, <2>2 DEF InTransit
<1>11. Channel'
  BY <1>6, <1>7, <1>8, <1>9, <1>10 DEF Channel
<1>12. m \in Message
  <2>1. byte[k] \in Word /\ half[k] \in Word /\ slot[k].buffer[2] \in Word
    BY <1>0 DEF WholeInv, TypeOK, TypeSlots
  <2>2. QED
    BY <2>1 DEF m, Message
<1>13. m.rest = sent[k][Len(delivered[k]) + 1] /\ Len(delivered[k]) < Len(sent[k])
  BY <1>3, <1>5
<1>14. QED
  BY <1>1, <1>11, <1>12, <1>13

LEMMA ChannelRecv ==
  ASSUME WholeInv, Channel, NEW k \in Kernel, PopRecv(k), ~Recv(k, "writeRest", "clear")
  PROVE  Channel' /\ sent' = sent /\ delivered' = delivered
<1>0. /\ TypeSlots /\ k \in Slots /\ \A d \in Kernel : d \in Slots
      /\ rpc \in [Kernel -> RecvPC]
      /\ SentTyped /\ OpenedOnce /\ SlotsFound /\ Prefix /\ InTransit
      /\ \A j \in Kernel : Entered(j) => Dest(j) \in Slots /\ slot[Dest(j)].magic
  BY KernelAssumption
     DEF WholeInv, TypeOK, Addressed, Channel, SlotsFound, Entered, Slots
<1>1. UNCHANGED <<main, spc, pkt, sent, delivered, starts>>
  BY DEF PopRecv, Connect, Poll, Take, Write, Clear, history
<1>2. \A d \in Kernel : /\ Invited(d)' <=> Invited(d)
                        /\ IsOpen(d)' <=> IsOpen(d)
  BY <1>1 DEF Invited, IsOpen
<1>3. \A d \in Slots : slot'[d].magic = slot[d].magic
  <2>1. CASE Connect(k)
    BY <1>0, <2>1 DEF Connect, TypeSlots
  <2>2. CASE Poll(k) \/ Take(k) \/ Write(k)
    BY <2>2 DEF Poll, Take, Write
  <2>3. CASE Clear(k)
    BY <1>0, <2>3 DEF Clear, TypeSlots
  <2>4. QED
    BY <2>1, <2>2, <2>3 DEF PopRecv
<1>4. \A j \in Kernel : Entered(j)' => Entered(j)
  BY <1>1 DEF Entered, Busy
<1>5. CASE Clear(k)
  <2>1. /\ rpc[k] = "clear" /\ rpc' = [rpc EXCEPT ![k] = "poll"]
        /\ slot' = [slot EXCEPT ![k].i = Empty]
    BY <1>5 DEF Clear, Recv
  <2>2. /\ slot'[k].i = Empty
        /\ \A d \in Kernel \ {k} : slot'[d].i = slot[d].i
    BY <1>0, <2>1 DEF TypeSlots
  <2>3. SentTyped' /\ Prefix' /\ OpenedOnce'
    BY <1>0, <1>1, <1>2, <1>3 DEF SentTyped, Prefix, OpenedOnce
  <2>4. SlotsFound'
    BY <1>0, <1>1, <1>3, <1>4 DEF SlotsFound, Dest
  <2>5. ~Waiting(k)' /\ ~Waiting(k)
    BY <2>1, <2>2 DEF Waiting
  <2>6. \A d \in Kernel \ {k} : Waiting(d)' <=> Waiting(d)
    BY <1>0, <2>1, <2>2 DEF Waiting
  <2>7. InTransit'
    BY <1>0, <1>1, <1>2, <2>2, <2>5, <2>6 DEF InTransit
  <2>8. QED
    BY <1>1, <2>3, <2>4, <2>7 DEF Channel
<1>6. CASE ~Clear(k)
  <2>1. \A d \in Kernel : /\ slot'[d].i = slot[d].i
                          /\ rpc'[d] = "clear" <=> rpc[d] = "clear"
    BY <1>0, <1>6 DEF PopRecv, Connect, Poll, Take, Write, Recv, TypeSlots
  <2>2. QED
    BY <1>0, <1>1, <1>2, <1>3, <1>4, <2>1, ChannelKept DEF OpenedOnce
<1>7. QED
  BY <1>1, <1>5, <1>6

LEMMA ChannelStep ==
  ASSUME Exclusive, MaxStarts = 1, WholeInv, Channel, [Next]_vars
  PROVE  Channel'
<1>1. CASE UNCHANGED vars
  BY <1>1 DEF vars, local, history, Channel, SentTyped, OpenedOnce, Invited, SlotsFound,
              Entered, Busy, Dest, Prefix, InTransit, IsOpen, Waiting
<1>2. ASSUME NEW k \in Kernel, PopRecv(k), Recv(k, "writeRest", "clear")
      PROVE  Channel'
  <2>1. Write(k)
    BY <1>2 DEF PopRecv, Connect, Poll, Take, Clear, Recv
  <2>2. QED
    BY <1>2, <2>1, ChannelDeliver
<1>3. QED
  BY <1>1, <1>2, ChannelMain, ChannelRead, ChannelSend, ChannelPublish, ChannelRecv DEF Next
-----------------------------------------------------------------------------
(* The refinement of Link, where no two kernels send to the same slot.       *)

Opens == {k \in Kernel : IsOpen(k)}
Known == {k \in Kernel : slot[k].magic}
Queue == [d \in Kernel |-> IF OnItsWay(d) THEN <<slot[d].i>> ELSE <<>>]
Rests(ms) == [n \in DOMAIN ms |-> ms[n].rest]
Handed == [k \in Kernel |-> [n \in DOMAIN delivered[k] |-> delivered[k][n].rest]]

(* What pop_recv is about to clear it has handed over.                       *)
Cleared == \A k \in Kernel : rpc[k] = "clear" => byte[k] \in Given(k)

LEMMA RestsAppend ==
  ASSUME NEW ms \in Seq(Message), NEW m \in Message
  PROVE  /\ Rests(ms) \in Seq(Word) /\ Len(Rests(ms)) = Len(ms)
         /\ Rests(Append(ms, m)) = Append(Rests(ms), m.rest)
<1>1. /\ Rests(ms) \in Seq(Word) /\ Len(Rests(ms)) = Len(ms)
      /\ \A n \in 1..Len(ms) : Rests(ms)[n] = ms[n].rest
  <2>1. DOMAIN ms = 1..Len(ms) /\ Len(ms) \in Nat /\ \A n \in 1..Len(ms) : ms[n] \in Message
    OBVIOUS
  <2>2. Rests(ms) = [n \in 1..Len(ms) |-> ms[n].rest]
    BY <2>1 DEF Rests
  <2>3. \A n \in 1..Len(ms) : ms[n].rest \in Word
    BY <2>1 DEF Message
  <2>4. QED
    BY <2>1, <2>2, <2>3
<1>2. m.rest \in Word
  BY DEF Message
<1>3. DOMAIN Append(ms, m) = 1..(Len(ms) + 1) /\ Len(ms) \in Nat
  OBVIOUS
<1>4. Append(Rests(ms), m.rest) = [n \in 1..(Len(ms) + 1) |-> Append(ms, m)[n].rest]
  <2> DEFINE new == Append(Rests(ms), m.rest)
  <2>1. new \in Seq(Word) /\ Len(new) = Len(ms) + 1
    BY <1>1, <1>2
  <2>2. ASSUME NEW n \in 1..(Len(ms) + 1) PROVE new[n] = Append(ms, m)[n].rest
    <3>1. CASE n = Len(ms) + 1
      BY <1>1, <3>1
    <3>2. CASE n # Len(ms) + 1
      BY <1>1, <1>3, <3>2
    <3>3. QED
      BY <3>1, <3>2
  <2> HIDE DEF new
  <2>3. new = [n \in 1..(Len(ms) + 1) |-> new[n]]
    BY <2>1
  <2>4. QED
    BY <2>2, <2>3 DEF new
<1>5. QED
  BY <1>1, <1>3, <1>4 DEF Rests

(* The magic number stays where it is, and who sends has found it.           *)
LEMMA FoundStep ==
  ASSUME TypeOK, Addressed, SlotsFound, [Next]_vars
  PROVE  SlotsFound' /\ \A d \in Slots : slot[d].magic => slot'[d].magic
<1>0. /\ TypeSlots /\ \A d \in Kernel : d \in Slots
      /\ spc \in [Kernel -> SendPC]
      /\ \A j \in Kernel : Entered(j) => Dest(j) \in Slots /\ slot[Dest(j)].magic
      /\ \A j \in Kernel : Busy(j) => Dest(j) \in Slots
  BY KernelAssumption DEF TypeOK, Addressed, SlotsFound, Entered, Slots
<1>1. ASSUME \A d \in Slots : slot[d].magic => slot'[d].magic,
             \A j \in Kernel : Entered(j)' =>
               Dest(j)' = Dest(j) /\ Dest(j) \in Slots /\ slot[Dest(j)].magic
      PROVE  SlotsFound' /\ \A d \in Slots : slot[d].magic => slot'[d].magic
  BY <1>1 DEF SlotsFound
<1>2. CASE UNCHANGED vars
  BY <1>0, <1>1, <1>2 DEF vars, local, Entered, Busy, Dest
<1>3. ASSUME NEW k \in Kernel, Start(k) \/ Open(k) \/ Kill(k)
      PROVE  SlotsFound' /\ \A d \in Slots : slot[d].magic => slot'[d].magic
  <2>1. \A d \in Slots : slot[d].magic => slot'[d].magic
    <3>1. CASE Start(k) \/ Kill(k)
      BY <3>1 DEF Start, Kill, Die
    <3>2. CASE OpenI(k)
      BY <1>0, <3>2 DEF OpenI, TypeSlots
    <3>3. CASE OpenMagic(k)
      BY <1>0, <3>3 DEF OpenMagic, TypeSlots
    <3>4. CASE OpenLock(k)
      BY <1>0, <3>4 DEF OpenLock, TypeSlots
    <3>5. QED
      BY <1>3, <3>1, <3>2, <3>3, <3>4 DEF Open
  <2>2. \A j \in Kernel : Entered(j)' => Entered(j) /\ Dest(j)' = Dest(j)
    BY <1>0, <1>3 DEF Start, Open, OpenI, OpenMagic, OpenLock, Kill, Die, Entered, Busy, Dest,
                      SendPC
  <2>3. QED
    BY <1>0, <1>1, <2>1, <2>2
<1>4. ASSUME NEW k \in Kernel, NEW b \in Octets[k], Read(k, b)
      PROVE  SlotsFound' /\ \A d \in Slots : slot[d].magic => slot'[d].magic
  <2>1. slot' = slot /\ \A j \in Kernel \ {k} : pkt'[j] = pkt[j]
    BY <1>4 DEF Read
  <2>2. \A j \in Kernel : Entered(j)' => Entered(j) /\ j # k
    BY <1>0, <1>4 DEF Read, Send, Entered, Busy, SendPC
  <2>3. QED
    BY <1>0, <1>1, <2>1, <2>2 DEF Dest
<1>5. ASSUME NEW k \in Kernel, PopSend(k)
      PROVE  SlotsFound' /\ \A d \in Slots : slot[d].magic => slot'[d].magic
  <2>1. pkt' = pkt /\ \A j \in Kernel : Dest(j)' = Dest(j)
    BY <1>5 DEF PopSend, Wild, Die, CheckMagic, SpinEmpty, TestAndSet, Copy, Publish, Unlock,
                Dest
  <2>2. \A d \in Slots : slot'[d].magic = slot[d].magic
    <3>1. CASE Wild(k) \/ CheckMagic(k) \/ SpinEmpty(k)
      BY <3>1 DEF Wild, Die, CheckMagic, SpinEmpty
    <3>2. CASE TestAndSet(k) \/ Unlock(k)
      BY <1>0, <3>2 DEF TestAndSet, Unlock, TypeSlots
    <3>3. CASE Copy(k)
      BY <1>0, <3>3 DEF Copy, TypeSlots
    <3>4. CASE Publish(k)
      BY <1>0, <3>4 DEF Publish, TypeSlots
    <3>5. QED
      BY <1>5, <3>1, <3>2, <3>3, <3>4 DEF PopSend
  <2>3. \A j \in Kernel : Entered(j)' => Dest(j) \in Slots /\ slot[Dest(j)].magic
    <3>1. CASE CheckMagic(k)
      BY <1>0, <3>1 DEF CheckMagic, Send, Entered, Busy, SendPC
    <3>2. CASE ~CheckMagic(k)
      <4>1. \A j \in Kernel : Entered(j)' => Entered(j)
        BY <1>0, <1>5, <3>2
           DEF PopSend, Wild, Die, SpinEmpty, TestAndSet, Copy, Publish, Unlock, Send, Entered,
               Busy, SendPC
      <4>2. QED
        BY <1>0, <4>1
    <3>3. QED
      BY <3>1, <3>2
  <2>4. QED
    BY <1>1, <2>1, <2>2, <2>3
<1>6. ASSUME NEW k \in Kernel, PopRecv(k)
      PROVE  SlotsFound' /\ \A d \in Slots : slot[d].magic => slot'[d].magic
  <2>1. \A d \in Slots : slot'[d].magic = slot[d].magic
    BY <1>0, <1>6 DEF PopRecv, Connect, Poll, Take, Write, Clear, TypeSlots
  <2>2. \A j \in Kernel : Entered(j)' => Entered(j) /\ Dest(j)' = Dest(j)
    BY <1>6 DEF PopRecv, Connect, Poll, Take, Write, Clear, Entered, Busy, Dest
  <2>3. QED
    BY <1>0, <1>1, <2>1, <2>2
<1>7. QED
  BY <1>2, <1>3, <1>4, <1>5, <1>6 DEF Next

(* What was handed over stays so, and the second half of a write adds to it. *)
LEMMA GivenGrows ==
  ASSUME TypeOK, NEW k \in Kernel, Write(k), Recv(k, "writeRest", "clear")
  PROVE  \A d \in Kernel : Given(d)' = IF d = k THEN Given(d) \cup {byte[k]} ELSE Given(d)
<1> DEFINE m == [length |-> byte[k], first |-> half[k], rest |-> slot[k].buffer[2]]
<1>0. /\ TypeSlots /\ k \in Slots
      /\ byte \in [Kernel -> Word] /\ half \in [Kernel -> Word]
      /\ delivered \in [Kernel -> Seq(Message)]
  BY KernelAssumption DEF TypeOK, Slots, Message
<1>1. delivered' = [delivered EXCEPT ![k] = Append(@, m)]
  BY DEF Write, Recv
<1>2. m \in Message /\ m.length = byte[k]
  <2>1. slot[k].buffer[2] \in Word
    BY <1>0 DEF TypeSlots
  <2>2. QED
    BY <1>0, <2>1 DEF Message
<1> HIDE DEF m
<1>3. /\ DOMAIN delivered[k] = 1..Len(delivered[k])
      /\ DOMAIN delivered'[k] = 1..(Len(delivered[k]) + 1) /\ Len(delivered[k]) \in Nat
      /\ delivered'[k][Len(delivered[k]) + 1] = m
      /\ \A n \in DOMAIN delivered[k] : delivered'[k][n] = delivered[k][n]
  <2>1. delivered[k] \in Seq(Message) /\ delivered'[k] = Append(delivered[k], m)
    BY <1>0, <1>1
  <2>2. QED
    BY <1>2, <2>1
<1>4. Given(k)' = Given(k) \cup {byte[k]}
  BY <1>2, <1>3 DEF Given
<1>5. \A d \in Kernel \ {k} : delivered'[d] = delivered[d]
  BY <1>0, <1>1
<1>6. \A d \in Kernel \ {k} : Given(d)' = Given(d)
  BY <1>5 DEF Given
<1>7. QED
  BY <1>4, <1>6

LEMMA ClearedStep ==
  ASSUME TypeOK, Cleared, [Next]_vars
  PROVE  Cleared'
<1>0. rpc \in [Kernel -> RecvPC] /\ byte \in [Kernel -> Word]
  BY DEF TypeOK
<1>1. ASSUME delivered' = delivered,
             \A d \in Kernel : rpc'[d] = "clear" => rpc[d] = "clear" /\ byte'[d] = byte[d]
      PROVE  Cleared'
  BY <1>1 DEF Cleared, Given
<1>2. CASE UNCHANGED vars
  BY <1>1, <1>2 DEF vars, local, history
<1>3. ASSUME NEW k \in Kernel, Start(k) \/ Open(k) \/ Kill(k)
      PROVE  Cleared'
  BY <1>0, <1>1, <1>3 DEF Start, Open, OpenI, OpenMagic, OpenLock, Kill, Die, history, RecvPC
<1>4. ASSUME NEW k \in Kernel, PopSend(k) \/ \E b \in Octets[k] : Read(k, b)
      PROVE  Cleared'
  BY <1>0, <1>1, <1>4 DEF PopSend, Read, Wild, Die, CheckMagic, SpinEmpty, TestAndSet, Copy,
                          Publish, Unlock, history, RecvPC
<1>5. ASSUME NEW k \in Kernel, PopRecv(k), ~Recv(k, "writeRest", "clear")
      PROVE  Cleared'
  BY <1>0, <1>1, <1>5 DEF PopRecv, Connect, Poll, Take, Write, Clear, Recv, history
<1>6. ASSUME NEW k \in Kernel, PopRecv(k), Recv(k, "writeRest", "clear")
      PROVE  Cleared'
  <2>1. Write(k)
    BY <1>6 DEF PopRecv, Connect, Poll, Take, Clear, Recv
  <2>2. \A d \in Kernel : Given(d)' = IF d = k THEN Given(d) \cup {byte[k]} ELSE Given(d)
    BY <1>6, <2>1, GivenGrows
  <2>3. byte' = byte /\ \A d \in Kernel \ {k} : rpc'[d] = rpc[d]
    BY <1>6, <2>1 DEF Write, Recv
  <2>4. QED
    BY <2>2, <2>3 DEF Cleared
<1>7. QED
  BY <1>2, <1>3, <1>4, <1>5, <1>6 DEF Next

(* A step that Link does not see.                                            *)
LEMMA LinkStays ==
  ASSUME \A d \in Kernel : /\ IsOpen(d)' = IsOpen(d)
                           /\ slot'[d].magic = slot[d].magic
                           /\ OnItsWay(d)' = OnItsWay(d)
                           /\ OnItsWay(d) => slot'[d].i = slot[d].i,
         delivered' = delivered
  PROVE  UNCHANGED Abstract!vars
<1>1. Opens' = Opens /\ Known' = Known
  BY DEF Opens, Known
<1>2. Queue' = Queue
  BY DEF Queue
<1>3. QED
  BY <1>1, <1>2 DEF Opens, Known, Queue, Abstract!vars

RefInv == WholeInv /\ OrderInv /\ SlotsFound /\ Cleared

(* The steps of main.                                                        *)
LEMMA LinkMain ==
  ASSUME RefInv, NEW k \in Kernel, Start(k) \/ Open(k) \/ Kill(k)
  PROVE  [Abstract!Next]_(Abstract!vars)
<1>0. /\ TypeSlots /\ main \in [Kernel -> MainPC] /\ \A d \in Kernel : d \in Slots
      /\ \A d \in Kernel : Empty \notin Packet
  BY KernelAssumption, EmptyIsNoPacket DEF RefInv, WholeInv, TypeOK, Slots
<1>1. delivered' = delivered /\ \A d : Given(d)' = Given(d)
  BY DEF Start, Open, OpenI, OpenMagic, OpenLock, Kill, Die, history, Given
<1>2. CASE Start(k) \/ OpenLock(k)
  <2>1. \A d \in Kernel : /\ slot'[d].i = slot[d].i /\ slot'[d].magic = slot[d].magic
                          /\ IsOpen(d)' = IsOpen(d)
    BY <1>0, <1>2 DEF Start, OpenLock, Main, IsOpen, TypeSlots
  <2>2. QED
    BY <1>1, <2>1, LinkStays DEF OnItsWay
<1>3. CASE OpenI(k)
  <2>1. /\ ~IsOpen(k) /\ IsOpen(k)' /\ slot'[k].i = Empty
        /\ \A d \in Kernel \ {k} : IsOpen(d)' = IsOpen(d) /\ slot'[d].i = slot[d].i
        /\ \A d \in Kernel : slot'[d].magic = slot[d].magic
    BY <1>0, <1>3 DEF OpenI, Main, IsOpen, TypeSlots
  <2>2. ~OnItsWay(k)' /\ \A d \in Kernel \ {k} : OnItsWay(d)' = OnItsWay(d)
    BY <1>0, <1>1, <2>1 DEF OnItsWay
  <2>3. Opens' = Opens \cup {k} /\ k \notin Opens /\ Known' = Known
    BY <2>1 DEF Opens, Known
  <2>4. Queue' = [Queue EXCEPT ![k] = <<>>]
    BY <2>1, <2>2 DEF Queue
  <2>5. QED
    BY <1>1, <2>3, <2>4 DEF Abstract!Next, Abstract!Open, Opens, Known, Queue
<1>4. CASE OpenMagic(k)
  <2>1. /\ IsOpen(k) /\ slot'[k].magic
        /\ \A d \in Kernel \ {k} : slot'[d].magic = slot[d].magic
        /\ \A d \in Kernel : IsOpen(d)' = IsOpen(d) /\ slot'[d].i = slot[d].i
    BY <1>0, <1>4 DEF OpenMagic, Main, IsOpen, TypeSlots
  <2>2. Opens' = Opens /\ k \in Opens /\ Known' = Known \cup {k}
    BY <2>1 DEF Opens, Known
  <2>3. Queue' = Queue
    BY <1>1, <2>1 DEF Queue, OnItsWay
  <2>4. QED
    BY <1>1, <2>2, <2>3 DEF Abstract!Next, Abstract!Announce, Opens, Known, Queue
<1>5. CASE Kill(k)
  <2>1. Die(k)
    BY <1>5 DEF Kill
  <2>2. /\ slot' = slot /\ main' = [main EXCEPT ![k] = "down"]
    BY <2>1 DEF Die
  <2>3. Queue' = Queue /\ Known' = Known /\ \A d \in Kernel : OnItsWay(d)' = OnItsWay(d)
    BY <1>1, <2>2 DEF Queue, OnItsWay, Known
  <2>4. CASE IsOpen(k)
    <3>1. k \in Opens /\ Opens' = Opens \ {k}
      BY <1>0, <2>2, <2>4 DEF Opens, IsOpen
    <3>2. QED
      BY <1>1, <2>3, <3>1 DEF Abstract!Next, Abstract!Close, Opens, Known, Queue
  <2>5. CASE ~IsOpen(k)
    <3>1. \A d \in Kernel : IsOpen(d)' = IsOpen(d)
      BY <1>0, <2>2, <2>5 DEF IsOpen
    <3>2. QED
      BY <1>1, <2>2, <2>3, <3>1, LinkStays
  <2>6. QED
    BY <2>4, <2>5
<1>6. QED
  BY <1>2, <1>3, <1>4, <1>5 DEF Open

(* The steps of pop_send: the store of the length sends.                     *)
LEMMA LinkSend ==
  ASSUME RefInv, NEW k \in Kernel, PopSend(k) \/ \E b \in Octets[k] : Read(k, b)
  PROVE  [Abstract!Next]_(Abstract!vars)
<1>0. /\ TypeSlots /\ main \in [Kernel -> MainPC] /\ \A d \in Kernel : d \in Slots
      /\ spc \in [Kernel -> SendPC]
  BY KernelAssumption DEF RefInv, WholeInv, TypeOK, Slots
<1>1. delivered' = delivered /\ \A d : Given(d)' = Given(d)
  BY DEF PopSend, Read, Wild, Die, CheckMagic, SpinEmpty, TestAndSet, Copy, Publish, Unlock,
         history, Given
<1>2. CASE Publish(k)
  <2>1. /\ spc[k] = "publish" /\ main' = main
        /\ slot' = [slot EXCEPT ![Dest(k)].i = pkt[k]]
    BY <1>2 DEF Publish, Send
  <2>2. Busy(k) /\ Entered(k) /\ Pending(k)
    BY <2>1 DEF Busy, Entered, Pending, SendPC
  <2>3. PICK e \in Slots : e = Dest(k)
    BY <2>2 DEF RefInv, WholeInv, Addressed
  <2>4. PICK p \in Packet : p = pkt[k]
    BY <2>2 DEF RefInv, OrderInv, Numbered
  <2>5. slot[e].i = Empty /\ slot[e].magic
    BY <2>1, <2>2, <2>3 DEF RefInv, WholeInv, Filling, SlotsFound
  <2>6. /\ slot'[e].i = p
        /\ \A d \in Slots \ {e} : slot'[d].i = slot[d].i
        /\ \A d \in Slots : slot'[d].magic = slot[d].magic
    BY <1>0, <2>1, <2>3, <2>4 DEF TypeSlots
  <2>7. CASE e \in Kernel
    <3>1. p \notin Given(e)
      <4>1. After(Held(e), p)
        BY <2>2, <2>3, <2>4, <2>7 DEF RefInv, OrderInv, Numbered
      <4>2. After(Given(e), p) /\ p.seq \in Nat
        BY <4>1, BoundsAssumption DEF After, Held, Packet
      <4>3. QED
        BY <4>2 DEF After
    <3>2. ~OnItsWay(e) /\ OnItsWay(e)'
      BY <1>1, <2>5, <2>6, <3>1, EmptyIsNoPacket DEF OnItsWay
    <3>3. \A d \in Kernel \ {e} : OnItsWay(d)' = OnItsWay(d) /\ slot'[d].i = slot[d].i
      BY <1>0, <1>1, <2>6 DEF OnItsWay
    <3>4. Queue[e] = <<>> /\ Queue'[e] = <<p>> /\ Queue' = [Queue EXCEPT ![e] = <<p>>]
      BY <2>6, <2>7, <3>2, <3>3 DEF Queue
    <3>5. e \in Known /\ Opens' = Opens /\ Known' = Known
      BY <1>0, <2>1, <2>5, <2>6, <2>7 DEF Opens, Known, IsOpen
    <3>6. Len(Queue'[e]) = 1
      BY <3>4
    <3>7. QED
      BY <1>1, <2>7, <3>4, <3>5, <3>6 DEF Abstract!Next, Abstract!Send, Opens, Known, Queue
  <2>8. CASE e \notin Kernel
    <3>1. \A d \in Kernel : slot'[d].i = slot[d].i /\ slot'[d].magic = slot[d].magic
      BY <1>0, <2>6, <2>8
    <3>2. QED
      BY <1>1, <2>1, <3>1, LinkStays DEF IsOpen, OnItsWay
  <2>9. QED
    BY <2>7, <2>8
<1>3. CASE spc[k] = "wild" /\ Die(k)
  <2>1. /\ slot' = slot /\ main' = [main EXCEPT ![k] = "down"] /\ main[k] = "up"
    BY <1>3 DEF Die, RefInv, WholeInv, ThreadsUp
  <2>2. Queue' = Queue /\ Known' = Known
    BY <1>1, <2>1 DEF Queue, OnItsWay, Known
  <2>3. k \in Opens /\ Opens' = Opens \ {k}
    BY <1>0, <2>1 DEF Opens, IsOpen
  <2>4. QED
    BY <1>1, <2>2, <2>3 DEF Abstract!Next, Abstract!Close, Opens, Known, Queue
<1>4. CASE ~Publish(k) /\ ~(spc[k] = "wild" /\ Die(k))
  <2>1. main' = main
    BY <1>4 DEF PopSend, Read, Wild, CheckMagic, SpinEmpty, TestAndSet, Copy, Unlock
  <2>2. \A d \in Kernel : slot'[d].i = slot[d].i /\ slot'[d].magic = slot[d].magic
    BY <1>0, <1>4 DEF PopSend, Read, Wild, CheckMagic, SpinEmpty, TestAndSet, Copy, Unlock,
                      TypeSlots
  <2>3. QED
    BY <1>1, <2>1, <2>2, LinkStays DEF IsOpen, OnItsWay
<1>5. QED
  BY <1>2, <1>3, <1>4

(* The steps of pop_recv: the second half of a write receives.               *)
LEMMA LinkRecv ==
  ASSUME RefInv, NEW k \in Kernel, PopRecv(k)
  PROVE  [Abstract!Next]_(Abstract!vars)
<1>0. /\ TypeSlots /\ \A d \in Kernel : d \in Slots
      /\ delivered \in [Kernel -> Seq(Message)] /\ rpc \in [Kernel -> RecvPC]
  BY KernelAssumption DEF RefInv, WholeInv, TypeOK, Slots, Message
<1>1. main' = main /\ \A d \in Kernel : IsOpen(d)' = IsOpen(d)
  BY DEF PopRecv, Connect, Poll, Take, Write, Clear, IsOpen
<1>2. CASE Recv(k, "writeRest", "clear")
  <2>1. Write(k)
    BY <1>2 DEF PopRecv, Connect, Poll, Take, Clear, Recv
  <2> DEFINE m == [length |-> byte[k], first |-> half[k], rest |-> slot[k].buffer[2]]
  <2>2. slot' = slot /\ delivered' = [delivered EXCEPT ![k] = Append(@, m)]
    BY <1>2, <2>1 DEF Write, Recv
  <2>3. m \in Message
    <3>1. byte[k] \in Word /\ half[k] \in Word /\ slot[k].buffer[2] \in Word
      BY <1>0 DEF RefInv, WholeInv, TypeOK, TypeSlots
    <3>2. QED
      BY <3>1 DEF Message
  <2>4. /\ main[k] = "up" /\ slot[k].i # Empty /\ byte[k] = slot[k].i /\ m.rest = slot[k].i
    <3>1. rpc[k] = "writeRest" /\ slot[k].i # Empty /\ byte[k] = slot[k].i
      BY <1>2 DEF Recv, RefInv, WholeInv, Taking
    <3>2. slot[k].buffer[2] = slot[k].i /\ main[k] = "up"
      BY <1>0, <3>1 DEF RefInv, WholeInv, Whole, ThreadsUp
    <3>3. QED
      BY <3>1, <3>2
  <2> HIDE DEF m
  <2>5. PICK p \in Packet : p = slot[k].i /\ p \notin Given(k)
    <3>1. byte[k] \in Packet /\ After(Given(k), byte[k])
      BY <1>2 DEF Recv, RefInv, OrderInv, Carried, Reading, NotYetGiven, PacketsTo
    <3>2. byte[k].seq \in Nat
      BY <3>1, BoundsAssumption DEF Packet
    <3>3. QED
      BY <2>4, <3>1, <3>2 DEF After
  <2>6. \A d \in Kernel : Given(d)' = IF d = k THEN Given(d) \cup {p} ELSE Given(d)
    BY <1>2, <2>1, <2>4, <2>5, GivenGrows DEF RefInv, WholeInv
  <2>7. /\ OnItsWay(k) /\ ~OnItsWay(k)'
        /\ \A d \in Kernel \ {k} : OnItsWay(d)' = OnItsWay(d)
    BY <2>2, <2>5, <2>6 DEF OnItsWay
  <2>8. Queue[k] = <<p>> /\ Queue' = [Queue EXCEPT ![k] = <<>>]
    BY <2>2, <2>5, <2>7 DEF Queue
  <2>9. /\ Rests(delivered[k]) \in Seq(Word)
        /\ Rests(Append(delivered[k], m)) = Append(Rests(delivered[k]), p)
    BY <1>0, <2>3, <2>4, <2>5, RestsAppend
  <2>10. Handed' = [Handed EXCEPT ![k] = @ \o Queue[k]]
    <3>1. Handed = [j \in Kernel |-> Rests(delivered[j])]
      BY DEF Handed, Rests
    <3>2. Handed' = [j \in Kernel |-> Rests(delivered'[j])]
      BY DEF Handed, Rests
    <3>3. /\ delivered'[k] = Append(delivered[k], m)
          /\ \A j \in Kernel \ {k} : delivered'[j] = delivered[j]
      BY <1>0, <2>2
    <3>4. p \in Word
      BY <2>5, Values
    <3>5. Append(Rests(delivered[k]), p) = Rests(delivered[k]) \o <<p>>
      BY <2>9, <3>4
    <3>6. QED
      BY <2>8, <2>9, <3>1, <3>2, <3>3, <3>5
  <2>11. k \in Opens /\ Opens' = Opens /\ Known' = Known
    BY <1>1, <2>2, <2>4 DEF Opens, Known, IsOpen
  <2>12. Queue[k] # <<>>
    BY <2>8
  <2>13. Abstract!Receive(k)
    BY <2>8, <2>10, <2>11, <2>12 DEF Abstract!Receive, Opens, Known, Queue, Handed
  <2>14. QED
    BY <2>13 DEF Abstract!Next
<1>3. CASE Clear(k)
  <2>1. /\ delivered' = delivered /\ \A d : Given(d)' = Given(d)
        /\ rpc[k] = "clear" /\ slot' = [slot EXCEPT ![k].i = Empty]
    BY <1>3 DEF Clear, Recv, history, Given
  <2>2. /\ slot'[k].i = Empty
        /\ \A d \in Kernel \ {k} : slot'[d].i = slot[d].i
        /\ \A d \in Kernel : slot'[d].magic = slot[d].magic
    BY <1>0, <2>1 DEF TypeSlots
  <2>3. slot[k].i \in Given(k)
    BY <2>1 DEF RefInv, WholeInv, Taking, Cleared
  <2>4. \A d \in Kernel : OnItsWay(d)' = OnItsWay(d) /\ (OnItsWay(d) => d # k)
    BY <2>1, <2>2, <2>3, EmptyIsNoPacket DEF OnItsWay
  <2>5. QED
    BY <1>1, <2>1, <2>2, <2>4, LinkStays
<1>4. CASE ~Recv(k, "writeRest", "clear") /\ ~Clear(k)
  <2>1. delivered' = delivered /\ \A d : Given(d)' = Given(d)
    BY <1>4 DEF PopRecv, Connect, Poll, Take, Write, Recv, history, Given
  <2>2. \A d \in Kernel : slot'[d].i = slot[d].i /\ slot'[d].magic = slot[d].magic
    <3>1. CASE Connect(k)
      BY <1>0, <3>1 DEF Connect, TypeSlots
    <3>2. CASE Poll(k) \/ Take(k) \/ Write(k)
      BY <3>2 DEF Poll, Take, Write
    <3>3. QED
      BY <1>4, <3>1, <3>2 DEF PopRecv
  <2>3. QED
    BY <1>1, <2>1, <2>2, LinkStays DEF OnItsWay
<1>5. QED
  BY <1>2, <1>3, <1>4

(* Where no two kernels send to the same slot, a kernel is handed each       *)
(* packet that was sent to it once, as it was sent and in its turn, or not   *)
(* at all because open_shm ran again while it was on its way; whatever is    *)
(* killed and started again, and even if a thread faults on an address       *)
(* outside the area (the part of ImplementsLink that is not about liveness). *)
THEOREM LinkRefinement == ASSUME Exclusive PROVE Spec => Abstract!Spec
<1>1. Init => Abstract!Init
  <2>1. SUFFICES ASSUME Init PROVE Abstract!Init
    OBVIOUS
  <2>2. \A d \in Kernel : /\ ~IsOpen(d) /\ delivered[d] = <<>>
                          /\ ~slot[d].magic /\ slot[d].i \in {Empty, Junk}
    <3>1. \A d \in Slots : slot[d].magic = FALSE /\ slot[d].i \in {Empty, Junk}
      BY <2>1 DEF Init
    <3>2. QED
      BY <2>1, <3>1, EmptyIsNoPacket DEF Init, IsOpen
  <2>3. \A d \in Kernel : ~OnItsWay(d)
    BY <2>2, EmptyIsNoPacket DEF OnItsWay, Empty, Junk, Packet
  <2>4. Opens = {} /\ Known = {} /\ Queue = [d \in Kernel |-> <<>>]
    BY <2>2, <2>3 DEF Opens, Known, Queue
  <2>5. Handed = [d \in Kernel |-> <<>>]
    BY <2>2 DEF Handed
  <2>6. QED
    BY <2>4, <2>5 DEF Abstract!Init, Opens, Known, Queue, Handed
<1>2. Init => RefInv
  <2>1. Init => SlotsFound /\ Cleared
    BY DEF Init, SlotsFound, Cleared, Entered, Busy
  <2>2. QED
    BY <2>1, WholeInit, OrderInit DEF RefInv
<1>3. ASSUME RefInv, [Next]_vars PROVE RefInv'
  BY <1>3, WholeStep, OrderStep, FoundStep, ClearedStep DEF RefInv, WholeInv
<1>4. ASSUME RefInv, [Next]_vars PROVE [Abstract!Next]_(Abstract!vars)
  <2>1. CASE UNCHANGED vars
    <3>1. slot' = slot /\ main' = main /\ delivered' = delivered
      BY <2>1 DEF vars, local, history
    <3>2. QED
      BY <3>1, LinkStays DEF IsOpen, OnItsWay, Given
  <2>2. QED
    BY <1>4, <2>1, LinkMain, LinkSend, LinkRecv DEF Next
<1>5. QED
  BY <1>1, <1>2, <1>3, <1>4, PTL DEF Spec, Abstract!Spec
-----------------------------------------------------------------------------
(* Every packet arrives. *)

(* main creates pop_recv when it is done. *)
Receives(d) == main[d] = "up" => rpc[d] # "off"
LinkInv(d) == WholeInv /\ Channel /\ Receives(d)

LEMMA LinkInvAlways ==
  ASSUME Exclusive, MaxStarts = 1, NEW d \in Kernel
  PROVE  Spec => []LinkInv(d)
<1>1. Init => LinkInv(d)
  BY WholeInit, ChannelInit DEF Init, LinkInv, Receives
<1>2. ASSUME LinkInv(d), [Next]_vars PROVE LinkInv(d)'
  <2> USE DEF Receives, history, local
  <2>1. main \in [Kernel -> MainPC] /\ rpc \in [Kernel -> RecvPC]
    BY <1>2 DEF LinkInv, WholeInv, TypeOK
  <2>2. ASSUME NEW k \in Kernel, Start(k) \/ Open(k) \/ Kill(k) PROVE Receives(d)'
    BY <1>2, <2>1, <2>2 DEF LinkInv, Start, Open, OpenI, OpenMagic, OpenLock, Main, Kill, Die
  <2>3. ASSUME NEW k \in Kernel, PopSend(k) \/ \E b \in Octets[k] : Read(k, b)
        PROVE  Receives(d)'
    BY <1>2, <2>1, <2>3 DEF LinkInv, PopSend, Read, Wild, Die, CheckMagic, SpinEmpty, TestAndSet,
                            Copy, Publish, Unlock
  <2>4. ASSUME NEW k \in Kernel, PopRecv(k) PROVE Receives(d)'
    BY <1>2, <2>1, <2>4 DEF LinkInv, PopRecv, Connect, Poll, Take, Write, Clear, Recv
  <2>5. Receives(d)'
    BY <1>2, <2>2, <2>3, <2>4 DEF Next, LinkInv, vars
  <2>6. QED
    BY <1>2, <2>5, WholeStep, ChannelStep DEF LinkInv
<1>3. QED
  BY <1>1, <1>2, PTL DEF Spec

LEMMA LinkTypes ==
  ASSUME NEW d \in Kernel, LinkInv(d)
  PROVE  /\ main \in [Kernel -> MainPC] /\ rpc \in [Kernel -> RecvPC] /\ d \in Slots
         /\ sent \in [Slots -> Seq(Word)] /\ Len(sent[d]) \in Nat /\ Len(delivered[d]) \in Nat
         /\ delivered \in [Kernel -> Seq(Message)]
<1>1. d \in Slots
  BY KernelAssumption DEF Slots
<1>2. main \in [Kernel -> MainPC] /\ rpc \in [Kernel -> RecvPC]
  BY DEF LinkInv, WholeInv, TypeOK
<1>3. delivered \in [Kernel -> Seq(Message)]
  BY DEF LinkInv, WholeInv, TypeOK, Message
<1>4. sent \in [Slots -> Seq(Word)]
  BY DEF LinkInv, Channel, SentTyped
<1>5. Len(sent[d]) \in Nat /\ Len(delivered[d]) \in Nat
  <2>1. sent[d] \in Seq(Word) /\ delivered[d] \in Seq(Message)
    BY <1>1, <1>3, <1>4
  <2>2. QED
    BY <2>1
<1>6. QED
  BY <1>1, <1>2, <1>3, <1>4, <1>5

(* Steps other than those of main and pop_recv of d leave both where they    *)
(* are, unless the process ends; what was sent stays sent.                   *)
LEMMA ReceiverStays ==
  ASSUME NEW d \in Kernel, LinkInv(d), [Next]_vars, main[d] \in {"lock", "up"},
         ~Open(d), ~PopRecv(d)
  PROVE  \/ main'[d] = "down"
         \/ /\ main'[d] = main[d] /\ rpc'[d] = rpc[d] /\ delivered'[d] = delivered[d]
            /\ Len(sent'[d]) >= Len(sent[d])
<1> USE DEF history, local
<1>1. /\ main \in [Kernel -> MainPC] /\ rpc \in [Kernel -> RecvPC] /\ d \in Slots
      /\ sent \in [Slots -> Seq(Word)] /\ Len(sent[d]) \in Nat
      /\ delivered \in [Kernel -> Seq(Message)]
  BY LinkTypes
<1>2. ASSUME NEW k \in Kernel, Start(k) \/ Open(k) \/ Kill(k)
      PROVE  main'[d] = "down" \/ (main'[d] = main[d] /\ rpc'[d] = rpc[d]
                                   /\ delivered' = delivered /\ sent' = sent)
  BY <1>1, <1>2 DEF Start, Open, OpenI, OpenMagic, OpenLock, Main, Kill, Die
<1>3. ASSUME NEW k \in Kernel, PopSend(k), ~Publish(k)
      PROVE  main'[d] = "down" \/ (main'[d] = main[d] /\ rpc'[d] = rpc[d]
                                   /\ delivered' = delivered /\ sent' = sent)
  BY <1>1, <1>3 DEF PopSend, Wild, Die, CheckMagic, SpinEmpty, TestAndSet, Copy, Unlock
<1>4. ASSUME NEW k \in Kernel, Publish(k)
      PROVE  /\ main' = main /\ rpc' = rpc /\ delivered' = delivered
             /\ Len(sent'[d]) >= Len(sent[d])
  <2>1. Dest(k) \in Slots /\ pkt[k] \in Word
    BY <1>4 DEF Publish, Send, Busy, SendPC, LinkInv, WholeInv, Addressed, TypeOK
  <2>2. CASE Dest(k) = d
    BY <1>1, <1>4, <2>1, <2>2 DEF Publish
  <2>3. CASE Dest(k) # d
    BY <1>1, <1>4, <2>1, <2>3 DEF Publish
  <2>4. QED
    BY <1>4, <2>2, <2>3 DEF Publish
<1>5. ASSUME NEW k \in Kernel, k # d, PopRecv(k)
      PROVE  /\ main' = main /\ rpc'[d] = rpc[d] /\ delivered'[d] = delivered[d] /\ sent' = sent
  BY <1>1, <1>5 DEF PopRecv, Connect, Poll, Take, Write, Clear, Recv
<1>6. ASSUME NEW k \in Kernel, \E b \in Octets[k] : Read(k, b)
      PROVE  main' = main /\ rpc' = rpc /\ delivered' = delivered /\ sent' = sent
  BY <1>6 DEF Read
<1>7. CASE UNCHANGED vars
  BY <1>1, <1>7 DEF vars
<1>8. \/ \E k \in Kernel : Start(k) \/ Open(k) \/ Kill(k)
      \/ \E k \in Kernel : PopSend(k) /\ ~Publish(k)
      \/ \E k \in Kernel : Publish(k)
      \/ \E k \in Kernel : k # d /\ PopRecv(k)
      \/ \E k \in Kernel : \E b \in Octets[k] : Read(k, b)
      \/ UNCHANGED vars
  BY DEF Next
<1>9. sent' = sent => Len(sent'[d]) >= Len(sent[d])
  BY <1>1
<1>10. QED
  BY <1>2, <1>3, <1>4, <1>5, <1>6, <1>7, <1>8, <1>9

(* Fairness, with the guards of Open and PopRecv in the place of ENABLED. *)
CanRecv(d) == rpc[d] # "off" /\ (rpc[d] = "poll" => slot[d].i # Empty)
CanOpen(d) == main[d] \in {"i", "magic", "lock"}
Scheduled(d) == /\ []([]CanOpen(d) => <><<Open(d)>>_vars)
                /\ []([]CanRecv(d) => <><<PopRecv(d)>>_vars)

(* A packet that was sent is handed over by its destination, if main and     *)
(* pop_recv of the destination are scheduled, whatever the others do: where  *)
(* no two kernels send to the same slot and none is started twice, unless    *)
(* the process faults.                                                       *)
THEOREM PacketsArrive ==
  ASSUME Exclusive, MaxStarts = 1, NEW d \in Kernel, NEW n \in Nat
  PROVE  Spec /\ Scheduled(d) =>
           (Len(delivered[d]) = n /\ n < Len(sent[d])
              ~> Len(delivered[d]) > n \/ main[d] = "down")
<1> DEFINE Sent == Len(delivered[d]) = n /\ n < Len(sent[d])
           Got == Len(delivered[d]) > n \/ main[d] = "down"
           Pend(at, r) == Sent /\ main[d] = at /\ rpc[d] = r
           InOpen == Sent /\ main[d] = "lock"
           InConnect == Pend("up", "connect")
           InPoll == Pend("up", "poll")
           InTake == Pend("up", "take")
           InWrite == Pend("up", "write")
           InRest == Pend("up", "writeRest")
           Inv == LinkInv(d)
<1>0. ASSUME Inv
      PROVE  /\ main \in [Kernel -> MainPC] /\ rpc \in [Kernel -> RecvPC] /\ d \in Slots
             /\ sent \in [Slots -> Seq(Word)] /\ Len(sent[d]) \in Nat /\ Len(delivered[d]) \in Nat
             /\ delivered \in [Kernel -> Seq(Message)]
  BY <1>0, LinkTypes
<1>1. Inv /\ Sent => InOpen \/ InConnect \/ InPoll \/ InTake \/ InWrite \/ InRest \/ Got
  <2> SUFFICES ASSUME Inv, Sent, ~Got
               PROVE  InOpen \/ InConnect \/ InPoll \/ InTake \/ InWrite \/ InRest
    OBVIOUS
  <2>1. main[d] \in {"lock", "up"}
    BY <1>0 DEF LinkInv, Channel, OpenedOnce, Invited
  <2>2. main[d] = "up" => rpc[d] \notin {"off", "clear"}
    BY <1>0 DEF LinkInv, Receives, Channel, InTransit, IsOpen, Waiting
  <2>3. QED
    BY <1>0, <2>1, <2>2 DEF RecvPC
<1>2. ASSUME Inv, [Next]_vars, Sent, main[d] \in {"lock", "up"}, ~Open(d), ~PopRecv(d)
      PROVE  Got' \/ (Sent' /\ main'[d] = main[d] /\ rpc'[d] = rpc[d])
  BY <1>0, <1>2, ReceiverStays
<1>3. ASSUME Inv, Open(d), InOpen PROVE InConnect'
  BY <1>0, <1>3 DEF Open, OpenI, OpenMagic, OpenLock, Main, history
<1>4. ASSUME Inv, Open(d), main[d] = "up" PROVE FALSE
  BY <1>4 DEF Open, OpenI, OpenMagic, OpenLock, Main
<1>5. ASSUME Inv, PopRecv(d), main[d] = "lock" PROVE FALSE
  BY <1>0, <1>5 DEF LinkInv, WholeInv, ThreadsUp, PopRecv, Connect, Poll, Take, Write, Clear, Recv
<1>6. ASSUME Inv, PopRecv(d), main[d] = "up", Sent
      PROVE  /\ rpc[d] = "connect" => InPoll'
             /\ rpc[d] = "poll" => InTake'
             /\ rpc[d] = "take" => InWrite'
             /\ rpc[d] = "write" => InRest'
             /\ rpc[d] = "writeRest" => Got'
  <2>1. rpc[d] = "writeRest" => Len(delivered'[d]) = Len(delivered[d]) + 1
    <3>1. SUFFICES ASSUME rpc[d] = "writeRest"
                   PROVE  Len(delivered'[d]) = Len(delivered[d]) + 1
      OBVIOUS
    <3>2. PICK m : delivered' = [delivered EXCEPT ![d] = Append(@, m)]
      BY <1>6, <3>1 DEF PopRecv, Connect, Poll, Take, Write, Clear, Recv
    <3>3. delivered'[d] = Append(delivered[d], m)
      BY <1>0, <1>6, <3>2
    <3>4. QED
      BY <1>0, <1>6, <3>3
  <2>2. rpc[d] = "writeRest" => Got'
    BY <1>0, <1>6, <2>1
  <2>3. rpc[d] # "writeRest" => Sent' /\ main'[d] = "up"
    BY <1>6 DEF PopRecv, Connect, Poll, Take, Write, Clear, Recv, history
  <2>4. /\ rpc[d] = "connect" => rpc'[d] = "poll"
        /\ rpc[d] = "poll" => rpc'[d] = "take"
        /\ rpc[d] = "take" => rpc'[d] = "write"
        /\ rpc[d] = "write" => rpc'[d] = "writeRest"
    BY <1>0, <1>6 DEF PopRecv, Connect, Poll, Take, Write, Clear, Recv
  <2>5. QED
    BY <2>2, <2>3, <2>4
<1>7. Inv /\ Sent /\ main[d] = "up" => CanRecv(d)
  BY <1>0 DEF CanRecv, LinkInv, Receives, Channel, InTransit, IsOpen, Waiting
<1>8. /\ Inv /\ [Next]_vars /\ InOpen => InOpen' \/ InConnect' \/ Got'
      /\ Inv /\ <<Open(d)>>_vars /\ InOpen => InConnect'
      /\ InOpen => CanOpen(d)
  BY <1>2, <1>3, <1>5 DEF CanOpen
<1>9. /\ Inv /\ [Next]_vars /\ InConnect => InConnect' \/ InPoll' \/ Got'
      /\ Inv /\ <<PopRecv(d)>>_vars /\ InConnect => InPoll'
      /\ Inv /\ InConnect => CanRecv(d)
  BY <1>2, <1>4, <1>6, <1>7
<1>10. /\ Inv /\ [Next]_vars /\ InPoll => InPoll' \/ InTake' \/ Got'
       /\ Inv /\ <<PopRecv(d)>>_vars /\ InPoll => InTake'
       /\ Inv /\ InPoll => CanRecv(d)
  BY <1>2, <1>4, <1>6, <1>7
<1>11. /\ Inv /\ [Next]_vars /\ InTake => InTake' \/ InWrite' \/ Got'
       /\ Inv /\ <<PopRecv(d)>>_vars /\ InTake => InWrite'
       /\ Inv /\ InTake => CanRecv(d)
  BY <1>2, <1>4, <1>6, <1>7
<1>12. /\ Inv /\ [Next]_vars /\ InWrite => InWrite' \/ InRest' \/ Got'
       /\ Inv /\ <<PopRecv(d)>>_vars /\ InWrite => InRest'
       /\ Inv /\ InWrite => CanRecv(d)
  BY <1>2, <1>4, <1>6, <1>7
<1>13. /\ Inv /\ [Next]_vars /\ InRest => InRest' \/ Got'
       /\ Inv /\ <<PopRecv(d)>>_vars /\ InRest => Got'
       /\ Inv /\ InRest => CanRecv(d)
  BY <1>2, <1>4, <1>6, <1>7
<1>14. Spec => []Inv
  BY LinkInvAlways
<1> HIDE DEF Sent, Got, InOpen, InConnect, InPoll, InTake, InWrite, InRest, Inv
<1>15. Spec /\ Scheduled(d) => (Sent ~> Got)
  BY <1>1, <1>8, <1>9, <1>10, <1>11, <1>12, <1>13, <1>14, PTL DEF Spec, Scheduled
<1>16. QED
  BY <1>15 DEF Sent, Got

(* Once a slot is open, its lock is taken only by somebody who writes. *)
LockHeld(d) == main[d] = "up" /\ slot[d].lock = 1 => Writers(d) # {}

(* Nobody disturbs a sender on its way through a slot. *)
LEMMA SenderStays ==
  ASSUME WholeInv, Channel, MaxStarts = 1, [Next]_vars, NEW k \in Kernel, Entered(k), ~PopSend(k)
  PROVE  spc'[k] = spc[k] /\ pkt'[k] = pkt[k]
<1> USE DEF history, local
<1>1. /\ spc \in [Kernel -> SendPC] /\ pkt \in [Kernel -> Word]
      /\ main[k] = "up" /\ starts[k] = 1 /\ spc[k] # "read" /\ spc[k] # "off"
  BY DEF WholeInv, TypeOK, ThreadsUp, Channel, OpenedOnce, Entered, Busy
<1>2. ASSUME NEW j \in Kernel, Start(j) \/ Open(j) \/ Kill(j)
      PROVE  spc'[k] = spc[k] /\ pkt'[k] = pkt[k]
  BY <1>1, <1>2 DEF Start, Open, OpenI, OpenMagic, OpenLock, Main, Kill, Die
<1>3. ASSUME NEW j \in Kernel, j # k, PopSend(j)
      PROVE  spc'[k] = spc[k] /\ pkt'[k] = pkt[k]
  BY <1>1, <1>3 DEF PopSend, Wild, Die, CheckMagic, SpinEmpty, TestAndSet, Copy, Publish, Unlock, Send
<1>4. ASSUME NEW j \in Kernel, \E b \in Octets[j] : Read(j, b)
      PROVE  spc'[k] = spc[k] /\ pkt'[k] = pkt[k]
  BY <1>1, <1>4 DEF Read, Send
<1>5. ASSUME NEW j \in Kernel, PopRecv(j)
      PROVE  spc'[k] = spc[k] /\ pkt'[k] = pkt[k]
  BY <1>5 DEF PopRecv, Connect, Poll, Take, Write, Clear
<1>6. CASE UNCHANGED vars
  BY <1>6 DEF vars
<1>7. QED
  BY <1>2, <1>3, <1>4, <1>5, <1>6 DEF Next

LEMMA LockHeldKept ==
  ASSUME MaxStarts = 1, NEW d \in Kernel, LinkInv(d), LockHeld(d), [Next]_vars
  PROVE  LockHeld(d)'
<1> USE DEF history, local
<1>1. /\ WholeInv /\ Channel /\ TypeSlots /\ d \in Slots
      /\ spc \in [Kernel -> SendPC] /\ main \in [Kernel -> MainPC]
  BY LinkTypes DEF LinkInv, WholeInv, TypeOK
<1>2. \A j \in Kernel : Busy(j) => Dest(j) \in Slots
  BY <1>1 DEF WholeInv, Addressed
<1>3. ASSUME NEW v \in Writers(d), ~PopSend(v) PROVE v \in Writers(d)'
  <2>1. v \in Kernel /\ Entered(v)
    BY DEF Writers, Entered, Busy, SendPC
  <2>2. QED
    BY <1>1, <1>3, <2>1, SenderStays DEF Writers, Dest
<1>4. ASSUME slot'[d].lock = slot[d].lock, main'[d] = "up" => main[d] = "up",
             \A j \in Kernel : ~PopSend(j)
      PROVE  LockHeld(d)'
  BY <1>3, <1>4 DEF LockHeld, Writers
<1>5. ASSUME NEW k \in Kernel, Start(k) \/ Open(k) \/ Kill(k) PROVE LockHeld(d)'
  <2>1. CASE k = d /\ OpenLock(k)
    BY <1>1, <2>1 DEF OpenLock, LockHeld, TypeSlots
  <2>2. CASE ~(k = d /\ OpenLock(k))
    <3>1. slot'[d].lock = slot[d].lock /\ (main'[d] = "up" => main[d] = "up")
      BY <1>1, <1>5, <2>2 DEF Start, Open, OpenI, OpenMagic, OpenLock, Main, Kill, Die, TypeSlots
    <3>2. \A v \in Writers(d) : v \in Writers(d)'
      BY <1>1, <1>5
         DEF Writers, Dest, Start, Open, OpenI, OpenMagic, OpenLock, Main, Kill, Die,
             WholeInv, ThreadsUp, Channel, OpenedOnce
    <3>3. QED
      BY <3>1, <3>2 DEF LockHeld
  <2>3. QED
    BY <2>1, <2>2
<1>6. ASSUME NEW k \in Kernel, PopSend(k) PROVE LockHeld(d)'
  <2>1. main'[d] = "up" => main[d] = "up"
    BY <1>1, <1>6 DEF PopSend, Wild, Die, CheckMagic, SpinEmpty, TestAndSet, Copy, Publish, Unlock
  <2>2. \A v \in Writers(d) \ {k} : v \in Writers(d)'
    BY <1>1, <1>6 DEF Writers, Dest, PopSend, Wild, Die, CheckMagic, SpinEmpty, TestAndSet, Copy,
                      Publish, Unlock, Send
  <2>3. CASE TestAndSet(k)
    <3>1. Dest(k) \in Slots /\ k \notin Writers(d)
      BY <1>2, <2>3 DEF TestAndSet, Send, Busy, SendPC, Writers
    <3>2. CASE Dest(k) = d /\ slot[d].lock # 1
      <4>1. spc'[k] = "copy" /\ pkt' = pkt
        BY <1>1, <2>3, <3>2 DEF TestAndSet, Send
      <4>2. k \in Writers(d)'
        BY <3>2, <4>1 DEF Writers, Dest
      <4>3. QED
        BY <4>2 DEF LockHeld
    <3>3. CASE ~(Dest(k) = d /\ slot[d].lock # 1)
      <4>1. slot'[d].lock = slot[d].lock
        BY <1>1, <2>3, <3>1, <3>3 DEF TestAndSet, TypeSlots
      <4>2. QED
        BY <2>1, <2>2, <3>1, <4>1 DEF LockHeld
    <3>4. QED
      BY <3>2, <3>3
  <2>4. CASE Unlock(k)
    <3>1. Dest(k) \in Slots
      BY <1>2, <2>4 DEF Unlock, Send, Busy, SendPC
    <3>2. CASE Dest(k) = d
      BY <1>1, <2>4, <3>2 DEF Unlock, LockHeld, TypeSlots
    <3>3. CASE Dest(k) # d
      <4>1. slot'[d].lock = slot[d].lock /\ k \notin Writers(d)
        BY <1>1, <2>4, <3>1, <3>3 DEF Unlock, TypeSlots, Writers
      <4>2. QED
        BY <2>1, <2>2, <4>1 DEF LockHeld
    <3>4. QED
      BY <3>2, <3>3
  <2>5. CASE Wild(k) \/ CheckMagic(k) \/ SpinEmpty(k) \/ Copy(k) \/ Publish(k)
    <3>1. slot'[d].lock = slot[d].lock
      BY <1>1, <1>2, <2>5 DEF Wild, Die, CheckMagic, SpinEmpty, Copy, Publish, Send, Busy, SendPC,
                              TypeSlots
    <3>2. k \in Writers(d) => k \in Writers(d)'
      BY <1>1, <2>5 DEF Wild, Die, CheckMagic, SpinEmpty, Copy, Publish, Send, Writers, Dest
    <3>3. QED
      BY <2>1, <2>2, <3>1, <3>2 DEF LockHeld
  <2>6. QED
    BY <1>6, <2>3, <2>4, <2>5 DEF PopSend
<1>7. ASSUME NEW k \in Kernel, PopRecv(k) \/ \E b \in Octets[k] : Read(k, b) PROVE LockHeld(d)'
  <2>1. slot'[d].lock = slot[d].lock /\ main' = main
    BY <1>1, <1>7 DEF PopRecv, Connect, Poll, Take, Write, Clear, Read, TypeSlots
  <2>2. CASE PopRecv(k)
    <3>1. spc' = spc /\ pkt' = pkt
      BY <2>2 DEF PopRecv, Connect, Poll, Take, Write, Clear
    <3>2. QED
      BY <2>1, <3>1 DEF LockHeld, Writers, Dest
  <2>3. CASE \E b \in Octets[k] : Read(k, b)
    <3>1. \A v \in Writers(d) : v # k /\ spc'[v] = spc[v] /\ pkt'[v] = pkt[v]
      <4>1. TAKE v \in Writers(d)
      <4>2. v # k
        BY <2>3 DEF Read, Send, Writers
      <4>3. QED
        BY <1>1, <2>3, <4>2 DEF Read, Send, Writers
    <3>2. QED
      BY <2>1, <3>1 DEF LockHeld, Writers, Dest
  <2>4. QED
    BY <1>7, <2>2, <2>3
<1>8. CASE UNCHANGED vars
  BY <1>8 DEF vars, LockHeld, Writers, Dest
<1>9. QED
  BY <1>5, <1>6, <1>7, <1>8 DEF Next

LEMMA LockHeldAlways ==
  ASSUME Exclusive, MaxStarts = 1, NEW d \in Kernel
  PROVE  Spec => [](LinkInv(d) /\ LockHeld(d))
<1>1. Init => LockHeld(d)
  BY DEF Init, LockHeld
<1>2. LinkInv(d) /\ LockHeld(d) /\ [Next]_vars => LockHeld(d)'
  BY LockHeldKept
<1>3. Spec => []LinkInv(d)
  BY LinkInvAlways
<1>4. QED
  BY <1>1, <1>2, <1>3, PTL DEF Spec

(* Where a sender is that is on its way through slot d. *)
Through(k, d) == Entered(k) /\ Dest(k) = d

(* While a sender is at a slot nobody else writes a length into it, and      *)
(* only pop_recv takes one out.                                              *)
LEMMA SlotStays ==
  ASSUME Exclusive, MaxStarts = 1, NEW k \in Kernel, NEW d \in Kernel, LinkInv(d), [Next]_vars,
         Through(k, d), main[d] = "up", ~PopSend(k), ~PopRecv(d)
  PROVE  slot'[d].i = slot[d].i
<1> USE DEF history, local
<1>1. WholeInv /\ TypeSlots /\ d \in Slots /\ \A j \in Kernel : j \in Slots
  BY LinkTypes, KernelAssumption DEF LinkInv, WholeInv, TypeOK, Slots
<1>2. ASSUME NEW j \in Kernel, Start(j) \/ Open(j) \/ Kill(j)
      PROVE  slot'[d].i = slot[d].i
  BY <1>1, <1>2 DEF Start, Open, OpenI, OpenMagic, OpenLock, Main, Kill, Die, TypeSlots
<1>3. ASSUME NEW j \in Kernel, j # k, PopSend(j)
      PROVE  slot'[d].i = slot[d].i
  <2>1. CASE Publish(j) \/ TestAndSet(j) \/ Copy(j) \/ Unlock(j)
    <3>1. Busy(j) /\ Dest(j) \in Slots
      BY <1>1, <2>1 DEF Publish, TestAndSet, Copy, Unlock, Send, Busy, SendPC, WholeInv, Addressed
    <3>2. Dest(j) # d
      BY <1>1, <1>3, <3>1, OneSender DEF Through, Entered, WholeInv
    <3>3. QED
      BY <1>1, <2>1, <3>1, <3>2 DEF Publish, TestAndSet, Copy, Unlock, TypeSlots
  <2>2. CASE Wild(j) \/ CheckMagic(j) \/ SpinEmpty(j)
    BY <2>2 DEF Wild, Die, CheckMagic, SpinEmpty
  <2>3. QED
    BY <1>3, <2>1, <2>2 DEF PopSend
<1>4. ASSUME NEW j \in Kernel, \E b \in Octets[j] : Read(j, b)
      PROVE  slot'[d].i = slot[d].i
  BY <1>4 DEF Read
<1>5. ASSUME NEW j \in Kernel, j # d, PopRecv(j)
      PROVE  slot'[d].i = slot[d].i
  BY <1>1, <1>5 DEF PopRecv, Connect, Poll, Take, Write, Clear, TypeSlots
<1>6. CASE UNCHANGED vars
  BY <1>6 DEF vars
<1>7. QED
  BY <1>2, <1>3, <1>4, <1>5, <1>6 DEF Next

(* What pop_send does on its way through an open slot: it finds the lock     *)
(* free.                                                                     *)
LEMMA SenderGoesOn ==
  ASSUME Exclusive, NEW k \in Kernel, NEW d \in Kernel, LinkInv(d), LockHeld(d), PopSend(k),
         Through(k, d), main[d] = "up"
  PROVE  /\ pkt'[k] = pkt[k] /\ main' = main
         /\ spc[k] = "spin" => slot[d].i = Empty /\ slot'[d].i = Empty /\ spc'[k] = "lock"
         /\ spc[k] = "lock" => spc'[k] = "copy"
         /\ spc[k] = "copy" => spc'[k] = "copyRest"
         /\ spc[k] = "copyRest" => spc'[k] = "publish"
         /\ spc[k] = "publish" => spc'[k] = "unlock"
         /\ spc[k] = "unlock" => spc'[k] = "read"
<1> USE DEF history, local
<1>1. WholeInv /\ TypeSlots /\ d \in Slots /\ spc \in [Kernel -> SendPC]
  BY LinkTypes DEF LinkInv, WholeInv, TypeOK
<1>2. spc[k] = "lock" => slot[d].lock # 1
  <2>1. SUFFICES ASSUME spc[k] = "lock", slot[d].lock = 1 PROVE FALSE
    OBVIOUS
  <2>2. PICK v \in Writers(d) : TRUE
    BY <2>1 DEF LockHeld
  <2>3. v \in Kernel /\ Busy(v) /\ Dest(v) = d /\ v # k
    BY <2>1, <2>2 DEF Writers, Busy, SendPC
  <2>4. QED
    BY <1>1, <2>3, OneSender DEF Through, Entered, WholeInv
<1>3. Dest(k) = d /\ spc[k] \notin {"wild", "magic"}
  BY DEF Through, Entered, Busy
<1>4. CASE SpinEmpty(k)
  BY <1>1, <1>3, <1>4 DEF SpinEmpty, Send
<1>5. CASE TestAndSet(k)
  BY <1>1, <1>2, <1>3, <1>5 DEF TestAndSet, Send
<1>6. CASE Copy(k)
  BY <1>1, <1>3, <1>6 DEF Copy, Send
<1>7. CASE Publish(k)
  BY <1>1, <1>3, <1>7 DEF Publish, Send
<1>8. CASE Unlock(k)
  BY <1>1, <1>3, <1>8 DEF Unlock, Send
<1>9. ~Wild(k) /\ ~CheckMagic(k)
  BY <1>3 DEF Wild, CheckMagic, Send
<1>10. QED
  BY <1>4, <1>5, <1>6, <1>7, <1>8, <1>9 DEF PopSend

(* Fairness of pop_send, with its guard in the place of ENABLED.             *)
CanSend(k) == /\ spc[k] \notin {"off", "read"}
              /\ spc[k] = "spin" => slot[Dest(k)].i = Empty
SenderScheduled(k) == []([]CanSend(k) => <><<PopSend(k)>>_vars)

(* A sender that has found the magic number gets its packet through and      *)
(* reads the next one, if it and the tunnel at the other end are scheduled,  *)
(* whatever the others do: where no two kernels send to the same slot and    *)
(* none is started twice, unless the process at the other end faults.  The   *)
(* lock may hold anything when the sender comes.                             *)
THEOREM SendersGetThrough ==
  ASSUME Exclusive, MaxStarts = 1, NEW k \in Kernel, NEW d \in Kernel
  PROVE  Spec /\ Scheduled(d) /\ SenderScheduled(k) =>
           (spc[k] = "spin" /\ Dest(k) = d ~> spc[k] = "read" \/ main[d] = "down")
<1> DEFINE Spin == spc[k] = "spin" /\ Dest(k) = d
           Done == spc[k] = "read" \/ main[d] = "down"
           Unopened == Through(k, d) /\ main[d] = "lock"
           Way == Through(k, d) /\ main[d] = "up"
           At(s) == Way /\ spc[k] = s
           Full(r) == At("spin") /\ slot[d].i # Empty /\ rpc[d] = r
           FullConnect == Full("connect")
           FullPoll == Full("poll")
           FullTake == Full("take")
           FullWrite == Full("write")
           FullRest == Full("writeRest")
           FullClear == Full("clear")
           AnyFull == FullConnect \/ FullPoll \/ FullTake \/ FullWrite \/ FullRest \/ FullClear
           Free == At("spin") /\ slot[d].i = Empty
           InLock == At("lock")
           InCopy == At("copy")
           InRest == At("copyRest")
           InPublish == At("publish")
           InUnlock == At("unlock")
           Inside == InCopy \/ InRest \/ InPublish \/ InUnlock
           Inv == LinkInv(d) /\ LockHeld(d)
<1>0. ASSUME Inv
      PROVE  /\ main \in [Kernel -> MainPC] /\ rpc \in [Kernel -> RecvPC] /\ d \in Slots
             /\ spc \in [Kernel -> SendPC] /\ WholeInv /\ Channel /\ TypeSlots
  BY <1>0, LinkTypes DEF LinkInv, WholeInv, TypeOK
<1>1. Inv /\ Spin => Unopened \/ Way \/ Done
  <2> SUFFICES ASSUME Inv, Spin, ~Done PROVE Unopened \/ Way
    OBVIOUS
  <2>1. Through(k, d)
    BY <1>0 DEF Through, Entered, Busy, SendPC
  <2>2. main[d] \in {"lock", "up"}
    BY <1>0, <2>1 DEF Channel, OpenedOnce, SlotsFound, Invited, Through
  <2>3. QED
    BY <2>1, <2>2
<1>2. Inv /\ Way => AnyFull \/ Free \/ InLock \/ Inside
  <2>1. Inv /\ Way => spc[k] \in {"spin", "lock", "copy", "copyRest", "publish", "unlock"}
    BY <1>0 DEF Through, Entered, Busy, SendPC
  <2>2. Inv /\ Way => rpc[d] \in {"connect", "poll", "take", "write", "writeRest", "clear"}
    BY <1>0 DEF LinkInv, Receives, RecvPC
  <2>3. QED
    BY <2>1, <2>2
<1>3. ASSUME Inv, [Next]_vars, Through(k, d), ~PopSend(k)
      PROVE  Through(k, d)' /\ spc'[k] = spc[k]
  BY <1>0, <1>3, SenderStays DEF Through, Entered, Busy, Dest
<1>4. ASSUME Inv, PopSend(k), Through(k, d)
      PROVE  main'[d] = main[d] /\ (Through(k, d)' \/ Done')
  BY <1>0, <1>4 DEF PopSend, Wild, CheckMagic, SpinEmpty, TestAndSet, Copy, Publish, Unlock, Send,
                    Through, Entered, Busy, SendPC, Dest
<1>5. ASSUME Inv, Open(d), Unopened PROVE main'[d] = "up"
  BY <1>0, <1>5 DEF Open, OpenI, OpenMagic, OpenLock, Main
<1>6. ASSUME Inv, Open(d), main[d] = "up" PROVE FALSE
  BY <1>6 DEF Open, OpenI, OpenMagic, OpenLock, Main
<1>7. ASSUME Inv, PopRecv(d)
      PROVE  main'[d] = main[d]
  BY <1>7 DEF PopRecv, Connect, Poll, Take, Write, Clear
<1>8. ASSUME Inv, [Next]_vars, main[d] \in {"lock", "up"}, ~Open(d), ~PopRecv(d)
      PROVE  main'[d] = "down" \/ (main'[d] = main[d] /\ rpc'[d] = rpc[d])
  BY <1>8, ReceiverStays
<1>9. /\ Inv /\ [Next]_vars /\ Unopened => Unopened' \/ Way' \/ Done'
      /\ Inv /\ <<Open(d)>>_vars /\ [Next]_vars /\ Unopened => Way' \/ Done'
      /\ Unopened => CanOpen(d)
  BY <1>3, <1>4, <1>5, <1>7, <1>8 DEF CanOpen
<1>10. ASSUME Inv, [Next]_vars, Way, ~PopSend(k)
       PROVE  main'[d] = "down" \/ (Way' /\ spc'[k] = spc[k])
  BY <1>3, <1>6, <1>7, <1>8, <1>10
<1>11. ASSUME Inv, [Next]_vars, Way, ~PopSend(k), ~PopRecv(d)
       PROVE  main'[d] = "down" \/ (Way' /\ spc'[k] = spc[k] /\ rpc'[d] = rpc[d]
                                     /\ slot'[d].i = slot[d].i)
  BY <1>6, <1>8, <1>10, <1>11, SlotStays
<1>12. ASSUME Inv, PopSend(k), Way
       PROVE  /\ Free => At("lock")'
              /\ InLock => InCopy'
              /\ InCopy => InRest'
              /\ InRest => InPublish'
              /\ InPublish => InUnlock'
              /\ InUnlock => Done'
              /\ ~AnyFull
  <2>1. Through(k, d) /\ main[d] = "up" /\ LinkInv(d) /\ LockHeld(d)
    BY <1>12
  <2>2. /\ pkt'[k] = pkt[k] /\ main' = main
        /\ spc[k] = "spin" => slot[d].i = Empty /\ slot'[d].i = Empty /\ spc'[k] = "lock"
        /\ spc[k] = "lock" => spc'[k] = "copy"
        /\ spc[k] = "copy" => spc'[k] = "copyRest"
        /\ spc[k] = "copyRest" => spc'[k] = "publish"
        /\ spc[k] = "publish" => spc'[k] = "unlock"
        /\ spc[k] = "unlock" => spc'[k] = "read"
    BY <1>12, <2>1, SenderGoesOn
  <2>3. main'[d] = "up" /\ Dest(k)' = d
    BY <2>1, <2>2 DEF Through, Dest
  <2>4. spc'[k] \in {"lock", "copy", "copyRest", "publish", "unlock"} => Through(k, d)'
    BY <2>3 DEF Through, Entered, Busy, SendPC
  <2>5. QED
    BY <2>1, <2>2, <2>3, <2>4
<1>13. ASSUME Inv, PopRecv(d), AnyFull
       PROVE  /\ spc' = spc /\ pkt' = pkt /\ main' = main
              /\ rpc[d] = "connect" => rpc'[d] = "poll"
              /\ rpc[d] = "poll" => rpc'[d] = "take"
              /\ rpc[d] = "take" => rpc'[d] = "write"
              /\ rpc[d] = "write" => rpc'[d] = "writeRest"
              /\ rpc[d] = "writeRest" => rpc'[d] = "clear"
              /\ rpc[d] # "clear" => slot'[d].i = slot[d].i
              /\ rpc[d] = "clear" => slot'[d].i = Empty
  BY <1>0, <1>13 DEF PopRecv, Connect, Poll, Take, Write, Clear, Recv, TypeSlots
<1>14. ASSUME Inv, PopRecv(d), AnyFull
       PROVE  At("spin")'
  BY <1>13, <1>14 DEF Through, Entered, Busy, Dest
<1>15. ASSUME Inv, [Next]_vars, Way
       PROVE  (PopRecv(d) /\ ~PopSend(k)) \/ PopSend(k) \/ (~PopRecv(d) /\ ~PopSend(k))
  OBVIOUS
<1>16. ASSUME Inv, PopRecv(d), Free PROVE slot'[d].i = Empty
  BY <1>0, <1>16 DEF PopRecv, Connect, Poll, Take, Write, Clear, Recv, TypeSlots
<1>17. /\ Inv /\ [Next]_vars /\ FullConnect => FullConnect' \/ FullPoll' \/ Done'
       /\ Inv /\ [Next]_vars /\ FullPoll => FullPoll' \/ FullTake' \/ Done'
       /\ Inv /\ [Next]_vars /\ FullTake => FullTake' \/ FullWrite' \/ Done'
       /\ Inv /\ [Next]_vars /\ FullWrite => FullWrite' \/ FullRest' \/ Done'
       /\ Inv /\ [Next]_vars /\ FullRest => FullRest' \/ FullClear' \/ Done'
       /\ Inv /\ [Next]_vars /\ FullClear => FullClear' \/ Free' \/ Done'
  BY <1>11, <1>12, <1>13, <1>14
<1>18. /\ Inv /\ <<PopRecv(d)>>_vars /\ FullConnect => FullPoll'
       /\ Inv /\ <<PopRecv(d)>>_vars /\ FullPoll => FullTake'
       /\ Inv /\ <<PopRecv(d)>>_vars /\ FullTake => FullWrite'
       /\ Inv /\ <<PopRecv(d)>>_vars /\ FullWrite => FullRest'
       /\ Inv /\ <<PopRecv(d)>>_vars /\ FullRest => FullClear'
       /\ Inv /\ <<PopRecv(d)>>_vars /\ FullClear => Free'
  BY <1>13, <1>14
<1>19. AnyFull => CanRecv(d)
  BY DEF CanRecv
<1>20. /\ Inv /\ [Next]_vars /\ Free => Free' \/ InLock' \/ Done'
       /\ Inv /\ [Next]_vars /\ InLock => InLock' \/ InCopy' \/ Done'
       /\ Inv /\ [Next]_vars /\ InCopy => InCopy' \/ InRest' \/ Done'
       /\ Inv /\ [Next]_vars /\ InRest => InRest' \/ InPublish' \/ Done'
       /\ Inv /\ [Next]_vars /\ InPublish => InPublish' \/ InUnlock' \/ Done'
       /\ Inv /\ [Next]_vars /\ InUnlock => InUnlock' \/ Done'
  BY <1>10, <1>11, <1>12, <1>16
<1>21. /\ Inv /\ <<PopSend(k)>>_vars /\ Free => InLock'
       /\ Inv /\ <<PopSend(k)>>_vars /\ InLock => InCopy'
       /\ Inv /\ <<PopSend(k)>>_vars /\ InCopy => InRest'
       /\ Inv /\ <<PopSend(k)>>_vars /\ InRest => InPublish'
       /\ Inv /\ <<PopSend(k)>>_vars /\ InPublish => InUnlock'
       /\ Inv /\ <<PopSend(k)>>_vars /\ InUnlock => Done'
  BY <1>12
<1>22. Free \/ InLock \/ Inside => CanSend(k)
  BY DEF CanSend, Through, Entered, Busy
<1>23. Spec => []Inv
  BY LockHeldAlways
<1> HIDE DEF Spin, Done, Unopened, Way, FullConnect, FullPoll, FullTake, FullWrite, FullRest,
             FullClear, Free, InLock, InCopy, InRest, InPublish, InUnlock, Inv
<1>24. Spec /\ Scheduled(d) => (Unopened ~> Way \/ Done)
  BY <1>9, <1>23, PTL DEF Spec, Scheduled
<1>25. Spec /\ Scheduled(d) => (AnyFull ~> Free \/ Done)
  BY <1>17, <1>18, <1>19, <1>23, PTL DEF Spec, Scheduled
<1>26. Spec /\ SenderScheduled(k) => (Free \/ InLock \/ Inside ~> Done)
  BY <1>20, <1>21, <1>22, <1>23, PTL DEF Spec, SenderScheduled
<1>27. Spec => []Inv /\ [](Inv => (Spin => Unopened \/ Way \/ Done))
               /\ [](Inv => (Way => AnyFull \/ Free \/ InLock \/ Inside))
  BY <1>1, <1>2, <1>23, PTL
<1>28. Spec /\ Scheduled(d) /\ SenderScheduled(k) => (Spin ~> Done)
  BY <1>24, <1>25, <1>26, <1>27, PTL
<1>29. QED
  BY <1>28 DEF Spin, Done

-----------------------------------------------------------------------------
(* The remote call. *)

LEMMA RpcInit == R!Init => R!IInv
<1> SUFFICES ASSUME R!Init
             PROVE  R!IInv
  OBVIOUS
<1>1. R!TypeOK
  <2>1. segment \in BOOLEAN /\ spoiled \in BOOLEAN
    BY DEF R!Init
  <2>2. packet \in [rax : Int, rdi : Int, rsi : Int, ready : BOOLEAN]
    BY DEF R!Init
  <2>3. QED
    BY <2>1, <2>2 DEF R!Init, R!TypeOK
<1>2. R!MessagesUnderstood /\ R!ClientSide /\ R!ServerSide
  BY DEF R!Init, R!MessagesUnderstood, R!ClientSide, R!ServerSide
<1>3. QED
  BY <1>1, <1>2 DEF R!IInv

LEMMA RpcClient == R!IInv /\ (R!StartClient \/ R!Client) => R!IInv'
<1> SUFFICES ASSUME R!IInv, R!StartClient \/ R!Client
             PROVE  R!IInv'
  OBVIOUS
<1> USE DEF R!IInv, R!TypeOK, R!MessagesUnderstood, R!ClientSide, R!ServerSide,
            R!shared, R!server, R!history
<1>1. CASE R!StartClient
  BY <1>1 DEF R!StartClient
<1>2. CASE R!PutRax
  BY <1>2 DEF R!PutRax, R!Put
<1>3. CASE R!PutRdi
  BY <1>3 DEF R!PutRdi, R!Put
<1>4. CASE R!PutRsi
  BY <1>4 DEF R!PutRsi, R!Put
<1>5. CASE R!SetReady
  BY <1>5 DEF R!SetReady, R!Put
<1>6. CASE R!Answered
  BY <1>6 DEF R!Answered
<1>7. CASE R!Check
  BY <1>7 DEF R!Check
<1>8. QED
  BY <1>1, <1>2, <1>3, <1>4, <1>5, <1>6, <1>7 DEF R!Client

LEMMA RpcServer == R!IInv /\ (R!StartServer \/ R!Server) => R!IInv'
<1> SUFFICES ASSUME R!IInv, R!StartServer \/ R!Server
             PROVE  R!IInv'
  OBVIOUS
<1> USE DEF R!IInv, R!TypeOK, R!MessagesUnderstood, R!ClientSide, R!ServerSide,
            R!shared, R!client, R!history
<1>1. CASE R!StartServer
  BY <1>1 DEF R!StartServer
<1>2. CASE R!Asked
  BY <1>2 DEF R!Asked
<1>3. CASE R!Receive
  BY <1>3 DEF R!Receive
<1>4. CASE R!LoadA
  BY <1>4 DEF R!LoadA
<1>5. CASE R!LoadB
  BY <1>5 DEF R!LoadB
<1>6. CASE R!Sum
  BY <1>6 DEF R!Sum
<1>7. CASE R!ClearReady
  BY <1>7 DEF R!ClearReady
<1>8. QED
  BY <1>1, <1>2, <1>3, <1>4, <1>5, <1>6, <1>7 DEF R!Server

LEMMA RpcKill == R!IInv /\ (R!KillClient \/ R!KillServer) => R!IInv'
BY DEF R!KillClient, R!KillServer, R!IInv, R!TypeOK, R!MessagesUnderstood, R!ClientSide, R!ServerSide,
       R!shared, R!client, R!server

LEMMA RpcStep == R!IInv /\ [R!Next]_(R!vars) => R!IInv'
<1>1. R!IInv /\ UNCHANGED R!vars => R!IInv'
  BY DEF R!vars, R!shared, R!client, R!server, R!history, R!IInv, R!TypeOK, R!MessagesUnderstood,
         R!ClientSide, R!ServerSide
<1>2. QED
  BY <1>1, RpcClient, RpcServer, RpcKill DEF R!Next

(* The packet is the server's while the bit is set and the client's while it *)
(* is not, for any number of calls, kills and restarts.                      *)
THEOREM RpcInvariance == R!Spec => []R!IInv
BY RpcInit, RpcStep, PTL DEF R!Spec

(* Neither program ever finds a message it does not understand, unless one *)
(* was killed in the middle of a call.                                     *)
THEOREM Understood == R!Spec => []R!MessagesUnderstood
<1>1. R!IInv => R!MessagesUnderstood
  BY DEF R!IInv
<1>2. QED
  BY <1>1, RpcInvariance, PTL

-----------------------------------------------------------------------------
(* The refinement: the bit makes the call, the store of the sum serves it,  *)
(* and the client's test of the sum returns.                                *)

LEMMA RpcStepRefines == R!IInv /\ [R!Next]_(R!vars) => [R!Abstract!Next]_(R!Abstract!vars)
<1> SUFFICES ASSUME R!IInv, [R!Next]_(R!vars)
             PROVE  R!Abstract!Next \/ UNCHANGED R!Abstract!vars
  OBVIOUS
<1> USE DEF R!IInv, R!TypeOK, R!ClientSide, R!ServerSide, R!MessagesUnderstood, R!Phase,
            R!shared, R!client, R!server, R!history, R!Abstract!vars
<1>1. CASE R!SetReady
  BY <1>1 DEF R!SetReady, R!Put, R!Abstract!Next, R!Abstract!Call
<1>2. CASE R!Sum
  BY <1>2 DEF R!Sum, R!Abstract!Next, R!Abstract!Serve
<1>3. CASE R!Check
  BY <1>3 DEF R!Check, R!Abstract!Next, R!Abstract!Return
<1>4. CASE R!KillClient
  BY <1>4 DEF R!KillClient, R!Abstract!Next, R!Abstract!Forget, R!Abstract!Break
<1>5. CASE R!KillServer
  BY <1>5 DEF R!KillServer, R!Abstract!Next, R!Abstract!Break
<1>6. CASE R!PutRax \/ R!PutRdi \/ R!PutRsi \/ R!Answered \/ R!StartClient
  BY <1>6 DEF R!PutRax, R!PutRdi, R!PutRsi, R!Put, R!Answered, R!StartClient
<1>7. CASE R!StartServer \/ R!Asked \/ R!Receive \/ R!LoadA \/ R!LoadB \/ R!ClearReady
  BY <1>7 DEF R!StartServer, R!Asked, R!Receive, R!LoadA, R!LoadB, R!ClearReady
<1>8. CASE UNCHANGED R!vars
  BY <1>8 DEF R!vars
<1>9. QED
  BY <1>1, <1>2, <1>3, <1>4, <1>5, <1>6, <1>7, <1>8 DEF R!Next, R!Client, R!Server

(* Client and server make remote calls: each executed once before it       *)
(* returns (the part of ImplementsRemoteCall that is not about liveness).  *)
THEOREM RpcRefinement == R!Spec => R!Abstract!Spec
<1>1. R!Init => R!Abstract!Init
  BY DEF R!Init, R!Phase, R!Abstract!Init
<1>2. QED
  BY <1>1, RpcStepRefines, RpcInvariance, PTL DEF R!Spec, R!Abstract!Spec

-----------------------------------------------------------------------------
(* Every call is served and returns. *)

(* Fairness, with the guards of Server, Client and StartServer in the place *)
(* of ENABLED.                                                              *)
CanServe == \/ srv = "wait" /\ packet.ready
            \/ srv \in {"receive", "loadA", "loadB", "sum", "clear"}
CanCall == \/ cpc = "wait" /\ ~packet.ready
           \/ cpc \in {"rax", "rdi", "rsi", "set", "check"}
BothScheduled == /\ []([]CanServe => <><<R!Server>>_(R!vars))
                 /\ []([]CanCall => <><<R!Client>>_(R!vars))
                 /\ []([](srv = "off") => <><<R!StartServer>>_(R!vars))

(* While a call is with the server only the server and kills change that. *)
LEMMA CalledStays ==
  ASSUME R!IInv, [R!Next]_(R!vars), R!Phase = "called", ~R!StartServer, ~R!Server
  PROVE  \/ R!Phase' = "called" /\ srv' = srv /\ kills' = kills
         \/ R!Phase' = "broken" \/ kills' = kills + 1
<1> USE DEF R!IInv, R!TypeOK, R!ClientSide, R!ServerSide, R!MessagesUnderstood, R!Phase,
            R!shared, R!client, R!server, R!history
<1>1. CASE R!StartClient \/ R!KillClient
  BY <1>1 DEF R!StartClient, R!KillClient
<1>2. CASE R!Client
  BY <1>2 DEF R!Client, R!PutRax, R!PutRdi, R!PutRsi, R!SetReady, R!Put, R!Answered, R!Check
<1>3. CASE R!KillServer
  BY <1>3 DEF R!KillServer
<1>4. CASE UNCHANGED R!vars
  BY <1>4 DEF R!vars
<1>5. QED
  BY <1>1, <1>2, <1>3, <1>4 DEF R!Next

(* A call that was made is served, or a kill comes between: as there are no  *)
(* more than MaxKills of them, it is served in the end.                      *)
THEOREM CallsAreServed ==
  ASSUME NEW m \in Nat
  PROVE  R!Spec /\ BothScheduled =>
           (R!Phase = "called" /\ kills = m
              ~> R!Phase \in {"served", "broken"} \/ kills > m)
<1> DEFINE Called == R!Phase = "called" /\ kills = m
           Served == R!Phase \in {"served", "broken"} \/ kills > m
           AtOff == Called /\ srv = "off"
           AtWait == Called /\ srv = "wait"
           AtReceive == Called /\ srv = "receive"
           AtLoadA == Called /\ srv = "loadA"
           AtLoadB == Called /\ srv = "loadB"
           AtSum == Called /\ srv = "sum"
           Inv == R!IInv
<1>1. Inv /\ Called => AtOff \/ AtWait \/ AtReceive \/ AtLoadA \/ AtLoadB \/ AtSum
  BY DEF R!IInv, R!TypeOK, R!MessagesUnderstood, R!Phase
<1>2. ASSUME Inv, [R!Next]_(R!vars), Called, ~R!StartServer, ~R!Server
      PROVE  Served' \/ (Called' /\ srv' = srv)
  BY <1>2, CalledStays DEF R!IInv, R!TypeOK
<1>3. ASSUME Inv, Called, R!StartServer PROVE srv = "off" /\ AtWait'
  BY <1>3 DEF R!StartServer, R!Phase, R!client, R!history
<1>4. ASSUME Inv, Called, R!Server
      PROVE  /\ srv # "off"
             /\ srv = "wait" => AtReceive'
             /\ srv = "receive" => AtLoadA'
             /\ srv = "loadA" => AtLoadB'
             /\ srv = "loadB" => AtSum'
             /\ srv = "sum" => Served'
  BY <1>4 DEF R!Server, R!Asked, R!Receive, R!LoadA, R!LoadB, R!Sum, R!ClearReady, R!Phase,
              R!IInv, R!TypeOK, R!ServerSide, R!shared, R!client, R!history
<1>5. Inv /\ Called => (srv # "off" => CanServe)
  BY <1>1 DEF CanServe, R!Phase
<1>6. /\ Inv /\ [R!Next]_(R!vars) /\ AtOff => AtOff' \/ AtWait' \/ Served'
      /\ Inv /\ <<R!StartServer>>_(R!vars) /\ AtOff => AtWait'
      /\ AtOff => srv = "off"
  BY <1>2, <1>3, <1>4
<1>7. /\ Inv /\ [R!Next]_(R!vars) /\ AtWait => AtWait' \/ AtReceive' \/ Served'
      /\ Inv /\ <<R!Server>>_(R!vars) /\ AtWait => AtReceive'
      /\ Inv /\ AtWait => CanServe
  BY <1>2, <1>3, <1>4, <1>5
<1>8. /\ Inv /\ [R!Next]_(R!vars) /\ AtReceive => AtReceive' \/ AtLoadA' \/ Served'
      /\ Inv /\ <<R!Server>>_(R!vars) /\ AtReceive => AtLoadA'
      /\ Inv /\ AtReceive => CanServe
  BY <1>2, <1>3, <1>4, <1>5
<1>9. /\ Inv /\ [R!Next]_(R!vars) /\ AtLoadA => AtLoadA' \/ AtLoadB' \/ Served'
      /\ Inv /\ <<R!Server>>_(R!vars) /\ AtLoadA => AtLoadB'
      /\ Inv /\ AtLoadA => CanServe
  BY <1>2, <1>3, <1>4, <1>5
<1>10. /\ Inv /\ [R!Next]_(R!vars) /\ AtLoadB => AtLoadB' \/ AtSum' \/ Served'
       /\ Inv /\ <<R!Server>>_(R!vars) /\ AtLoadB => AtSum'
       /\ Inv /\ AtLoadB => CanServe
  BY <1>2, <1>3, <1>4, <1>5
<1>11. /\ Inv /\ [R!Next]_(R!vars) /\ AtSum => AtSum' \/ Served'
       /\ Inv /\ <<R!Server>>_(R!vars) /\ AtSum => Served'
       /\ Inv /\ AtSum => CanServe
  BY <1>2, <1>3, <1>4, <1>5
<1>12. R!Spec => []Inv
  BY RpcInvariance
<1> HIDE DEF Called, Served, AtOff, AtWait, AtReceive, AtLoadA, AtLoadB, AtSum, Inv
<1>13. R!Spec /\ BothScheduled => (Called ~> Served)
  BY <1>1, <1>6, <1>7, <1>8, <1>9, <1>10, <1>11, <1>12, PTL DEF R!Spec, BothScheduled
<1>14. QED
  BY <1>13 DEF Called, Served

(* A call that was served returns to its caller or the caller is gone; only  *)
(* a kill of the server before it clears the bit breaks the connection.      *)
THEOREM CallsReturn ==
  R!Spec /\ BothScheduled =>
    (R!Phase = "served" ~> R!Phase \in {"idle", "broken"})
<1> DEFINE Served == R!Phase = "served"
           Over == R!Phase \in {"idle", "broken"}
           Full == Served /\ packet.ready
           Replied == Served /\ ~packet.ready /\ cpc = "wait"
           Found == Served /\ ~packet.ready /\ cpc = "check"
           Inv == R!IInv
<1> USE DEF R!IInv, R!TypeOK, R!ClientSide, R!ServerSide, R!MessagesUnderstood, R!Phase,
            R!shared, R!client, R!server, R!history
<1>1. Inv /\ Served => Full \/ Replied \/ Found
  OBVIOUS
<1>2. ASSUME Inv, [R!Next]_(R!vars), Full
      PROVE  (~R!Server => Full' \/ Over') /\ (R!Server => Replied')
  <2>1. CASE R!Server
    BY <1>2, <2>1 DEF R!Server, R!Asked, R!Receive, R!LoadA, R!LoadB, R!Sum, R!ClearReady
  <2>2. CASE R!Client
    BY <1>2, <2>2 DEF R!Client, R!PutRax, R!PutRdi, R!PutRsi, R!SetReady, R!Put, R!Answered, R!Check
  <2>3. CASE R!StartClient \/ R!KillClient \/ R!StartServer \/ R!KillServer \/ UNCHANGED R!vars
    BY <1>2, <2>3 DEF R!StartClient, R!KillClient, R!StartServer, R!KillServer, R!vars,
                      R!Server, R!Asked, R!Receive, R!LoadA, R!LoadB, R!Sum, R!ClearReady
  <2>4. QED
    BY <1>2, <2>1, <2>2, <2>3 DEF R!Next
<1>3. ASSUME Inv, [R!Next]_(R!vars), Replied \/ Found
      PROVE  /\ ~R!Client => Over' \/ ((Replied' <=> Replied) /\ (Found' <=> Found))
             /\ R!Client => Over' \/ (Replied /\ Found')
  <2>1. CASE R!Server
    BY <1>3, <2>1 DEF R!Server, R!Asked, R!Receive, R!LoadA, R!LoadB, R!Sum, R!ClearReady,
                      R!Client, R!PutRax, R!PutRdi, R!PutRsi, R!SetReady, R!Put, R!Answered, R!Check
  <2>2. CASE R!Client
    BY <1>3, <2>2 DEF R!Client, R!PutRax, R!PutRdi, R!PutRsi, R!SetReady, R!Put, R!Answered, R!Check
  <2>3. CASE R!StartClient \/ R!KillClient \/ R!StartServer \/ R!KillServer \/ UNCHANGED R!vars
    BY <1>3, <2>3 DEF R!StartClient, R!KillClient, R!StartServer, R!KillServer, R!vars,
                      R!Client, R!PutRax, R!PutRdi, R!PutRsi, R!SetReady, R!Put, R!Answered, R!Check
  <2>4. QED
    BY <1>3, <2>1, <2>2, <2>3 DEF R!Next
<1>4. /\ Inv /\ [R!Next]_(R!vars) /\ Full => Full' \/ Replied' \/ Over'
      /\ Inv /\ <<R!Server>>_(R!vars) /\ Full => Replied'
      /\ Full => CanServe
  BY <1>2 DEF R!Next, CanServe
<1>5. /\ Inv /\ [R!Next]_(R!vars) /\ Replied => Replied' \/ Found' \/ Over'
      /\ Inv /\ <<R!Client>>_(R!vars) /\ Replied => Found' \/ Over'
      /\ Replied => CanCall
  BY <1>3 DEF R!Next, CanCall
<1>6. /\ Inv /\ [R!Next]_(R!vars) /\ Found => Found' \/ Over'
      /\ Inv /\ <<R!Client>>_(R!vars) /\ Found => Over'
      /\ Found => CanCall
  BY <1>3 DEF R!Next, CanCall
<1>7. R!Spec => []Inv
  BY RpcInvariance
<1> HIDE DEF Served, Over, Full, Replied, Found, Inv
<1>8. R!Spec /\ BothScheduled => (Served ~> Over)
  BY <1>1, <1>4, <1>5, <1>6, <1>7, PTL DEF R!Spec, BothScheduled
<1>9. QED
  BY <1>8 DEF Served, Over
=============================================================================
