---------------------------- MODULE CthreadProofs ----------------------------
(***************************************************************************)
(* Proofs about Cthread for every number of keys and of threads.           *)
(***************************************************************************)
EXTENDS Cthread, TLAPS

LEMMA Constants == /\ Tid \subseteq Nat /\ Main \in Tid
                   /\ Libc \notin Tid /\ NoSelector \notin Tid /\ Libc # NoSelector
                   /\ Key \subseteq Nat /\ 0 \in 0..KeysMax /\ NoKey \notin Key
                   /\ \A n \in 0..KeysMax : n < KeysMax => n \in Key /\ n + 1 \in 0..KeysMax
BY KeysMaxAssumption, MaxThreadsAssumption DEF Tid, Main, Libc, NoSelector, Key, NoKey

LEMMA NewAreaIsArea ==
  ASSUME NEW self \in Tid \cup {Libc, NoSelector}, NEW guard \in {0, Guard}
  PROVE  /\ NewArea(self, guard) \in Area
         /\ NewArea(self, guard).self = self /\ NewArea(self, guard).guard = guard
         /\ \A k \in Key : NewArea(self, guard).block[k].data = Null
<1>1. Zero \in Datum /\ Zero.data = Null
  BY DEF Zero, Datum
<1>2. QED
  BY <1>1 DEF NewArea, Area

LEMMA InitIInv == Init => IInv
<1> SUFFICES ASSUME Init
             PROVE  IInv
  OBVIOUS
<1> USE Constants DEF Init
<1>1. TypeOK
  <2>1. area \in [Tid -> Area]
    BY NewAreaIsArea
  <2>2. pc \in [Tid -> PC]
    BY DEF PC
  <2>3. QED
    BY <2>1, <2>2 DEF TypeOK, Null
<1>2. KeyGivenOnce /\ TakenIsUsed
  BY DEF KeyGivenOnce, TakenIsUsed, NoKey
<1>3. OwnArea /\ Places
  BY DEF OwnArea, Places, Settled
<1>4. StoredIsCurrent
  <2>1. \A k \in Key : NewArea(NoSelector, 0).block[k].data = Null
    BY NewAreaIsArea
  <2>2. \A t \in Tid, k \in Key : area[t].block[k].data = Null /\ last[t][k] = Null
    BY <2>1
  <2> HIDE DEF Init
  <2>3. QED
    BY <2>2, ValueAssumption DEF StoredIsCurrent
<1>5. QED
  BY <1>1, <1>2, <1>3, <1>4 DEF IInv

(* Steps of cthread_key_create change the table of keys and the locals of *)
(* one thread; it stays in the function or goes on with what it may call. *)
KeyStep(t) ==
  /\ UNCHANGED <<saved, area, fs, last>>
  /\ pc' = [pc EXCEPT ![t] = pc'[t]]
  /\ pc[t] \in {"run", "scan", "compare", "reserve"}
  /\ \A k \in Key : seq'[k] \in {seq[k], 1}
  /\ \/ pc'[t] \in {"scan", "compare", "reserve"}
     \/ pc'[t] = "run" /\ saved # NoSelector
     \/ pc'[t] = "initialize" /\ pc[t] = "reserve" /\ saved = NoSelector

LEMMA KeyStepPlaces ==
  ASSUME IInv, NEW t \in Tid, KeyStep(t)
  PROVE  OwnArea' /\ Places' /\ StoredIsCurrent'
<1>1. \A u \in Tid : Settled(u)' = Settled(u)
  BY DEF KeyStep, Settled, IInv, TypeOK, PC, Places
<1>2. OwnArea'
  BY <1>1 DEF KeyStep, OwnArea, IInv
<1>3. Places'
  BY DEF KeyStep, Places, IInv, TypeOK, PC
<1>4. StoredIsCurrent'
  <2>1. \A u \in Tid : pc'[u] = "unborn" <=> pc[u] = "unborn"
    BY DEF KeyStep, IInv, TypeOK
  <2>2. StoredIsCurrent /\ UNCHANGED <<area, last, saved>> /\ \A k \in Key : seq'[k] \in {seq[k], 1}
    BY DEF KeyStep, IInv
  <2>3. QED
    BY <1>1, <2>1, <2>2 DEF StoredIsCurrent
<1>5. QED
  BY <1>2, <1>3, <1>4

LEMMA KeyCreateIInv ==
  ASSUME IInv, NEW t \in Tid, KeyCreate(t)
  PROVE  IInv'
<1> USE Constants DEF IInv, KeyCreate, Runs, Goto, TypeOK
<1>1. KeyStep(t)
  BY DEF KeyStep, Places
<1>2. TypeOK'
  BY DEF PC
<1>3. TakenIsUsed' /\ KeyGivenOnce'
  BY DEF TakenIsUsed, KeyGivenOnce
<1>4. QED
  BY <1>1, <1>2, <1>3, KeyStepPlaces

LEMMA ReadSeqIInv ==
  ASSUME IInv, NEW t \in Tid, ReadSeq(t)
  PROVE  IInv'
<1> USE Constants DEF IInv, ReadSeq, Runs, Goto, TypeOK
<1>1. KeyStep(t)
  BY DEF KeyStep
<1>2. TypeOK'
  BY DEF PC
<1>3. TakenIsUsed' /\ KeyGivenOnce'
  BY DEF TakenIsUsed, KeyGivenOnce, Unused
<1>4. QED
  BY <1>1, <1>2, <1>3, KeyStepPlaces

LEMMA CompareIInv ==
  ASSUME IInv, NEW t \in Tid, Compare(t)
  PROVE  IInv'
<1> USE Constants DEF IInv, Compare, Runs, Goto, TypeOK
<1>1. KeyStep(t)
  BY DEF KeyStep
<1> cnt[t] \in Key
  BY DEF TakenIsUsed
<1> cnt[t] + 1 \in 0..KeysMax
  BY KeysMaxAssumption DEF Key
<1>2. TypeOK'
  BY DEF PC
<1>3. TakenIsUsed' /\ KeyGivenOnce'
  BY DEF TakenIsUsed, KeyGivenOnce
<1>4. QED
  BY <1>1, <1>2, <1>3, KeyStepPlaces

LEMMA ReserveIInv ==
  ASSUME IInv, NEW t \in Tid, Reserve(t)
  PROVE  IInv'
<1> USE Constants
<1>1. /\ pc[t] = "reserve" /\ seq' = [seq EXCEPT ![cnt[t]] = old[t] + 1]
      /\ got' = [got EXCEPT ![t] = cnt[t]] /\ given' = given \cup {cnt[t]}
      /\ pc' = [pc EXCEPT ![t] = IF saved = NoSelector THEN "initialize" ELSE "run"]
      /\ UNCHANGED <<status, cnt, old, begun, saved, area, fs, last>>
  BY DEF Reserve, Runs, Goto
<1>2. TypeOK /\ TakenIsUsed /\ KeyGivenOnce
  BY DEF IInv
<1>3. cnt[t] \in Key /\ cnt[t] \notin begun[t] /\ old[t] = 0
  BY <1>1, <1>2 DEF TakenIsUsed
<1>4. seq' = [seq EXCEPT ![cnt[t]] = 1]
  BY <1>1, <1>3
<1>5. TypeOK'
  <2>1. seq' \in [Key -> Nat]
    BY <1>2, <1>3, <1>4 DEF TypeOK
  <2>2. given' \in SUBSET Key
    BY <1>1, <1>2, <1>3 DEF TypeOK
  <2>3. got' \in [Tid -> Key \cup {NoKey}]
    BY <1>1, <1>2, <1>3 DEF TypeOK
  <2>4. pc' \in [Tid -> PC]
    BY <1>1, <1>2 DEF TypeOK, PC
  <2>5. QED
    BY <1>1, <1>2, <2>1, <2>2, <2>3, <2>4 DEF TypeOK
<1>6. KeyStep(t)
  <2>1. \A k \in Key : seq'[k] \in {seq[k], 1}
    BY <1>2, <1>4 DEF TypeOK
  <2>2. pc' = [pc EXCEPT ![t] = pc'[t]]
    BY <1>1, <1>2 DEF TypeOK
  <2>3. QED
    BY <1>1, <1>2, <2>1, <2>2 DEF KeyStep, TypeOK
<1>7. TakenIsUsed'
  <2>1. \A k \in Key : seq'[k] \in {0, 1} /\ (k \in given' => seq'[k] = 1)
    BY <1>1, <1>2, <1>3, <1>4 DEF TakenIsUsed, TypeOK
  <2>2. \A u \in Tid : pc'[u] \in {"compare", "reserve"} => pc'[u] = pc[u]
    BY <1>1, <1>2 DEF TypeOK
  <2>3. \A u \in Tid : begun'[u] \subseteq given'
    BY <1>1, <1>2 DEF TakenIsUsed
  <2>4. given' \subseteq Key
    BY <1>5 DEF TypeOK
  <2>5. QED
    BY <1>1, <1>2, <2>1, <2>2, <2>3, <2>4 DEF TakenIsUsed
<1>8. KeyGivenOnce'
  BY <1>1, <1>2, <1>3 DEF KeyGivenOnce, TypeOK
<1>9. QED
  BY <1>5, <1>6, <1>7, <1>8, KeyStepPlaces DEF IInv

(* The end of the process changes nothing the invariant speaks of. *)
LEMMA ExitIInv == IInv /\ Exit => IInv'
BY DEF Exit, table, IInv, TypeOK, KeyGivenOnce, OwnArea, TakenIsUsed, StoredIsCurrent,
       Places, Settled

LEMMA TableFullIInv ==
  ASSUME IInv, NEW t \in Tid, TableFull(t)
  PROVE  IInv'
<1> USE Constants DEF IInv, TableFull, Runs, Goto, TypeOK, table
<1>1. CASE saved = NoSelector
  BY <1>1, ExitIInv
<1>2. CASE saved # NoSelector
  <2>1. KeyStep(t)
    BY <1>2 DEF KeyStep
  <2>2. TypeOK'
    BY <1>2 DEF PC
  <2>3. TakenIsUsed' /\ KeyGivenOnce'
    BY <1>2 DEF TakenIsUsed, KeyGivenOnce
  <2>4. QED
    BY <2>1, <2>2, <2>3, KeyStepPlaces
<1>3. QED
  BY <1>1, <1>2

-----------------------------------------------------------------------------
(* The areas. *)

LEMMA InitializeIInv == IInv /\ Initialize => IInv'
<1> SUFFICES ASSUME IInv, Initialize
             PROVE  IInv'
  OBVIOUS
<1>1. CASE Exit
  BY <1>1, ExitIInv
<1>2. ASSUME NEW block \in [Key -> {Zero, [seq |-> 1, data |-> Junk]}],
             area' = [area EXCEPT ![Main] =
                        [self |-> Main, guard |-> GuardOf(Main), block |-> block]],
             saved' = fs[Main],
             fs' = [fs EXCEPT ![Main] = Main],
             Goto(Main, "run"),
             UNCHANGED <<status, table, last>>,
             Runs(Main, "initialize")
      PROVE  IInv'
  <2> USE Constants, <1>2 DEF IInv, TypeOK, Runs, Goto, table
  <2>1. fs[Main] = Libc /\ saved = NoSelector
    BY DEF Places
  <2>2. \A k \in Key : block[k] \in Datum /\ block[k].data \in {Null, Junk}
    BY DEF Zero, Datum
  <2>3. GuardOf(Main) = Guard
    BY <2>1 DEF GuardOf
  <2>a. [self |-> Main, guard |-> GuardOf(Main), block |-> block] \in Area
    BY <2>2, <2>3 DEF Area
  <2>4. TypeOK'
    BY <2>1, <2>a DEF PC
  <2>5. \A t \in Tid : Settled(t)' => t = Main
    BY <2>1 DEF Settled, Places
  <2>6. OwnArea'
    BY <2>3, <2>5 DEF OwnArea
  <2>7. KeyGivenOnce' /\ TakenIsUsed'
    BY DEF KeyGivenOnce, TakenIsUsed
  <2>8. Places'
    BY <2>1 DEF Places
  <2>9. \A k \in Key : last[Main][k] = Null
    BY <2>1 DEF StoredIsCurrent
  <2>10. StoredIsCurrent'
    BY <2>1, <2>2, <2>5, <2>9, ValueAssumption DEF StoredIsCurrent
  <2>11. QED
    BY <2>4, <2>6, <2>7, <2>8, <2>10
<1>3. QED
  BY <1>1, <1>2 DEF Initialize

LEMMA CreateIInv ==
  ASSUME IInv, NEW t \in Tid, NEW w \in Tid, Create(t, w)
  PROVE  IInv'
<1> USE Constants DEF IInv, TypeOK, Create, Runs, Goto, table
<1>1. saved # NoSelector /\ w # Main /\ Settled(t) /\ w # t
  BY DEF Places, Settled
<1>2. area[Self(t)].guard = Guard
  BY <1>1 DEF OwnArea, Self
<1>3. area' = [area EXCEPT ![w] = NewArea(w, Guard)]
  BY <1>2
<1>c. area' \in [Tid -> Area]
  BY <1>3, NewAreaIsArea
<1>4. TypeOK'
  BY <1>c DEF PC
<1>a. \A u \in Tid : u # w => area'[u] = area[u] /\ fs'[u] = fs[u] /\ pc'[u] = pc[u]
  BY <1>3
<1>b. area'[w] = NewArea(w, Guard) /\ fs'[w] = w /\ pc[w] = "unborn"
  BY <1>3
<1>5. \A u \in Tid : u # w => Settled(u)' = Settled(u)
  BY DEF Settled
<1>6. OwnArea'
  <2>1. area'[w].self = w /\ area'[w].guard = Guard
    BY <1>b, NewAreaIsArea
  <2>2. OwnArea
    OBVIOUS
  <2> HIDE DEF IInv, TypeOK, Create
  <2>3. QED
    BY <1>a, <1>b, <1>5, <2>1, <2>2 DEF OwnArea
<1>7. KeyGivenOnce' /\ TakenIsUsed'
  BY DEF KeyGivenOnce, TakenIsUsed
<1>8. Places'
  BY <1>1 DEF Places
<1>9. StoredIsCurrent'
  <2>1. \A k \in Key : last[w][k] = Null
    BY <1>b DEF StoredIsCurrent
  <2>2. \A k \in Key : area'[w].block[k].data = Null
    <3>1. \A k \in Key : NewArea(w, Guard).block[k].data = Null
      BY NewAreaIsArea
    <3> HIDE DEF IInv, TypeOK, Create
    <3>2. QED
      BY <1>b, <3>1
  <2>3. saved' = saved /\ last' = last /\ seq' = seq /\ saved # NoSelector /\ StoredIsCurrent
    BY <1>1
  <2>4. \A u \in Tid : u # w => area'[u] = area[u] /\ pc'[u] = pc[u]
    BY <1>a
  <2>5. pc'[w] # "unborn" /\ Null \notin Value
    BY <1>b, ValueAssumption
  <2> HIDE DEF IInv, TypeOK, Create, Runs, Goto, table
  <2>6. ASSUME NEW u \in Tid, NEW k \in Key
        PROVE  LET d == area'[u].block[k] IN
               /\ d.data \in Value => d.seq = 1 /\ seq'[k] = 1
               /\ Settled(u)' => \/ d.data = last'[u][k]
                                 \/ u = Main /\ d.data = Junk /\ last'[u][k] = Null
               /\ saved' = NoSelector \/ pc'[u] = "unborn" => last'[u][k] = Null
    <3>1. CASE u = w
      BY <2>1, <2>2, <2>3, <2>5, <3>1
    <3>2. CASE u # w
      BY <1>5, <2>3, <2>4, <3>2 DEF StoredIsCurrent
    <3>3. QED
      BY <3>1, <3>2
  <2>7. QED
    BY <2>6 DEF StoredIsCurrent
<1>10. QED
  BY <1>4, <1>6, <1>7, <1>8, <1>9

LEMMA RestoreIInv == IInv /\ Restore => IInv'
<1> SUFFICES ASSUME IInv, Restore
             PROVE  IInv'
  OBVIOUS
<1> USE Constants DEF IInv, TypeOK, Restore, Runs, Goto, table
<1>1. saved = Libc
  BY DEF Places
<1>2. TypeOK'
  BY <1>1 DEF PC
<1>3. \A u \in Tid : Settled(u)' => Settled(u) /\ u # Main
  BY DEF Settled
<1>4. OwnArea'
  BY <1>3 DEF OwnArea
<1>5. KeyGivenOnce' /\ TakenIsUsed'
  BY DEF KeyGivenOnce, TakenIsUsed
<1>6. Places'
  BY <1>1 DEF Places
<1>7. StoredIsCurrent'
  BY <1>1, <1>3 DEF StoredIsCurrent
<1>8. QED
  BY <1>2, <1>4, <1>5, <1>6, <1>7

(* A datum of one area is replaced; all others stay. *)
LEMMA StoreDatum ==
  ASSUME area \in [Tid -> Area], NEW t \in Tid, NEW k \in Key, NEW d \in Datum,
         area' = [area EXCEPT ![t].block[k] = d]
  PROVE  /\ area' \in [Tid -> Area]
         /\ area'[t].block[k] = d
         /\ \A u \in Tid, j \in Key : u # t \/ j # k => area'[u].block[j] = area[u].block[j]
         /\ \A u \in Tid : area'[u].self = area[u].self /\ area'[u].guard = area[u].guard
<1> DEFINE A == [self |-> area[t].self, guard |-> area[t].guard,
                 block |-> [area[t].block EXCEPT ![k] = d]]
<1>1. area[t] \in Area
  OBVIOUS
<1>2. [area[t] EXCEPT !.block[k] = d] = A
  BY <1>1 DEF Area
<1>3. area' = [area EXCEPT ![t] = A]
  BY <1>2
<1>4. A \in Area
  BY <1>1 DEF Area
<1>5. area'[t].block = [area[t].block EXCEPT ![k] = d] /\ area[t].block \in [Key -> Datum]
  BY <1>1, <1>3 DEF Area
<1>6. \A u \in Tid : u # t => area'[u] = area[u]
  BY <1>3
<1>7. area'[t].self = area[t].self /\ area'[t].guard = area[t].guard
  BY <1>3
<1> HIDE DEF A
<1>8. area' \in [Tid -> Area]
  BY <1>3, <1>4
<1>9. QED
  BY <1>5, <1>6, <1>7, <1>8

(* The value of a stored datum is still valid. *)
LEMMA ResultIsData ==
  ASSUME IInv, NEW t \in Tid, Settled(t), NEW k \in Key
  PROVE  /\ Self(t) = t
         /\ Result(t, k) \in {area[t].block[k].data, Null}
         /\ area[t].block[k].data \in Value => Result(t, k) = area[t].block[k].data
<1>1. Self(t) = t
  BY Constants DEF Self, IInv, OwnArea
<1>2. area[t].block[k].data \in Value => area[t].block[k].seq = seq[k]
  BY DEF IInv, StoredIsCurrent
<1>3. QED
  BY <1>1, <1>2 DEF Result

LEMMA OwnValueHolds == IInv => OwnValue
<1> SUFFICES ASSUME IInv, NEW t \in Tid, NEW k \in Key, Settled(t)
             PROVE  \/ Result(t, k) = last[t][k]
                    \/ t = Main /\ Result(t, k) = Junk /\ last[t][k] = Null
  BY DEF OwnValue
<1>1. \/ area[t].block[k].data = last[t][k]
      \/ t = Main /\ area[t].block[k].data = Junk /\ last[t][k] = Null
  BY DEF IInv, StoredIsCurrent
<1>2. last[t][k] \in Value \cup {Null}
  BY DEF IInv, TypeOK
<1>3. QED
  BY <1>1, <1>2, ResultIsData

(* A thread replaces a datum of its own area. *)
LEMMA DatumStepIInv ==
  ASSUME IInv, NEW t \in Tid, NEW k \in Key, NEW d \in Datum, NEW v \in Value \cup {Null},
         area' = [area EXCEPT ![t].block[k] = d],
         last' = [last EXCEPT ![t][k] = v],
         UNCHANGED <<status, table, saved, fs, pc>>,
         saved # NoSelector, pc[t] # "unborn",
         d.data \in Value => d.seq = 1 /\ seq[k] = 1,
         d.data = v \/ (t = Main /\ d.data = Junk /\ v = Null)
  PROVE  IInv'
<1>1. TypeOK
  BY DEF IInv
<1>2. area \in [Tid -> Area] /\ last \in [Tid -> [Key -> Value \cup {Null}]]
  BY <1>1 DEF TypeOK
<1>3. /\ area' \in [Tid -> Area]
      /\ area'[t].block[k] = d
      /\ \A u \in Tid, j \in Key : u # t \/ j # k => area'[u].block[j] = area[u].block[j]
      /\ \A u \in Tid : area'[u].self = area[u].self /\ area'[u].guard = area[u].guard
  BY <1>2, StoreDatum
<1>4. /\ last' \in [Tid -> [Key -> Value \cup {Null}]]
      /\ last'[t][k] = v
      /\ \A u \in Tid, j \in Key : u # t \/ j # k => last'[u][j] = last[u][j]
  BY <1>2
<1>5. TypeOK'
  BY <1>1, <1>3, <1>4 DEF TypeOK, table
<1>6. \A u \in Tid : Settled(u)' = Settled(u)
  BY DEF Settled
<1>7. OwnArea'
  BY <1>3, <1>6 DEF OwnArea, IInv
<1>8. KeyGivenOnce' /\ TakenIsUsed' /\ Places'
  BY DEF KeyGivenOnce, TakenIsUsed, Places, IInv, table
<1>9. StoredIsCurrent'
  <2> SUFFICES ASSUME NEW u \in Tid, NEW j \in Key
               PROVE  LET e == area'[u].block[j] IN
                      /\ e.data \in Value => e.seq = 1 /\ seq'[j] = 1
                      /\ Settled(u)' => \/ e.data = last'[u][j]
                                        \/ u = Main /\ e.data = Junk /\ last'[u][j] = Null
                      /\ saved' = NoSelector \/ pc'[u] = "unborn" => last'[u][j] = Null
    BY DEF StoredIsCurrent
  <2>1. StoredIsCurrent /\ seq' = seq /\ saved' = saved /\ pc' = pc
    BY DEF IInv, table
  <2>2. CASE u = t /\ j = k
    BY <1>3, <1>4, <2>1, <2>2
  <2>3. CASE u # t \/ j # k
    <3>1. area'[u].block[j] = area[u].block[j] /\ last'[u][j] = last[u][j]
      BY <1>3, <1>4, <2>3
    <3>2. QED
      BY <1>6, <2>1, <3>1 DEF StoredIsCurrent
  <2>4. QED
    BY <2>2, <2>3
<1>10. QED
  BY <1>5, <1>7, <1>8, <1>9 DEF IInv

LEMMA GetSpecificIInv ==
  ASSUME IInv, NEW t \in Tid, NEW k \in Key, GetSpecific(t, k)
  PROVE  IInv'
<1> DEFINE D == area[t].block[k]
           R == Result(t, k)
<1>1. TypeOK /\ saved # NoSelector /\ pc[t] = "run" /\ Settled(t)
  BY DEF IInv, GetSpecific, Runs, Places, Settled
<1>2. Self(t) = t /\ R \in {D.data, Null} /\ (D.data \in Value => R = D.data)
  BY <1>1, ResultIsData
<1>3. area[t] \in Area
  BY <1>1 DEF TypeOK
<1>4. D \in Datum
  BY <1>3 DEF Area
<1>5. R = last[t][k] \/ (t = Main /\ R = Junk /\ last[t][k] = Null)
  BY <1>1, OwnValueHolds DEF OwnValue
<1>6. last \in [Tid -> [Key -> Value \cup {Null}]]
  BY <1>1 DEF TypeOK
<1>7. last' = [last EXCEPT ![t][k] = last[t][k]] /\ last[t][k] \in Value \cup {Null}
  BY <1>6 DEF GetSpecific
<1>8. R \in Value => D.seq = 1 /\ seq[k] = 1
  <2>1. D.data \in Value => D.seq = 1 /\ seq[k] = 1
    BY DEF IInv, StoredIsCurrent
  <2>2. QED
    BY <1>2, <2>1, ValueAssumption
<1>9. area' = [area EXCEPT ![t].block[k].data = R]
  BY <1>2 DEF GetSpecific
<1> HIDE DEF R
<1>10. [D EXCEPT !.data = R] = [seq |-> D.seq, data |-> R] /\ [seq |-> D.seq, data |-> R] \in Datum
  BY <1>2, <1>4 DEF Datum
<1>11. area' = [area EXCEPT ![t].block[k] = [seq |-> D.seq, data |-> R]]
  BY <1>9, <1>10
<1>12. UNCHANGED <<status, table, saved, fs, pc>>
  BY DEF GetSpecific
<1> HIDE DEF D
<1> DEFINE d == [seq |-> D.seq, data |-> R]
<1>13. d.data = R /\ d.seq = D.seq
  OBVIOUS
<1> HIDE DEF d
<1>14. QED
  BY <1>1, <1>5, <1>7, <1>8, <1>10, <1>11, <1>12, <1>13, DatumStepIInv DEF d

LEMMA SetSpecificIInv ==
  ASSUME IInv, NEW t \in Tid, NEW k \in Key, NEW v \in Value \cup {Null},
         SetSpecific(t, k, v)
  PROVE  IInv'
<1>1. saved # NoSelector /\ pc[t] = "run" /\ Settled(t)
  BY DEF IInv, SetSpecific, Runs, Places, Settled
<1>2. seq[k] = 1 /\ Self(t) = t
  BY <1>1, ResultIsData DEF IInv, SetSpecific, Unused, TakenIsUsed
<1>3. area' = [area EXCEPT ![t].block[k] = [seq |-> 1, data |-> v]]
  BY <1>2 DEF SetSpecific
<1>4. [seq |-> 1, data |-> v] \in Datum
  BY DEF Datum
<1>5. last' = [last EXCEPT ![t][k] = v] /\ UNCHANGED <<status, table, saved, fs, pc>>
  BY DEF SetSpecific
<1>6. QED
  BY <1>1, <1>2, <1>3, <1>4, <1>5, DatumStepIInv

LEMMA StepIInv == IInv /\ [Next]_vars => IInv'
<1> SUFFICES ASSUME IInv, [Next]_vars
             PROVE  IInv'
  OBVIOUS
<1>1. CASE UNCHANGED vars
  BY <1>1 DEF vars, table, IInv, TypeOK, KeyGivenOnce, OwnArea, TakenIsUsed,
              StoredIsCurrent, Places, Settled
<1>2. CASE Initialize \/ Restore
  BY <1>2, InitializeIInv, RestoreIInv
<1>3. ASSUME NEW t \in Tid,
             \/ KeyCreate(t) \/ ReadSeq(t) \/ Compare(t) \/ Reserve(t) \/ TableFull(t)
      PROVE  IInv'
  BY <1>3, KeyCreateIInv, ReadSeqIInv, CompareIInv, ReserveIInv, TableFullIInv
<1>4. ASSUME NEW t \in Tid, (\E w \in Tid : Create(t, w)) \/ CreateFails(t) \/ End(t)
      PROVE  IInv'
  BY <1>4, CreateIInv, ExitIInv DEF CreateFails, End
<1>5. ASSUME NEW t \in Tid, NEW k \in Key,
             \/ GetSpecific(t, k)
             \/ \E v \in Value \cup {Null} : SetSpecific(t, k, v)
      PROVE  IInv'
  BY <1>5, GetSpecificIInv, SetSpecificIInv
<1>6. QED
  BY <1>1, <1>2, <1>3, <1>4, <1>5 DEF Next

(* The invariant of the library: the numbers in the table of keys, what    *)
(* the threads have stored, and where the registers fs point.              *)
THEOREM Invariance == Spec => []IInv
BY InitIInv, StepIInv, PTL DEF Spec

(* A key that was given out before a call of cthread_key_create began is   *)
(* not returned by that call, although its compare-and-swap is three steps.*)
THEOREM KeysGivenOnce == Spec => []KeyGivenOnce
<1>1. IInv => KeyGivenOnce
  BY DEF IInv
<1>2. QED
  BY <1>1, Invariance, PTL

(* Every thread finds its own area, and the stack guard of the process in  *)
(* it, across cthread_initialize, cthread_create and cthread_restore.      *)
THEOREM AreasAreOwn == Spec => []OwnArea
<1>1. IInv => OwnArea
  BY DEF IInv
<1>2. QED
  BY <1>1, Invariance, PTL

(* A thread gets back what it stored under a key; only the main thread may *)
(* find what the memory held, where it has stored nothing.                 *)
THEOREM ValuesAreOwn == Spec => []OwnValue
BY OwnValueHolds, Invariance, PTL
=============================================================================
