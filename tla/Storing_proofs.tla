---------------------------- MODULE Storing_proofs ----------------------------
(***************************************************************************)
(* Theorems about what the store task writes: the records it takes from    *)
(* the snapshot ring and, from "IterStore" on, the iterators it saves.     *)
(*                                                                         *)
(* About Snapshot, for every SIZE and every bound: type correctness, and   *)
(* that the copy made byte by byte under a live timer interrupt archives   *)
(* records once, in order, whole and without loss as long as the ring has  *)
(* not overflowed.                                                         *)
(***************************************************************************)
EXTENDS Snapshot, IterStore, TLAPS


Record == [stamp : 0 .. MaxSnap, data : 0 .. MaxSnap]

\* How far k is after b in the ring.
After(b, k) == IF b <= k THEN k - b ELSE (k - b) + SIZE

(***************************************************************************)
(* dl_snapshot_iter_inc steps to the next slot and wraps at the last one.  *)
(***************************************************************************)
LEMMA IncIs ==
  ASSUME NEW k \in Slots
  PROVE  Inc(k) = IF k = SIZE - 1 THEN 0 ELSE k + 1
<1> USE SizeAssumption DEF Slots, Inc
<1>1. CASE k = SIZE - 1
  BY <1>1
<1>2. CASE k # SIZE - 1
  BY <1>2
<1> QED BY <1>1, <1>2

\* The next slot is a slot, and another one.
LEMMA IncInSlots ==
  ASSUME NEW k \in Slots
  PROVE  Inc(k) \in Slots /\ Inc(k) # k
BY IncIs, SizeAssumption DEF Slots

-----------------------------------------------------------------------------
\* A snapshot is reported lost at most when it is taken.
TypeInv == TypeOK /\ full <= taken

\* The types hold at start-up ...
LEMMA InitType == Init => TypeInv
BY SizeAssumption, BoundsAssumption DEF Init, TypeInv, TypeOK, Slots, Empty

\* ... and a snapshot taken by the interrupt keeps them ...
LEMMA TickType == TypeInv /\ Tick => TypeInv'
<1> USE SizeAssumption, BoundsAssumption
<1> SUFFICES ASSUME TypeInv, Tick PROVE TypeInv'
  OBVIOUS
<1>1. end \in Slots /\ end' \in Slots /\ Inc(beg) \in Slots
  BY IncInSlots DEF Tick, TypeInv, TypeOK
<1>2. taken' = taken + 1 /\ taken' \in 0 .. MaxSnap /\ during' \in 0 .. MaxDuring
  <2>1. taken \in Nat /\ taken < MaxSnap /\ taken' = taken + 1
    BY DEF Tick, TypeInv, TypeOK
  <2>2. during' = IF pc = "idle" THEN 0 ELSE during + 1
    BY DEF Tick
  <2>3. during \in 0 .. MaxDuring /\ (pc # "idle" => during < MaxDuring)
    BY DEF Tick, TypeInv, TypeOK
  <2>4. during' \in 0 .. MaxDuring
    BY <2>2, <2>3
  <2> QED BY <2>1, <2>4
<1>3. slot' \in [Slots -> Record]
  <2>1. slot \in [Slots -> Record]
    BY DEF TypeInv, TypeOK, Record
  <2>2. [stamp |-> taken', data |-> taken'] \in Record
    BY <1>2 DEF Record
  <2>3. [slot[end'] EXCEPT !.stamp = 0] \in Record
    BY <1>1, <2>1 DEF Record
  <2>4. slot' = [slot EXCEPT ![end] = [stamp |-> taken', data |-> taken'],
                             ![end'] = [slot[end'] EXCEPT !.stamp = 0]]
    <3>1. end' # end
      BY IncInSlots DEF Tick, TypeInv, TypeOK
    <3> QED BY <1>1, <3>1 DEF Tick
  <2> QED BY <1>1, <2>1, <2>2, <2>3, <2>4
<1>4. beg' \in Slots /\ full' \in 0 .. MaxSnap /\ full' <= taken'
  <2>1. \/ beg' = Inc(beg) /\ full' = full + 1
        \/ beg' = beg /\ full' = full
    BY DEF Tick
  <2>2. beg \in Slots /\ full \in 0 .. MaxSnap /\ full <= taken /\ taken \in 0 .. MaxSnap
    BY DEF TypeInv, TypeOK
  <2> QED BY <1>1, <1>2, <2>1, <2>2
<1>5. status' \in {"STOP", "READY", "RUNNING"} /\ due' \in BOOLEAN
  BY DEF Tick, MakeReady, TypeInv, TypeOK
<1>6. /\ idx' \in Slots /\ snEnd' \in Slots
      /\ pc' \in {"idle", "end", "init", "loop", "data", "quit", "stop"}
      /\ head' \in 0 .. MaxSnap
      /\ archive' \in Seq([stamp : 0 .. MaxSnap, data : 0 .. MaxSnap])
      /\ failed' \in 0 .. MaxFail
  BY DEF Tick, task, TypeInv, TypeOK
<1> QED BY <1>1, <1>2, <1>3, <1>4, <1>5, <1>6 DEF TypeInv, TypeOK, Record

\* ... as does every step of the task.
LEMMA NextType == TypeInv /\ [Next]_vars => TypeInv'
<1> USE SizeAssumption, BoundsAssumption
<1> SUFFICES ASSUME TypeInv, [Next]_vars PROVE TypeInv'
  OBVIOUS
<1> USE DEF TypeInv, TypeOK
<1>1. CASE Tick
  BY <1>1, TickType
<1>2. CASE LateReady
  BY <1>2 DEF LateReady, MakeReady, ring, task
<1>3. CASE ReadBeg
  BY <1>3 DEF ReadBeg, ring
<1>4. CASE ReadEnd
  BY <1>4 DEF ReadEnd, ring
<1>5. CASE DriverInit
  BY <1>5, SMTT(30) DEF DriverInit, ring
<1>6. CASE CopyHead
  BY <1>6 DEF CopyHead, ring
<1>7. CASE CopyData
  <2>1. Inc(idx) \in Slots
    BY IncInSlots
  <2> QED BY <1>7, <2>1 DEF CopyData, ring
<1>8. CASE LoopEnds
  BY <1>8 DEF LoopEnds, ring
<1>9. CASE SetBeg
  BY <1>9 DEF SetBeg
<1>10. CASE SetStop
  BY <1>10 DEF SetStop, ring, Slots
<1>11. CASE UNCHANGED vars
  BY <1>11 DEF vars
<1> QED BY <1>1, <1>2, <1>3, <1>4, <1>5, <1>6, <1>7, <1>8, <1>9, <1>10, <1>11
        DEF Next, Store

(***************************************************************************)
(* The ring, the store task and the histories keep their types, for every  *)
(* size of the ring and every bound.                                       *)
(***************************************************************************)
THEOREM TypeCorrect == Spec => []TypeOK
BY InitType, NextType, PTL DEF Spec, TypeInv

-----------------------------------------------------------------------------
(***************************************************************************)
(* Until the ring overflows the interrupt only adds snapshots at its end,  *)
(* so the slots from beg to end stay as they were made, the two ends the   *)
(* task has read stay within them, and the task's index between those.     *)
(***************************************************************************)
HeldAreWhole ==
  \A k \in Slots : After(beg, k) < After(beg, end) => slot[k].stamp = slot[k].data

EndsAreOrdered ==
  /\ pc \in {"end", "init"} => idx = beg
  /\ pc \in {"init", "loop", "data", "quit"} => After(beg, snEnd) <= After(beg, end)
  /\ pc \in {"loop", "data"} => After(beg, idx) <= After(beg, snEnd)
  /\ pc = "data" => idx # snEnd

HeadIsOfSlot == pc = "data" => head = slot[idx].stamp

WholeInv ==
  /\ TypeInv
  /\ full = 0 => HeldAreWhole /\ EndsAreOrdered /\ HeadIsOfSlot
  /\ WholeUnlessFull

\* An empty ring holds no torn snapshot.
LEMMA InitWhole == Init => WholeInv
BY InitType, SMTT(20) DEF Init, WholeInv, HeldAreWhole, EndsAreOrdered, HeadIsOfSlot,
                WholeUnlessFull, After, TypeInv, TypeOK

\* A snapshot taken without overflow is whole, and leaves the others alone.
LEMMA TickWhole == WholeInv /\ Tick => WholeInv'
<1> SUFFICES ASSUME WholeInv, Tick PROVE WholeInv'
  OBVIOUS
<1>1. TypeInv'
  BY TickType DEF WholeInv
<1>2. ASSUME full' = 0 PROVE HeldAreWhole' /\ EndsAreOrdered' /\ HeadIsOfSlot'
  <2>1. /\ beg \in Slots /\ end \in Slots /\ idx \in Slots /\ snEnd \in Slots
        /\ slot \in [Slots -> Record] /\ full \in Nat
    BY BoundsAssumption DEF WholeInv, TypeInv, TypeOK, Record
  <2>2. end' = Inc(end) /\ end' # beg /\ beg' = beg /\ full = 0
    BY <1>2, <2>1 DEF Tick
  <2>3. end' \in Slots /\ end' # end /\ end' = IF end = SIZE - 1 THEN 0 ELSE end + 1
    BY <2>1, <2>2, IncIs, IncInSlots
  <2>4. HeldAreWhole /\ EndsAreOrdered /\ HeadIsOfSlot
    BY <2>2 DEF WholeInv
  <2>5. /\ slot'[end] = [stamp |-> taken', data |-> taken']
        /\ \A k \in Slots : k # end' /\ k # end => slot'[k] = slot[k]
    BY <2>1, <2>2, <2>3 DEF Tick
  <2>6. After(beg, end') = After(beg, end) + 1
    BY <2>1, <2>2, <2>3, SizeAssumption DEF After, Slots
  <2>7. HeldAreWhole'
    <3> SUFFICES ASSUME NEW k \in Slots, After(beg, k) < After(beg, end')
                 PROVE  slot'[k].stamp = slot'[k].data
      BY <2>2 DEF HeldAreWhole
    <3>1. k # end'
      BY <2>1, <2>3, SizeAssumption DEF After, Slots
    <3>2. CASE k = end
      BY <2>5, <3>1, <3>2
    <3>3. CASE k # end
      <4>1. After(beg, k) < After(beg, end)
        BY <2>1, <2>6, <3>3, SizeAssumption DEF After, Slots
      <4> QED BY <2>4, <2>5, <3>1, <3>3, <4>1 DEF HeldAreWhole
    <3> QED BY <3>2, <3>3
  <2>8. pc' = pc /\ idx' = idx /\ snEnd' = snEnd /\ head' = head
    BY DEF Tick, task
  <2>9. EndsAreOrdered'
    BY <2>1, <2>2, <2>4, <2>6, <2>8, SizeAssumption DEF EndsAreOrdered, After, Slots
  <2>10. HeadIsOfSlot'
    <3> SUFFICES ASSUME pc = "data" PROVE head = slot'[idx].stamp
      BY <2>8 DEF HeadIsOfSlot
    <3>1. idx # end /\ idx # end'
      BY <2>1, <2>3, <2>4, <2>6, SizeAssumption DEF EndsAreOrdered, After, Slots
    <3> QED BY <2>1, <2>4, <2>5, <3>1 DEF HeadIsOfSlot
  <2> QED BY <2>7, <2>9, <2>10
<1>3. WholeUnlessFull'
  <2>1. full' = 0 => full = 0
    BY BoundsAssumption DEF Tick, WholeInv, TypeInv, TypeOK
  <2> QED BY <2>1 DEF Tick, WholeInv, WholeUnlessFull
<1> QED BY <1>1, <1>2, <1>3 DEF WholeInv

\* The copy of a record: both halves come from a slot the interrupt leaves alone.
LEMMA CopyDataWhole == WholeInv /\ CopyData => WholeInv'
<1> SUFFICES ASSUME WholeInv, CopyData PROVE WholeInv'
  OBVIOUS
<1>1. TypeInv'
  BY NextType DEF WholeInv, Next, Store
<1>2. /\ beg \in Slots /\ end \in Slots /\ idx \in Slots /\ snEnd \in Slots
      /\ archive \in Seq(Record) /\ slot \in [Slots -> Record] /\ head \in 0 .. MaxSnap
  BY DEF WholeInv, TypeInv, TypeOK, Record
<1>3. ASSUME full = 0 PROVE HeldAreWhole' /\ EndsAreOrdered' /\ HeadIsOfSlot'
  <2>1. HeldAreWhole /\ EndsAreOrdered /\ HeadIsOfSlot
    BY <1>3 DEF WholeInv
  <2>2. idx' = (IF idx = SIZE - 1 THEN 0 ELSE idx + 1) /\ idx' \in Slots
    BY <1>2, IncIs, IncInSlots DEF CopyData
  <2>3. /\ beg' = beg /\ end' = end /\ slot' = slot /\ snEnd' = snEnd
        /\ pc = "data" /\ pc' = "loop"
    BY DEF CopyData, ring
  <2>4. After(beg, idx') <= After(beg, snEnd)
    BY <1>2, <2>1, <2>2, <2>3, SizeAssumption DEF EndsAreOrdered, After, Slots
  <2>5. EndsAreOrdered'
    BY <2>1, <2>3, <2>4 DEF EndsAreOrdered, After
  <2> QED BY <2>1, <2>3, <2>5 DEF HeldAreWhole, HeadIsOfSlot, After
<1>4. WholeUnlessFull'
  <2> SUFFICES ASSUME full = 0, NEW n \in DOMAIN archive'
               PROVE  archive'[n].stamp = archive'[n].data
    BY DEF WholeUnlessFull, CopyData
  <2>1. head = slot[idx].data
    <3>1. After(beg, idx) < After(beg, end) /\ head = slot[idx].stamp
      BY <1>2, SizeAssumption
         DEF WholeInv, EndsAreOrdered, HeadIsOfSlot, CopyData, After, Slots
    <3> QED BY <1>2, <3>1 DEF WholeInv, HeldAreWhole
  <2> DEFINE r == [stamp |-> head, data |-> slot[idx].data]
  <2>2. archive' = Append(archive, r) /\ r \in Record /\ r.stamp = r.data
    BY <1>2, <2>1 DEF CopyData, Record
  <2> HIDE DEF r
  <2>3. CASE n = Len(archive) + 1
    <3>1. archive'[n] = r
      BY <1>2, <2>2, <2>3
    <3> QED BY <2>2, <3>1
  <2>4. CASE n # Len(archive) + 1
    <3>1. n \in DOMAIN archive /\ archive'[n] = archive[n]
      BY <1>2, <2>2, <2>4
    <3> QED BY <3>1 DEF WholeInv, WholeUnlessFull
  <2> QED BY <2>3, <2>4
<1>5. full' = full
  BY DEF CopyData
<1> QED BY <1>1, <1>3, <1>4, <1>5 DEF WholeInv

\* The task gives up the slots before snEnd, the others are still held.
LEMMA SetBegWhole == WholeInv /\ SetBeg => WholeInv'
<1> SUFFICES ASSUME WholeInv, SetBeg PROVE WholeInv'
  OBVIOUS
<1>1. TypeInv'
  BY NextType DEF WholeInv, Next, Store
<1>2. beg \in Slots /\ end \in Slots /\ snEnd \in Slots
  BY DEF WholeInv, TypeInv, TypeOK
<1>3. /\ beg' = snEnd /\ end' = end /\ slot' = slot /\ pc = "quit" /\ pc' = "stop"
      /\ full' = full /\ archive' = archive
  BY DEF SetBeg
<1>4. ASSUME full = 0 PROVE HeldAreWhole'
  <2> SUFFICES ASSUME NEW k \in Slots, After(snEnd, k) < After(snEnd, end)
               PROVE  slot[k].stamp = slot[k].data
    BY <1>3 DEF HeldAreWhole
  <2>1. After(beg, snEnd) <= After(beg, end)
    BY <1>3, <1>4 DEF WholeInv, EndsAreOrdered
  <2>2. After(beg, k) < After(beg, end)
    BY <1>2, <2>1, SizeAssumption DEF After, Slots
  <2> QED BY <1>4, <2>2 DEF WholeInv, HeldAreWhole
<1>5. EndsAreOrdered' /\ HeadIsOfSlot'
  BY <1>3 DEF EndsAreOrdered, HeadIsOfSlot
<1>6. WholeUnlessFull'
  BY <1>3 DEF WholeInv, WholeUnlessFull
<1> QED BY <1>1, <1>3, <1>4, <1>5, <1>6 DEF WholeInv

\* Every step of the task and of the interrupt preserves the invariant.
LEMMA NextWhole == WholeInv /\ [Next]_vars => WholeInv'
<1> SUFFICES ASSUME WholeInv, [Next]_vars PROVE WholeInv'
  OBVIOUS
<1>1. TypeInv'
  BY NextType DEF WholeInv
<1>2. /\ beg \in Slots /\ end \in Slots /\ idx \in Slots /\ snEnd \in Slots
  BY DEF WholeInv, TypeInv, TypeOK
<1> USE DEF WholeInv, HeldAreWhole, EndsAreOrdered, HeadIsOfSlot, WholeUnlessFull, After
<1>3. CASE Tick
  BY <1>3, TickWhole DEF WholeInv
<1>4. CASE LateReady
  BY <1>1, <1>4 DEF LateReady, ring, task
<1>5. CASE ReadBeg
  BY <1>1, <1>5 DEF ReadBeg, ring
<1>6. CASE ReadEnd
  BY <1>1, <1>2, <1>6, SizeAssumption DEF ReadEnd, ring, Slots
<1>7. CASE DriverInit
  BY <1>1, <1>2, <1>7, SizeAssumption DEF DriverInit, ring, Slots
<1>8. CASE CopyHead
  BY <1>1, <1>8 DEF CopyHead, ring
<1>9. CASE CopyData
  BY <1>9, CopyDataWhole
<1>10. CASE LoopEnds
  BY <1>1, <1>10 DEF LoopEnds, ring
<1>11. CASE SetBeg
  BY <1>11, SetBegWhole
<1>12. CASE SetStop
  BY <1>1, <1>12 DEF SetStop, ring
<1>13. CASE UNCHANGED vars
  BY <1>1, <1>13 DEF vars
<1> QED BY <1>3, <1>4, <1>5, <1>6, <1>7, <1>8, <1>9, <1>10, <1>11, <1>12, <1>13
        DEF Next, Store

(***************************************************************************)
(* Whatever the interleaving of dl_tick with dl_task_store_data, and       *)
(* however many snapshots are taken while it copies, the records archived  *)
(* carry their own timestamps as long as the ring has never overflowed.    *)
(***************************************************************************)
THEOREM WholeUntilFull == Spec => []WholeUnlessFull
BY InitWhole, NextWhole, PTL DEF Spec, WholeInv

-----------------------------------------------------------------------------
(***************************************************************************)
(* A slot keeps the number of its snapshot until it is filled again: how   *)
(* long ago that was follows from its place, for all slots and also after  *)
(* an overflow (dl_snapshot_make clears a stamp ahead, not the data).      *)
(***************************************************************************)
Age(k) == IF k = end THEN SIZE ELSE After(k, end)

Numbered ==
  \A k \in Slots : slot[k].data = IF Age(k) > taken THEN 0 ELSE taken + 1 - Age(k)

Running == pc \in {"init", "loop", "data", "quit"}

\* How many of the snapshots taken come after the records archived so far.
ToCome == IF Running THEN After(idx, snEnd) + After(snEnd, end) ELSE After(beg, end)

OrderInv ==
  /\ TypeInv /\ Numbered
  /\ pc = "end" => idx = beg \/ (idx = end /\ during # 0)
  /\ Running => After(snEnd, end) <= during
  /\ pc = "data" => idx # snEnd
  /\ ToCome <= taken
  /\ \A n \in DOMAIN archive : archive[n].data <= taken - ToCome
  /\ ArchivedOnceInOrder

\* How far a slot is behind one, in the ring's own arithmetic.
LEMMA AfterIs ==
  ASSUME NEW b \in Slots, NEW k \in Slots
  PROVE  /\ After(b, k) \in 0 .. SIZE - 1 /\ After(b, k) = (k - b) % SIZE
         /\ After(b, k) = 0 <=> b = k
<1> USE SizeAssumption DEF Slots, After
<1>1. CASE b <= k
  BY <1>1
<1>2. CASE b > k
  <2>1. (k - b) + SIZE \in 1 .. SIZE - 1
    BY <1>2
  <2>2. (k - b) % SIZE = (k - b) + SIZE
    BY <1>2, <2>1
  <2> QED BY <1>2, <2>1, <2>2
<1> QED BY <1>1, <1>2

LEMMA NumbersAre ==
  ASSUME TypeInv, NEW n \in DOMAIN archive
  PROVE  archive[n].data \in Nat
<1>1. archive \in Seq(Record)
  BY DEF TypeInv, TypeOK, Record
<1>2. archive[n] \in Record
  BY <1>1
<1> QED BY <1>2, BoundsAssumption DEF Record

LEMMA InitNumbered == Init => Numbered
BY SizeAssumption DEF Init, Numbered, Age, After, Slots, Empty

\* A snapshot taken makes every other one older by one.
LEMMA TickNumbered ==
  ASSUME TypeInv, Numbered, Tick
  PROVE  Numbered'
<1>1. /\ beg \in Slots /\ end \in Slots /\ slot \in [Slots -> Record] /\ taken \in Nat
      /\ taken' = taken + 1
  BY DEF Tick, TypeInv, TypeOK, Record
<1>2. /\ end' \in Slots /\ end' # end /\ end' = IF end = SIZE - 1 THEN 0 ELSE end + 1
  BY <1>1, IncIs, IncInSlots DEF Tick
<1>3. /\ slot'[end].data = taken'
      /\ \A k \in Slots : k # end => slot'[k].data = slot[k].data
  BY <1>1, <1>2 DEF Tick, Record
<1> SUFFICES ASSUME NEW k \in Slots
             PROVE  slot'[k].data = IF Age(k)' > taken' THEN 0 ELSE taken' + 1 - Age(k)'
  BY DEF Numbered
<1>4. CASE k = end
  <2>1. Age(k)' = 1
    BY <1>1, <1>2, <1>4, SizeAssumption DEF Age, After, Slots
  <2> QED BY <1>1, <1>3, <1>4, <2>1
<1>5. CASE k # end
  <2>1. Age(k)' = Age(k) + 1 /\ Age(k) \in Nat
    BY <1>1, <1>2, <1>5, SizeAssumption DEF Age, After, Slots
  <2>2. slot[k].data = IF Age(k) > taken THEN 0 ELSE taken + 1 - Age(k)
    BY DEF Numbered
  <2> QED BY <1>1, <1>3, <1>5, <2>1, <2>2
<1> QED BY <1>4, <1>5

\* The steps of the task leave the slots, the ring's end and the count alone.
LEMMA StoreNumbered ==
  ASSUME Numbered, \/ LateReady \/ Store \/ UNCHANGED vars
  PROVE  Numbered' /\ end' = end /\ slot' = slot /\ taken' = taken
<1>1. end' = end /\ slot' = slot /\ taken' = taken
  BY DEF LateReady, Store, ReadBeg, ReadEnd, DriverInit, CopyHead, CopyData, LoopEnds, SetBeg,
         SetStop, vars, ring
<1> QED BY <1>1 DEF Numbered, Age, After

-----------------------------------------------------------------------------
LEMMA InitOrder == Init => OrderInv
BY InitType, InitNumbered DEF Init, OrderInv, Running, ToCome, After, ArchivedOnceInOrder

LEMMA TickOrder ==
  ASSUME MaxDuring <= 1, OrderInv, Tick
  PROVE  OrderInv'
<1>1. TypeInv' /\ Numbered'
  BY TickType, TickNumbered DEF OrderInv
<1>2. /\ beg \in Slots /\ end \in Slots /\ idx \in Slots /\ snEnd \in Slots
      /\ taken \in Nat /\ taken' = taken + 1 /\ during \in Nat
      /\ pc # "idle" => during = 0 /\ during' = 1
  BY BoundsAssumption, SMTT(60) DEF OrderInv, Tick, TypeInv, TypeOK
<1>3. /\ end' \in Slots /\ end' # end /\ end' = IF end = SIZE - 1 THEN 0 ELSE end + 1
      /\ beg' = IF end' = beg THEN (IF beg = SIZE - 1 THEN 0 ELSE beg + 1) ELSE beg
  BY <1>2, IncIs, IncInSlots DEF Tick
<1>4. /\ pc' = pc /\ idx' = idx /\ snEnd' = snEnd /\ archive' = archive
  BY DEF Tick, task
<1>5. After(beg', end') <= After(beg, end) + 1
  BY <1>2, <1>3, SizeAssumption DEF After, Slots
<1>6. Running => snEnd = end /\ After(snEnd, end) = 0 /\ After(snEnd, end') = 1
  BY <1>2, <1>3, SizeAssumption DEF OrderInv, Running, After, Slots
<1>7. ToCome' <= ToCome + 1 /\ ToCome \in Nat /\ ToCome' \in Nat
  <2>1. CASE Running
    BY <1>2, <1>4, <1>6, <2>1, AfterIs DEF Running, ToCome
  <2>2. CASE ~Running
    <3>1. beg' \in Slots
      BY <1>2, <1>3, SizeAssumption DEF Slots
    <3> QED BY <1>2, <1>3, <1>4, <1>5, <2>2, <3>1, AfterIs DEF Running, ToCome
  <2> QED BY <2>1, <2>2
<1>8. \A n \in DOMAIN archive' : archive'[n].data <= taken' - ToCome'
  <2> SUFFICES ASSUME NEW n \in DOMAIN archive PROVE archive[n].data <= taken' - ToCome'
    BY <1>4
  <2>1. archive[n].data \in Nat
    BY NumbersAre DEF OrderInv
  <2>2. archive[n].data <= taken - ToCome
    BY DEF OrderInv
  <2> QED BY <1>2, <1>7, <2>1, <2>2
<1>9. pc' = "end" => idx' = beg' \/ (idx' = end' /\ during' # 0)
  BY <1>2, <1>3, <1>4 DEF OrderInv
<1>10. ToCome' <= taken'
  BY <1>2, <1>7 DEF OrderInv
<1> QED BY <1>1, <1>2, <1>4, <1>6, <1>8, <1>9, <1>10 DEF OrderInv, Running, ArchivedOnceInOrder

\* The record copied is later than all archived, and the ones to come are later.
LEMMA CopyDataOrder ==
  ASSUME MaxDuring <= 1, OrderInv, CopyData
  PROVE  OrderInv'
<1>1. TypeInv' /\ Numbered' /\ slot' = slot /\ end' = end /\ taken' = taken
  BY NextType, StoreNumbered DEF OrderInv, Next, Store
<1>2. /\ end \in Slots /\ idx \in Slots /\ snEnd \in Slots /\ taken \in Nat
      /\ during \in 0 .. 1 /\ After(snEnd, end) <= during
      /\ archive \in Seq(Record) /\ slot \in [Slots -> Record] /\ head \in 0 .. MaxSnap
  BY BoundsAssumption, SMTT(60) DEF OrderInv, TypeInv, TypeOK, Record, CopyData, Running
<1>3. /\ pc = "data" /\ pc' = "loop" /\ snEnd' = snEnd /\ during' = during /\ idx # snEnd
      /\ idx' = (IF idx = SIZE - 1 THEN 0 ELSE idx + 1) /\ idx' \in Slots
  BY <1>2, IncIs, IncInSlots DEF CopyData, OrderInv
<1>4. After(idx, snEnd) = After(idx', snEnd) + 1
  BY <1>2, <1>3, SizeAssumption DEF After, Slots
<1>5. /\ After(idx, snEnd) \in Nat /\ After(idx', snEnd) \in Nat /\ After(snEnd, end) \in Nat
  BY <1>2, <1>3, SizeAssumption DEF After, Slots
<1>6. ToCome = After(idx, snEnd) + After(snEnd, end)
  BY <1>3 DEF ToCome, Running
<1>7. ToCome' = After(idx', snEnd) + After(snEnd, end)
  BY <1>1, <1>3 DEF ToCome, Running, After
<1>8. ToCome \in Nat /\ ToCome' = ToCome - 1 /\ ToCome' \in Nat /\ ToCome <= taken
  BY <1>4, <1>5, <1>6, <1>7 DEF OrderInv
<1>9. Age(idx) = ToCome
  BY <1>2, <1>3, <1>6, SizeAssumption DEF Age, After, Slots
<1> DEFINE d == slot[idx].data
           r == [stamp |-> head, data |-> d]
<1>10. d = taken + 1 - ToCome
  BY <1>2, <1>8, <1>9 DEF OrderInv, Numbered
<1>11. archive' = Append(archive, r) /\ r \in Record /\ r.data = d
  BY <1>2 DEF CopyData, Record
<1> HIDE DEF r, d
<1>12. /\ Len(archive) \in Nat /\ DOMAIN archive' = 1 .. Len(archive) + 1
       /\ archive'[Len(archive) + 1] = r
       /\ \A n \in 1 .. Len(archive) : archive'[n] = archive[n]
  BY <1>2, <1>11
<1>13. \A n \in 1 .. Len(archive) : archive[n].data \in Nat /\ archive[n].data <= taken - ToCome
  BY <1>2, NumbersAre DEF OrderInv
<1>14. \A n \in DOMAIN archive' : archive'[n].data <= taken' - ToCome'
  BY <1>1, <1>2, <1>8, <1>10, <1>11, <1>12, <1>13
<1>15. ArchivedOnceInOrder'
  <2> SUFFICES ASSUME NEW m \in DOMAIN archive', NEW n \in DOMAIN archive', m < n
               PROVE  archive'[m].data < archive'[n].data
    BY DEF ArchivedOnceInOrder
  <2>1. m \in 1 .. Len(archive)
    BY <1>12
  <2>2. CASE n = Len(archive) + 1
    BY <1>2, <1>8, <1>10, <1>11, <1>12, <1>13, <2>1, <2>2, SMTT(20)
  <2>3. CASE n # Len(archive) + 1
    <3>1. n \in 1 .. Len(archive) /\ DOMAIN archive = 1 .. Len(archive)
      BY <1>2, <1>12, <2>3
    <3> QED BY <1>12, <2>1, <3>1 DEF OrderInv, ArchivedOnceInOrder
  <2> QED BY <2>2, <2>3
<1> QED BY <1>1, <1>2, <1>3, <1>8, <1>14, <1>15 DEF OrderInv, Running

\* The other steps copy nothing, and leave no more to come than there was.
LEMMA StoreOrder ==
  ASSUME OrderInv, \/ LateReady \/ ReadBeg \/ ReadEnd \/ DriverInit \/ CopyHead
                   \/ LoopEnds \/ SetBeg \/ SetStop \/ UNCHANGED vars
  PROVE  OrderInv'
<1>1. TypeInv' /\ Numbered' /\ slot' = slot /\ end' = end /\ taken' = taken
  BY NextType, StoreNumbered DEF OrderInv, Next, Store
<1>2. /\ beg \in Slots /\ end \in Slots /\ idx \in Slots /\ snEnd \in Slots
      /\ taken \in Nat /\ during \in Nat /\ archive' = archive
  BY BoundsAssumption DEF OrderInv, TypeInv, TypeOK, LateReady, ReadBeg, ReadEnd, DriverInit,
       CopyHead, LoopEnds, SetBeg, SetStop, vars
<1>3. /\ After(beg, end) \in Nat /\ After(idx, end) \in Nat /\ After(idx, snEnd) \in Nat
      /\ After(snEnd, end) \in Nat /\ After(end, end) = 0
  BY <1>2, AfterIs
<1>4. /\ ToCome' <= ToCome /\ ToCome \in Nat /\ ToCome' \in Nat
      /\ Running' => After(snEnd', end) <= during'
      /\ pc' = "end" => idx' = beg' \/ (idx' = end /\ during' # 0)
      /\ pc' = "data" => idx' # snEnd'
  <2> USE <1>1, <1>2, <1>3 DEF OrderInv, ToCome, Running, After
  <2>1. CASE LateReady
    BY <2>1 DEF LateReady, ring, task
  <2>2. CASE ReadBeg
    BY <2>2 DEF ReadBeg, ring
  <2>3. CASE ReadEnd
    BY <2>3 DEF ReadEnd, ring
  <2>4. CASE DriverInit
    BY <2>4 DEF DriverInit, ring
  <2>5. CASE CopyHead
    BY <2>5 DEF CopyHead, ring
  <2>6. CASE LoopEnds
    BY <2>6 DEF LoopEnds, ring
  <2>7. CASE SetBeg
    BY <2>7 DEF SetBeg
  <2>8. CASE SetStop
    BY <2>8 DEF SetStop, ring
  <2>9. CASE UNCHANGED vars
    BY <2>9 DEF vars
  <2> QED BY <2>1, <2>2, <2>3, <2>4, <2>5, <2>6, <2>7, <2>8, <2>9
<1>5. \A n \in DOMAIN archive : archive[n].data \in Nat /\ archive[n].data <= taken - ToCome
  BY NumbersAre DEF OrderInv
<1> QED BY <1>1, <1>2, <1>4, <1>5 DEF OrderInv, ArchivedOnceInOrder

LEMMA NextOrder ==
  ASSUME MaxDuring <= 1
  PROVE  OrderInv /\ [Next]_vars => OrderInv'
BY TickOrder, CopyDataOrder, StoreOrder DEF Next, Store

(***************************************************************************)
(* Every record is archived once and in the order of the snapshots, also   *)
(* after overflows and failures of the EEPROM driver, whatever the size of *)
(* the ring, if no more than one snapshot is taken while the store task    *)
(* runs (its records take milliseconds, a period of dl_tick tens of        *)
(* seconds).                                                               *)
(***************************************************************************)
THEOREM OnceInOrder ==
  ASSUME MaxDuring <= 1
  PROVE  Spec => []ArchivedOnceInOrder
<1>1. OrderInv /\ [Next]_vars => OrderInv'
  BY NextOrder
<1> QED BY <1>1, InitOrder, PTL DEF Spec, OrderInv

-----------------------------------------------------------------------------
(***************************************************************************)
(* Until an overflow or a failure the task archives without a gap: each    *)
(* snapshot is in the archive, or in a slot from which the task will take  *)
(* it (from idx on while it copies, else from beg on).                     *)
(***************************************************************************)
From == IF pc \in {"loop", "data", "quit"} THEN idx ELSE beg

Complete ==
  full = 0 /\ failed = 0 =>
    /\ pc = "quit" => idx = snEnd
    /\ \A m \in 1 .. taken - After(From, end) : m \in Archived

LossInv == WholeInv /\ Numbered /\ Complete

\* The slots from b to before end are numbered up to the last snapshot.
LEMMA HeldAreAll ==
  ASSUME LossInv, NEW b \in Slots, NEW m \in 1 .. taken, m > taken - After(b, end)
  PROVE  \E k \in Held(b) : slot[k].data = m
<1>1. end \in Slots /\ taken \in Nat
  BY DEF LossInv, WholeInv, TypeInv, TypeOK
<1> DEFINE age == taken + 1 - m
           k   == IF age <= end THEN end - age ELSE end - age + SIZE
<1>2. age \in 1 .. After(b, end)
  BY <1>1, SizeAssumption DEF After, Slots
<1>3. k \in Slots /\ Age(k) = age /\ After(b, k) < After(b, end)
  BY <1>1, <1>2, SizeAssumption DEF Age, After, Slots
<1>4. k \in Held(b)
  BY <1>1, <1>3, AfterIs DEF Held
<1>5. slot[k].data = m
  BY <1>1, <1>3 DEF LossInv, Numbered
<1> QED BY <1>4, <1>5

LEMMA LossInvImplies == LossInv => NoSilentLoss
<1> SUFFICES ASSUME LossInv, full = 0, failed = 0, NEW m \in 1 .. taken, m \notin Archived
             PROVE  m \in Pending
  BY DEF NoSilentLoss, Lost
<1> DEFINE b == IF pc \in {"loop", "data"} THEN idx ELSE beg
<1>1. b \in Slots /\ beg \in Slots /\ end \in Slots /\ idx \in Slots /\ taken \in Nat
  BY DEF LossInv, WholeInv, TypeInv, TypeOK
<1>2. EndsAreOrdered
  BY DEF LossInv, WholeInv
<1>3. After(From, end) <= After(b, end)
  <2>1. CASE pc = "quit"
    <3>1. idx = snEnd /\ After(beg, snEnd) <= After(beg, end)
      BY <1>2, <2>1 DEF LossInv, Complete, EndsAreOrdered
    <3> QED BY <1>1, <2>1, <3>1, SizeAssumption DEF From, After, Slots
  <2>2. CASE pc # "quit"
    BY <1>1, <2>2, SizeAssumption DEF From, After, Slots
  <2> QED BY <2>1, <2>2
<1>4. m > taken - After(b, end)
  <2>1. ~(m <= taken - After(From, end))
    BY <1>1 DEF LossInv, Complete
  <2>2. From \in Slots
    BY <1>1 DEF From
  <2> QED BY <1>1, <1>3, <2>1, <2>2, SizeAssumption DEF After, Slots
<1>5. \E k \in Held(b) : slot[k].data = m
  BY <1>1, <1>4, HeldAreAll
<1> QED BY <1>5 DEF Pending

LEMMA InitLoss == Init => LossInv
BY InitWhole, InitNumbered DEF Init, LossInv, Complete, From, After

LEMMA TickLoss == ASSUME LossInv, Tick PROVE LossInv'
<1>1. WholeInv' /\ Numbered'
  BY TickWhole, TickNumbered DEF LossInv, WholeInv
<1>2. ASSUME full' = 0, failed' = 0
      PROVE  /\ pc' = "quit" => idx' = snEnd'
             /\ \A m \in 1 .. taken' - After(From, end)' : m \in Archived'
  <2>1. /\ beg \in Slots /\ end \in Slots /\ idx \in Slots /\ snEnd \in Slots
        /\ taken \in Nat /\ taken' = taken + 1 /\ full \in Nat
    BY BoundsAssumption DEF LossInv, WholeInv, TypeInv, TypeOK, Tick
  <2>2. /\ end' = Inc(end) /\ end' # beg /\ beg' = beg /\ full = 0 /\ failed = 0
        /\ pc' = pc /\ idx' = idx /\ snEnd' = snEnd /\ archive' = archive
    BY <1>2, <2>1 DEF Tick, task
  <2>3. end' \in Slots /\ end' = IF end = SIZE - 1 THEN 0 ELSE end + 1
    BY <2>1, <2>2, IncIs, IncInSlots
  <2>4. EndsAreOrdered /\ (pc = "quit" => idx = snEnd)
    BY <2>2 DEF LossInv, WholeInv, Complete
  <2>5. From \in Slots /\ From' = From
    BY <2>1, <2>2 DEF From
  <2>6. After(beg, From) <= After(beg, end)
    BY <2>1, <2>4, SizeAssumption DEF EndsAreOrdered, From, After, Slots
  <2>7. After(From, end') = After(From, end) + 1
    BY <2>1, <2>2, <2>3, <2>5, <2>6, SizeAssumption DEF After, Slots
  <2>8. After(From, end)' = After(From, end) + 1 /\ After(From, end) \in Nat
    BY <2>1, <2>5, <2>7, AfterIs, SizeAssumption DEF After
  <2>9. Archived' = Archived
    BY <2>2 DEF Archived
  <2> QED BY <2>1, <2>2, <2>4, <2>8, <2>9 DEF LossInv, Complete
<1> QED BY <1>1, <1>2 DEF LossInv, Complete

\* The record copied is the first that was missing.
LEMMA CopyDataLoss == ASSUME LossInv, CopyData PROVE LossInv'
<1>1. WholeInv' /\ Numbered' /\ slot' = slot /\ end' = end /\ taken' = taken
  BY CopyDataWhole, StoreNumbered DEF LossInv, Store
<1>2. /\ beg \in Slots /\ end \in Slots /\ idx \in Slots /\ snEnd \in Slots /\ taken \in Nat
      /\ archive \in Seq(Record) /\ slot \in [Slots -> Record] /\ head \in 0 .. MaxSnap
  BY DEF LossInv, WholeInv, TypeInv, TypeOK, Record
<1>3. /\ pc = "data" /\ pc' = "loop" /\ full' = full /\ failed' = failed
      /\ idx' = (IF idx = SIZE - 1 THEN 0 ELSE idx + 1) /\ idx' \in Slots
  BY <1>2, IncIs, IncInSlots DEF CopyData
<1> DEFINE d == slot[idx].data
           r == [stamp |-> head, data |-> d]
<1>4. archive' = Append(archive, r) /\ r \in Record /\ r.data = d /\ d = slot[idx].data
  BY <1>2 DEF CopyData, Record
<1> HIDE DEF d, r
<1>5. /\ Len(archive) \in Nat /\ DOMAIN archive' = 1 .. Len(archive) + 1
      /\ DOMAIN archive = 1 .. Len(archive)
      /\ archive'[Len(archive) + 1] = r
      /\ \A n \in 1 .. Len(archive) : archive'[n] = archive[n]
  BY <1>2, <1>4
<1>6. Archived \subseteq Archived' /\ d \in Archived'
  <2>1. \A n \in DOMAIN archive : n \in DOMAIN archive' /\ archive'[n] = archive[n]
    BY <1>5
  <2>2. Len(archive) + 1 \in DOMAIN archive'
    BY <1>5
  <2> QED BY <1>4, <1>5, <2>1, <2>2 DEF Archived
<1>7. ASSUME full = 0, failed = 0
      PROVE  \A m \in 1 .. taken - After(idx', end) : m \in Archived'
  <2>1. After(beg, idx) < After(beg, end)
    BY <1>2, <1>3, <1>7, SizeAssumption DEF LossInv, WholeInv, EndsAreOrdered, After, Slots
  <2>2. /\ After(idx, end) = After(idx', end) + 1 /\ After(idx, end) \in Nat
        /\ After(idx', end) \in Nat /\ Age(idx) = After(idx, end)
    BY <1>2, <1>3, <2>1, SizeAssumption DEF Age, After, Slots
  <2>3. taken - After(idx', end) >= 1 => d = taken - After(idx', end)
    <3>1. d = IF Age(idx) > taken THEN 0 ELSE taken + 1 - Age(idx)
      BY <1>2, <1>4 DEF LossInv, Numbered
    <3> QED BY <1>2, <2>2, <3>1
  <2>4. \A m \in 1 .. taken - After(idx, end) : m \in Archived
    BY <1>3, <1>7 DEF LossInv, Complete, From
  <2> SUFFICES ASSUME NEW m \in 1 .. taken - After(idx', end) PROVE m \in Archived'
    OBVIOUS
  <2>5. CASE m = taken - After(idx', end)
    BY <1>6, <2>3, <2>5
  <2>6. CASE m # taken - After(idx', end)
    <3>1. m \in 1 .. taken - After(idx, end)
      BY <1>2, <2>2, <2>6
    <3> QED BY <1>6, <2>4, <3>1
  <2> QED BY <2>5, <2>6
<1>8. From' = idx' /\ After(From, end)' = After(idx', end)
  BY <1>1, <1>3 DEF From, After
<1> QED BY <1>1, <1>3, <1>7, <1>8 DEF LossInv, Complete

\* The other steps do not move the place the task goes on from.
LEMMA StoreLoss ==
  ASSUME LossInv, \/ LateReady \/ ReadBeg \/ ReadEnd \/ DriverInit \/ CopyHead
                  \/ LoopEnds \/ SetBeg \/ SetStop \/ UNCHANGED vars
  PROVE  LossInv'
<1>1. WholeInv' /\ Numbered' /\ end' = end /\ taken' = taken
  BY NextWhole, StoreNumbered DEF LossInv, Next, Store
<1>2. archive' = archive /\ Archived' = Archived /\ full' = full
  BY DEF LateReady, ReadBeg, ReadEnd, DriverInit, CopyHead, LoopEnds, SetBeg, SetStop, vars,
         Archived
<1>3. failed \in Nat /\ (failed' = 0 => failed = 0)
  BY BoundsAssumption DEF LateReady, ReadBeg, ReadEnd, DriverInit, CopyHead, LoopEnds, SetBeg,
         SetStop, vars, LossInv, WholeInv, TypeInv, TypeOK
<1>4. ASSUME full = 0, failed' = 0
      PROVE  From' = From /\ (pc' = "quit" => idx' = snEnd')
  <2>1. EndsAreOrdered /\ (pc = "quit" => idx = snEnd) /\ failed = 0 /\ failed \in Nat
    BY <1>3, <1>4 DEF LossInv, WholeInv, Complete
  <2> USE <2>1 DEF EndsAreOrdered, From
  <2>2. CASE LateReady
    BY <2>2 DEF LateReady, ring, task
  <2>3. CASE ReadBeg
    BY <2>3 DEF ReadBeg, ring
  <2>4. CASE ReadEnd
    BY <2>4 DEF ReadEnd, ring
  <2>5. CASE DriverInit
    BY <1>4, <2>5 DEF DriverInit, ring
  <2>6. CASE CopyHead
    BY <2>6 DEF CopyHead, ring
  <2>7. CASE LoopEnds
    BY <2>7 DEF LoopEnds, ring
  <2>8. CASE SetBeg
    BY <2>8 DEF SetBeg
  <2>9. CASE SetStop
    BY <2>9 DEF SetStop, ring
  <2>10. CASE UNCHANGED vars
    BY <2>10 DEF vars
  <2> QED BY <2>2, <2>3, <2>4, <2>5, <2>6, <2>7, <2>8, <2>9, <2>10
<1>5. ASSUME full = 0, failed' = 0
      PROVE  \A m \in 1 .. taken' - After(From, end)' : m \in Archived'
  <2>1. After(From, end)' = After(From, end)
    BY <1>1, <1>4, <1>5 DEF After
  <2> QED BY <1>1, <1>2, <1>3, <1>5, <2>1 DEF LossInv, Complete
<1> QED BY <1>1, <1>2, <1>4, <1>5 DEF LossInv, Complete

LEMMA NextLoss == LossInv /\ [Next]_vars => LossInv'
BY TickLoss, CopyDataLoss, StoreLoss DEF Next, Store

(***************************************************************************)
(* No snapshot is lost before the ring overflows or the EEPROM driver      *)
(* fails, whatever the interleaving of dl_tick and dl_task_store_data and  *)
(* the size of the ring.                                                   *)
(***************************************************************************)
THEOREM NoneIsLost == Spec => []NoSilentLoss
BY InitLoss, NextLoss, LossInvImplies, PTL DEF Spec

-----------------------------------------------------------------------------
(***************************************************************************)
(* IterStore, for every capacity of the partition, every size of a batch   *)
(* up to it and every bound: a start finds usable iterators after any      *)
(* sequence of crashes, the overlapping slots do not disturb each other,   *)
(* and the page implements IterPair.                                       *)
(*                                                                         *)
(* What carries them is that the buffers never turn.  A reset leaves       *)
(*   b TAG e TAG TAG ...                                                   *)
(* and a save writes the value where it was and the TAG where it was, so   *)
(* the words 0 to 3 keep that form, crash or no crash.                     *)
(***************************************************************************)
Saving == {"scan", "value", "tag"}

\* In the RAM: iterators in their order, BEGIN not ahead of the stored END.
InUse ==
  /\ Usable(iter)
  /\ word[0] <= iter[BEG] /\ iter[BEG] <= word[2]

\* On the page: the two values, each before its TAG.
Stored ==
  /\ word[0] \in Pos /\ word[1] = TAG
  /\ word[2] \in Pos /\ word[3] = TAG
  /\ word[0] <= word[2]

\* How far a save has come: BEGIN is written before END.
Order ==
  /\ main \in {"value", "tag"} => i = 0
  /\ main = "tag" => word[2 * j] = iter[j]
  /\ main \in Saving /\ j = END => word[0] = iter[BEG]

\* How far the initialisation of the slots has come.
Filled ==
  /\ broken
  /\ iter[BEG] = 0 /\ iter[END] = 0
  /\ j = BEG => (i > 0 => word[0] = 0) /\ (i > 1 => word[1] = TAG)
  /\ j = END => /\ word[0] = 0 /\ word[1] = TAG
                /\ i > 0 => word[2] = 0
                /\ i > 1 => word[3] = TAG

Started == main \in {"run"} \cup Saving

Inv ==
  /\ IterTypeOK
  /\ main \in Saving => saves < MaxSaves
  /\ main = "init" => Filled
  /\ main = "code" => broken
  /\ ~broken => Stored
  /\ ~broken /\ Started => InUse /\ Order

-----------------------------------------------------------------------------
\* A set of slots that is not empty has a first one.
LEMMA First ==
  ASSUME NEW S \in SUBSET (0 .. LEN - 1), S # {}
  PROVE  \E k \in S : \A m \in S : k <= m
<1>1. \A k \in S : k \in {0, 1, 2, 3, 4, 5, 6, 7}
  BY DEF LEN
<1>2. PICK x : x \in S
  OBVIOUS
<1>. QED
  BY <1>1, <1>2, SMT

\* The scan of a buffer ends at its first TAG, and the slot before is a slot.
LEMMA FirstTagIsSlot ==
  ASSUME NEW n \in {BEG, END}, Tags(n) # {}
  PROVE  /\ FirstTag(n) \in Tags(n)
         /\ \A m \in Tags(n) : FirstTag(n) <= m
         /\ FirstTag(n) \in 0 .. LEN - 1
         /\ Before(FirstTag(n)) \in 0 .. LEN - 1
<1>1. Tags(n) \in SUBSET (0 .. LEN - 1)
  BY DEF Tags
<1>2. \E k \in Tags(n) : \A m \in Tags(n) : k <= m
  BY <1>1, First
<1>3. FirstTag(n) \in Tags(n) /\ \A m \in Tags(n) : FirstTag(n) <= m
  BY <1>2 DEF FirstTag
<1>4. FirstTag(n) \in 0 .. LEN - 1
  BY <1>1, <1>3
<1>5. \A k \in 0 .. LEN - 1 : (k - 1) % LEN \in 0 .. LEN - 1
  BY DEF LEN
<1>. QED
  BY <1>3, <1>4, <1>5 DEF Before

\* What is read is one of the values of the page.
LEMMA ReadType ==
  ASSUME IterTypeOK, NEW n \in {BEG, END}, NEW d \in Values
  PROVE  Read(n, d) \in Values
<1>1. CASE Tags(n) = {}
  BY <1>1 DEF Read
<1>2. CASE Tags(n) # {}
  <2>1. Before(FirstTag(n)) \in 0 .. LEN - 1
    BY <1>2, FirstTagIsSlot
  <2>2. 2 * n + Before(FirstTag(n)) \in Word
    BY <2>1 DEF Word, LEN, BEG, END
  <2>. QED
    BY <1>2, <2>2 DEF Read, Slot, IterTypeOK
<1>. QED
  BY <1>1, <1>2

\* A value followed by its TAG is what a start reads, whatever lies after it.
LEMMA ReadsFirst ==
  ASSUME NEW n \in {BEG, END}, word[2 * n] # TAG, word[2 * n + 1] = TAG
  PROVE  /\ Tags(n) # {}
         /\ Before(FirstTag(n)) = 0
         /\ \A d : Read(n, d) = word[2 * n]
<1>1. 1 \in Tags(n) /\ 0 \notin Tags(n)
  BY DEF Tags, Slot, LEN, BEG, END
<1>2. /\ FirstTag(n) \in Tags(n) /\ FirstTag(n) \in 0 .. LEN - 1
      /\ FirstTag(n) <= 1
  BY <1>1, FirstTagIsSlot
<1>3. FirstTag(n) = 1
  BY <1>1, <1>2 DEF LEN
<1>4. Before(1) = 0
  BY DEF Before, LEN
<1>5. Slot(n, 0) = word[2 * n]
  BY DEF Slot, BEG, END
<1>. QED
  BY <1>1, <1>3, <1>4, <1>5 DEF Read

\* So a start reads the first and the third word of a page that was initialised.
LEMMA ReadsStored ==
  ASSUME Stored
  PROVE  /\ \A d : Read(BEG, d) = word[0] /\ Read(END, d) = word[2]
         /\ \A n \in {BEG, END} : Tags(n) # {} /\ Before(FirstTag(n)) = 0
         /\ \A n \in {BEG, END} : \A d : Read(n, d) = word[2 * n]
<1>1. \A n \in {BEG, END} : word[2 * n] # TAG /\ word[2 * n + 1] = TAG
  BY DEF Stored, Pos, TAG, BEG, END
<1>2. \A n \in {BEG, END} : /\ Tags(n) # {} /\ Before(FirstTag(n)) = 0
                            /\ \A d : Read(n, d) = word[2 * n]
  BY <1>1, ReadsFirst
<1>. QED
  BY <1>2 DEF BEG, END

-----------------------------------------------------------------------------
(* Types. *)

LEMMA TypeInit == IterInit => IterTypeOK
<1>. 0 \in 0 .. MaxCrashes /\ 0 \in 0 .. MaxSaves
  BY IterBoundsAssumption
<1>. QED
  BY DEF IterInit, IterTypeOK, Values, LEN, BEG, END

\* Where a save goes when it is done with an iterator.
LEMMA NextIteratorType ==
  ASSUME IterTypeOK, saves < MaxSaves, NextIterator
  PROVE  /\ j' \in {BEG, END} /\ main' \in {"scan", "run"}
         /\ saves' \in 0 .. MaxSaves /\ (main' = "scan" => saves' < MaxSaves)
BY IterBoundsAssumption DEF IterTypeOK, NextIterator, BEG, END

\* The word a step writes is a word of the page.
LEMMA WordsWritten ==
  ASSUME IterTypeOK
  PROVE  2 * j + i \in Word /\ 2 * j + ((i + 1) % LEN) \in Word
BY DEF IterTypeOK, Word, LEN, BEG, END

LEMMA TypeNext == Inv /\ [IterNext]_iterVars => IterTypeOK'
<1>. SUFFICES ASSUME Inv, [IterNext]_iterVars PROVE IterTypeOK'
  OBVIOUS
<1>. IterTypeOK
  BY DEF Inv
<1>. 0 \in Pos /\ \A v \in Pos : v \in Int /\ 0 <= v /\ v <= MaxPos
  BY IterBoundsAssumption DEF Pos
<1>0. /\ {TAG, ERASED} \subseteq Values /\ Pos \subseteq Values
      /\ {BEG, END} = {0, 1} /\ 0 \in 0 .. LEN - 1
  BY DEF Values, BEG, END, LEN
<1>1. CASE BootReset
  BY <1>1, <1>0 DEF BootReset, IterTypeOK, page
<1>2. CASE DB_init
  <2>1. \A n \in {BEG, END} : Read(n, ERASED) \in Values
    BY ReadType, <1>0
  <2>2. iter' \in [{BEG, END} -> Values]
    BY <1>2, <2>1, <1>0 DEF DB_init
  <2>. QED
    BY <1>2, <2>2, <1>0 DEF DB_init, IterTypeOK, page
<1>3. CASE DB_reset_eeprom
  <2>1. iter' \in [{BEG, END} -> Values]
    BY <1>3, <1>0 DEF DB_reset_eeprom
  <2>. QED
    BY <1>3, <2>1, <1>0 DEF DB_reset_eeprom, IterTypeOK
<1>4. CASE DB_iterator_init_eeprom
  <2>1. iter[j] \in Values
    BY DEF IterTypeOK
  <2>2. word' \in [Word -> Values]
    BY <1>4, <2>1, <1>0 DEF DB_iterator_init_eeprom, IterTypeOK
  <2>3. i' \in 0 .. LEN - 1 /\ j' \in {BEG, END}
    BY <1>4, <1>0 DEF DB_iterator_init_eeprom, IterTypeOK, LEN
  <2>4. broken' \in BOOLEAN
    BY <1>4, Zenon DEF DB_iterator_init_eeprom, IterTypeOK
  <2>5. main' \in {"off", "run", "init"}
    BY <1>4 DEF DB_iterator_init_eeprom, IterTypeOK
  <2>. QED
    BY <1>4, <2>2, <2>3, <2>4, <2>5 DEF DB_iterator_init_eeprom, IterTypeOK
<1>5. CASE AppendBatch
  <2>1. /\ iter[END] + 1 \in Pos
        /\ iter[BEG] \in Pos
        /\ iter[END] - iter[BEG] = Capacity => iter[BEG] + 1 \in Pos
    BY <1>5, IterBoundsAssumption DEF AppendBatch, Usable, Pos
  <2>2. iter' \in [{BEG, END} -> Values]
    BY <1>5, <2>1, <1>0 DEF AppendBatch, IterTypeOK, BEG, END
  <2>. QED
    BY <1>5, <2>2 DEF AppendBatch, IterTypeOK, page
<1>6. CASE StartSave
  BY <1>6, <1>0 DEF StartSave, IterTypeOK, page
<1>7. CASE Scan
  <2>0. saves < MaxSaves
    BY <1>7 DEF Scan, Inv, Saving
  <2>1. CASE Tags(j) = {} \/ Read(j, ERASED) = iter[j]
    BY <1>7, <2>0, <2>1, NextIteratorType DEF Scan, IterTypeOK, page
  <2>2. CASE ~(Tags(j) = {} \/ Read(j, ERASED) = iter[j])
    <3>1. Before(FirstTag(j)) \in 0 .. LEN - 1
      BY <2>2, FirstTagIsSlot DEF IterTypeOK
    <3>. QED
      BY <1>7, <2>2, <3>1 DEF Scan, IterTypeOK, page
  <2>. QED
    BY <2>1, <2>2
<1>8. CASE WriteValue
  <2>1. iter[j] \in Values
    BY DEF IterTypeOK
  <2>2. word' \in [Word -> Values]
    BY <1>8, <2>1 DEF WriteValue, IterTypeOK
  <2>. QED
    BY <1>8, <2>2 DEF WriteValue, IterTypeOK
<1>9. CASE WriteTag
  <2>0. saves < MaxSaves
    BY <1>9 DEF WriteTag, Inv, Saving
  <2>2. word' \in [Word -> Values]
    BY <1>9, <1>0 DEF WriteTag, IterTypeOK
  <2>. QED
    BY <1>9, <2>0, <2>2, <1>0, NextIteratorType DEF WriteTag, IterTypeOK
<1>10. CASE FirmwareUpdate
  <2>1. iter' \in [{BEG, END} -> Values]
    BY <1>10, <1>0 DEF FirmwareUpdate
  <2>. QED
    BY <1>10, <2>1, <1>0 DEF FirmwareUpdate, IterTypeOK
<1>11. CASE Crash
  <2>1. iter' \in [{BEG, END} -> Values]
    BY <1>11, <1>0 DEF Crash
  <2>2. crashes' \in 0 .. MaxCrashes
    BY <1>11, IterBoundsAssumption DEF Crash, IterTypeOK
  <2>. QED
    BY <1>11, <2>1, <2>2, <1>0 DEF Crash, IterTypeOK, page
<1>12. CASE UNCHANGED iterVars
  BY <1>12 DEF iterVars, IterTypeOK
<1>. QED
  BY <1>1, <1>2, <1>3, <1>4, <1>5, <1>6, <1>7, <1>8, <1>9, <1>10, <1>11, <1>12 DEF IterNext

-----------------------------------------------------------------------------
(* The values and the order in which they are written. *)

LEMMA InitInv == IterInit => Inv
BY TypeInit DEF IterInit, Inv, Saving, Started

\* What the invariant says but for the types.
Kept ==
  /\ main \in Saving => saves < MaxSaves
  /\ main = "init" => Filled
  /\ main = "code" => broken
  /\ ~broken => Stored
  /\ ~broken /\ Started => InUse /\ Order

LEMMA KeptNext == Inv /\ [IterNext]_iterVars => Kept'
<1>. SUFFICES ASSUME Inv, [IterNext]_iterVars PROVE Kept'
  OBVIOUS
<1>. IterTypeOK /\ Kept
  BY DEF Inv, Kept
<1>. USE DEF Kept, Saving, Started, BEG, END
<1>. 0 \in Pos /\ \A v \in Pos : v \in Int /\ 0 <= v /\ v <= MaxPos
  BY IterBoundsAssumption DEF Pos
<1>. saves \in Int /\ MaxSaves \in Int
  BY IterBoundsAssumption DEF IterTypeOK
<1>1. CASE BootReset
  BY <1>1 DEF BootReset, page
<1>2. CASE DB_init
  <2>1. CASE \E n \in {BEG, END} : Read(n, ERASED) = ERASED
    BY <1>2, <2>1 DEF DB_init, page, Filled
  <2>2. CASE ~ \E n \in {BEG, END} : Read(n, ERASED) = ERASED
    <3>1. /\ main' = "run" /\ broken' = broken /\ word' = word
          /\ iter' = [n \in {BEG, END} |-> Read(n, ERASED)]
      BY <1>2, <2>2 DEF DB_init, page
    <3>2. Stored' <=> Stored
      BY <3>1 DEF Stored
    <3>3. CASE ~broken
      <4>1. Stored /\ iter'[BEG] = word[0] /\ iter'[END] = word[2]
        BY <3>1, <3>3, ReadsStored
      <4>2. InUse'
        BY <3>1, <4>1 DEF Stored, InUse, Usable
      <4>. QED
        BY <3>1, <3>2, <3>3, <4>2 DEF Order
    <3>. QED
      BY <3>1, <3>3
  <2>. QED
    BY <2>1, <2>2
<1>3. CASE DB_reset_eeprom
  BY <1>3 DEF DB_reset_eeprom, Filled
<1>4. CASE DB_iterator_init_eeprom
  <2>0. Filled /\ main = "init"
    BY <1>4 DEF DB_iterator_init_eeprom
  <2>1. word' = [word EXCEPT ![2 * j + i] = IF i = 0 THEN iter[j] ELSE TAG]
    BY <1>4 DEF DB_iterator_init_eeprom
  <2>2. /\ i \in 0 .. 7 /\ j \in {0, 1}
        /\ DOMAIN word = 0 .. 9
    BY DEF IterTypeOK, LEN, Word
  <2>3. CASE i < LEN - 1
    <3>1. main' = main /\ broken' = broken /\ i' = i + 1 /\ j' = j /\ iter' = iter
      BY <1>4, <2>3 DEF DB_iterator_init_eeprom
    <3>2. CASE j = BEG
      <4>1. word'[0] = 0
        BY <2>0, <2>1, <2>2, <3>2 DEF Filled
      <4>2. i' > 1 => word'[1] = TAG
        BY <2>0, <2>1, <2>2, <3>1, <3>2 DEF Filled
      <4>. QED
        BY <2>0, <3>1, <3>2, <4>1, <4>2 DEF Filled
    <3>3. CASE j = END
      <4>1. word'[0] = 0 /\ word'[1] = TAG
        BY <2>0, <2>1, <2>2, <3>3 DEF Filled
      <4>2. word'[2] = 0
        BY <2>0, <2>1, <2>2, <3>3 DEF Filled
      <4>3. i' > 1 => word'[3] = TAG
        BY <2>0, <2>1, <2>2, <3>1, <3>3 DEF Filled
      <4>. QED
        BY <2>0, <3>1, <3>3, <4>1, <4>2, <4>3 DEF Filled
    <3>. QED
      BY <3>2, <3>3 DEF IterTypeOK
  <2>4. CASE i = LEN - 1 /\ j = BEG
    <3>1. main' = main /\ broken' = broken /\ i' = 0 /\ j' = END /\ iter' = iter
      BY <1>4, <2>4 DEF DB_iterator_init_eeprom, LEN
    <3>2. word'[0] = 0 /\ word'[1] = TAG
      BY <2>0, <2>1, <2>2, <2>4 DEF Filled, LEN
    <3>. QED
      BY <2>0, <3>1, <3>2 DEF Filled
  <2>5. CASE i = LEN - 1 /\ j = END
    <3>1. main' = then /\ broken' = FALSE /\ iter' = iter /\ saves' = saves
      BY <1>4, <2>5 DEF DB_iterator_init_eeprom, LEN
    <3>2. word'[0] = 0 /\ word'[1] = TAG /\ word'[2] = 0 /\ word'[3] = TAG
      BY <2>0, <2>1, <2>2, <2>5 DEF Filled, LEN
    <3>3. then \in {"off", "run"}
      BY DEF IterTypeOK
    <3>4. Stored' /\ InUse'
      BY <2>0, <3>1, <3>2 DEF Filled, Stored, InUse, Usable
    <3>. QED
      BY <3>1, <3>3, <3>4 DEF Order
  <2>. QED
    BY <2>2, <2>3, <2>4, <2>5 DEF LEN
<1>5. CASE AppendBatch
  <2>0. main' = "run" /\ main = "run" /\ broken' = broken /\ word' = word /\ saves' = saves
    BY <1>5 DEF AppendBatch, page
  <2>1. CASE broken
    BY <2>0, <2>1
  <2>2. CASE ~broken
    <3>1. Stored /\ InUse
      BY <2>0, <2>2
    <3>2. iter[END] < word[2] + Batch
      BY <1>5, <3>1, ReadsStored DEF AppendBatch
    <3>3. DOMAIN iter = {BEG, END}
      BY DEF IterTypeOK
    <3>4. /\ iter'[END] = iter[END] + 1
          /\ iter'[BEG] = IF iter[END] - iter[BEG] = Capacity THEN iter[BEG] + 1 ELSE iter[BEG]
      BY <1>5, <3>3 DEF AppendBatch
    <3>5. iter[END] < MaxPos
      BY <1>5 DEF AppendBatch
    <3>6. /\ iter[BEG] \in Int /\ iter[END] \in Int /\ 0 <= iter[BEG]
          /\ iter[BEG] <= iter[END] /\ word[0] <= iter[BEG] /\ iter[BEG] <= word[2]
          /\ word[0] \in Int /\ word[2] \in Int
          /\ Capacity \in Nat /\ Batch \in Nat /\ Batch <= Capacity /\ MaxPos \in Nat
      BY <3>1, IterBoundsAssumption DEF InUse, Usable, Stored
    <3>7. /\ iter'[BEG] \in Pos /\ iter'[END] \in Pos
          /\ iter'[BEG] <= iter'[END]
          /\ word[0] <= iter'[BEG] /\ iter'[BEG] <= word[2]
      BY <3>2, <3>4, <3>5, <3>6, SMT DEF Pos
    <3>. QED
      BY <2>0, <2>2, <3>1, <3>7 DEF InUse, Usable, Stored, Order
  <2>. QED
    BY <2>1, <2>2
<1>6. CASE StartSave
  BY <1>6 DEF StartSave, page, InUse, Usable, Stored, Order
<1>7. CASE Scan
  <2>0. main = "scan" /\ iter' = iter /\ word' = word /\ broken' = broken
    BY <1>7 DEF Scan, page
  <2>1. main' # "init" /\ main' # "code"
    BY <1>7 DEF Scan, NextIterator
  <2>2. main' \in Saving => saves' < MaxSaves
    BY <1>7 DEF Scan, NextIterator
  <2>3. CASE broken
    BY <2>0, <2>1, <2>2, <2>3
  <2>4. CASE ~broken
    <3>1. Stored /\ InUse /\ Order
      BY <2>0, <2>4
    <3>2. j \in {BEG, END} /\ Tags(j) # {} /\ Before(FirstTag(j)) = 0
          /\ Read(j, ERASED) = word[2 * j]
      BY <3>1, ReadsStored DEF IterTypeOK
    <3>3. Order'
      <4>1. CASE word[2 * j] = iter[j]
        BY <1>7, <2>0, <3>1, <3>2, <4>1 DEF Scan, NextIterator, Order
      <4>2. CASE word[2 * j] # iter[j]
        BY <1>7, <2>0, <3>1, <3>2, <4>2 DEF Scan, Order
      <4>. QED
        BY <4>1, <4>2
    <3>. QED
      BY <2>0, <2>1, <2>2, <2>4, <3>1, <3>3 DEF Stored, InUse, Usable
  <2>. QED
    BY <2>3, <2>4
<1>8. CASE WriteValue
  <2>0. main = "value" /\ main' = "tag" /\ iter' = iter /\ broken' = broken /\ saves' = saves
        /\ i' = i /\ j' = j
    BY <1>8 DEF WriteValue
  <2>1. CASE broken
    BY <2>0, <2>1
  <2>2. CASE ~broken
    <3>1. Stored /\ InUse /\ Order /\ i = 0
      BY <2>0, <2>2 DEF Order
    <3>2. word' = [word EXCEPT ![2 * j] = iter[j]] /\ DOMAIN word = 0 .. 9 /\ j \in {0, 1}
      BY <1>8, <3>1 DEF WriteValue, IterTypeOK, Word
    <3>3. /\ word'[1] = word[1] /\ word'[3] = word[3] /\ word'[2 * j] = iter[j]
          /\ word'[0] = IF j = 0 THEN iter[0] ELSE word[0]
          /\ word'[2] = IF j = 1 THEN iter[1] ELSE word[2]
      BY <3>2
    <3>4. j = 1 => word[0] = iter[0]
      BY <2>0, <3>1 DEF Order
    <3>5. /\ word[0] \in Int /\ word[2] \in Int /\ iter[0] \in Pos /\ iter[1] \in Pos
          /\ iter[0] \in Int /\ iter[1] \in Int
          /\ word[0] <= iter[0] /\ iter[0] <= word[2] /\ iter[0] <= iter[1]
      BY <3>1 DEF Stored, InUse, Usable
    <3>6. Stored' /\ InUse'
      BY <2>0, <3>1, <3>2, <3>3, <3>4, <3>5 DEF Stored, InUse, Usable
    <3>7. Order'
      BY <2>0, <3>1, <3>3, <3>4 DEF Order
    <3>. QED
      BY <2>0, <2>2, <3>6, <3>7
  <2>. QED
    BY <2>1, <2>2
<1>9. CASE WriteTag
  <2>0. main = "tag" /\ iter' = iter /\ broken' = broken
    BY <1>9 DEF WriteTag
  <2>1. main' # "init" /\ main' # "code"
    BY <1>9 DEF WriteTag, NextIterator
  <2>2. main' \in Saving => saves' < MaxSaves
    BY <1>9 DEF WriteTag, NextIterator
  <2>3. CASE broken
    BY <2>0, <2>1, <2>2, <2>3
  <2>4. CASE ~broken
    <3>1. Stored /\ InUse /\ Order /\ i = 0 /\ word[2 * j] = iter[j]
      BY <2>0, <2>4 DEF Order
    <3>2. word' = [word EXCEPT ![2 * j + 1] = TAG] /\ DOMAIN word = 0 .. 9 /\ j \in {0, 1}
      BY <1>9, <3>1 DEF WriteTag, IterTypeOK, Word, LEN
    <3>3. /\ word'[0] = word[0] /\ word'[1] = word[1]
          /\ word'[2] = word[2] /\ word'[3] = word[3]
      BY <3>1, <3>2 DEF Stored
    <3>4. Order'
      BY <1>9, <2>0, <3>1, <3>2, <3>3 DEF WriteTag, NextIterator, Order
    <3>. QED
      BY <2>0, <2>1, <2>2, <2>4, <3>1, <3>3, <3>4 DEF Stored, InUse, Usable
  <2>. QED
    BY <2>3, <2>4
<1>10. CASE FirmwareUpdate
  BY <1>10 DEF FirmwareUpdate
<1>11. CASE Crash
  BY <1>11 DEF Crash, page, Stored
<1>12. CASE UNCHANGED iterVars
  BY <1>12 DEF iterVars, Filled, Stored, InUse, Usable, Order
<1>. QED
  BY <1>1, <1>2, <1>3, <1>4, <1>5, <1>6, <1>7, <1>8, <1>9, <1>10, <1>11, <1>12 DEF IterNext
LEMMA InvNext == Inv /\ [IterNext]_iterVars => Inv'
BY TypeNext, KeptNext DEF Inv, Kept

LEMMA Inductive == IterSpec => []Inv
BY InitInv, InvNext, PTL DEF IterSpec

-----------------------------------------------------------------------------
(***************************************************************************)
(* The variables keep their types through every sequence of starts, saves, *)
(* updates and crashes.                                                    *)
(***************************************************************************)
THEOREM IterTypeCorrect == IterSpec => []IterTypeOK
BY Inductive, PTL DEF Inv

\* What a start reads on a page that was initialised.
Found == /\ \A n \in {BEG, END} : Read(n, ERASED) = word[2 * n]
         /\ Read(BEG, ERASED) = word[0]
         /\ Read(END, ERASED) = word[2]

LEMMA StoredFound == Stored => Found
BY ReadsStored DEF Found

LEMMA StoredFoundNext == Stored' => Found'
BY StoredFound, PTL

(***************************************************************************)
(* Wherever saves are cut off, the next start finds iterators that delimit *)
(* a stretch of records, unless a reset of the store was cut short         *)
(* (DB_init, DB.c:226-247), for every capacity and size of a batch.        *)
(***************************************************************************)
THEOREM RestartFindsThem == IterSpec => []SavedIteratorsUsable
<1>1. Inv => SavedIteratorsUsable
  <2>. SUFFICES ASSUME Inv, ~broken PROVE Usable([n \in {BEG, END} |-> Read(n, ERASED)])
    BY DEF SavedIteratorsUsable
  <2>1. Stored /\ Found
    BY StoredFound DEF Inv
  <2>. QED
    BY <2>1 DEF Stored, Found, Usable, BEG, END
<1>. QED
  BY Inductive, <1>1, PTL

\* The words a step leaves alone while the store is sound: a save writes the value of
\* its iterator, once BEGIN is written for END, and nothing else changes the first
\* and third words.
LEMMA SavesOnly ==
  ASSUME Inv, [IterNext]_iterVars, ~broken, ~broken'
  PROVE  \/ /\ word'[0] = word[0] /\ word'[2] = word[2]
            /\ ~WriteValue
         \/ /\ main = "value" /\ j = BEG /\ iter' = iter
            /\ word'[0] = iter[BEG] /\ word'[2] = word[2]
         \/ /\ main = "value" /\ j = END /\ iter' = iter /\ word[0] = iter[BEG]
            /\ word'[0] = word[0] /\ word'[2] = iter[END]
<1>. IterTypeOK /\ Stored
  BY DEF Inv
<1>1. CASE WriteValue
  <2>1. InUse /\ Order /\ i = 0 /\ main = "value" /\ iter' = iter
    BY <1>1 DEF WriteValue, Inv, Started, Saving, Order
  <2>2. /\ word' = [word EXCEPT ![2 * j] = iter[j]] /\ DOMAIN word = 0 .. 9
        /\ j \in {0, 1}
    BY <1>1, <2>1 DEF WriteValue, IterTypeOK, Word, BEG, END
  <2>3. j = END => word[0] = iter[BEG]
    BY <2>1 DEF Order, Saving
  <2>. QED
    BY <2>1, <2>2, <2>3 DEF BEG, END
<1>2. CASE WriteTag
  <2>1. Order /\ i = 0
    BY <1>2 DEF WriteTag, Inv, Started, Saving, Order
  <2>2. /\ word' = [word EXCEPT ![2 * j + 1] = TAG] /\ DOMAIN word = 0 .. 9
        /\ j \in {0, 1}
    BY <1>2, <2>1 DEF WriteTag, IterTypeOK, Word, LEN, BEG, END
  <2>3. main = "tag"
    BY <1>2 DEF WriteTag
  <2>. QED
    BY <2>2, <2>3 DEF WriteValue
<1>3. CASE DB_iterator_init_eeprom
  BY <1>3 DEF DB_iterator_init_eeprom, Inv, Filled
<1>4. CASE BootReset \/ DB_init \/ DB_reset_eeprom \/ AppendBatch \/ StartSave \/ Scan
           \/ FirmwareUpdate \/ Crash \/ UNCHANGED iterVars
  <2>1. word' = word
    BY <1>4 DEF BootReset, DB_init, DB_reset_eeprom, AppendBatch, StartSave, Scan,
                FirmwareUpdate, Crash, iterVars, page
  <2>. QED
    BY <1>1, <2>1
<1>. QED
  BY <1>1, <1>2, <1>3, <1>4 DEF IterNext

(***************************************************************************)
(* The slots of the two iterators overlap, and no write of one changes the *)
(* stored value of the other, for every capacity and size of a batch.      *)
(***************************************************************************)
THEOREM NoInterference == IterSpec => SlotsDoNotInterfere
<1>1. Inv /\ Inv' /\ [IterNext]_iterVars =>
        [\A n \in {BEG, END} :
           ~broken /\ ~broken' /\ Read(n, ERASED)' # Read(n, ERASED)
             => main = "value" /\ j = n]_iterVars
  <2>. SUFFICES ASSUME Inv, Inv', [IterNext]_iterVars, ~broken, ~broken', NEW n \in {BEG, END},
                       Read(n, ERASED)' # Read(n, ERASED)
                PROVE  main = "value" /\ j = n
    OBVIOUS
  <2>1. Found /\ Found'
    BY StoredFound, StoredFoundNext DEF Inv
  <2>2. \/ n = BEG /\ word'[0] # word[0]
        \/ n = END /\ word'[2] # word[2]
    BY <2>1 DEF Found, BEG, END
  <2>. QED
    BY <2>2, SavesOnly DEF BEG, END
<1>. QED
  BY Inductive, <1>1, PTL DEF IterSpec, SlotsDoNotInterfere

(***************************************************************************)
(* The page implements IterPair: seen through what a start reads, each     *)
(* step of the buffers is a step of two registers replaced BEGIN first,    *)
(* or none.                                                                *)
(***************************************************************************)
THEOREM PairImplemented == IterSpec => ImplementsIterPair
<1>1. IterInit => Pair!Init
  BY DEF IterInit, Pair!Init
<1>2. Inv /\ Inv' /\ [IterNext]_iterVars => [Pair!Next]_(Pair!vars)
  <2>. SUFFICES ASSUME Inv, Inv', [IterNext]_iterVars PROVE [Pair!Next]_(Pair!vars)
    OBVIOUS
  <2>. DEFINE ram   == [b |-> iter[BEG], e |-> iter[END]]
              saved == [b |-> Read(BEG, ERASED), e |-> Read(END, ERASED)]
  <2>1. CASE broken \/ broken'
    <3>1. broken = TRUE \/ broken' = TRUE
      BY <2>1, Zenon DEF Inv, IterTypeOK
    <3>. QED
      BY <3>1, Zenon DEF Pair!Next, Pair!Renew
  <2>2. CASE ~broken /\ ~broken'
    <3>0. broken' = FALSE
      BY <2>2, Zenon DEF Inv, IterTypeOK
    <3>1. Found /\ Found' /\ Stored
      BY <2>2, StoredFound, StoredFoundNext DEF Inv
    <3>2. /\ saved  = [b |-> word[0], e |-> word[2]]
          /\ saved' = [b |-> word'[0], e |-> word'[2]]
      BY <3>1 DEF Found
    <3>3. iter[BEG] \in Values /\ iter[END] \in Values
          /\ iter'[BEG] \in Values /\ iter'[END] \in Values
      BY DEF Inv, IterTypeOK
    <3>. HIDE DEF saved
    <3>4. CASE main = "value" /\ j = BEG /\ iter' = iter
               /\ word'[0] = iter[BEG] /\ word'[2] = word[2]
      <4>1. ram' = ram /\ saved' = [saved EXCEPT !.b = ram.b]
        BY <3>2, <3>4
      <4>. QED
        BY <2>2, <3>0, <4>1, Zenon DEF Pair!Next, Pair!SaveBegin, saved
    <3>5. CASE main = "value" /\ j = END /\ iter' = iter /\ word[0] = iter[BEG]
               /\ word'[0] = word[0] /\ word'[2] = iter[END]
      <4>1. ram' = ram /\ saved.b = ram.b /\ saved' = ram
        BY <3>2, <3>5
      <4>. QED
        BY <2>2, <3>0, <4>1, Zenon DEF Pair!Next, Pair!SaveEnd, saved
    <3>6. CASE word'[0] = word[0] /\ word'[2] = word[2] /\ ~WriteValue
      <4>1. saved' = saved
        BY <3>2, <3>6
      <4>2. CASE DB_init
        <5>1. iter' = [n \in {BEG, END} |-> Read(n, ERASED)]
          BY <4>2, <2>2 DEF DB_init
        <5>2. ram' = saved
          BY <5>1 DEF saved, BEG, END
        <5>. QED
          BY <2>2, <3>0, <4>1, <5>2, Zenon DEF Pair!Next, Pair!Restart, saved
      <4>3. CASE ~DB_init
        <5>1. ram' \in [b : Values, e : Values]
          BY <3>3
        <5>. QED
          BY <2>2, <3>0, <4>1, <5>1, Zenon DEF Pair!Next, Pair!Move, saved
      <4>. QED
        BY <4>2, <4>3
    <3>. QED
      BY <2>2, <3>4, <3>5, <3>6, SavesOnly
  <2>. QED
    BY <2>1, <2>2
<1>. QED
  BY Inductive, <1>1, <1>2, PTL DEF IterSpec, ImplementsIterPair, Pair!Spec
=============================================================================
