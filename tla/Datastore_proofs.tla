-------------------------- MODULE Datastore_proofs --------------------------
(***************************************************************************)
(* Proofs about Datastore, for every partition, page, record and batch.    *)
(*                                                                         *)
(* The inductive invariant has two parts.  Stored: on the way back from    *)
(* the saved END the records are whole and older and older, but for the    *)
(* last ones, which a batch may reach.  InUse: the iterators in the RAM    *)
(* are "batch" records ahead of the saved ones, those records are whole,   *)
(* and the one being put is so as far as it has been written (Half).       *)
(***************************************************************************)
EXTENDS Datastore, DBIter_proofs, SequenceTheorems

\* Records between the saved iterators, and the number of the j-th of them.
C    == Count(saved.b, saved.e)
R(j) == mem[WalkBack(saved.e, j)].rec

AtMostCap(n) == IF n < Cap THEN n ELSE Cap

\* The bytes at z are record r.
Whole(m, z, r) == \A k \in 0 .. S - 1 : m[At(z, k)].rec = r /\ m[At(z, k)].off = k

Aligned(b, e, n) ==
  b \in Cells /\ e \in Cells /\ Gap(b, e) = n * S /\ (Extent = Cap * S => b = PB)

Stored ==
  /\ C \in 0 .. Cap
  /\ Aligned(saved.b, saved.e, C)
  /\ kept > 0 => C > 0
  /\ C > 0 => R(1) = kept
  /\ \A j \in 1 .. C : j <= Cap - Batch =>
       /\ Whole(mem, WalkBack(saved.e, j), R(j))
       /\ R(j) > 0
       /\ j > 1 => R(j) < R(j - 1)

Added ==
  /\ kept + batch <= nrec
  /\ WalkBack(iter.e, batch) = saved.e
  /\ \A j \in 1 .. batch : (pc = "put" => j > 1) => Whole(mem, WalkBack(iter.e, j), nrec - j + 1)

Half ==
  LET z == WalkBack(iter.e, 1)
  IN /\ batch > 0 /\ iter.e \in Cells
     /\ Aligned(iter.b, z, AtMostCap(C + batch - 1))
     /\ iter.e = MoveForward(z, 1)
     /\ Len(Pieces(z)) # 1 /\ due = Pieces(z)[2]
     /\ \A k \in 0 .. S - 1 : k < due.from => mem[At(z, k)] = ByteOf(nrec, k)

InUse ==
  /\ Added
  /\ pc = "put" => Half
  /\ pc # "put" => Aligned(iter.b, iter.e, AtMostCap(C + batch))
  /\ pc \in {"saveB", "saveE"} => batch > 0
  /\ pc = "saveE" => iter.b = saved.b

Down == batch = 0 /\ kept <= nrec

\* The second piece does not reach past the record.
TypeInv == TypeOK /\ due.from + due.len <= S

Inv ==
  /\ TypeInv
  /\ ~slipped => Stored /\ (pc = "down" => Down) /\ (pc # "down" => InUse)

-----------------------------------------------------------------------------
(* Types. *)

Bytes == [rec : 0 .. MaxRec, off : 0 .. S - 1, flag : {0}]

LEMMA ConstantsAre ==
  /\ Batch \in Nat /\ MaxRec \in Nat /\ MaxCrashes \in Nat /\ Batch < Cap
  /\ S \in Nat /\ S >= 1 /\ PB \in Nat /\ PE \in Nat /\ PB < PE /\ PAGE \in Nat \ {0}
BY PartitionAssumption, BoundsAssumption DEF Cap

\* The pieces, wherever a record is put.
LEMMA PiecesType ==
  ASSUME NEW z \in PB .. PE
  PROVE  LET ps == Pieces(z)
         IN /\ ps[1].at \in Nat /\ ps[1].from = 0 /\ ps[1].len \in 0 .. S
            /\ Len(ps) # 1 => ps[2] \in [at : PB .. PE, from : 0 .. S, len : 0 .. S]
                              /\ ps[2].from + ps[2].len <= S
<1>. DEFINE zn == MoveForward(z, 1)
            v  == zn % PAGE
<1>1. zn \in PB .. PE
  BY ForwardType
<1>2. v \in Nat /\ zn - v \in PB .. PE
  <2>1. zn \in Nat /\ PB <= zn
    BY <1>1, ConstantsAre
  <2>2. zn % PAGE \in 0 .. PAGE - 1
    BY <2>1, DivMod
  <2>3. zn - (zn % PAGE) \in Nat /\ PB <= zn - (zn % PAGE) /\ zn - (zn % PAGE) <= zn
    BY <2>1, PageFloor, Zenon
  <2>. HIDE DEF zn
  <2>. QED
    BY <1>1, <2>2, <2>3, ConstantsAre
<1>. HIDE DEF zn, v
<1>3. CASE v >= S \/ v = 0
  <2>1. Pieces(z) = << [at |-> z, from |-> 0, len |-> S] >>
    BY <1>3 DEF Pieces, zn, v
  <2>. QED
    BY <2>1, ConstantsAre
<1>4. CASE ~(v >= S \/ v = 0)
  <2>1. Pieces(z) = << [at |-> z, from |-> 0, len |-> S - v],
                       [at |-> zn - v, from |-> S - v, len |-> v] >>
    BY <1>4 DEF Pieces, zn, v
  <2>2. Pieces(z)[1] = [at |-> z, from |-> 0, len |-> S - v]
        /\ Pieces(z)[2] = [at |-> zn - v, from |-> S - v, len |-> v]
    BY <2>1
  <2>. QED
    BY <1>2, <1>4, <2>2, ConstantsAre
<1>. QED
  BY <1>3, <1>4

LEMMA TypeInit == Init => TypeInv
<1>. SUFFICES ASSUME Init PROVE TypeInv
  OBVIOUS
<1>1. Blank \in Bytes
  BY ConstantsAre DEF Blank, Bytes
<1>2. mem \in [PB .. PE - 1 -> Bytes]
  BY <1>1 DEF Init
<1>3. slipped \in BOOLEAN
  BY Zenon DEF Init
<1>4. due \in [at : PB .. PE, from : 0 .. S, len : 0 .. S] /\ due.from + due.len <= S
  BY ConstantsAre DEF Init, NoPiece
<1>. QED
  BY <1>2, <1>3, <1>4, ConstantsAre DEF Init, TypeOK, TypeInv, Bytes

LEMMA TypeNext == TypeInv /\ [Next]_vars => TypeInv'
<1>. SUFFICES ASSUME TypeInv, [Next]_vars PROVE TypeInv'
  OBVIOUS
<1>. DEFINE Due == [at : PB .. PE, from : 0 .. S, len : 0 .. S]
<1>0. /\ mem \in [Cells -> Bytes] /\ iter \in [b : PB .. PE, e : PB .. PE]
      /\ saved \in [b : PB .. PE, e : PB .. PE]
      /\ due \in Due /\ batch \in 0 .. Batch /\ nrec \in 0 .. MaxRec /\ kept \in 0 .. MaxRec
      /\ slipped \in BOOLEAN /\ due.from + due.len <= S
  BY DEF TypeInv, TypeOK, Cells, Bytes
<1>t. ASSUME NEW b \in PB .. PE, NEW e \in PB .. PE, NEW f \in PB .. PE, Trim(b, e, f)
      PROVE  iter' \in [b : PB .. PE, e : PB .. PE] /\ slipped' \in BOOLEAN
  <2>1. TrimBegin(b, f) \in PB .. PE
    BY <1>t, ForwardType DEF TrimBegin
  <2>2. iter' \in [b : PB .. PE, e : PB .. PE]
    BY <1>t, <2>1 DEF Trim
  <2>3. slipped' \in BOOLEAN
    BY <1>t, Zenon DEF Trim, Slips
  <2>. QED
    BY <2>2, <2>3
<1>b. ASSUME NEW r \in 0 .. MaxRec PROVE \A k \in 0 .. S - 1 : ByteOf(r, k) \in Bytes
  BY DEF ByteOf, Bytes
<1>1. CASE PutFirst
  <2>. DEFINE ps == Pieces(iter.e)
              p == ps[1]
              f == MoveForward(iter.e, 1)
  <2>1. iter.e \in PB .. PE /\ iter.b \in PB .. PE /\ f \in PB .. PE
    BY <1>0, ForwardType
  <2>2. /\ p.at \in Nat /\ p.from = 0 /\ p.len \in 0 .. S
        /\ Len(ps) # 1 => ps[2] \in Due /\ ps[2].from + ps[2].len <= S
    BY <2>1, PiecesType
  <2>3. nrec' \in 0 .. MaxRec /\ batch' \in 0 .. Batch
    BY <1>0, <1>1, ConstantsAre DEF PutFirst
  <2>4. mem' = WritePiece(mem, p, nrec')
    BY <1>1 DEF PutFirst
  <2>5. mem' \in [Cells -> Bytes]
    <3>. HIDE DEF p
    <3>1. p.from \in Nat /\ p.len \in Nat /\ p.from + p.len <= S /\ p.at \in Nat
      BY <2>2, ConstantsAre
    <3>2. \A k \in 0 .. S - 1 : ByteOf(nrec', k) \in Bytes
      BY <1>b, <2>3
    <3>3. WritePiece(mem, p, nrec') \in [Cells -> Bytes]
      BY <1>0, <3>1, <3>2, PieceType, Zenon
    <3>. QED
      BY <2>4, <3>3
  <2>6. CASE Len(ps) = 1
    <3>1. Trim(iter.b, iter.e, f) /\ UNCHANGED <<pc, due, saved, crashes, kept>>
      BY <1>1, <2>6 DEF PutFirst
    <3>. HIDE DEF f
    <3>2. iter' \in [b : PB .. PE, e : PB .. PE] /\ slipped' \in BOOLEAN
      BY <1>t, <2>1, <3>1
    <3>. QED
      BY <1>0, <2>3, <2>5, <3>1, <3>2 DEF TypeInv, TypeOK, Cells, Bytes
  <2>7. CASE Len(ps) # 1
    <3>1. /\ iter' = [iter EXCEPT !.e = f] /\ due' = ps[2] /\ pc' = "put"
          /\ UNCHANGED <<slipped, saved, crashes, kept>>
      BY <1>1, <2>7 DEF PutFirst
    <3>. HIDE DEF ps, f
    <3>2. iter' \in [b : PB .. PE, e : PB .. PE] /\ due' \in Due /\ due'.from + due'.len <= S
      BY <1>0, <2>1, <2>2, <2>7, <3>1
    <3>. QED
      BY <1>0, <2>3, <2>5, <3>1, <3>2 DEF TypeInv, TypeOK, Cells, Bytes
  <2>. QED
    BY <2>6, <2>7
<1>2. CASE PutSecond
  <2>1. mem' = WritePiece(mem, due, nrec) /\ due' = NoPiece /\ pc' = "run"
        /\ iter' = [b |-> TrimBegin(iter.b, iter.e), e |-> iter.e]
        /\ slipped' = (slipped \/ Slips(iter.b, MoveBack(iter.e, 1), iter'.b, iter.e))
        /\ UNCHANGED <<saved, batch, nrec, crashes, kept>>
    BY <1>2 DEF PutSecond, Trim
  <2>2. iter.b \in PB .. PE /\ iter.e \in PB .. PE
    BY <1>0
  <2>3. TrimBegin(iter.b, iter.e) \in PB .. PE
    BY <2>2, ForwardType DEF TrimBegin
  <2>4. iter' \in [b : PB .. PE, e : PB .. PE]
    BY <2>1, <2>2, <2>3
  <2>5. slipped' \in BOOLEAN
    BY <2>1, Zenon DEF Slips
  <2>6. due' \in Due /\ due'.from + due'.len <= S
    BY <2>1, ConstantsAre DEF NoPiece
  <2>7. mem' \in [Cells -> Bytes]
    <3>1. \A k \in 0 .. S - 1 : ByteOf(nrec, k) \in Bytes
      BY <1>0, <1>b
    <3>2. due.from \in Nat /\ due.len \in Nat /\ due.from + due.len <= S /\ due.at \in Nat
      BY <1>0, ConstantsAre
    <3>3. WritePiece(mem, due, nrec) \in [Cells -> Bytes]
      BY <1>0, <3>1, <3>2, PieceType, Zenon
    <3>. QED
      BY <2>1, <3>3
  <2>. QED
    BY <1>0, <2>1, <2>4, <2>5, <2>6, <2>7 DEF TypeInv, TypeOK, Cells, Bytes
<1>3. CASE StartSave
  BY <1>0, <1>3 DEF StartSave, TypeInv, TypeOK, Cells, Bytes
<1>4. CASE SaveBegin
  <2>1. saved' \in [b : PB .. PE, e : PB .. PE]
    BY <1>0, <1>4 DEF SaveBegin
  <2>. QED
    BY <1>0, <1>4, <2>1 DEF SaveBegin, TypeInv, TypeOK, Cells, Bytes
<1>5. CASE SaveEnd
  <2>1. saved' \in [b : PB .. PE, e : PB .. PE]
    BY <1>0, <1>5 DEF SaveEnd
  <2>. QED
    BY <1>0, <1>5, <2>1, ConstantsAre DEF SaveEnd, TypeInv, TypeOK, Cells, Bytes
<1>6. CASE Crash
  <2>1. crashes' \in 0 .. MaxCrashes
    BY <1>6, ConstantsAre DEF Crash, TypeInv, TypeOK
  <2>2. due' \in Due /\ due'.from + due'.len <= S
    BY <1>6, ConstantsAre DEF Crash, NoPiece
  <2>3. batch' \in 0 .. Batch /\ pc' = "down" /\ UNCHANGED <<mem, iter, saved, nrec, kept, slipped>>
    BY <1>6, ConstantsAre DEF Crash
  <2>. HIDE DEF Due
  <2>4. due' \in Due
    BY <2>2
  <2>. QED
    BY <1>0, <2>1, <2>2, <2>3 DEF TypeInv, TypeOK, Cells, Bytes, Due
<1>7. CASE DB_init
  BY <1>0, <1>7 DEF DB_init, TypeInv, TypeOK, Cells, Bytes
<1>8. CASE UNCHANGED vars
  BY <1>8 DEF vars, TypeInv, TypeOK
<1>. QED
  BY <1>1, <1>2, <1>3, <1>4, <1>5, <1>6, <1>7, <1>8 DEF Next

-----------------------------------------------------------------------------
(* The saved records. *)

\* A record is whole when each of its bytes is there.
LEMMA WholeIs ==
  ASSUME NEW m, NEW z, NEW r, \A k \in 0 .. S - 1 : m[At(z, k)] = ByteOf(r, k)
  PROVE  Whole(m, z, r)
<1>. SUFFICES ASSUME NEW k \in 0 .. S - 1
              PROVE  m[At(z, k)].rec = r /\ m[At(z, k)].off = k
  BY DEF Whole
<1>1. m[At(z, k)] = ByteOf(r, k)
  OBVIOUS
<1>. QED
  BY <1>1 DEF ByteOf

LEMMA WholeAt ==
  ASSUME NEW m, NEW z \in Cells, NEW r, Whole(m, z, r)
  PROVE  m[z].rec = r
<1>1. 0 \in 0 .. S - 1 /\ At(z, 0) = z
  BY AtZero, ConstantsAre
<1>. QED
  BY <1>1 DEF Whole

\* They are as before if their cells are.
LEMMA StoredFrame ==
  ASSUME Stored, saved' = saved, kept' = kept,
         \A j \in 1 .. Cap - Batch : \A k \in 0 .. S - 1 :
           mem'[At(WalkBack(saved.e, j), k)] = mem[At(WalkBack(saved.e, j), k)]
  PROVE  Stored'
<1>1. C' = C /\ C \in 0 .. Cap /\ saved.e \in Cells
  BY DEF Stored, C, Aligned
<1>2. ASSUME NEW j \in 1 .. Cap - Batch
      PROVE  /\ R(j)' = R(j)
             /\ \A r : Whole(mem, WalkBack(saved.e, j), r) => Whole(mem', WalkBack(saved.e, j), r)
  <2>. DEFINE x == WalkBack(saved.e, j)
  <2>1. x \in Cells
    <3>1. j \in 1 .. Cap
      BY ConstantsAre, CapIs
    <3>. QED
      BY <1>1, <3>1, WalkBackIs
  <2>2. \A k \in 0 .. S - 1 : mem'[At(x, k)] = mem[At(x, k)]
    OBVIOUS
  <2>3. 0 \in 0 .. S - 1 /\ At(x, 0) = x
    BY <2>1, AtZero, ConstantsAre
  <2>4. R(j)' = mem'[x].rec /\ R(j) = mem[x].rec
    BY DEF R
  <2>6. \A r : Whole(mem, x, r) => Whole(mem', x, r)
    BY <2>2 DEF Whole
  <2>. HIDE DEF x
  <2>5. R(j)' = R(j)
    BY <2>2, <2>3, <2>4
  <2>. QED
    BY <2>5, <2>6 DEF x
<1>3. ASSUME NEW j \in 1 .. C, j <= Cap - Batch
      PROVE  /\ Whole(mem', WalkBack(saved'.e, j), R(j)')
             /\ R(j)' > 0
             /\ j > 1 => R(j)' < R(j - 1)'
  <2>1. /\ Whole(mem, WalkBack(saved.e, j), R(j)) /\ R(j) > 0
        /\ j > 1 => R(j) < R(j - 1)
    BY <1>3 DEF Stored
  <2>2. j \in 1 .. Cap - Batch /\ (j > 1 => j - 1 \in 1 .. Cap - Batch)
    BY <1>1, <1>3, ConstantsAre, CapIs
  <2>3. R(j)' = R(j) /\ (j > 1 => R(j - 1)' = R(j - 1))
    BY <1>2, <2>2
  <2>4. Whole(mem', WalkBack(saved.e, j), R(j))
    BY <1>2, <2>1, <2>2
  <2>. QED
    BY <2>1, <2>3, <2>4
<1>4. C > 0 => R(1)' = kept
  <2>1. 1 \in 1 .. Cap - Batch
    BY ConstantsAre, CapIs
  <2>. QED
    BY <1>2, <2>1 DEF Stored
<1>5. Aligned(saved'.b, saved'.e, C') /\ (kept' > 0 => C' > 0)
  BY <1>1 DEF Stored
<1>. QED
  BY <1>1, <1>3, <1>4, <1>5 DEF Stored, Aligned

\* A piece of a record of the batch leaves them as they are.
LEMMA StoredKept ==
  ASSUME Stored, NEW z \in Cells, NEW n \in Nat, n < Batch, WalkBack(z, n) = saved.e,
         NEW p, Fits(z, p), NEW r, DOMAIN mem = Cells,
         mem' = WritePiece(mem, p, r), saved' = saved, kept' = kept
  PROVE  Stored'
<1>1. ASSUME NEW j \in 1 .. Cap - Batch, NEW k \in 0 .. S - 1
      PROVE  mem'[At(WalkBack(saved.e, j), k)] = mem[At(WalkBack(saved.e, j), k)]
  <2>1. j \in Nat /\ n + j \in 1 .. Cap - 1 /\ n + j <= Cap
    BY ConstantsAre, CapIs
  <2>2. WalkBack(saved.e, j) = WalkBack(z, n + j)
    BY <2>1, WalksAddUp
  <2>3. WritePiece(mem, p, r)[At(WalkBack(z, n + j), k)] = mem[At(WalkBack(z, n + j), k)]
    BY <2>1, Untouched
  <2>. QED
    BY <2>2, <2>3
<1>. QED
  BY <1>1, StoredFrame

\* So are the records of the batch before the one put.
LEMMA BatchKept ==
  ASSUME NEW z \in Cells, NEW p, Fits(z, p), NEW r, DOMAIN mem = Cells,
         mem' = WritePiece(mem, p, r), NEW j \in 1 .. Batch, NEW s, Whole(mem, WalkBack(z, j), s)
  PROVE  Whole(mem', WalkBack(z, j), s)
<1>1. j \in 1 .. Cap - 1
  BY ConstantsAre, CapIs
<1>2. \A k \in 0 .. S - 1 : mem'[At(WalkBack(z, j), k)] = mem[At(WalkBack(z, j), k)]
  BY <1>1, Untouched
<1>. QED
  BY <1>2 DEF Whole

-----------------------------------------------------------------------------
(* The actions. *)

LEMMA InvInit == Init => Inv
<1>. SUFFICES ASSUME Init PROVE Inv
  OBVIOUS
<1>1. /\ iter = [b |-> PB, e |-> PB] /\ saved = [b |-> PB, e |-> PB] /\ pc = "run"
      /\ batch = 0 /\ nrec = 0 /\ kept = 0
  BY DEF Init
<1>2. C = 0 /\ PB \in Cells /\ 0 * S = 0
  BY <1>1, ConstantsAre, CapIs, CountNone DEF C, Cells
<1>3. Gap(PB, PB) = 0 /\ AtMostCap(0) = 0 /\ WalkBack(PB, 0) = PB
  BY <1>2, ConstantsAre, CapIs, WalkIs DEF Gap, AtMostCap
<1>4. Stored
  BY <1>1, <1>2, <1>3, CapIs DEF Stored, Aligned
<1>5. Added
  BY <1>1, <1>3 DEF Added
<1>6. C + batch = 0
  BY <1>1, <1>2
<1>7. InUse
  BY <1>1, <1>2, <1>3, <1>5, <1>6 DEF InUse, Aligned
<1>. QED
  BY <1>1, <1>4, <1>7, TypeInit DEF Inv

\* What is known between two steps of a store task.
LEMMA Ranges ==
  ASSUME TypeInv
  PROVE  /\ DOMAIN mem = Cells /\ batch \in 0 .. Batch /\ nrec \in 0 .. MaxRec
         /\ kept \in 0 .. MaxRec /\ batch \in Nat /\ nrec \in Nat /\ kept \in Nat
         /\ iter = [b |-> iter.b, e |-> iter.e] /\ saved = [b |-> saved.b, e |-> saved.e]
BY ConstantsAre DEF TypeInv, TypeOK, Cells

LEMMA PutFirstInv ==
  ASSUME TypeInv, Stored, InUse, PutFirst, ~slipped'
  PROVE  Stored' /\ InUse' /\ pc' # "down"
<1>. DEFINE z == iter.e
            f == MoveForward(z, 1)
            ps == Pieces(z)
            p == ps[1]
            n == AtMostCap(C + batch)
<1>1. /\ pc = "run" /\ batch < Batch /\ nrec' = nrec + 1 /\ batch' = batch + 1
      /\ mem' = WritePiece(mem, p, nrec')
      /\ UNCHANGED <<saved, crashes, kept>>
      /\ Len(ps) = 1 => Trim(iter.b, z, f) /\ UNCHANGED <<pc, due>>
      /\ Len(ps) # 1 => iter' = [iter EXCEPT !.e = f] /\ due' = ps[2] /\ pc' = "put"
  BY DEF PutFirst
<1>2. /\ DOMAIN mem = Cells /\ batch \in Nat /\ nrec \in Nat /\ kept \in Nat
      /\ C \in 0 .. Cap /\ C' = C
  BY <1>1, Ranges DEF Stored, C
<1>3. /\ z \in Cells /\ iter.b \in Cells /\ Gap(iter.b, z) = n * S
      /\ Extent = Cap * S => iter.b = PB
      /\ n \in 0 .. Cap
      /\ WalkBack(z, batch) = saved.e /\ kept + batch <= nrec
  BY <1>1, <1>2, CapIs DEF InUse, Added, Aligned, AtMostCap
<1>4. /\ Fits(z, p) /\ p.from = 0
      /\ Len(ps) = 1 => p.len = S
      /\ Len(ps) # 1 => f \in Cells /\ Fits(z, ps[2]) /\ ps[2].from = p.len
  BY <1>3, PiecesFit
<1>. HIDE DEF p, ps, f, n
<1>5. Stored'
  BY <1>1, <1>2, <1>3, <1>4, StoredKept
\* Where the iterators are then.
<1>6. /\ iter'.e = f /\ f \in Cells
      /\ Len(ps) = 1 => Aligned(iter'.b, f, AtMostCap(C + batch'))
      /\ Len(ps) # 1 => iter'.b = iter.b
  <2>1. CASE Len(ps) = 1
    <3>1. iter' = [b |-> TrimBegin(iter.b, f), e |-> f]
          /\ ~Slips(iter.b, z, TrimBegin(iter.b, f), f)
      <4>1. Trim(iter.b, z, f)
        BY <1>1, <2>1
      <4>2. iter' = [b |-> TrimBegin(iter.b, f), e |-> f]
        BY <4>1 DEF Trim
      <4>3. ~Slips(iter.b, z, iter'.b, f)
        BY <4>1, Zenon DEF Trim
      <4>4. iter'.b = TrimBegin(iter.b, f)
        BY <4>2
      <4>. QED
        BY <4>2, <4>3, <4>4
    <3>2. /\ TrimBegin(iter.b, f) \in Cells /\ f \in Cells
          /\ Gap(TrimBegin(iter.b, f), f) = (IF n < Cap THEN n + 1 ELSE Cap) * S
          /\ n < Cap => TrimBegin(iter.b, f) = iter.b
      BY <1>3, <3>1, Advance DEF f
    <3>3. (IF n < Cap THEN n + 1 ELSE Cap) = AtMostCap(C + batch')
      BY <1>1, <1>2, CapIs DEF n, AtMostCap
    <3>4. Extent = Cap * S => n < Cap
      <4>. SUFFICES ASSUME Extent = Cap * S, n = Cap PROVE FALSE
        BY <1>3, CapIs
      <4>1. Gap(iter.b, z) = Extent
        BY <1>3
      <4>. QED
        BY <1>3, <4>1, CapIs DEF Gap, Cells
    <3>. QED
      BY <1>3, <2>1, <3>1, <3>2, <3>3, <3>4 DEF Aligned
  <2>2. CASE Len(ps) # 1
    <3>1. iter' = [b |-> iter.b, e |-> f]
      BY <1>1, <2>2, Ranges
    <3>. QED
      BY <1>4, <2>2, <3>1
  <2>. QED
    BY <2>1, <2>2
<1>7. WalkBack(f, 1) = z /\ \A j \in 1 .. Cap - 1 : WalkBack(f, j + 1) = WalkBack(z, j)
  BY <1>3, <1>6, Forth DEF f
<1>8. Added'
  <2>1. WalkBack(f, batch + 1) = saved.e
    <3>1. CASE batch = 0
      <4>1. WalkBack(z, 0) = z
        BY <1>3, WalksAddUp, CapIs
      <4>. QED
        BY <1>3, <1>7, <3>1, <4>1
    <3>2. CASE batch > 0
      <4>1. batch \in 1 .. Cap - 1
        BY <1>1, <1>2, <3>2, ConstantsAre, CapIs
      <4>. QED
        BY <1>3, <1>7, <4>1
    <3>. QED
      BY <1>2, <3>1, <3>2
  <2>2. ASSUME NEW j \in 1 .. batch', pc' = "put" => j > 1
        PROVE  Whole(mem', WalkBack(f, j), nrec' - j + 1)
    <3>1. CASE j = 1
      <4>1. Len(ps) = 1
        BY <1>1, <2>2, <3>1
      <4>2. \A k \in 0 .. S - 1 : mem'[At(z, k)] = ByteOf(nrec', k)
        BY <1>1, <1>2, <1>3, <1>4, <4>1, PieceCells, ConstantsAre
      <4>3. WalkBack(f, j) = z /\ nrec' - j + 1 = nrec'
        BY <1>1, <1>2, <1>7, <3>1
      <4>4. Whole(mem', z, nrec')
        BY <4>2, WholeIs
      <4>. QED
        BY <4>3, <4>4
    <3>2. CASE j > 1
      <4>. DEFINE h == j - 1
      <4>1. h \in 1 .. batch /\ h \in 1 .. Batch /\ h \in 1 .. Cap - 1 /\ j = h + 1
            /\ nrec' - j + 1 = nrec - h + 1
        BY <1>1, <1>2, <3>2, ConstantsAre, CapIs
      <4>. HIDE DEF h
      <4>2. Whole(mem, WalkBack(z, h), nrec - h + 1)
        BY <1>1, <4>1 DEF InUse, Added
      <4>3. Whole(mem', WalkBack(z, h), nrec - h + 1)
        BY <1>1, <1>2, <1>3, <1>4, <4>1, <4>2, BatchKept
      <4>4. WalkBack(f, j) = WalkBack(z, h)
        BY <1>7, <4>1
      <4>. QED
        BY <4>1, <4>3, <4>4
    <3>. QED
      BY <1>1, <1>2, <3>1, <3>2
  <2>. QED
    BY <1>1, <1>2, <1>3, <1>6, <2>1, <2>2 DEF Added
<1>9. CASE Len(ps) = 1
  <2>1. pc' = "run"
    BY <1>1, <1>9
  <2>2. Aligned(iter'.b, iter'.e, AtMostCap(C' + batch'))
    BY <1>2, <1>6, <1>9
  <2>. QED
    BY <1>5, <1>8, <2>1, <2>2 DEF InUse, Aligned, AtMostCap
<1>10. CASE Len(ps) # 1
  <2>1. pc' = "put" /\ due' = ps[2] /\ iter'.b = iter.b
    BY <1>1, <1>6, <1>10
  <2>2. Aligned(iter'.b, z, AtMostCap(C' + batch' - 1))
    <3>1. C' + batch' - 1 = C + batch
      BY <1>1, <1>2
    <3>. QED
      BY <1>3, <2>1, <3>1 DEF Aligned, n
  <2>3. \A k \in 0 .. S - 1 : k < due'.from => mem'[At(z, k)] = ByteOf(nrec', k)
    <3>1. due'.from = p.len /\ p.from = 0 /\ p.len \in Nat
      BY <1>4, <1>10, <2>1 DEF Fits
    <3>. QED
      BY <1>1, <1>2, <1>3, <1>4, <3>1, PieceCells
  <2>4. Half'
    BY <1>1, <1>2, <1>6, <1>7, <1>10, <2>1, <2>2, <2>3 DEF Half, ps, f, Aligned, AtMostCap
  <2>. QED
    BY <1>5, <1>8, <2>1, <2>4 DEF InUse
<1>. QED
  BY <1>9, <1>10

LEMMA PutSecondInv ==
  ASSUME TypeInv, Stored, InUse, PutSecond, ~slipped'
  PROVE  Stored' /\ InUse' /\ pc' = "run"
<1>. DEFINE e == iter.e
            z == WalkBack(e, 1)
            n == AtMostCap(C + batch - 1)
<1>1. /\ pc = "put" /\ mem' = WritePiece(mem, due, nrec) /\ Trim(iter.b, MoveBack(e, 1), e)
      /\ pc' = "run" /\ UNCHANGED <<saved, batch, nrec, crashes, kept>>
  BY DEF PutSecond
<1>2. /\ DOMAIN mem = Cells /\ batch \in Nat /\ batch <= Batch /\ nrec \in Nat /\ kept \in Nat
      /\ C \in 0 .. Cap /\ C' = C
  <2>1. DOMAIN mem = Cells /\ batch \in 0 .. Batch /\ batch \in Nat /\ nrec \in Nat /\ kept \in Nat
    BY Ranges
  <2>2. C \in 0 .. Cap /\ C' = C
    BY <1>1 DEF Stored, C
  <2>. QED
    BY <2>1, <2>2, ConstantsAre
<1>3. /\ batch > 0 /\ e \in Cells /\ iter.b \in Cells /\ Gap(iter.b, z) = n * S
      /\ Extent = Cap * S => iter.b = PB
      /\ z \in Cells /\ e = MoveForward(z, 1)
      /\ Len(Pieces(z)) # 1 /\ due = Pieces(z)[2]
      /\ \A k \in 0 .. S - 1 : k < due.from => mem[At(z, k)] = ByteOf(nrec, k)
  BY <1>1 DEF InUse, Half, Aligned
<1>4. Added
  BY DEF InUse
<1>5. Fits(z, due) /\ due.from + due.len = S /\ due.from \in Nat
  <2>1. Fits(z, due) /\ due.from + due.len = S
    BY <1>3, PiecesFit
  <2>. QED
    BY <2>1 DEF Fits
<1>6. n \in 0 .. Cap
  BY <1>2, <1>3, CapIs DEF AtMostCap
<1>. DEFINE i == batch - 1
<1>7. i \in Nat /\ i < Batch /\ batch = i + 1 /\ batch <= Cap
  BY <1>2, <1>3, ConstantsAre, CapIs
<1>. HIDE DEF n, i
<1>8. \A j \in 0 .. i : WalkBack(z, j) = WalkBack(e, 1 + j)
  <2>. SUFFICES ASSUME NEW j \in 0 .. i PROVE WalkBack(z, j) = WalkBack(e, 1 + j)
    OBVIOUS
  <2>1. j \in Nat /\ 1 \in Nat /\ 1 + j <= Cap
    BY <1>7, CapIs
  <2>. QED
    BY <1>3, <2>1, WalksAddUp
<1>9. WalkBack(z, i) = saved.e
  BY <1>4, <1>7, <1>8 DEF Added
<1>. HIDE DEF z
<1>10. Stored'
  BY <1>1, <1>2, <1>3, <1>5, <1>7, <1>9, StoredKept
<1>11. Whole(mem', z, nrec)
  <2>1. ASSUME NEW k \in 0 .. S - 1
        PROVE  mem'[At(z, k)] = ByteOf(nrec, k)
    <3>1. CASE k < due.from
      <4>1. At(z, k) \in Cells
        BY <1>3, ReadAddrIs
      <4>2. \A h \in 0 .. S - 1 : due.from <= h /\ h < due.from + due.len => At(z, k) # At(z, h)
        <5>. SUFFICES ASSUME NEW h \in 0 .. S - 1, due.from <= h PROVE At(z, k) # At(z, h)
          OBVIOUS
        <5>1. k # h
          BY <1>5, <3>1
        <5>. QED
          BY <1>3, <5>1, OwnCells
      <4>3. mem'[At(z, k)] = mem[At(z, k)]
        BY <1>1, <1>2, <1>3, <1>5, <4>1, <4>2, PieceCells
      <4>. QED
        BY <1>3, <3>1, <4>3
    <3>2. CASE ~(k < due.from)
      <4>1. due.from <= k /\ k < due.from + due.len
        BY <1>5, <3>2, ConstantsAre
      <4>. QED
        BY <1>1, <1>2, <1>3, <1>5, <4>1, PieceCells
    <3>. QED
      BY <3>1, <3>2
  <2>. QED
    BY <2>1, WholeIs
<1>12. /\ iter' = [b |-> TrimBegin(iter.b, e), e |-> e]
       /\ iter'.b = TrimBegin(iter.b, e) /\ iter'.e = e
       /\ ~Slips(iter.b, z, TrimBegin(iter.b, e), e)
  <2>1. iter' = [b |-> TrimBegin(iter.b, e), e |-> e]
    BY <1>1 DEF Trim
  <2>2. ~Slips(iter.b, MoveBack(e, 1), iter'.b, e)
    BY <1>1, Zenon DEF Trim
  <2>3. iter'.b = TrimBegin(iter.b, e) /\ iter'.e = e
    BY <2>1
  <2>4. MoveBack(e, 1) = z
    BY <1>3, MoveBackIs DEF z
  <2>. QED
    BY <2>1, <2>2, <2>3, <2>4
<1>13. Aligned(iter'.b, iter'.e, AtMostCap(C + batch))
  <2>1. /\ TrimBegin(iter.b, e) \in Cells /\ e \in Cells
        /\ Gap(TrimBegin(iter.b, e), e) = (IF n < Cap THEN n + 1 ELSE Cap) * S
        /\ n < Cap => TrimBegin(iter.b, e) = iter.b
    BY <1>3, <1>6, <1>12, Advance
  <2>2. (IF n < Cap THEN n + 1 ELSE Cap) = AtMostCap(C + batch)
    BY <1>2, <1>3, CapIs DEF n, AtMostCap
  <2>3. Extent = Cap * S => n < Cap
    <3>. SUFFICES ASSUME Extent = Cap * S, n = Cap PROVE FALSE
      BY <1>6, CapIs
    <3>1. Gap(iter.b, z) = Extent
      BY <1>3
    <3>. QED
      BY <1>3, <3>1, CapIs DEF Gap, Cells
  <2>. QED
    BY <1>3, <1>12, <2>1, <2>2, <2>3 DEF Aligned
<1>14. ASSUME NEW j \in 1 .. batch
       PROVE  Whole(mem', WalkBack(e, j), nrec - j + 1)
  <2>1. CASE j = 1
    <3>1. WalkBack(e, j) = z /\ nrec - j + 1 = nrec
      BY <1>2, <2>1 DEF z
    <3>. QED
      BY <1>11, <3>1
  <2>2. CASE j > 1
    <3>. DEFINE h == j - 1
    <3>1. h \in 0 .. i /\ h \in 1 .. Batch /\ 1 + h = j
      BY <1>2, <1>7, <2>2, ConstantsAre
    <3>2. WalkBack(e, j) = WalkBack(z, h)
      BY <1>8, <3>1
    <3>. HIDE DEF h
    <3>3. Whole(mem, WalkBack(e, j), nrec - j + 1)
      BY <1>4, <2>2 DEF Added
    <3>4. Whole(mem, WalkBack(z, h), nrec - j + 1)
      BY <3>2, <3>3
    <3>5. Whole(mem', WalkBack(z, h), nrec - j + 1)
      BY <1>1, <1>2, <1>3, <1>5, <3>1, <3>4, BatchKept
    <3>. QED
      BY <3>2, <3>5
  <2>. QED
    BY <1>2, <2>1, <2>2
<1>15. Added'
  <2>1. WalkBack(e, batch) = saved.e /\ kept + batch <= nrec
    BY <1>4 DEF Added
  <2>. QED
    BY <1>1, <1>12, <1>14, <2>1 DEF Added
<1>16. Aligned(iter'.b, iter'.e, AtMostCap(C' + batch'))
  BY <1>1, <1>2, <1>13
<1>. QED
  BY <1>1, <1>10, <1>15, <1>16 DEF InUse, Aligned, AtMostCap

LEMMA StartSaveInv ==
  ASSUME Stored, InUse, StartSave
  PROVE  Stored' /\ InUse' /\ pc' = "saveB"
<1>1. /\ pc = "run" /\ batch > 0 /\ pc' = "saveB"
      /\ mem' = mem /\ iter' = iter /\ saved' = saved /\ batch' = batch
      /\ nrec' = nrec /\ kept' = kept
  BY DEF StartSave
<1>2. C' = C
  BY <1>1 DEF C
<1>3. Stored'
  BY <1>1, StoredFrame
<1>4. Added'
  BY <1>1 DEF InUse, Added
<1>5. Aligned(iter'.b, iter'.e, AtMostCap(C' + batch'))
  BY <1>1, <1>2 DEF InUse
<1>. QED
  BY <1>1, <1>3, <1>4, <1>5 DEF InUse, Aligned, AtMostCap

\* Between two puts the iterators are G records apart, the batch among them.
LEMMA Apartness ==
  ASSUME TypeInv, Stored, InUse, pc # "put"
  PROVE  LET G == AtMostCap(C + batch)
         IN /\ C \in Nat /\ C <= Cap /\ batch \in Nat /\ batch <= Batch
            /\ G \in 0 .. Cap /\ batch <= G /\ G <= C + batch
            /\ G < C + batch => G = Cap
            /\ Aligned(iter.b, iter.e, G) /\ Count(iter.b, iter.e) = G
            /\ Aligned(iter.b, saved.e, G - batch) /\ Count(iter.b, saved.e) = G - batch
<1>. DEFINE G == AtMostCap(C + batch)
<1>1. C \in Nat /\ C <= Cap /\ batch \in Nat /\ batch <= Batch
  <2>1. batch \in 0 .. Batch
    BY Ranges
  <2>2. C \in 0 .. Cap
    BY DEF Stored
  <2>. QED
    BY <2>1, <2>2, ConstantsAre, CapIs
<1>2. G \in 0 .. Cap /\ batch <= G /\ G <= C + batch /\ (G < C + batch => G = Cap)
      /\ batch \in 0 .. G /\ G \in Nat /\ G - batch \in Nat
  BY <1>1, ConstantsAre, CapIs DEF AtMostCap
<1>3. Aligned(iter.b, iter.e, G)
  BY DEF InUse
<1>4. saved.e \in Cells /\ WalkBack(iter.e, batch) = saved.e
  BY DEF Stored, Aligned, InUse, Added
<1>. HIDE DEF G
<1>5. /\ iter.b \in Cells /\ iter.e \in Cells /\ Gap(iter.b, iter.e) = G * S
      /\ Extent = Cap * S => iter.b = PB
  BY <1>3 DEF Aligned
<1>6. Count(iter.b, iter.e) = G
  BY <1>2, <1>5, CountOf
<1>7. Gap(iter.b, saved.e) = (G - batch) * S
  BY <1>2, <1>4, <1>5, GapBack
<1>8. Count(iter.b, saved.e) = G - batch
  BY <1>2, <1>4, <1>5, <1>7, CountOf
<1>9. Aligned(iter.b, saved.e, G - batch)
  BY <1>4, <1>5, <1>7 DEF Aligned
<1>. QED
  BY <1>1, <1>2, <1>3, <1>6, <1>8, <1>9 DEF G

LEMMA SaveBeginInv ==
  ASSUME TypeInv, Stored, InUse, SaveBegin
  PROVE  Stored' /\ InUse' /\ pc' = "saveE"
<1>. DEFINE G == AtMostCap(C + batch)
<1>1. /\ pc = "saveB" /\ pc' = "saveE" /\ saved' = [saved EXCEPT !.b = iter.b]
      /\ mem' = mem /\ iter' = iter /\ batch' = batch /\ nrec' = nrec /\ kept' = kept
  BY DEF SaveBegin
<1>2. saved'.b = iter.b /\ saved'.e = saved.e
  <2>1. saved = [b |-> saved.b, e |-> saved.e]
    BY Ranges
  <2>. QED
    BY <1>1, <2>1
<1>3. /\ C \in Nat /\ C <= Cap /\ batch \in Nat /\ batch <= Batch
      /\ G \in 0 .. Cap /\ batch <= G /\ G <= C + batch
      /\ G < C + batch => G = Cap
      /\ Aligned(iter.b, iter.e, G)
      /\ Aligned(iter.b, saved.e, G - batch) /\ Count(iter.b, saved.e) = G - batch
  BY <1>1, Apartness
<1>. HIDE DEF G
<1>4. C' = G - batch
  BY <1>2, <1>3 DEF C
<1>5. C' \in 0 .. Cap /\ C' <= C /\ (C > 0 => C' > 0)
  BY <1>3, <1>4, ConstantsAre, CapIs
<1>6. Aligned(saved'.b, saved'.e, C')
  BY <1>2, <1>3, <1>4
<1>7. \A j : R(j)' = R(j)
  BY <1>1, <1>2 DEF R
<1>8. Stored'
  <2>1. kept' > 0 => C' > 0
    BY <1>1, <1>5 DEF Stored
  <2>2. C' > 0 => R(1)' = kept'
    BY <1>1, <1>3, <1>5, <1>7, CapIs DEF Stored
  <2>3. ASSUME NEW j \in 1 .. C', j <= Cap - Batch
        PROVE  /\ Whole(mem', WalkBack(saved'.e, j), R(j)')
               /\ R(j)' > 0
               /\ j > 1 => R(j)' < R(j - 1)'
    <3>1. j \in 1 .. C
      BY <1>3, <1>5, CapIs
    <3>2. /\ Whole(mem, WalkBack(saved.e, j), R(j)) /\ R(j) > 0
          /\ j > 1 => R(j) < R(j - 1)
      BY <2>3, <3>1 DEF Stored
    <3>. QED
      BY <1>1, <1>2, <1>7, <3>2
  <2>. QED
    BY <1>5, <1>6, <2>1, <2>2, <2>3 DEF Stored, Aligned
<1>9. Added'
  BY <1>1, <1>2 DEF InUse, Added
<1>10. AtMostCap(C' + batch') = G
  BY <1>1, <1>3, <1>4, CapIs DEF AtMostCap
<1>11. Aligned(iter'.b, iter'.e, AtMostCap(C' + batch'))
  BY <1>1, <1>3, <1>10
<1>12. batch' > 0 /\ iter'.b = saved'.b
  BY <1>1, <1>2 DEF InUse
<1>. QED
  BY <1>1, <1>8, <1>9, <1>11, <1>12 DEF InUse, Aligned, AtMostCap

LEMMA SaveEndInv ==
  ASSUME TypeInv, Stored, InUse, SaveEnd
  PROVE  Stored' /\ InUse' /\ pc' = "run"
<1>. DEFINE G == AtMostCap(C + batch)
            e == iter.e
<1>1. /\ pc = "saveE" /\ pc' = "run" /\ saved' = [saved EXCEPT !.e = iter.e]
      /\ mem' = mem /\ iter' = iter /\ batch' = 0 /\ nrec' = nrec /\ kept' = nrec
  BY DEF SaveEnd
<1>2. saved'.b = iter.b /\ saved'.e = e
  <2>1. saved = [b |-> saved.b, e |-> saved.e]
    BY Ranges
  <2>2. iter.b = saved.b
    BY <1>1 DEF InUse
  <2>. QED
    BY <1>1, <2>1, <2>2
<1>3. /\ C \in Nat /\ C <= Cap /\ batch \in Nat /\ batch <= Batch
      /\ G \in 0 .. Cap /\ batch <= G /\ G <= C + batch
      /\ G < C + batch => G = Cap
      /\ Aligned(iter.b, e, G) /\ Count(iter.b, e) = G
  BY <1>1, Apartness
<1>4. batch > 0 /\ nrec \in Nat /\ kept \in Nat /\ kept + batch <= nrec
      /\ WalkBack(e, batch) = saved.e /\ e \in Cells /\ saved.e \in Cells
  <2>1. nrec \in Nat /\ kept \in Nat
    BY Ranges
  <2>. QED
    BY <1>1, <1>3, <2>1 DEF InUse, Added, Aligned, Stored
<1>. HIDE DEF G
<1>5. C' = G
  BY <1>2, <1>3 DEF C
<1>6. ASSUME NEW j \in 1 .. batch
      PROVE  Whole(mem', WalkBack(e, j), nrec - j + 1) /\ R(j)' = nrec - j + 1
  <2>1. Whole(mem, WalkBack(e, j), nrec - j + 1)
    BY <1>1 DEF InUse, Added
  <2>2. WalkBack(e, j) \in Cells
    <3>1. j \in 1 .. Cap
      BY <1>3, ConstantsAre, CapIs
    <3>. QED
      BY <1>4, <3>1, WalkBackIs
  <2>3. mem[WalkBack(e, j)].rec = nrec - j + 1
    BY <2>1, <2>2, WholeAt
  <2>4. R(j)' = mem[WalkBack(e, j)].rec
    BY <1>1, <1>2 DEF R
  <2>. QED
    BY <1>1, <2>1, <2>3, <2>4
<1>7. \A j \in 1 .. Cap : \A h \in 1 .. C :
        j = batch + h => WalkBack(e, j) = WalkBack(saved.e, h) /\ R(j)' = R(h)
  <2>. SUFFICES ASSUME NEW j \in 1 .. Cap, NEW h \in 1 .. C, j = batch + h
                PROVE  WalkBack(e, j) = WalkBack(saved.e, h) /\ R(j)' = R(h)
    OBVIOUS
  <2>1. h \in Nat /\ batch + h <= Cap
    BY <1>3, CapIs
  <2>2. WalkBack(e, j) = WalkBack(saved.e, h)
    BY <1>3, <1>4, <2>1, WalksAddUp
  <2>3. R(j)' = mem[WalkBack(e, j)].rec
    BY <1>1, <1>2 DEF R
  <2>. QED
    BY <2>2, <2>3 DEF R
<1>8. Stored'
  <2>1. C' \in 0 .. Cap /\ C' > 0
    BY <1>3, <1>4, <1>5, CapIs
  <2>2. R(1)' = kept'
    <3>1. 1 \in 1 .. batch
      BY <1>3, <1>4
    <3>2. R(1)' = nrec - 1 + 1
      BY <1>6, <3>1
    <3>. QED
      BY <1>1, <1>4, <3>2
  <2>3. ASSUME NEW j \in 1 .. C', j <= Cap - Batch
        PROVE  /\ Whole(mem', WalkBack(saved'.e, j), R(j)')
               /\ R(j)' > 0
               /\ j > 1 => R(j)' < R(j - 1)'
    <3>1. CASE j <= batch
      <4>1. j \in 1 .. batch /\ (j > 1 => j - 1 \in 1 .. batch)
        BY <1>3, <1>5, <3>1
      <4>2. Whole(mem', WalkBack(e, j), nrec - j + 1) /\ R(j)' = nrec - j + 1
        BY <1>6, <4>1
      <4>3. j > 1 => R(j - 1)' = nrec - (j - 1) + 1
        BY <1>6, <4>1
      <4>4. nrec - j + 1 > 0 /\ (j > 1 => nrec - j + 1 < nrec - (j - 1) + 1)
        BY <1>3, <1>4, <4>1
      <4>. QED
        BY <1>2, <4>2, <4>3, <4>4
    <3>2. CASE j > batch
      <4>. DEFINE h == j - batch
      <4>1. /\ h \in 1 .. C /\ h <= Cap - Batch /\ j \in 1 .. Cap /\ j = batch + h
            /\ h > 1 => h - 1 \in 1 .. C /\ j - 1 \in 1 .. Cap /\ j - 1 = batch + (h - 1)
        BY <1>3, <1>5, <2>3, <3>2, ConstantsAre, CapIs
      <4>. HIDE DEF h
      <4>2. WalkBack(e, j) = WalkBack(saved.e, h) /\ R(j)' = R(h)
        BY <1>7, <4>1
      <4>3. Whole(mem, WalkBack(saved.e, h), R(h)) /\ R(h) > 0 /\ (h > 1 => R(h) < R(h - 1))
        BY <4>1 DEF Stored
      <4>4. CASE h > 1
        <5>1. R(j - 1)' = R(h - 1)
          BY <1>7, <4>1, <4>4
        <5>. QED
          BY <1>1, <1>2, <4>2, <4>3, <4>4, <5>1
      <4>5. CASE ~(h > 1)
        <5>1. h = 1 /\ j - 1 = batch /\ batch \in 1 .. batch /\ C > 0
          BY <1>3, <1>4, <4>1, <4>5
        <5>2. R(h) = kept
          BY <5>1 DEF Stored
        <5>3. R(j - 1)' = nrec - batch + 1
          BY <1>6, <5>1
        <5>4. kept < nrec - batch + 1
          BY <1>3, <1>4
        <5>. QED
          BY <1>1, <1>2, <4>2, <4>3, <5>2, <5>3, <5>4
      <4>. QED
        BY <4>4, <4>5
    <3>. QED
      BY <1>3, <1>5, <3>1, <3>2
  <2>4. Aligned(saved'.b, saved'.e, C')
    BY <1>2, <1>3, <1>5
  <2>. QED
    BY <2>1, <2>2, <2>3, <2>4 DEF Stored, Aligned
<1>9. Added'
  <2>1. WalkBack(e, 0) = e
    BY <1>4, WalksAddUp, CapIs
  <2>2. kept' + batch' <= nrec'
    BY <1>1, <1>4
  <2>. QED
    BY <1>1, <1>2, <2>1, <2>2 DEF Added
<1>10. Aligned(iter'.b, iter'.e, AtMostCap(C' + batch'))
  <2>1. AtMostCap(C' + batch') = G
    BY <1>1, <1>3, <1>5, CapIs DEF AtMostCap
  <2>. QED
    BY <1>1, <1>3, <2>1
<1>. QED
  BY <1>1, <1>8, <1>9, <1>10 DEF InUse, Aligned, AtMostCap

LEMMA RestartInv ==
  ASSUME TypeInv, Stored, Down, DB_init
  PROVE  Stored' /\ InUse' /\ pc' = "run"
<1>1. /\ pc' = "run" /\ iter' = saved /\ saved' = saved /\ mem' = mem /\ batch' = batch
      /\ nrec' = nrec /\ kept' = kept
  BY DEF DB_init
<1>2. batch = 0 /\ kept <= nrec /\ kept \in Nat /\ nrec \in Nat
  <2>1. kept \in Nat /\ nrec \in Nat
    BY Ranges
  <2>. QED
    BY <2>1 DEF Down
<1>3. C' = C /\ C \in 0 .. Cap /\ Aligned(saved.b, saved.e, C) /\ saved.e \in Cells
  BY <1>1 DEF C, Stored, Aligned
<1>4. Stored'
  BY <1>1, StoredFrame
<1>5. Added'
  <2>1. WalkBack(saved.e, 0) = saved.e
    BY <1>3, WalksAddUp, CapIs
  <2>2. kept' + batch' <= nrec'
    BY <1>1, <1>2
  <2>3. \A j \in 1 .. batch' : FALSE
    BY <1>1, <1>2
  <2>. QED
    BY <1>1, <1>2, <2>1, <2>2, <2>3 DEF Added
<1>6. AtMostCap(C' + batch') = C
  BY <1>1, <1>2, <1>3, CapIs DEF AtMostCap
<1>7. Aligned(iter'.b, iter'.e, AtMostCap(C' + batch'))
  BY <1>1, <1>3, <1>6
<1>. QED
  BY <1>1, <1>4, <1>5, <1>7 DEF InUse, Aligned, AtMostCap

LEMMA InvNext == Inv /\ [Next]_vars => Inv'
<1>. SUFFICES ASSUME Inv, [Next]_vars, ~slipped'
              PROVE  Stored' /\ (pc' = "down" => Down') /\ (pc' # "down" => InUse')
  BY TypeNext DEF Inv
<1>1. TypeInv
  BY DEF Inv
<1>2. ~slipped
  <2>1. CASE PutFirst
    BY <2>1, Zenon DEF PutFirst, Trim
  <2>2. CASE PutSecond
    BY <2>2, Zenon DEF PutSecond, Trim
  <2>3. CASE StartSave \/ SaveBegin \/ SaveEnd \/ Crash \/ DB_init \/ UNCHANGED vars
    <3>1. slipped' = slipped
      BY <2>3, Zenon DEF StartSave, SaveBegin, SaveEnd, Crash, DB_init, vars
    <3>. QED
      BY <3>1, Zenon
  <2>. QED
    BY <2>1, <2>2, <2>3 DEF Next
<1>3. Stored /\ (pc = "down" => Down) /\ (pc # "down" => InUse)
  BY <1>2 DEF Inv
<1>4. CASE PutFirst
  BY <1>1, <1>3, <1>4, PutFirstInv DEF PutFirst
<1>5. CASE PutSecond
  BY <1>1, <1>3, <1>5, PutSecondInv DEF PutSecond
<1>6. CASE StartSave
  BY <1>3, <1>6, StartSaveInv DEF StartSave
<1>7. CASE SaveBegin
  BY <1>1, <1>3, <1>7, SaveBeginInv DEF SaveBegin
<1>8. CASE SaveEnd
  BY <1>1, <1>3, <1>8, SaveEndInv DEF SaveEnd
<1>9. CASE Crash
  <2>1. /\ pc # "down" /\ pc' = "down" /\ batch' = 0
        /\ mem' = mem /\ saved' = saved /\ nrec' = nrec /\ kept' = kept
    BY <1>9 DEF Crash
  <2>2. Stored'
    BY <1>3, <2>1, StoredFrame
  <2>3. kept <= nrec
    <3>1. kept + batch <= nrec
      BY <1>3, <2>1 DEF InUse, Added
    <3>2. kept \in Nat /\ batch \in Nat /\ nrec \in Nat
      BY <1>1, Ranges
    <3>. QED
      BY <3>1, <3>2
  <2>. QED
    BY <2>1, <2>2, <2>3 DEF Down
<1>10. CASE DB_init
  BY <1>1, <1>3, <1>10, RestartInv DEF DB_init
<1>11. CASE UNCHANGED vars
  <2>1. /\ mem' = mem /\ iter' = iter /\ saved' = saved /\ pc' = pc /\ due' = due
        /\ batch' = batch /\ nrec' = nrec /\ kept' = kept
    BY <1>11 DEF vars
  <2>2. Stored'
    BY <1>3, <2>1, StoredFrame
  <2>3. Down => Down'
    BY <2>1 DEF Down
  <2>4. Added => Added'
    BY <2>1 DEF Added
  <2>5. C' = C
    BY <2>1 DEF C
  <2>6. Half => Half'
    BY <2>1, <2>5 DEF Half
  <2>7. InUse => InUse'
    <3>1. Aligned(iter.b, iter.e, AtMostCap(C + batch))
            => Aligned(iter'.b, iter'.e, AtMostCap(C' + batch'))
      BY <2>1, <2>5
    <3>. QED
      BY <2>1, <2>4, <2>6, <3>1 DEF InUse, Aligned, AtMostCap
  <2>. QED
    BY <1>3, <2>1, <2>2, <2>3, <2>7
<1>. QED
  BY <1>4, <1>5, <1>6, <1>7, <1>8, <1>9, <1>10, <1>11 DEF Next

LEMMA Invariance == Spec => []Inv
BY InvInit, InvNext, PTL DEF Spec

\* What a restart reads.
LEMMA RecoveredIs ==
  ASSUME TypeInv, Stored
  PROVE  /\ Len(Recovered) = C /\ C \in 0 .. Cap
         /\ \A n \in 1 .. C : C - n + 1 <= Cap - Batch => Recovered[n].rec = R(C - n + 1)
<1>1. Recovered = [n \in 1 .. C |-> RecordAt(mem, WalkBack(saved.e, C - n + 1))]
  BY DEF Recovered, Window, Slot, C
<1>2. C \in 0 .. Cap /\ saved.e \in Cells
  BY DEF Stored, Aligned
<1>. HIDE DEF C
<1>3. Len(Recovered) = C
  BY <1>1, <1>2, CapIs
<1>4. ASSUME NEW n \in 1 .. C, C - n + 1 <= Cap - Batch
      PROVE  Recovered[n].rec = R(C - n + 1)
  <2>. DEFINE j == C - n + 1
              x == WalkBack(saved.e, j)
  <2>1. j \in 1 .. C /\ j \in 1 .. Cap /\ j <= Cap - Batch
    BY <1>2, <1>4, CapIs
  <2>2. Whole(mem, x, R(j))
    BY <2>1 DEF Stored
  <2>3. x \in Cells
    BY <1>2, <2>1, WalkBackIs
  <2>4. R(j) = mem[x].rec
    BY DEF R
  <2>5. Recovered[n] = RecordAt(mem, x)
    BY <1>1
  <2>. HIDE DEF x, j
  <2>6. \A k \in 0 .. S - 1 : mem[ReadAddr(x, k)].rec = mem[x].rec /\ mem[ReadAddr(x, k)].off = k
    <3>1. \A k \in 0 .. S - 1 : ReadAddr(x, k) = At(x, k)
      BY <2>3, ReadAddrIs
    <3>. QED
      BY <2>2, <2>4, <3>1 DEF Whole
  <2>7. RecordAt(mem, x).rec = mem[x].rec
    BY <2>6 DEF RecordAt
  <2>. QED
    BY <2>4, <2>5, <2>7 DEF j
<1>. QED
  BY <1>2, <1>3, <1>4

-----------------------------------------------------------------------------
(* The theorems. *)

(***************************************************************************)
(* The partition holds bytes of records, with offsets inside a record, and *)
(* neither the iterators in use nor the saved ones leave [PB, PE], wherever *)
(* the store task is cut and restarted (DB.c:367-475).                     *)
(***************************************************************************)
THEOREM TypeCorrect == Spec => []TypeOK
<1>1. Inv => TypeOK
  BY DEF Inv, TypeInv
<1>. QED
  BY <1>1, Invariance, PTL

(***************************************************************************)
(* Wherever a reset cuts the store task (datalogger.c:2703-2815) between   *)
(* two block writes, DB_init finds records that are whole and in the order *)
(* they were taken, but for as many of the oldest as a batch has: until an *)
(* append lets an iterator slip (DB.c:462-475).                            *)
(***************************************************************************)
THEOREM SpoilsAtMostABatch == Spec => []CrashSpoilsAtMostABatch
<1>1. Inv => CrashSpoilsAtMostABatch
  <2>. SUFFICES ASSUME TypeInv, Stored, NEW n \in Batch + 1 .. Len(Recovered)
                PROVE  /\ Recovered[n].rec # 0
                       /\ n > Batch + 1 => Recovered[n - 1].rec < Recovered[n].rec
    BY DEF Inv, CrashSpoilsAtMostABatch
  <2>. DEFINE j == C - n + 1
  <2>1. Len(Recovered) = C /\ C \in 0 .. Cap
    BY RecoveredIs
  <2>2. /\ n \in 1 .. C /\ j \in 1 .. C /\ j <= Cap - Batch
        /\ n > Batch + 1 => /\ n - 1 \in 1 .. C /\ j + 1 \in 1 .. C /\ j + 1 <= Cap - Batch
                            /\ C - (n - 1) + 1 = j + 1 /\ j + 1 > 1 /\ (j + 1) - 1 = j
    BY <2>1, ConstantsAre, CapIs
  <2>3. Recovered[n].rec = R(j)
    BY <2>2, RecoveredIs
  <2>4. n > Batch + 1 => Recovered[n - 1].rec = R(j + 1)
    <3>1. n > Batch + 1 => Recovered[n - 1].rec = R(C - (n - 1) + 1)
      BY <2>2, RecoveredIs
    <3>. QED
      BY <2>2, <3>1
  <2>. HIDE DEF j
  <2>5. R(j) > 0
    BY <2>2 DEF Stored
  <2>6. n > Batch + 1 => R(j + 1) < R(j)
    <3>1. n > Batch + 1 => R(j + 1) < R((j + 1) - 1)
      BY <2>2 DEF Stored
    <3>. QED
      BY <2>2, <3>1
  <2>7. Recovered[n].rec # 0
    <3>1. R(j) # 0
      BY <2>5
    <3>. QED
      BY <2>3, <3>1
  <2>. QED
    BY <2>3, <2>4, <2>6, <2>7
<1>. QED
  BY <1>1, Invariance, PTL

(***************************************************************************)
(* A record is not lost any more once DB_iterator_write_to_eeprom has      *)
(* ended (datalogger.c:2703-2815, DB.c): the newest record a restart reads *)
(* is the last one appended before that, although later records of a store *)
(* task that never got as far may be in the partition.                     *)
(***************************************************************************)
THEOREM DurableOnceSaved == Spec => []SavedRecordsAreDurable
<1>1. Inv => SavedRecordsAreDurable
  <2>. SUFFICES ASSUME TypeInv, Stored, kept > 0
                PROVE  Recovered # << >> /\ Recovered[Len(Recovered)].rec = kept
    BY DEF Inv, SavedRecordsAreDurable
  <2>1. Len(Recovered) = C /\ C \in 0 .. Cap
    BY RecoveredIs
  <2>2. C > 0 /\ R(1) = kept
    BY DEF Stored
  <2>3. C \in 1 .. C /\ C - C + 1 = 1 /\ 1 <= Cap - Batch
    BY <2>1, <2>2, ConstantsAre, CapIs
  <2>4. Recovered[C].rec = R(C - C + 1)
    BY <2>3, RecoveredIs
  <2>5. Recovered[C].rec = kept
    BY <2>2, <2>3, <2>4
  <2>6. Recovered # << >>
    BY <2>1, <2>2
  <2>. QED
    BY <2>1, <2>5, <2>6
<1>. QED
  BY <1>1, Invariance, PTL

=============================================================================
