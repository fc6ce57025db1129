--------------------------- MODULE DBRing_proofs ---------------------------
(***************************************************************************)
(* Proofs about DBRing and DateSearch, for every place and size of the     *)
(* partition, of its pages and of a record.                                *)
(*                                                                         *)
(* The inductive invariant says where the iterators are and what the cells *)
(* between them hold: until an iterator slips, END is as many whole        *)
(* records past BEGIN as are kept (Placed), and the j-th record on the way *)
(* back from END is the j-th newest, byte for byte (Whole).  It rests on   *)
(* two facts of the arithmetic: a record put at any cell has its bytes     *)
(* where a reader looks for them although it is written page by page       *)
(* (WrittenIs), and its cells are none of the records kept (Apart, of      *)
(* DBIter_proofs).                                                         *)
(*                                                                         *)
(* The search by date is followed record by record: at every iteration the *)
(* date lies at most a step behind (Searching), and what is left to do,    *)
(* Todo, has become less.                                                  *)
(***************************************************************************)
EXTENDS DateSearch, DBIter_proofs, SequenceTheorems, WellFoundedInduction

\* The records kept.
Held == IF nrec < Cap THEN nrec ELSE Cap

\* Where the iterators are, in records.
Placed ==
  /\ begin \in Cells /\ end \in Cells
  /\ Gap(begin, end) = Held * S
  /\ nrec <= Cap => begin = PB /\ end = PB + nrec * S

\* Walking back from END, the j-th record met is the j-th newest, and whole.
Whole ==
  \A j \in 1 .. Held : \A k \in 0 .. S - 1 :
    /\ mem[At(WalkBack(end, j), k)].rec = nrec - j + 1
    /\ mem[At(WalkBack(end, j), k)].off = k

Inv == TypeOK /\ (~slipped => Placed /\ Whole)

-----------------------------------------------------------------------------
(* Records put. *)

\* A record put at z has its bytes where a reader looks for them, and the others are as before.
LEMMA WrittenIs ==
  ASSUME NEW m, DOMAIN m = Cells, NEW z \in Cells, NEW r
  PROVE  /\ DOMAIN Written(m, z, r) = Cells
         /\ \A k \in 0 .. S - 1 : Written(m, z, r)[At(z, k)] = ByteOf(r, k)
         /\ \A a \in Cells : (\A k \in 0 .. S - 1 : a # At(z, k)) => Written(m, z, r)[a] = m[a]
<1>. DEFINE ps == Pieces(z)
            p == ps[1]
            q == ps[2]
            m1 == WritePiece(m, p, r)
            m2 == WritePiece(m1, q, r)
<1>1. /\ Fits(z, p) /\ p.from = 0
      /\ Len(ps) = 1 => p.len = S
      /\ Len(ps) # 1 => Fits(z, q) /\ q.from = p.len /\ q.from + q.len = S
  BY PiecesFit
<1>2. Written(m, z, r) = IF Len(ps) = 1 THEN m1 ELSE m2
  BY DEF Written
<1>3. \A k \in 0 .. S - 1 : At(z, k) \in Cells
  BY ReadAddrIs
<1>4. /\ DOMAIN m1 = Cells
      /\ \A k \in 0 .. S - 1 : p.from <= k /\ k < p.from + p.len => m1[At(z, k)] = ByteOf(r, k)
      /\ \A a \in Cells :
           (\A k \in 0 .. S - 1 : p.from <= k /\ k < p.from + p.len => a # At(z, k)) => m1[a] = m[a]
  <2>. HIDE DEF p
  <2>. QED
    BY <1>1, PieceCells
<1>5. CASE Len(ps) = 1
  <2>1. \A k \in 0 .. S - 1 : p.from <= k /\ k < p.from + p.len
    BY <1>1, <1>5, PartitionAssumption
  <2>. HIDE DEF p, m1
  <2>. QED
    BY <1>2, <1>4, <1>5, <2>1
<1>6. CASE Len(ps) # 1
  <2>1. /\ DOMAIN m2 = Cells
        /\ \A k \in 0 .. S - 1 : q.from <= k /\ k < q.from + q.len => m2[At(z, k)] = ByteOf(r, k)
        /\ \A a \in Cells :
             (\A k \in 0 .. S - 1 : q.from <= k /\ k < q.from + q.len => a # At(z, k))
               => m2[a] = m1[a]
    <3>. HIDE DEF q, m1
    <3>. QED
      BY <1>1, <1>4, <1>6, PieceCells
  <2>. HIDE DEF p, q, m1, m2
  <2>2. ASSUME NEW k \in 0 .. S - 1 PROVE m2[At(z, k)] = ByteOf(r, k)
    <3>1. CASE q.from <= k
      BY <1>1, <1>6, <2>1, <3>1, PartitionAssumption
    <3>2. CASE ~(q.from <= k)
      <4>1. p.from <= k /\ k < p.from + p.len
        BY <1>1, <1>6, <3>2, PartitionAssumption DEF Fits
      <4>2. \A n \in 0 .. S - 1 : q.from <= n => At(z, k) # At(z, n)
        <5>1. \A n \in 0 .. S - 1 : n # k => At(z, n) # At(z, k)
          BY OwnCells
        <5>. QED
          BY <3>2, <5>1
      <4>3. m2[At(z, k)] = m1[At(z, k)]
        BY <1>3, <2>1, <4>2
      <4>. QED
        BY <1>4, <4>1, <4>3
    <3>. QED
      BY <3>1, <3>2
  <2>3. ASSUME NEW a \in Cells, \A k \in 0 .. S - 1 : a # At(z, k) PROVE m2[a] = m[a]
    BY <1>4, <2>1, <2>3
  <2>. QED
    BY <1>2, <1>6, <2>1, <2>2, <2>3
<1>. QED
  BY <1>5, <1>6

-----------------------------------------------------------------------------
(* Types. *)

Bytes == [rec : 0 .. MaxRec, off : 0 .. S - 1, flag : Flags \cup {0}]


LEMMA WrittenType ==
  ASSUME NEW m \in [Cells -> Bytes], NEW r \in 0 .. MaxRec, NEW z \in PB .. PE
  PROVE  Written(m, z, r) \in [Cells -> Bytes]
<1>. S \in Nat /\ S >= 1 /\ PB \in Nat /\ PE \in Nat /\ PAGE \in Nat \ {0} /\ z \in Nat
  BY PartitionAssumption
<1>. DEFINE zn == MoveForward(z, 1)
            v  == zn % PAGE
<1>0. \A k \in 0 .. S - 1 : ByteOf(r, k) \in Bytes
  BY DEF ByteOf, Bytes
<1>1. zn \in Nat
  BY ForwardType
<1>2. v \in Nat
  BY <1>1, DivMod
<1>. HIDE DEF zn, v
<1>3. CASE v >= S \/ v = 0
  <2>. DEFINE p == [at |-> z, from |-> 0, len |-> S]
  <2>1. Written(m, z, r) = WritePiece(m, p, r)
    BY <1>3 DEF Written, Pieces, zn, v
  <2>2. p.from = 0 /\ p.len = S /\ p.at = z
    OBVIOUS
  <2>. HIDE DEF p
  <2>3. p.from \in Nat /\ p.len \in Nat /\ p.from + p.len <= S /\ p.at \in Nat
    BY <2>2
  <2>4. WritePiece(m, p, r) \in [Cells -> Bytes]
    BY <1>0, <2>3, PieceType, Zenon
  <2>. QED
    BY <2>1, <2>4
<1>4. CASE ~(v >= S \/ v = 0)
  <2>. DEFINE p == [at |-> z, from |-> 0, len |-> S - v]
              q == [at |-> zn - v, from |-> S - v, len |-> v]
  <2>1. Written(m, z, r) = WritePiece(WritePiece(m, p, r), q, r)
    BY <1>4 DEF Written, Pieces, zn, v
  <2>2. p.from = 0 /\ p.len = S - v /\ p.at = z /\ q.from = S - v /\ q.len = v /\ q.at = zn - v
    OBVIOUS
  <2>3. zn - v \in Nat
    <3>1. v = zn % PAGE /\ zn = PAGE * (zn \div PAGE) + (zn % PAGE)
      BY <1>1, DivMod DEF v
    <3>2. zn \div PAGE \in Nat
      BY <1>1, DivMod
    <3>. DEFINE d == zn \div PAGE
    <3>3. d \in Nat /\ zn = PAGE * d + v
      BY <3>1, <3>2
    <3>. HIDE DEF d
    <3>4. PAGE * d \in Nat
      BY <3>3
    <3>. QED
      BY <1>1, <1>2, <3>3, <3>4
  <2>. HIDE DEF p, q
  <2>4. WritePiece(m, p, r) \in [Cells -> Bytes]
    <3>1. p.from \in Nat /\ p.len \in Nat /\ p.from + p.len <= S /\ p.at \in Nat
      BY <1>2, <1>4, <2>2
    <3>. QED
      BY <1>0, <3>1, PieceType, Zenon
  <2>5. q.from \in Nat /\ q.len \in Nat /\ q.from + q.len <= S /\ q.at \in Nat
    BY <1>2, <1>4, <2>2, <2>3
  <2>. QED
    BY <1>0, <2>1, <2>4, <2>5, PieceType
<1>. QED
  BY <1>3, <1>4

LEMMA TypeInit == Init => TypeOK
<1>. SUFFICES ASSUME Init PROVE TypeOK
  OBVIOUS
<1>1. S \in Nat /\ S >= 1 /\ PB \in Nat /\ PE \in Nat /\ PB <= PE /\ MaxRec \in Nat
  BY PartitionAssumption, BoundsAssumption
<1>2. Blank \in Bytes
  BY <1>1 DEF Blank, Bytes
<1>3. mem \in [Cells -> Bytes]
  BY <1>2 DEF Init, Cells
<1>4. slipped \in BOOLEAN
  BY Zenon DEF Init
<1>. QED
  BY <1>1, <1>3, <1>4 DEF Init, TypeOK, Cells, Bytes

LEMMA TypeNext == TypeOK /\ [Next]_vars => TypeOK'
<1>. SUFFICES ASSUME TypeOK, [Next]_vars PROVE TypeOK'
  OBVIOUS
<1>0. /\ mem \in [Cells -> Bytes] /\ begin \in PB .. PE /\ end \in PB .. PE
      /\ nrec \in 0 .. MaxRec /\ slipped \in BOOLEAN
      /\ S \in Nat /\ S >= 1 /\ PB \in Nat /\ PE \in Nat /\ PB <= PE /\ MaxRec \in Nat
  BY PartitionAssumption, BoundsAssumption DEF TypeOK, Cells, Bytes
<1>1. CASE DB_append_record
  <2>1. nrec' \in 0 .. MaxRec
    BY <1>0, <1>1 DEF DB_append_record
  <2>2. mem' \in [Cells -> Bytes]
    BY <1>0, <1>1, <2>1, WrittenType DEF DB_append_record
  <2>3. end' \in PB .. PE
    BY <1>0, <1>1, ForwardType DEF DB_append_record
  <2>4. begin' \in PB .. PE
    BY <1>0, <1>1, ForwardType DEF DB_append_record, TrimBegin
  <2>5. slipped' \in BOOLEAN
    BY <1>1, Zenon DEF DB_append_record, Slips
  <2>. QED
    BY <2>1, <2>2, <2>3, <2>4, <2>5 DEF TypeOK, Cells, Bytes
<1>2. ASSUME NEW i \in 1 .. Count(begin, end), NEW f \in Flags, DB_mark_record(i, f)
      PROVE  TypeOK'
  <2>. DEFINE x == Slot(begin, end, i)
  <2>1. [Blank EXCEPT !.flag = f] \in Bytes
    BY <1>0 DEF Blank, Bytes
  <2>2. ASSUME NEW a \in Cells
        PROVE  mem[a] \in Bytes /\ [mem[a] EXCEPT !.flag = f] \in Bytes
    <3>1. mem[a] \in Bytes
      BY <1>0
    <3>. QED
      BY <3>1 DEF Bytes
  <2>3. mem' = [mem EXCEPT ![x] = IF @.off = 0 THEN [@ EXCEPT !.flag = f]
                                               ELSE [Blank EXCEPT !.flag = f]]
    BY <1>2 DEF DB_mark_record
  <2>. HIDE DEF x
  <2>4. mem' \in [Cells -> Bytes]
    BY <1>0, <2>1, <2>2, <2>3
  <2>. QED
    BY <1>0, <1>2, <2>4 DEF TypeOK, Cells, Bytes, DB_mark_record
<1>3. CASE UNCHANGED vars
  BY <1>3 DEF vars, TypeOK
<1>. QED
  BY <1>1, <1>2, <1>3 DEF Next

-----------------------------------------------------------------------------
(* The records stay in their places. *)

LEMMA InvInit == Init => Inv
<1>. SUFFICES ASSUME Init PROVE Inv
  OBVIOUS
<1>1. Held = 0
  BY CapIs DEF Init, Held
<1>2. 0 * S = 0 /\ begin = PB /\ end = PB /\ nrec = 0
  BY CapIs DEF Init
<1>3. Placed
  BY <1>1, <1>2, PartitionAssumption DEF Placed, Cells, Gap
<1>4. Whole
  BY <1>1 DEF Whole
<1>. QED
  BY <1>3, <1>4, TypeInit DEF Inv

\* What the readers count.
LEMMA CountIs ==
  ASSUME begin \in Cells, end \in Cells, nrec \in Nat, Gap(begin, end) = Held * S
  PROVE  /\ Count(begin, end) = Held
         /\ Held \in 0 .. Cap /\ Held <= nrec
         /\ begin # end => Distance(begin, end) % S = 0
<1>1. Held \in Nat /\ Held <= Cap /\ Held <= nrec
  BY CapIs DEF Held
<1>. QED
  BY <1>1, CountOf, CapIs

\* What an append does to the iterators.
LEMMA PlacedNext ==
  ASSUME TypeOK, Placed, DB_append_record, ~slipped'
  PROVE  Placed'
<1>1. /\ begin \in Cells /\ end \in Cells /\ nrec \in Nat /\ Held \in 0 .. Cap
      /\ Gap(begin, end) = Held * S
      /\ nrec <= Cap => begin = PB /\ end = PB + nrec * S
  BY CountIs DEF TypeOK, Placed
<1>2. /\ end' = MoveForward(end, 1) /\ begin' = TrimBegin(begin, end') /\ nrec' = nrec + 1
      /\ ~Slips(begin, end, begin', end')
  BY DEF DB_append_record
<1>3. Extent = Cap * S => begin = PB
  <2>. SUFFICES ASSUME Extent = Cap * S, nrec > Cap PROVE FALSE
    BY <1>1, CapIs
  <2>1. Held = Cap
    BY <1>1, CapIs DEF Held
  <2>2. Gap(begin, end) = Extent
    BY <1>1, <2>1
  <2>. QED
    BY <1>1, <2>2, CapIs DEF Gap, Cells
<1>4. /\ begin' \in Cells /\ end' \in Cells
      /\ Gap(begin', end') = (IF Held < Cap THEN Held + 1 ELSE Cap) * S
      /\ Held < Cap => begin' = begin
  BY <1>1, <1>2, <1>3, Advance
<1>5. Held' = IF Held < Cap THEN Held + 1 ELSE Cap
  BY <1>1, <1>2, CapIs DEF Held
<1>6. ASSUME nrec' <= Cap PROVE begin' = PB /\ end' = PB + nrec' * S
  <2>. DEFINE J == nrec * S
  <2>1. Held = nrec /\ nrec < Cap /\ begin = PB /\ end = PB + J
    BY <1>1, <1>2, <1>6, CapIs DEF Held
  <2>2. J \in Nat /\ J + S <= Extent /\ nrec' * S = J + S
    BY <1>1, <1>2, <2>1, Multiples, CapIs
  <2>3. end' = IF end > PE - S THEN (end + S) - Extent ELSE end + S
    BY <1>1, <1>2, MoveForwardIs DEF Cells
  <2>. HIDE DEF J
  <2>4. end' = PB + (J + S)
    BY <2>1, <2>2, <2>3, CapIs
  <2>. QED
    BY <1>4, <2>1, <2>2, <2>4
<1>. QED
  BY <1>4, <1>5, <1>6 DEF Placed

\* The record met j-th after an append was met one step earlier before it, or is the new one.
LEMMA AppendIs ==
  ASSUME TypeOK, Placed, DB_append_record, ~slipped'
  PROVE  /\ end' \in Cells /\ nrec' = nrec + 1 /\ nrec \in Nat
         /\ Held' = IF nrec < Cap THEN Held + 1 ELSE Held
         /\ WalkBack(end', 1) = end
         /\ \A k \in 0 .. S - 1 : mem'[At(end, k)] = ByteOf(nrec', k)
         /\ \A j \in 1 .. Held' - 1 :
              /\ j \in 1 .. Held /\ WalkBack(end', j + 1) = WalkBack(end, j)
              /\ WalkBack(end, j) \in Cells
              /\ \A k \in 0 .. S - 1 : mem'[At(WalkBack(end, j), k)] = mem[At(WalkBack(end, j), k)]
<1>1. end' \in Cells /\ end \in Cells
  BY PlacedNext DEF Placed
<1>2. end' = MoveForward(end, 1) /\ mem' = Written(mem, end, nrec') /\ nrec' = nrec + 1
      /\ nrec \in Nat /\ DOMAIN mem = Cells
  BY DEF DB_append_record, TypeOK, Cells
<1>3. Held' = IF nrec < Cap THEN Held + 1 ELSE Held
  BY <1>2, CapIs DEF Held
<1>4. \A j \in 1 .. Held' - 1 : j \in 1 .. Held /\ j \in 1 .. Cap - 1 /\ j \in 1 .. Cap
  BY <1>2, CapIs DEF Held
<1>5. /\ WalkBack(end', 1) = end
      /\ \A j \in 1 .. Cap - 1 : WalkBack(end', j + 1) = WalkBack(end, j)
  BY <1>1, <1>2, Forth
<1>6. /\ \A k \in 0 .. S - 1 : mem'[At(end, k)] = ByteOf(nrec', k)
      /\ \A a \in Cells : (\A k \in 0 .. S - 1 : a # At(end, k)) => mem'[a] = mem[a]
  BY <1>1, <1>2, WrittenIs
<1>7. ASSUME NEW j \in 1 .. Held' - 1
      PROVE  /\ WalkBack(end, j) \in Cells
             /\ \A k \in 0 .. S - 1 :
                  mem'[At(WalkBack(end, j), k)] = mem[At(WalkBack(end, j), k)]
  <2>1. j \in 1 .. Cap - 1 /\ WalkBack(end, j) \in Cells
    BY <1>1, <1>4, WalkBackIs
  <2>2. ASSUME NEW k \in 0 .. S - 1
        PROVE  mem'[At(WalkBack(end, j), k)] = mem[At(WalkBack(end, j), k)]
    <3>1. At(WalkBack(end, j), k) \in Cells
      BY <2>1, ReadAddrIs
    <3>2. \A n \in 0 .. S - 1 : At(WalkBack(end, j), k) # At(end, n)
      BY <1>1, <2>1, Apart
    <3>. QED
      BY <1>6, <3>1, <3>2
  <2>. QED
    BY <2>1, <2>2
<1>. QED
  BY <1>1, <1>2, <1>3, <1>4, <1>5, <1>6, <1>7

\* Marking a record writes flags and nothing else.
LEMMA MarkIs ==
  ASSUME TypeOK, Placed, Whole,
         NEW i \in 1 .. Count(begin, end), NEW f \in Flags, DB_mark_record(i, f)
  PROVE  /\ i \in 1 .. Held /\ Held - i + 1 \in 1 .. Held
         /\ mem' = [mem EXCEPT ![WalkBack(end, Held - i + 1)].flag = f]
         /\ \A a \in Cells : mem'[a].rec = mem[a].rec /\ mem'[a].off = mem[a].off
<1>1. /\ begin \in Cells /\ end \in Cells /\ nrec \in Nat
      /\ Gap(begin, end) = Held * S
  BY DEF TypeOK, Placed
<1>2. Count(begin, end) = Held /\ Held \in 0 .. Cap
  BY <1>1, CountIs
<1>. DEFINE j == (Held - i) + 1
            x == WalkBack(end, j)
<1>3. i \in 1 .. Held /\ j \in 1 .. Held /\ j \in 1 .. Cap
  BY <1>2, CapIs
<1>4. x \in Cells
  BY <1>1, <1>3, WalkBackIs
<1>5. mem[x].off = 0
  <2>1. 0 \in 0 .. S - 1 /\ At(x, 0) = x
    BY <1>4, CapIs DEF At, Cells
  <2>2. mem[At(x, 0)].off = 0
    BY <1>3, <2>1 DEF Whole
  <2>. QED
    BY <2>1, <2>2
<1>6. mem' = [mem EXCEPT ![x] = IF @.off = 0 THEN [@ EXCEPT !.flag = f]
                                             ELSE [Blank EXCEPT !.flag = f]]
  BY <1>2 DEF DB_mark_record, Slot
<1>7. mem \in [Cells -> Bytes]
  BY DEF TypeOK, Cells, Bytes
<1>. HIDE DEF x
<1>8. mem' = [mem EXCEPT ![x] = [@ EXCEPT !.flag = f]]
  BY <1>4, <1>5, <1>6, <1>7
<1>9. ASSUME NEW a \in Cells PROVE mem'[a].rec = mem[a].rec /\ mem'[a].off = mem[a].off
  <2>1. mem[a] \in Bytes
    BY <1>7
  <2>. QED
    BY <1>7, <1>8, <2>1 DEF Bytes
<1>. QED
  BY <1>3, <1>8, <1>9 DEF x

LEMMA InvNext == Inv /\ [Next]_vars => Inv'
<1>. SUFFICES ASSUME Inv, [Next]_vars, ~slipped' PROVE (Placed /\ Whole)'
  BY TypeNext DEF Inv
<1>0. TypeOK
  BY DEF Inv
<1>1. CASE DB_append_record
  <2>0. ~slipped /\ Placed /\ Whole
    BY <1>1 DEF DB_append_record, Inv
  <2>1. Placed'
    BY <1>0, <1>1, <2>0, PlacedNext
  <2>2. /\ nrec' = nrec + 1 /\ nrec \in Nat /\ Held' \in Int
        /\ WalkBack(end', 1) = end
        /\ \A k \in 0 .. S - 1 : mem'[At(end, k)] = ByteOf(nrec', k)
        /\ \A j \in 1 .. Held' - 1 :
             /\ j \in 1 .. Held /\ WalkBack(end', j + 1) = WalkBack(end, j)
             /\ \A k \in 0 .. S - 1 : mem'[At(WalkBack(end, j), k)] = mem[At(WalkBack(end, j), k)]
    <3>1. Held' \in Int
      BY <1>0, <1>1, <2>0, AppendIs, CapIs DEF Held
    <3>. QED
      BY <1>0, <1>1, <2>0, <3>1, AppendIs, Zenon
  <2>3. ASSUME NEW j \in 1 .. Held', NEW k \in 0 .. S - 1
        PROVE  /\ mem'[At(WalkBack(end', j), k)].rec = nrec' - j + 1
               /\ mem'[At(WalkBack(end', j), k)].off = k
    <3>1. CASE j = 1
      <4>1. mem'[At(WalkBack(end', j), k)] = ByteOf(nrec', k)
        BY <2>2, <3>1, Zenon
      <4>. QED
        BY <2>2, <3>1, <4>1 DEF ByteOf
    <3>2. CASE j # 1
      <4>. DEFINE h == j - 1
      <4>1. h \in 1 .. Held' - 1 /\ j = h + 1
        <5>. DEFINE H == Held'
        <5>1. H \in Int /\ j \in 1 .. H
          BY <2>2
        <5>. HIDE DEF H
        <5>2. h \in 1 .. H - 1 /\ j = h + 1
          BY <3>2, <5>1
        <5>. QED
          BY <5>2 DEF H
      <4>. HIDE DEF h
      <4>2. /\ h \in 1 .. Held /\ WalkBack(end', j) = WalkBack(end, h)
            /\ mem'[At(WalkBack(end, h), k)] = mem[At(WalkBack(end, h), k)]
        BY <2>2, <4>1
      <4>3. /\ mem[At(WalkBack(end, h), k)].rec = nrec - h + 1
            /\ mem[At(WalkBack(end, h), k)].off = k
        BY <2>0, <4>2 DEF Whole
      <4>4. nrec - h + 1 = nrec' - j + 1
        BY <2>2, <4>1
      <4>. QED
        BY <4>2, <4>3, <4>4
    <3>. QED
      BY <3>1, <3>2
  <2>. QED
    BY <2>1, <2>3 DEF Whole
<1>2. ASSUME NEW i \in 1 .. Count(begin, end), NEW f \in Flags, DB_mark_record(i, f)
      PROVE  (Placed /\ Whole)'
  <2>0. Placed /\ Whole /\ UNCHANGED <<begin, end, nrec>>
    BY <1>2 DEF DB_mark_record, Inv
  <2>1. Placed'
    BY <2>0 DEF Placed, Held
  <2>2. \A a \in Cells : mem'[a].rec = mem[a].rec /\ mem'[a].off = mem[a].off
    BY <1>0, <1>2, <2>0, MarkIs
  <2>3. ASSUME NEW j \in 1 .. Held', NEW k \in 0 .. S - 1
        PROVE  /\ mem'[At(WalkBack(end', j), k)].rec = nrec' - j + 1
               /\ mem'[At(WalkBack(end', j), k)].off = k
    <3>1. j \in 1 .. Held /\ j \in 1 .. Cap /\ end \in Cells
      BY <1>0, <2>0, CapIs DEF Held, Placed, TypeOK
    <3>2. At(WalkBack(end, j), k) \in Cells
      BY <3>1, WalkBackIs, ReadAddrIs
    <3>. QED
      BY <2>0, <2>2, <3>1, <3>2 DEF Whole
  <2>. QED
    BY <2>1, <2>3 DEF Whole
<1>3. CASE UNCHANGED vars
  BY <1>3 DEF vars, Inv, Placed, Whole, Held
<1>. QED
  BY <1>1, <1>2, <1>3 DEF Next

LEMMA Invariance == Spec => []Inv
BY InvInit, InvNext, PTL DEF Spec

-----------------------------------------------------------------------------
(* What the readers see. *)

\* The j-th newest record.
Newest(j) == [rec |-> nrec - j + 1, flag |-> mem[WalkBack(end, j)].flag]

LEMMA WindowIs ==
  ASSUME TypeOK, Placed, Whole
  PROVE  /\ Count(begin, end) = Held /\ Held \in Nat /\ Held <= Cap /\ nrec \in Nat
         /\ Held = IF nrec < Cap THEN nrec ELSE Cap
         /\ begin # end => Distance(begin, end) % S = 0
         /\ Window(mem, begin, end) = [i \in 1 .. Held |-> Newest(Held - i + 1)]
<1>1. /\ begin \in Cells /\ end \in Cells /\ nrec \in Nat
      /\ Gap(begin, end) = Held * S
  BY DEF TypeOK, Placed
<1>2. /\ Count(begin, end) = Held /\ Held \in 0 .. Cap
      /\ begin # end => Distance(begin, end) % S = 0
  BY <1>1, CountIs
<1>3. ASSUME NEW i \in 1 .. Held
      PROVE  RecordAt(mem, Slot(begin, end, i)) = Newest(Held - i + 1)
  <2>. DEFINE j == (Held - i) + 1
              x == WalkBack(end, j)
  <2>1. j \in 1 .. Held /\ j \in 1 .. Cap
    BY <1>2, CapIs
  <2>2. x \in Cells
    BY <1>1, <2>1, WalkBackIs
  <2>3. Slot(begin, end, i) = x
    BY <1>2 DEF Slot
  <2>4. \A k \in 0 .. S - 1 : mem[At(x, k)].rec = nrec - j + 1 /\ mem[At(x, k)].off = k
    BY <2>1 DEF Whole
  <2>5. \A k \in 0 .. S - 1 : ReadAddr(x, k) = At(x, k)
    BY <2>2, ReadAddrIs
  <2>6. 0 \in 0 .. S - 1 /\ At(x, 0) = x
    BY <2>2, CapIs DEF At, Cells
  <2>7. Newest(Held - i + 1) = [rec |-> nrec - j + 1, flag |-> mem[x].flag]
    BY DEF Newest
  <2>. HIDE DEF x, j
  <2>8. mem[x].rec = nrec - j + 1
    BY <2>4, <2>6
  <2>9. \A k \in 0 .. S - 1 : mem[ReadAddr(x, k)].rec = mem[x].rec /\ mem[ReadAddr(x, k)].off = k
    BY <2>4, <2>5, <2>8
  <2>10. RecordAt(mem, x) = [rec |-> mem[x].rec, flag |-> mem[x].flag]
    BY <2>9 DEF RecordAt
  <2>. QED
    BY <2>3, <2>7, <2>8, <2>10
<1>. QED
  BY <1>1, <1>2, <1>3 DEF Window, Held

-----------------------------------------------------------------------------
(* The theorems. *)

(***************************************************************************)
(* Every cell of the partition holds a byte of a record, with an offset    *)
(* inside the record, and the iterators never leave [PB, PE], whatever     *)
(* order appends and marks come in (DB.c:367-475).                         *)
(***************************************************************************)
THEOREM TypeCorrect == Spec => []TypeOK
<1>1. Inv => TypeOK
  BY DEF Inv
<1>. QED
  BY <1>1, Invariance, PTL

(***************************************************************************)
(* A reader that walks back from END with DB_iterator_moveback             *)
(* (DB.c:367-379) meets BEGIN after a whole number of records, and what    *)
(* DB_get_record (DB.c:395-418) reads on the way are the newest records,   *)
(* complete and in order, until an append lets an iterator slip            *)
(* (DB.c:462-475).                                                         *)
(***************************************************************************)
THEOREM NewestAreFound == Spec => []WalkBackFindsTheNewest
<1>1. Inv => WalkBackFindsTheNewest
  <2>. SUFFICES ASSUME TypeOK, Placed, Whole PROVE WalkBackFindsTheNewest
    BY DEF Inv, WalkBackFindsTheNewest
  <2>. DEFINE w == Window(mem, begin, end)
  <2>1. /\ Held \in Nat /\ nrec \in Nat
        /\ begin # end => Distance(begin, end) % S = 0
        /\ w = [i \in 1 .. Held |-> Newest(Held - i + 1)]
    BY WindowIs
  <2>. HIDE DEF w
  <2>2. Len(w) = Held /\ DOMAIN w = 1 .. Held
    BY <2>1
  <2>3. ASSUME NEW i \in DOMAIN w PROVE w[i].rec = nrec - Len(w) + i
    <3>1. i \in 1 .. Held /\ w[i] = Newest(Held - i + 1)
      BY <2>1, <2>2
    <3>2. w[i].rec = nrec - (Held - i + 1) + 1
      BY <3>1 DEF Newest
    <3>. QED
      BY <2>1, <2>2, <3>1, <3>2
  <2>. QED
    BY <2>1, <2>3 DEF WalkBackFindsTheNewest, w
<1>. QED
  BY <1>1, Invariance, PTL

(***************************************************************************)
(* DB_append_record (DB.c:462-475) gives up a record only when the         *)
(* partition has no room for another: until an iterator slips there are as *)
(* many records between the iterators as fit.                              *)
(***************************************************************************)
THEOREM FullBeforeTrimmed == Spec => []KeepsWhatFits
<1>1. Inv => KeepsWhatFits
  BY WindowIs DEF Inv, KeepsWhatFits, Cap
<1>. QED
  BY <1>1, Invariance, PTL


\* The log the readers see, as a predicate of one state.
Seen ==
  /\ Held \in Nat /\ Held <= Cap /\ nrec \in Nat
  /\ Held = IF nrec < Cap THEN nrec ELSE Cap
  /\ Window(mem, begin, end) = [i \in 1 .. Held |-> Newest(Held - i + 1)]

LEMMA SoundSeen == TypeOK /\ Placed /\ Whole => Seen
BY WindowIs DEF Seen

LEMMA SoundSeenNext == (TypeOK /\ Placed /\ Whole)' => Seen'
BY SoundSeen, PTL

\* What remains of a full sequence, or of one that is not, before an append.
LEMMA Kept ==
  ASSUME NEW T, NEW w \in Seq(T), NEW c \in Nat, c >= 1, Len(w) <= c
  PROVE  LET u == IF Len(w) = c THEN Tail(w) ELSE w
             d == IF Len(w) = c THEN 1 ELSE 0
         IN u \in Seq(T) /\ Len(u) = Len(w) - d /\ \A i \in 1 .. Len(u) : u[i] = w[i + d]
<1>0. Len(w) \in Nat
  BY LenProperties
<1>1. CASE Len(w) = c
  <2>1. w # << >>
    BY <1>1, EmptySeq
  <2>2. /\ Tail(w) \in Seq(T) /\ Len(Tail(w)) = Len(w) - 1
        /\ \A i \in 1 .. Len(Tail(w)) : Tail(w)[i] = w[i + 1]
    BY <2>1, HeadTailProperties
  <2>. QED
    BY <1>1, <2>2
<1>2. CASE Len(w) # c
  <2>1. Len(w) - 0 = Len(w) /\ \A i \in 1 .. Len(w) : i + 0 = i
    BY <1>0
  <2>. QED
    BY <1>2, <2>1
<1>. QED
  BY <1>1, <1>2

LEMMA Appended ==
  ASSUME NEW T, NEW u \in Seq(T), NEW v \in Seq(T), Len(v) = Len(u) + 1,
         \A i \in 1 .. Len(u) : v[i] = u[i]
  PROVE  v = Append(u, v[Len(v)])
<1>0. Len(u) \in Nat /\ Len(v) \in 1 .. Len(v)
  BY LenProperties
<1>1. v[Len(v)] \in T
  BY <1>0, ElementOfSeq
<1>. DEFINE n == v[Len(v)]
<1>2. /\ Append(u, n) \in Seq(T) /\ Len(Append(u, n)) = Len(u) + 1
      /\ \A i \in 1 .. Len(u) : Append(u, n)[i] = u[i]
      /\ Append(u, n)[Len(u) + 1] = n
  BY <1>1, AppendProperties
<1>3. \A i \in 1 .. Len(v) : v[i] = Append(u, n)[i]
  <2>. SUFFICES ASSUME NEW i \in 1 .. Len(v) PROVE v[i] = Append(u, n)[i]
    OBVIOUS
  <2>0. i \in 1 .. Len(u) \/ i = Len(u) + 1
    BY <1>0
  <2>. QED
    BY <1>2, <2>0
<1>. HIDE DEF n
<1>4. v = Append(u, n)
  BY <1>2, <1>3, SeqEqual
<1>. QED
  BY <1>4 DEF n

\* An append is a Put of the log.
LEMMA AppendPuts ==
  ASSUME TypeOK, Placed, Whole, Seen', ~slipped, slipped' = FALSE, DB_append_record
  PROVE  Log!Put
<1>. DEFINE w == Window(mem, begin, end)
            v == Window(mem', begin', end')
            h == Held
            H == Held'
<1>1. /\ h \in Nat /\ h <= Cap /\ nrec \in Nat
      /\ h = IF nrec < Cap THEN nrec ELSE Cap
      /\ w = [i \in 1 .. h |-> Newest(h - i + 1)]
  BY SoundSeen DEF Seen
<1>2. H \in Nat /\ v = [i \in 1 .. H |-> [rec |-> nrec' - (H - i + 1) + 1,
                                         flag |-> mem'[WalkBack(end', H - i + 1)].flag]]
  BY DEF Seen, Newest
<1>3. /\ nrec' = nrec + 1
      /\ H = IF nrec < Cap THEN h + 1 ELSE h
      /\ WalkBack(end', 1) = end
      /\ \A k \in 0 .. S - 1 : mem'[At(end, k)] = ByteOf(nrec', k)
      /\ \A j \in 1 .. H - 1 :
           /\ j \in 1 .. h /\ WalkBack(end', j + 1) = WalkBack(end, j)
           /\ WalkBack(end, j) \in Cells
           /\ \A k \in 0 .. S - 1 : mem'[At(WalkBack(end, j), k)] = mem[At(WalkBack(end, j), k)]
  BY AppendIs
<1>. HIDE DEF h, H, w, v
<1>4. 0 \in 0 .. S - 1 /\ \A x \in Cells : At(x, 0) = x
  BY CapIs DEF At, Cells
<1>5. Cap \in Nat /\ Cap >= 1
  BY CapIs
<1>6. mem'[WalkBack(end', 1)].flag = 0
  <2>1. end \in Cells
    BY DEF Placed
  <2>2. mem'[end] = ByteOf(nrec', 0)
    BY <1>3, <1>4, <2>1
  <2>. QED
    BY <1>3, <2>2 DEF ByteOf
<1>7. ASSUME NEW j \in 1 .. H - 1
      PROVE  mem'[WalkBack(end', j + 1)].flag = mem[WalkBack(end, j)].flag
  <2>1. WalkBack(end, j) \in Cells /\ WalkBack(end', j + 1) = WalkBack(end, j)
    BY <1>3, <1>7
  <2>2. mem'[WalkBack(end, j)] = mem[WalkBack(end, j)]
    BY <1>3, <1>4, <1>7, <2>1
  <2>. QED
    BY <2>1, <2>2
<1>8. v = Append(IF Len(w) = Cap THEN Tail(w) ELSE w, [rec |-> nrec', flag |-> 0])
  <2>. DEFINE n == [rec |-> nrec', flag |-> 0]
              T == {w[i] : i \in 1 .. h} \cup {n}
              d == h - (H - 1)
  <2>0. h \in Nat /\ H \in Nat
    BY <1>1, <1>2
  <2>1. w \in Seq(T) /\ Len(w) = h /\ n \in T
    <3>1. DOMAIN w = 1 .. h /\ w = [i \in 1 .. h |-> w[i]]
      BY <1>1
    <3>2. \A i \in 1 .. h : w[i] \in T
      OBVIOUS
    <3>. HIDE DEF T
    <3>3. w \in Seq(T) /\ Len(w) = h
      <4>1. w \in [1 .. h -> T]
        BY <3>1, <3>2
      <4>2. w \in Seq(T)
        BY <1>1, <4>1, SeqDef
      <4>. QED
        BY <1>1, <3>1, <4>2, LenProperties
    <3>. QED
      BY <3>3 DEF T
  <2>2. /\ H = IF h = Cap THEN Cap ELSE h + 1
        /\ H >= 1 /\ d \in Nat
    BY <1>1, <1>2, <1>3, <1>5
  <2>3. v = [i \in 1 .. H |-> v[i]]
    BY <1>2
  <2>4. v[H] = n
    <3>1. H \in 1 .. H /\ (H - H) + 1 = 1
      BY <1>2, <2>2
    <3>2. v[H] = [rec |-> nrec' - 1 + 1, flag |-> mem'[WalkBack(end', 1)].flag]
      BY <1>2, <3>1
    <3>3. nrec' - 1 + 1 = nrec'
      BY <1>1, <1>3
    <3>. QED
      BY <1>6, <3>2, <3>3
  <2>5. ASSUME NEW i \in 1 .. H - 1 PROVE v[i] = w[i + d]
    <3>. DEFINE j == H - i
    <3>1. /\ j \in 1 .. H - 1 /\ (h - (i + d)) + 1 = j /\ (H - i) + 1 = j + 1
          /\ i \in 1 .. H /\ i + d \in 1 .. h
      BY <1>1, <1>2, <2>2
    <3>2. w[i + d] = [rec |-> nrec - j + 1, flag |-> mem[WalkBack(end, j)].flag]
      <4>1. w[i + d] = Newest((h - (i + d)) + 1)
        BY <1>1, <3>1
      <4>. QED
        BY <3>1, <4>1 DEF Newest
    <3>3. v[i] = [rec |-> nrec' - (j + 1) + 1, flag |-> mem'[WalkBack(end', j + 1)].flag]
      <4>1. v[i] = [rec |-> nrec' - ((H - i) + 1) + 1, flag |-> mem'[WalkBack(end', (H - i) + 1)].flag]
        BY <1>2, <3>1
      <4>. QED
        BY <3>1, <4>1
    <3>4. nrec' - (j + 1) + 1 = nrec - j + 1
      BY <1>1, <1>3, <3>1
    <3>5. mem'[WalkBack(end', j + 1)].flag = mem[WalkBack(end, j)].flag
      BY <1>7, <3>1
    <3>. QED
      BY <3>2, <3>3, <3>4, <3>5
  <2>. HIDE DEF n
  <2>6. v \in Seq(T) /\ Len(v) = H
    <3>1. \A i \in 1 .. H - 1 : i + d \in 1 .. h
      BY <1>1, <1>2, <2>2
    <3>2. \A i \in 1 .. H - 1 : v[i] \in T
      BY <2>5, <3>1
    <3>3. \A i \in 1 .. H : i \in 1 .. H - 1 \/ i = H
      BY <1>2
    <3>4. \A i \in 1 .. H : v[i] \in T
      BY <2>1, <2>4, <3>2, <3>3
    <3>. HIDE DEF T
    <3>5. v \in [1 .. H -> T] /\ DOMAIN v = 1 .. H
      BY <2>3, <3>4
    <3>6. v \in Seq(T)
      BY <1>2, <3>5, SeqDef
    <3>. QED
      BY <2>0, <3>5, <3>6, LenProperties
  <2>. HIDE DEF T
  <2>. DEFINE u == IF Len(w) = Cap THEN Tail(w) ELSE w
  <2>7. u \in Seq(T) /\ Len(u) = H - 1 /\ \A i \in 1 .. H - 1 : u[i] = w[i + d]
    <3>1. d = IF Len(w) = Cap THEN 1 ELSE 0
      BY <1>1, <1>2, <2>1, <2>2
    <3>2. Len(w) - d = H - 1
      BY <2>0, <2>1
    <3>3. Len(w) <= Cap
      BY <1>1, <2>1
    <3>. QED
      BY <1>5, <2>1, <3>1, <3>2, <3>3, Kept
  <2>. HIDE DEF u, d
  <2>8. Len(v) = Len(u) + 1 /\ \A i \in 1 .. Len(u) : v[i] = u[i]
    BY <2>0, <2>5, <2>6, <2>7
  <2>9. v = Append(u, v[Len(v)])
    BY <2>6, <2>7, <2>8, Appended
  <2>10. v = Append(u, n)
    BY <2>4, <2>6, <2>9
  <2>. QED
    BY <2>10 DEF n, u
<1>. QED
  BY <1>3, <1>8 DEF Log!Put, w, v, Cap

\* Marking a record is a Flag of the log.
LEMMA MarkFlags ==
  ASSUME TypeOK, Placed, Whole, Seen', ~slipped,
         NEW i \in 1 .. Count(begin, end), NEW f \in Flags, DB_mark_record(i, f)
  PROVE  \E n \in DOMAIN Window(mem, begin, end) : Log!Flag(n, f)
<1>. DEFINE w == Window(mem, begin, end)
            v == Window(mem', begin', end')
<1>1. /\ Held \in Nat /\ Held <= Cap /\ nrec \in Nat
      /\ w = [n \in 1 .. Held |-> Newest(Held - n + 1)]
  BY SoundSeen DEF Seen
<1>2. UNCHANGED <<begin, end, nrec, slipped>>
  BY DEF DB_mark_record
<1>3. v = [n \in 1 .. Held |-> [rec |-> nrec - (Held - n + 1) + 1,
                                flag |-> mem'[WalkBack(end, Held - n + 1)].flag]]
  BY <1>2 DEF Seen, Newest, Held
<1>4. /\ i \in 1 .. Held /\ Held - i + 1 \in 1 .. Held
      /\ mem' = [mem EXCEPT ![WalkBack(end, Held - i + 1)].flag = f]
  BY MarkIs
<1>. HIDE DEF w, v
<1>5. end \in Cells /\ mem \in [Cells -> Bytes]
  BY DEF Placed, TypeOK, Cells, Bytes
<1>6. \A n \in 1 .. Held : Held - n + 1 \in 1 .. Cap /\ Held - n + 1 \in 1 .. Held
  BY <1>1, CapIs
<1>7. ASSUME NEW n \in 1 .. Held
      PROVE  v[n] = IF n = i THEN [w[n] EXCEPT !.flag = f] ELSE w[n]
  <2>. DEFINE x == WalkBack(end, Held - i + 1)
              y == WalkBack(end, Held - n + 1)
  <2>1. x \in Cells /\ y \in Cells
    BY <1>4, <1>5, <1>6, WalkBackIs
  <2>2. n # i => x # y
    <3>1. n # i => Held - n + 1 # Held - i + 1
      BY <1>1, <1>4
    <3>. QED
      BY <1>4, <1>5, <1>6, <3>1, OtherSlot
  <2>3. w[n] = [rec |-> nrec - (Held - n + 1) + 1, flag |-> mem[y].flag]
    BY <1>1 DEF Newest
  <2>4. v[n] = [rec |-> nrec - (Held - n + 1) + 1, flag |-> mem'[y].flag]
    BY <1>3
  <2>5. mem' = [mem EXCEPT ![x].flag = f] /\ (n = i => x = y)
    BY <1>4
  <2>6. mem[y] \in Bytes
    BY <1>5, <2>1
  <2>. HIDE DEF x, y
  <2>7. mem'[y].flag = IF n = i THEN f ELSE mem[y].flag
    BY <1>5, <2>1, <2>2, <2>5, <2>6 DEF Bytes
  <2>. QED
    BY <2>3, <2>4, <2>7
<1>8. v = [w EXCEPT ![i].flag = f]
  <2>1. DOMAIN w = 1 .. Held /\ DOMAIN v = 1 .. Held /\ w = [n \in 1 .. Held |-> w[n]]
        /\ v = [n \in 1 .. Held |-> v[n]]
    BY <1>1, <1>3
  <2>. QED
    BY <1>4, <1>7, <2>1
<1>9. i \in DOMAIN w
  BY <1>1, <1>4
<1>10. Log!Flag(i, f)
  BY <1>2, <1>8 DEF Log!Flag, w, v
<1>. QED
  BY <1>9, <1>10 DEF w

(***************************************************************************)
(* The database implements a bounded log until an iterator slips: an       *)
(* append puts one record and discards at most the oldest, and             *)
(* DB_mark_record (DB.c:448-457) changes the flags of one record and       *)
(* nothing of the others.                                                  *)
(***************************************************************************)
THEOREM LogImplemented == Spec => ImplementsRecordLog
<1>1. Init => Log!Init
  <2>. SUFFICES ASSUME Init PROVE Log!Init
    OBVIOUS
  <2>1. Count(begin, end) = 0
    BY CountNone, CapIs DEF Init, Cells
  <2>2. Window(mem, begin, end) = << >>
    BY <2>1 DEF Window
  <2>. QED
    BY <2>2 DEF Init, Log!Init
<1>2. Inv /\ Inv' /\ [Next]_vars => [Log!Next]_(Log!vars)
  <2>. SUFFICES ASSUME Inv, Inv', [Next]_vars PROVE [Log!Next]_(Log!vars)
    OBVIOUS
  <2>1. CASE slipped'
    <3>1. slipped' = TRUE
      <4>1. slipped' \in BOOLEAN
        BY Zenon DEF Inv, TypeOK
      <4>. QED
        BY <2>1, <4>1
    <3>. QED
      BY <3>1 DEF Log!Next, Log!GiveUp
  <2>2. CASE ~slipped'
    <3>1. slipped' = FALSE
      <4>1. slipped' \in BOOLEAN
        BY Zenon DEF Inv, TypeOK
      <4>. QED
        BY <2>2, <4>1
    <3>2. Seen'
      BY <2>2, SoundSeenNext DEF Inv
    <3>3. CASE DB_append_record
      <4>1. ~slipped
        BY <2>2, <3>3, Zenon DEF DB_append_record
      <4>2. TypeOK /\ Placed /\ Whole
        BY <4>1 DEF Inv
      <4>3. Log!Put
        BY <3>1, <3>2, <3>3, <4>1, <4>2, AppendPuts
      <4>. QED
        BY <4>3 DEF Log!Next
    <3>4. ASSUME NEW i \in 1 .. Count(begin, end), NEW f \in Flags, DB_mark_record(i, f)
          PROVE  Log!Next
      <4>1. ~slipped
        BY <2>2, <3>4, Zenon DEF DB_mark_record
      <4>2. TypeOK /\ Placed /\ Whole
        BY <4>1 DEF Inv
      <4>3. \E n \in DOMAIN Window(mem, begin, end) : Log!Flag(n, f)
        BY <3>2, <3>4, <4>1, <4>2, MarkFlags
      <4>. QED
        BY <4>3 DEF Log!Next
    <3>5. CASE UNCHANGED vars
      BY <3>5 DEF vars, Log!vars
    <3>. QED
      BY <3>3, <3>4, <3>5 DEF Next
  <2>. QED
    BY <2>1, <2>2
<1>. QED
  BY <1>1, <1>2, Invariance, PTL DEF Spec, ImplementsRecordLog, Log!Spec

-----------------------------------------------------------------------------
(* The search by date: where it may be.                                    *)
(*                                                                         *)
(* The records kept are counted from BEGIN, 1 to n, and END is n + 1; the  *)
(* record at i is the (b + i)-th appended.  t is the date sought.          *)

\* A step of h records repeated from i on meets a later record before END.
Above(n, b, t, i, h) == \E k \in Nat : i + k * h <= n /\ t < Date(b + (i + k * h))

(***************************************************************************)
(* The loop at i, with steps of s records: the date lies no more than a    *)
(* step behind; END is reached only by a search for a later date, since    *)
(* the steps forward meet the record from which the search turned back.    *)
(***************************************************************************)
Searching(n, b, t, cap, i, s, f) ==
  /\ i \in 1 .. n + 1 /\ s \in Skips /\ s <= n /\ s <= cap /\ f \in BOOLEAN
  /\ f => Date(b + (i - s)) < t
  /\ ~f => t < Date(b + (i + s))
  /\ i = n + 1 => Date(b + n) < t
  /\ t = Date(b + n) => i = n
  /\ t < Date(b + n) => i <= n
  /\ t < Date(b + n) /\ f => Above(n, b, t, i, s)
  /\ t < Date(b + n) /\ ~f /\ s # 1 => Above(n, b, t, i, s \div 2)

LEMMA PowerIs ==
  ASSUME NEW r \in Nat, NEW cap \in Skips
  PROVE  /\ Power(r, cap) \in Skips /\ Power(r, cap) <= cap
         /\ Power(r, cap) = 1 \/ Power(r, cap) <= r
         /\ 2 * Power(r, cap) > r \/ 2 * Power(r, cap) > cap
<1>. DEFINE Is(p) == p <= cap /\ (p = 1 \/ p <= r) /\ 2 * p > Least(r, cap)
<1>1. \E p \in Skips : Is(p)
  <2>. SUFFICES ASSUME \A p \in Skips : ~Is(p) PROVE FALSE
    OBVIOUS
  <2>1. ~Is(1) /\ ~Is(2) /\ ~Is(4) /\ ~Is(8)
    BY DEF Skips
  <2>2. ~Is(16) /\ ~Is(32) /\ ~Is(64) /\ ~Is(128)
    BY DEF Skips
  <2>3. cap \in {1, 2, 4, 8, 16, 32, 64, 128}
    BY DEF Skips
  <2>. QED
    BY <2>1, <2>2, <2>3 DEF Least
<1>2. Power(r, cap) = CHOOSE p \in Skips : Is(p)
  BY DEF Power
<1>3. Power(r, cap) \in Skips /\ Is(Power(r, cap))
  <2>. HIDE DEF Is
  <2>. QED
    BY <1>1, <1>2
<1>4. Power(r, cap) \in Int /\ cap \in Int
  BY <1>3 DEF Skips
<1>. QED
  BY <1>3, <1>4 DEF Least

LEMMA SkipIs ==
  ASSUME NEW s \in Skips
  PROVE  /\ s \in Nat /\ s >= 1
         /\ s = 1 => s \div 2 = 0
         /\ s # 1 => s \div 2 \in Skips /\ s = 2 * (s \div 2) /\ s \div 2 \in Nat
         /\ \A p \in Skips : p \in Nat /\ (2 * p > s => p >= s) /\ (p < s => 2 * p <= s)
<1>1. s \in {1, 2, 4, 8, 16, 32, 64, 128}
  BY DEF Skips
<1>2. \A p \in Skips : p \in {1, 2, 4, 8, 16, 32, 64, 128}
  BY DEF Skips
<1>3. s \in Nat /\ s >= 1
  BY <1>1
<1>4. s = 1 => s \div 2 = 0
  OBVIOUS
<1>5. s # 1 => s \div 2 \in {1, 2, 4, 8, 16, 32, 64} /\ s = 2 * (s \div 2)
  BY <1>1
<1>6. s # 1 => s \div 2 \in Skips /\ s = 2 * (s \div 2) /\ s \div 2 \in Nat
  BY <1>5 DEF Skips
<1>7. ASSUME NEW p \in Skips PROVE p \in Nat /\ (2 * p > s => p >= s) /\ (p < s => 2 * p <= s)
  BY <1>1, <1>2, <1>7
<1>. QED
  BY <1>3, <1>4, <1>6, <1>7

\* The lengths of a step forward and of one back from i.
StepsForth(n, i, s, cap, c) == c = Least(s, Power(n + 1 - i, cap))
StepsBack(i, s, cap, c) == c = Least(s, Power(i - 1, cap))

\* A step forward from a record before the date.
LEMMA StepForth ==
  ASSUME NEW n \in Nat, NEW b \in Nat, NEW t \in Int, NEW cap \in Skips,
         NEW i \in 1 .. n, NEW s \in Skips, s <= n, s <= cap,
         Date(b + i) < t, t # Date(b + n), t < Date(b + n) => Above(n, b, t, i, s),
         NEW c, StepsForth(n, i, s, cap, c)
  PROVE  /\ c \in 1 .. n + 1 - i /\ c <= cap
         /\ Searching(n, b, t, cap, i + c, s, TRUE)
<1>. DEFINE L == Power(n + 1 - i, cap)
            r == n + 1 - i
<1>0. r \in Nat /\ r >= 1
  OBVIOUS
<1>1. /\ L \in Skips /\ L <= cap
      /\ L = 1 \/ L <= r
      /\ 2 * L > r \/ 2 * L > cap
  BY <1>0, PowerIs
<1>2. /\ s \in Nat /\ s >= 1 /\ cap \in Nat /\ L \in Nat /\ L >= 1
      /\ 2 * L > s => L >= s
  BY <1>1, SkipIs
<1>3. c = IF s < L THEN s ELSE L
  BY DEF Least, StepsForth
<1>. HIDE DEF L
<1>4. c \in 1 .. r /\ c <= s /\ c <= cap /\ c \in Nat
  BY <1>0, <1>1, <1>2, <1>3
<1>5. Date(b + ((i + c) - s)) < t
  BY <1>2, <1>4 DEF Date
<1>6. ASSUME t < Date(b + n) PROVE i + c <= n /\ Above(n, b, t, i + c, s)
  <2>1. PICK k \in Nat : i + k * s <= n /\ t < Date(b + (i + k * s))
    BY <1>6, Zenon DEF Above
  <2>2. k # 0
    <3>. SUFFICES ASSUME k = 0 PROVE FALSE
      OBVIOUS
    <3>1. i + k * s = i
      BY <1>2
    <3>2. t < Date(b + i)
      BY <2>1, <3>1, Zenon
    <3>. QED
      BY <3>2 DEF Date
  <2>3. k - 1 \in Nat /\ (k - 1) * s \in Nat /\ k * s = s + (k - 1) * s
    BY <1>2, <2>1, <2>2
  <2>4. PICK m \in Nat : m = (k - 1) * s
    BY <2>3
  <2>5. i + (s + m) <= n /\ t < Date(b + (i + (s + m)))
    BY <2>1, <2>3, <2>4
  <2>6. s <= r
    BY <1>2, <2>5
  <2>7. c = s
    BY <1>0, <1>1, <1>2, <1>3, <2>6
  <2>8. (i + c) + (k - 1) * s = i + (s + m)
    BY <1>2, <2>4, <2>7
  <2>9. Above(n, b, t, i + c, s)
    BY <2>3, <2>5, <2>8, Zenon DEF Above
  <2>. QED
    BY <1>2, <2>5, <2>7, <2>9
<1>7. i + c = n + 1 => Date(b + n) < t
  <2>1. t < Date(b + n) => i + c <= n
    BY <1>6
  <2>. QED
    BY <1>4, <2>1 DEF Date
<1>8. i + c \in 1 .. n + 1
  BY <1>4
<1>. QED
  BY <1>4, <1>5, <1>6, <1>7, <1>8, Zenon DEF Searching

\* A step back from a record after the date.
LEMMA StepBack ==
  ASSUME NEW n \in Nat, NEW b \in Nat, NEW t \in Int, NEW cap \in Skips,
         NEW i \in 2 .. n + 1, NEW s \in Skips, s <= n, s <= cap,
         t < Date(b + i), t # Date(b + n), t < Date(b + n) => i <= n,
         NEW c, StepsBack(i, s, cap, c)
  PROVE  /\ c \in 1 .. i - 1 /\ c <= cap
         /\ Searching(n, b, t, cap, i - c, s, FALSE)
<1>. DEFINE L == Power(i - 1, cap)
            h == s \div 2
<1>0. i - 1 \in Nat /\ i - 1 >= 1
  OBVIOUS
<1>1. /\ L \in Skips /\ L <= cap
      /\ L = 1 \/ L <= i - 1
      /\ 2 * L > i - 1 \/ 2 * L > cap
  BY <1>0, PowerIs
<1>2. /\ s \in Nat /\ s >= 1 /\ cap \in Nat /\ L \in Nat /\ L >= 1
      /\ 2 * L > s => L >= s
      /\ L < s => 2 * L <= s
      /\ s # 1 => s = 2 * h /\ h \in Nat
  BY <1>1, SkipIs
<1>3. c = IF s < L THEN s ELSE L
  BY DEF Least, StepsBack
<1>. HIDE DEF L, h
<1>4. c \in 1 .. i - 1 /\ c <= s /\ c <= cap /\ c \in Nat
  BY <1>0, <1>1, <1>2, <1>3
<1>5. t < Date(b + ((i - c) + s))
  BY <1>2, <1>4 DEF Date
<1>6. ASSUME t < Date(b + n), s # 1 PROVE Above(n, b, t, i - c, h)
  <2>0. i <= n /\ s = 2 * h /\ h \in Nat
    BY <1>2, <1>6
  <2>1. CASE c = s
    <3>1. (i - c) + 2 * h = i
      BY <2>0, <2>1
    <3>. QED
      BY <2>0, <3>1, Zenon DEF Above
  <2>2. CASE c # s
    <3>1. c = L /\ L < s /\ 2 * L <= s
      BY <1>2, <1>3, <1>4, <2>2
    <3>2. 2 * L > i - 1
      BY <1>1, <1>2, <3>1
    <3>3. L <= h /\ i - L <= h
      BY <1>2, <2>0, <3>1, <3>2
    <3>4. PICK u \in Int : u = (i - c) + h
      BY <1>4, <2>0
    <3>5. u <= n /\ t < Date(b + u)
      BY <1>2, <1>4, <2>0, <3>1, <3>3, <3>4 DEF Date
    <3>6. (i - c) + 1 * h = u
      BY <1>4, <2>0, <3>4
    <3>7. 1 \in Nat
      OBVIOUS
    <3>. QED
      BY <3>5, <3>6, <3>7, Zenon DEF Above
  <2>. QED
    BY <2>1, <2>2
<1>7. i - c \in 1 .. n + 1 /\ i - c <= n /\ i - c # n + 1
  BY <1>4
<1>. QED
  BY <1>4, <1>5, <1>6, <1>7, Zenon DEF Searching, h

\* The date read at i, where END has any, and whether the one sought has been passed.
Shown(n, b, torn, i) == IF i <= n THEN Date(b + i) ELSE torn
Passed(n, b, t, torn, i, f) == IF f THEN Shown(n, b, torn, i) > t ELSE Shown(n, b, torn, i) < t

(***************************************************************************)
(* What is left to do: a step that is halved is worth more than a walk     *)
(* through the ring, and between two halvings the search goes one way; at  *)
(* an end it turns, having passed the date.                                *)
(***************************************************************************)
Left(n, b, t, torn, i, f) ==
  IF Passed(n, b, t, torn, i, f) THEN 0 ELSE IF f THEN (n + 2) - i ELSE i
Todo(n, b, t, torn, i, s, f) == s * (n + 2) + Left(n, b, t, torn, i, f)

\* Where a search may end.
Near(n, b, t, i) ==
  \/ Date(b + i) = t
  \/ Date(b + (i - 1)) < t /\ t < Date(b + i)
  \/ i <= n /\ Date(b + i) < t /\ t < Date(b + (i + 1))

LEMMA LeftType ==
  ASSUME NEW n \in Nat, NEW b, NEW t, NEW torn, NEW i \in 1 .. n + 1, NEW f \in BOOLEAN
  PROVE  Left(n, b, t, torn, i, f) \in 0 .. n + 1
<1>1. i \in 0 .. n + 1 /\ (n + 2) - i \in 0 .. n + 1 /\ 0 \in 0 .. n + 1
  OBVIOUS
<1>. QED
  BY <1>1, Zenon DEF Left

LEMMA TodoLess ==
  ASSUME NEW n \in Nat, NEW b, NEW t, NEW torn,
         NEW i \in 1 .. n + 1, NEW s \in Nat, NEW f \in BOOLEAN,
         NEW j \in 1 .. n + 1, NEW u \in Nat, NEW g \in BOOLEAN,
         \/ u < s
         \/ u = s /\ Left(n, b, t, torn, j, g) < Left(n, b, t, torn, i, f)
  PROVE  Todo(n, b, t, torn, j, u, g) < Todo(n, b, t, torn, i, s, f)
<1>. DEFINE x == Left(n, b, t, torn, i, f)
            y == Left(n, b, t, torn, j, g)
            m == n + 2
<1>1. x \in 0 .. n + 1 /\ y \in 0 .. n + 1 /\ m \in Nat /\ m = n + 2
  BY LeftType
<1>2. u < s \/ (u = s /\ y < x)
  OBVIOUS
<1>3. /\ Todo(n, b, t, torn, j, u, g) = u * m + y
      /\ Todo(n, b, t, torn, i, s, f) = s * m + x
  BY DEF Todo
<1>. HIDE DEF x, y, m
<1>4. u * m \in Nat /\ s * m \in Nat
  BY <1>1
<1>5. u < s => u * m + m <= s * m
  <2>. SUFFICES ASSUME u < s PROVE u * m + m <= s * m
    OBVIOUS
  <2>1. s - u \in Nat /\ s - u >= 1
    OBVIOUS
  <2>2. (s - u) * m >= m
    BY <1>1, <2>1
  <2>3. (s - u) * m = s * m - u * m
    BY <1>1
  <2>. QED
    BY <1>1, <1>4, <2>2, <2>3
<1>6. u * m + y < s * m + x
  <2>1. CASE u < s
    BY <1>1, <1>4, <1>5, <2>1
  <2>2. CASE u = s /\ y < x
    BY <1>1, <1>4, <2>2
  <2>. QED
    BY <1>2, <2>1, <2>2
<1>. QED
  BY <1>3, <1>6

\* A search that starts on n records; the date sought is none before them or to come.
Sought(n, b, t, torn, cap) ==
  /\ n \in Nat /\ b \in Nat /\ t \in Int /\ torn \in Int /\ cap \in Skips
  /\ Date(b) < t /\ t < Date(b + (n + 1))

\* The comparison: p when the date has been passed, then steps of u records, forward when g.
Turned(n, b, t, torn, i, s, f, p, u, g) ==
  /\ Shown(n, b, torn, i) # t
  /\ p \in BOOLEAN /\ p = Passed(n, b, t, torn, i, f)
  /\ u = IF p THEN s \div 2 ELSE s
  /\ g \in BOOLEAN /\ g = (f # p)

\* What the loop knows when it has compared the date read at i with the one sought.
LEMMA Compared ==
  ASSUME NEW n, NEW b, NEW t, NEW torn, NEW cap, Sought(n, b, t, torn, cap),
         NEW i, NEW s, NEW f, Searching(n, b, t, cap, i, s, f),
         NEW p, NEW u, NEW g, Turned(n, b, t, torn, i, s, f, p, u, g)
  PROVE  /\ t # Date(b + n)
         /\ g => Shown(n, b, torn, i) < t
         /\ ~g => t < Shown(n, b, torn, i)
         /\ u = 0 => Near(n, b, t, i)
         /\ u # 0 => /\ u \in Skips /\ u <= n /\ u <= cap /\ u \in Nat
                     /\ p => u < s
                     /\ g /\ t < Date(b + n) => Above(n, b, t, i, u)
<1>. DEFINE d == Shown(n, b, torn, i)
            h == s \div 2
<1>. /\ n \in Nat /\ b \in Nat /\ t \in Int /\ torn \in Int /\ cap \in Skips
     /\ Date(b) < t /\ t < Date(b + (n + 1))
  BY Zenon DEF Sought
<1>. i \in 1 .. n + 1 /\ s \in Skips /\ f \in BOOLEAN /\ d # t
  BY Zenon DEF Searching, Turned
<1>0. /\ p \in BOOLEAN /\ p = Passed(n, b, t, torn, i, f)
      /\ u = IF p THEN h ELSE s
      /\ g \in BOOLEAN /\ g = (f # p)
  BY Zenon DEF Turned
<1>1. /\ i \in 1 .. n + 1 /\ s \in Skips /\ s <= n /\ s <= cap /\ f \in BOOLEAN
      /\ f => Date(b + (i - s)) < t
      /\ ~f => t < Date(b + (i + s))
      /\ i = n + 1 => Date(b + n) < t
      /\ t = Date(b + n) => i = n
      /\ t < Date(b + n) => i <= n
      /\ t < Date(b + n) /\ f => Above(n, b, t, i, s)
      /\ t < Date(b + n) /\ ~f /\ s # 1 => Above(n, b, t, i, h)
  BY Zenon DEF Searching
<1>2. /\ s \in Nat /\ s >= 1 /\ cap \in Nat
      /\ s = 1 => h = 0
      /\ s # 1 => h \in Skips /\ s = 2 * h /\ h \in Nat
  BY SkipIs
<1>3. /\ d = IF i <= n THEN Date(b + i) ELSE torn
      /\ d # t /\ d \in Int
  BY DEF Shown, Date
<1>4. p <=> IF f THEN d > t ELSE d < t
  BY <1>0, Zenon DEF Passed
<1>5. g <=> ((f /\ ~p) \/ (~f /\ p))
  BY <1>0, Zenon
<1>10. (p => u = h) /\ (~p => u = s)
  BY <1>0, Zenon
<1>. HIDE DEF d, h
<1>6. t # Date(b + n)
  BY <1>1, <1>3
<1>7. (g => d < t) /\ (~g => t < d)
  BY <1>3, <1>4, <1>5
<1>8. ASSUME u = 0 PROVE Near(n, b, t, i)
  <2>1. p /\ s = 1
    BY <1>2, <1>8, <1>10
  <2>2. CASE f
    <3>1. d > t /\ Date(b + (i - 1)) < t
      BY <1>1, <1>4, <2>1, <2>2
    <3>2. t < Date(b + i)
      <4>1. CASE i <= n
        BY <1>3, <3>1, <4>1
      <4>2. CASE ~(i <= n)
        <5>1. i = n + 1
          BY <4>2
        <5>. QED
          BY <5>1
      <4>. QED
        BY <4>1, <4>2
    <3>. QED
      BY <3>1, <3>2, Zenon DEF Near
  <2>3. CASE ~f
    <3>1. d < t /\ t < Date(b + (i + 1))
      BY <1>1, <1>4, <2>1, <2>3
    <3>2. CASE i <= n
      <4>1. Date(b + i) < t
        BY <1>3, <3>1, <3>2
      <4>. QED
        BY <3>1, <3>2, <4>1, Zenon DEF Near
    <3>3. CASE ~(i <= n)
      <4>1. i = n + 1 /\ i - 1 = n
        BY <3>3
      <4>2. Date(b + (i - 1)) < t /\ t < Date(b + i)
        BY <1>1, <4>1
      <4>. QED
        BY <4>2, Zenon DEF Near
    <3>. QED
      BY <3>2, <3>3
  <2>. QED
    BY <2>2, <2>3
<1>9. ASSUME u # 0
      PROVE  /\ u \in Skips /\ u <= n /\ u <= cap /\ u \in Nat
             /\ p => u < s
             /\ g /\ t < Date(b + n) => Above(n, b, t, i, u)
  <2>1. CASE p
    <3>1. u = h /\ s # 1
      BY <1>2, <1>9, <1>10, <2>1
    <3>2. u \in Skips /\ u \in Nat /\ u < s /\ u <= n /\ u <= cap
      BY <1>1, <1>2, <3>1
    <3>3. g => ~f
      BY <1>5, <2>1
    <3>. QED
      BY <1>1, <3>1, <3>2, <3>3, Zenon
  <2>2. CASE ~p
    <3>1. u = s /\ (g => f)
      BY <1>5, <1>10, <2>2
    <3>. QED
      BY <1>1, <1>2, <2>2, <3>1, Zenon
  <2>. QED
    BY <2>1, <2>2
<1>. QED
  BY <1>6, <1>7, <1>8, <1>9, Zenon DEF d

LEMMA TodoType ==
  ASSUME NEW n, NEW b, NEW t, NEW torn, NEW cap, Sought(n, b, t, torn, cap),
         NEW i, NEW s, NEW f, Searching(n, b, t, cap, i, s, f)
  PROVE  Todo(n, b, t, torn, i, s, f) \in Nat
<1>1. n \in Nat /\ i \in 1 .. n + 1 /\ s \in Skips /\ f \in BOOLEAN
  BY Zenon DEF Sought, Searching
<1>2. Left(n, b, t, torn, i, f) \in 0 .. n + 1 /\ s \in Nat
  BY <1>1, LeftType, SkipIs
<1>3. s * (n + 2) \in Nat
  BY <1>1, <1>2
<1>. QED
  BY <1>1, <1>2, <1>3 DEF Todo

\* The loop is at j after it was at i, and has less left to do.
Nearer(n, b, t, torn, cap, i, s, f, j, u, g) ==
  /\ Searching(n, b, t, cap, j, u, g)
  /\ Todo(n, b, t, torn, j, u, g) < Todo(n, b, t, torn, i, s, f)

\* Where the loop goes from there, with less left to do.
LEMMA Goes ==
  ASSUME NEW n, NEW b, NEW t, NEW torn, NEW cap, Sought(n, b, t, torn, cap),
         NEW i, NEW s, NEW f, Searching(n, b, t, cap, i, s, f),
         NEW p, NEW u, NEW g, Turned(n, b, t, torn, i, s, f, p, u, g), u # 0
  PROVE  /\ g = TRUE /\ i = n + 1 => Nearer(n, b, t, torn, cap, i, s, f, i, u, FALSE)
         /\ g = TRUE /\ i # n + 1 => \A c : StepsForth(n, i, u, cap, c) =>
              /\ c \in 1 .. n + 1 - i /\ c <= cap
              /\ Nearer(n, b, t, torn, cap, i, s, f, i + c, u, TRUE)
         /\ g = FALSE /\ i = 1 => Nearer(n, b, t, torn, cap, i, s, f, i, u, TRUE)
         /\ g = FALSE /\ i # 1 => \A c : StepsBack(i, u, cap, c) =>
              /\ c \in 1 .. i - 1 /\ c <= cap
              /\ Nearer(n, b, t, torn, cap, i, s, f, i - c, u, FALSE)
<1>. DEFINE d == Shown(n, b, torn, i)
<1>. /\ n \in Nat /\ b \in Nat /\ t \in Int /\ torn \in Int /\ cap \in Skips
     /\ Date(b) < t /\ t < Date(b + (n + 1))
  BY Zenon DEF Sought
<1>. i \in 1 .. n + 1 /\ s \in Skips /\ f \in BOOLEAN
  BY Zenon DEF Searching
<1>1. /\ t # Date(b + n)
      /\ g => d < t
      /\ ~g => t < d
      /\ u \in Skips /\ u <= n /\ u <= cap /\ u \in Nat
      /\ p => u < s
      /\ g /\ t < Date(b + n) => Above(n, b, t, i, u)
  BY Compared
<1>0. /\ p \in BOOLEAN /\ g \in BOOLEAN
      /\ p <=> Passed(n, b, t, torn, i, f)
      /\ ~p => u = s /\ (g <=> f)
  BY Zenon DEF Turned
<1>2. /\ i = n + 1 => Date(b + n) < t
      /\ t < Date(b + n) => i <= n
  BY Zenon DEF Searching
<1>3. /\ d = IF i <= n THEN Date(b + i) ELSE torn
      /\ d \in Int
  BY DEF Shown, Date
<1>4. u >= 1 /\ s \in Nat /\ cap \in Nat
  BY <1>1, SkipIs
<1>5. ASSUME NEW j \in 1 .. n + 1, NEW k \in BOOLEAN,
             ~p => Left(n, b, t, torn, j, k) < Left(n, b, t, torn, i, f)
      PROVE  Todo(n, b, t, torn, j, u, k) < Todo(n, b, t, torn, i, s, f)
  <2>1. CASE p
    BY <1>1, <1>4, <2>1, TodoLess
  <2>2. CASE ~p
    <3>1. u = s
      BY <1>0, <2>2
    <3>. QED
      BY <1>1, <1>4, <1>5, <2>2, <3>1, TodoLess
  <2>. QED
    BY <2>1, <2>2
<1>. DEFINE x == Left(n, b, t, torn, i, f)
<1>6. /\ ~p /\ g => x = (n + 2) - i
      /\ ~p /\ ~g => x = i
  BY <1>0, Zenon DEF Left
<1>7. ASSUME NEW j \in 1 .. n + 1, NEW y, y = Left(n, b, t, torn, j, TRUE)
      PROVE  y \in Int /\ y <= (n + 2) - j
  <2>1. TRUE \in BOOLEAN
    OBVIOUS
  <2>2. y \in 0 .. n + 1
    BY <1>7, <2>1, LeftType, Zenon
  <2>3. y = 0 \/ y = (n + 2) - j
    BY <1>7, Zenon DEF Left
  <2>. QED
    BY <2>2, <2>3
<1>13. ASSUME NEW j \in 1 .. n + 1, NEW y, y = Left(n, b, t, torn, j, FALSE)
      PROVE  y \in Int /\ y <= j
  <2>1. FALSE \in BOOLEAN
    OBVIOUS
  <2>2. y \in 0 .. n + 1
    BY <1>13, <2>1, LeftType, Zenon
  <2>3. y = 0 \/ y = j
    BY <1>13, Zenon DEF Left
  <2>. QED
    BY <2>2, <2>3
<1>8. /\ t < d => Left(n, b, t, torn, i, TRUE) = 0
      /\ d < t => Left(n, b, t, torn, i, FALSE) = 0
  BY <1>3 DEF Left, Passed
<1>. HIDE DEF d, x
<1>9. ASSUME g, i = n + 1
      PROVE  Nearer(n, b, t, torn, cap, i, s, f, i, u, FALSE)
  <2>1. Left(n, b, t, torn, i, FALSE) = 0
    BY <1>1, <1>8, <1>9, Zenon
  <2>2. ~p => Left(n, b, t, torn, i, FALSE) < x
    <3>1. ~p => 0 < x
      BY <1>6, <1>9
    <3>. QED
      BY <2>1, <3>1, Zenon
  <2>3. /\ i \in 1 .. n + 1 /\ FALSE \in BOOLEAN
        /\ t < Date(b + (i + u))
        /\ ~(t < Date(b + n))
    BY <1>1, <1>2, <1>4, <1>9 DEF Date
  <2>4. Searching(n, b, t, cap, i, u, FALSE)
    BY <1>1, <1>9, <1>2, <2>3, Zenon DEF Searching
  <2>. QED
    BY <1>5, <2>2, <2>3, <2>4, Zenon DEF x, Nearer
<1>10. ASSUME g, i # n + 1, NEW c, StepsForth(n, i, u, cap, c)
       PROVE  /\ c \in 1 .. n + 1 - i /\ c <= cap
              /\ Nearer(n, b, t, torn, cap, i, s, f, i + c, u, TRUE)
  <2>1. i \in 1 .. n /\ Date(b + i) < t
    BY <1>1, <1>3, <1>10
  <2>2. /\ c \in 1 .. n + 1 - i /\ c <= cap
        /\ Searching(n, b, t, cap, i + c, u, TRUE)
    BY <1>1, <1>10, <2>1, StepForth
  <2>3. i + c \in 1 .. n + 1 /\ (n + 2) - (i + c) < (n + 2) - i /\ (n + 2) - (i + c) \in Int
    BY <2>1, <2>2
  <2>4. PICK y : y = Left(n, b, t, torn, i + c, TRUE)
    OBVIOUS
  <2>5. ~p => y < x
    <3>1. ~p => x = (n + 2) - i
      BY <1>6, <1>10
    <3>2. y \in Int /\ y <= (n + 2) - (i + c)
      BY <1>7, <2>3, <2>4
    <3>. QED
      BY <2>3, <3>1, <3>2
  <2>6. ~p => Left(n, b, t, torn, i + c, TRUE) < Left(n, b, t, torn, i, f)
    BY <2>4, <2>5, Zenon DEF x
  <2>7. TRUE \in BOOLEAN /\ FALSE \in BOOLEAN
    OBVIOUS
  <2>. QED
    BY <1>5, <2>2, <2>3, <2>6, <2>7, Zenon DEF Nearer
<1>11. ASSUME ~g, i = 1
       PROVE  Nearer(n, b, t, torn, cap, i, s, f, i, u, TRUE)
  <2>1. Left(n, b, t, torn, i, TRUE) = 0
    BY <1>1, <1>8, <1>11, Zenon
  <2>2. ~p => Left(n, b, t, torn, i, TRUE) < x
    <3>1. ~p => 0 < x
      BY <1>6, <1>11
    <3>. QED
      BY <2>1, <3>1, Zenon
  <2>3. n >= 1 /\ i <= n /\ i \in 1 .. n + 1 /\ TRUE \in BOOLEAN /\ i # n + 1
    BY <1>1, <1>4, <1>11
  <2>4. t < Date(b + i) /\ Date(b + (i - u)) < t
    BY <1>1, <1>3, <1>4, <1>11, <2>3 DEF Date
  <2>5. Above(n, b, t, i, u)
    <3>1. i + 0 * u = i /\ 0 \in Nat
      BY <1>1
    <3>. QED
      BY <2>3, <2>4, <3>1, Zenon DEF Above
  <2>6. Searching(n, b, t, cap, i, u, TRUE)
    BY <1>1, <2>3, <2>4, <2>5, Zenon DEF Searching
  <2>. QED
    BY <1>5, <2>2, <2>3, <2>6, Zenon DEF x, Nearer
<1>12. ASSUME ~g, i # 1, NEW c, StepsBack(i, u, cap, c)
       PROVE  /\ c \in 1 .. i - 1 /\ c <= cap
              /\ Nearer(n, b, t, torn, cap, i, s, f, i - c, u, FALSE)
  <2>1. i \in 2 .. n + 1 /\ t < Date(b + i)
    <3>1. CASE i <= n
      BY <1>1, <1>3, <1>12, <3>1
    <3>2. CASE ~(i <= n)
      <4>1. i = n + 1
        BY <3>2
      <4>. QED
        BY <1>12, <4>1
    <3>. QED
      BY <3>1, <3>2
  <2>0. /\ u \in Skips /\ u <= n /\ u <= cap /\ t # Date(b + n)
        /\ t < Date(b + n) => i <= n
    BY <1>1, <1>2
  <2>2. /\ c \in 1 .. i - 1 /\ c <= cap
        /\ Searching(n, b, t, cap, i - c, u, FALSE)
    BY <1>12, <2>0, <2>1, StepBack, Zenon
  <2>3. i - c \in 1 .. n + 1 /\ i - c < i
    BY <2>1, <2>2
  <2>4. PICK y : y = Left(n, b, t, torn, i - c, FALSE)
    OBVIOUS
  <2>5. ~p => y < x
    <3>1. ~p => x = i
      BY <1>6, <1>12
    <3>2. y \in Int /\ y <= i - c
      BY <1>13, <2>3, <2>4
    <3>. QED
      BY <2>3, <3>1, <3>2
  <2>6. ~p => Left(n, b, t, torn, i - c, FALSE) < Left(n, b, t, torn, i, f)
    BY <2>4, <2>5, Zenon DEF x
  <2>7. TRUE \in BOOLEAN /\ FALSE \in BOOLEAN
    OBVIOUS
  <2>. QED
    BY <1>5, <2>2, <2>3, <2>6, <2>7, Zenon DEF Nearer
<1>. QED
  BY <1>9, <1>10, <1>11, <1>12

-----------------------------------------------------------------------------
(* The ring that is searched.                                              *)

(***************************************************************************)
(* What the search needs to know of the ring besides Inv: on the first lap *)
(* nothing has been written from END on; and only the first record ever    *)
(* appended begins at PB, for an END that falls on PE has slipped.         *)
(***************************************************************************)
Fresh == nrec <= Cap => \A a \in end .. PE - 1 : mem[a].rec = 0
Clear == \A j \in 0 .. Held : WalkBack(end, j) = PB => nrec = j

LEMMA FreshNext ==
  ASSUME TypeOK, Placed, DB_append_record, ~slipped', Fresh
  PROVE  Fresh'
<1>. SUFFICES ASSUME nrec' <= Cap, NEW a \in end' .. PE - 1 PROVE mem'[a].rec = 0
  BY DEF Fresh
<1>1. /\ end \in Cells /\ nrec \in Nat
      /\ nrec <= Cap => end = PB + nrec * S
      /\ nrec' = nrec + 1 /\ mem' = Written(mem, end, nrec') /\ DOMAIN mem = Cells
  BY DEF TypeOK, Placed, DB_append_record, Cells
<1>2. end' \in Cells /\ end' = PB + nrec' * S
  BY PlacedNext DEF Placed
<1>3. nrec <= Cap /\ (nrec + 1) * S = nrec * S + S /\ nrec * S \in Nat
  <2>1. nrec <= Cap
    BY <1>1, CapIs
  <2>. QED
    BY <1>1, <2>1, Multiples
<1>4. PICK J \in Nat : J = nrec * S
  BY <1>3
<1>5. PICK e : e = end'
  OBVIOUS
<1>6. e = end + S /\ e \in Cells /\ a \in e .. PE - 1
  <2>1. end = PB + J /\ e = PB + (J + S)
    BY <1>1, <1>2, <1>3, <1>4, <1>5
  <2>. QED
    BY <1>2, <1>4, <1>5, <2>1, CapIs
<1>7. a \in Cells /\ a \in end .. PE - 1
  BY <1>1, <1>6, CapIs DEF Cells
<1>8. \A k \in 0 .. S - 1 : a # At(end, k)
  BY <1>1, <1>6, CapIs DEF Cells, At
<1>9. mem'[a] = mem[a]
  BY <1>1, <1>7, <1>8, WrittenIs
<1>. QED
  BY <1>3, <1>7, <1>9 DEF Fresh

LEMMA ClearNext ==
  ASSUME TypeOK, Placed, DB_append_record, ~slipped', Clear
  PROVE  Clear'
<1>1. /\ end' \in Cells /\ nrec' = nrec + 1 /\ nrec \in Nat
      /\ Held' = IF nrec < Cap THEN Held + 1 ELSE Held
      /\ WalkBack(end', 1) = end
      /\ \A j \in 1 .. Held' - 1 :
           /\ j \in 1 .. Held /\ WalkBack(end', j + 1) = WalkBack(end, j)
  BY AppendIs, Zenon
<1>2. /\ end \in Cells /\ end' = MoveForward(end, 1) /\ Held \in Nat
      /\ \A j \in 0 .. Held : WalkBack(end, j) = PB => nrec = j
  BY <1>1, CapIs DEF Placed, DB_append_record, Held, Clear
<1>3. WalkBack(end', 0) = end' /\ WalkBack(end, 0) = end
  <2>1. 0 \in Nat /\ 0 + 0 <= Cap
    BY CapIs
  <2>. QED
    BY <1>1, <1>2, <2>1, WalksAddUp
<1>4. end' # PB
  <2>1. MoveForward(end, 1) = IF end > PE - S THEN (end + S) - Extent ELSE end + S
    BY <1>2, MoveForwardIs DEF Cells
  <2>. QED
    BY <1>2, <2>1, CapIs DEF Cells
<1>5. ASSUME NEW j \in 0 .. Held', WalkBack(end', j) = PB PROVE nrec' = j
  <2>. DEFINE H == Held'
              z == WalkBack(end', j)
  <2>1. H \in Nat /\ j \in 0 .. H
    BY <1>1, <1>2
  <2>. HIDE DEF H
  <2>2. j # 0
    BY <1>3, <1>4, <1>5
  <2>3. PICK h \in Nat : h = j - 1
    BY <2>1, <2>2
  <2>4. h \in 0 .. Held /\ WalkBack(end, h) = z /\ j = h + 1
    <3>1. CASE h = 0
      <4>1. j = 1 /\ 0 \in 0 .. Held
        BY <1>2, <2>1, <2>3, <3>1
      <4>. QED
        BY <1>1, <1>3, <3>1, <4>1
    <3>2. CASE h # 0
      <4>1. h \in 1 .. H - 1 /\ j = h + 1
        BY <2>1, <2>3, <3>2
      <4>2. h \in 1 .. Held /\ WalkBack(end', h + 1) = WalkBack(end, h)
        BY <1>1, <4>1 DEF H
      <4>. QED
        BY <1>2, <4>1, <4>2
    <3>. QED
      BY <3>1, <3>2
  <2>5. nrec = h
    BY <1>2, <1>5, <2>4
  <2>. QED
    BY <1>1, <2>4, <2>5
<1>. QED
  BY <1>5 DEF Clear

LEMMA SearchInv == Spec => [](Inv /\ (~slipped => Fresh /\ Clear))
<1>. DEFINE I == Inv /\ (~slipped => Fresh /\ Clear)
<1>1. Init => I
  <2>. SUFFICES ASSUME Init PROVE Fresh /\ Clear
    BY InvInit
  <2>1. /\ nrec = 0 /\ end = PB /\ mem = [a \in PB .. PE - 1 |-> Blank] /\ Held = 0
    BY CapIs DEF Init, Held
  <2>2. Fresh
    BY <2>1 DEF Fresh, Blank
  <2>3. Clear
    BY <2>1 DEF Clear
  <2>. QED
    BY <2>2, <2>3
<1>2. I /\ [Next]_vars => I'
  <2>. SUFFICES ASSUME I, [Next]_vars, ~slipped' PROVE (Fresh /\ Clear)'
    BY InvNext
  <2>0. TypeOK
    BY DEF Inv
  <2>1. CASE DB_append_record
    <3>1. ~slipped /\ Placed /\ Fresh /\ Clear
      BY <2>1 DEF DB_append_record, Inv
    <3>. QED
      BY <2>0, <2>1, <3>1, FreshNext, ClearNext
  <2>2. ASSUME NEW i \in 1 .. Count(begin, end), NEW f \in Flags, DB_mark_record(i, f)
        PROVE  (Fresh /\ Clear)'
    <3>1. Placed /\ Whole /\ Fresh /\ Clear /\ UNCHANGED <<begin, end, nrec>>
      BY <2>2 DEF DB_mark_record, Inv
    <3>2. \A a \in Cells : mem'[a].rec = mem[a].rec
      BY <2>0, <2>2, <3>1, MarkIs
    <3>3. Clear'
      BY <3>1 DEF Clear, Held
    <3>4. \A a \in end .. PE - 1 : a \in Cells
      BY <3>1, CapIs DEF Placed, Cells
    <3>5. Fresh'
      BY <3>1, <3>2, <3>4 DEF Fresh
    <3>. QED
      BY <3>3, <3>5
  <2>3. CASE UNCHANGED vars
    BY <2>3 DEF vars, Fresh, Clear, Held
  <2>. QED
    BY <2>1, <2>2, <2>3 DEF Next
<1>. QED
  BY <1>1, <1>2, PTL DEF Spec

LEMMA StrideIs ==
  ASSUME NEW c \in Nat, c * S < 65536
  PROVE  Stride(c) = c * S
<1>. DEFINE C == c * S
<1>1. C \in Nat /\ C < 65536
  BY CapIs
<1>. HIDE DEF C
<1>2. C % 65536 = C
  BY <1>1
<1>. QED
  BY <1>2 DEF C, Stride

\* DB_iterator_moveback by any number of records is the walk back.
LEMMA MoveBackBy ==
  ASSUME NEW z \in Cells, NEW c \in Nat, c <= Cap, c * S < 65536
  PROVE  MoveBack(z, c) = WalkBack(z, c)
<1>. DEFINE C == c * S
<1>1. C \in Nat /\ Stride(c) = C /\ C <= Extent
  <2>1. C <= Cap * S
    BY Multiples
  <2>. QED
    BY <2>1, CapIs, StrideIs
<1>2. /\ MoveBack(z, c) = IF z < PB + C THEN PE - ((PB + C) - z) ELSE z - C
      /\ WalkBack(z, c) = IF z - C < PB THEN (z - C) + Extent ELSE z - C
  BY <1>1, CapIs, WalkIs DEF MoveBack
<1>. HIDE DEF C
<1>. QED
  BY <1>1, <1>2, CapIs DEF Cells

\* DB_iterator_moveforward undoes it, unless it ends on PE.
LEMMA MoveForwardBy ==
  ASSUME NEW e \in Cells, NEW h \in Nat, NEW c \in Nat, h + c <= Cap, c * S < 65536,
         c # 0, WalkBack(e, h) # PB
  PROVE  MoveForward(WalkBack(e, h + c), c) = WalkBack(e, h)
<1>. DEFINE C == c * S
            H == h * S
            z == WalkBack(e, h + c)
            y == WalkBack(e, h)
<1>1. C \in Nat /\ H \in Nat /\ (h + c) * S = H + C /\ H + C <= Extent
  <2>1. C \in Nat /\ H \in Nat /\ (h + c) * S = H + C
    BY CapIs
  <2>2. (h + c) * S <= Cap * S
    BY Multiples
  <2>. QED
    BY <2>1, <2>2, CapIs
<1>2. /\ z = IF e - (H + C) < PB THEN (e - (H + C)) + Extent ELSE e - (H + C)
      /\ y = IF e - H < PB THEN (e - H) + Extent ELSE e - H
  BY <1>1, CapIs, WalkIs
<1>3. Stride(c) = C
  BY StrideIs
<1>4. MoveForward(z, c) = IF z > PE - C THEN PB + (z - (PE - C)) ELSE z + C
  BY <1>3 DEF MoveForward
<1>5. y # PB
  OBVIOUS
<1>. HIDE DEF C, H, z, y
<1>6. MoveForward(z, c) = y
  BY <1>1, <1>2, <1>4, <1>5, CapIs DEF Cells
<1>. QED
  BY <1>6 DEF z, y

LEMMA GapForth ==
  ASSUME NEW e \in Cells, NEW j \in Nat, j * S < Extent
  PROVE  Gap(WalkBack(e, j), e) = j * S
<1>. DEFINE J == j * S
<1>1. J \in Nat /\ J < Extent
  BY CapIs
<1>2. WalkBack(e, j) = IF e - J < PB THEN (e - J) + Extent ELSE e - J
  BY <1>1, CapIs, WalkIs
<1>. HIDE DEF J
<1>3. Gap(WalkBack(e, j), e) = J
  BY <1>1, <1>2, CapIs DEF Gap, Cells
<1>. QED
  BY <1>3 DEF J

\* The ring, and where its i-th record lies; END comes after the last.
Searchable == TypeOK /\ Placed /\ Whole /\ Fresh /\ Clear /\ begin # end
Spot(i) == WalkBack(end, (Held + 1) - i)

LEMMA HeldIs ==
  ASSUME Searchable
  PROVE  /\ begin \in Cells /\ end \in Cells /\ nrec \in Nat
         /\ Held \in 1 .. Cap /\ Held <= nrec
         /\ Gap(begin, end) = Held * S /\ Held * S < Extent /\ Held * S \in Nat
         /\ Count(begin, end) = Held
<1>1. /\ begin \in Cells /\ end \in Cells /\ nrec \in Nat /\ begin # end
      /\ Gap(begin, end) = Held * S
  BY DEF Searchable, TypeOK, Placed
<1>2. Count(begin, end) = Held /\ Held \in 0 .. Cap /\ Held <= nrec
  BY <1>1, CountIs
<1>3. Gap(begin, end) \in Nat /\ Gap(begin, end) # 0 /\ Gap(begin, end) < Extent
  BY <1>1, CapIs DEF Gap, Cells
<1>4. 0 * S = 0
  BY CapIs
<1>5. Held # 0
  BY <1>1, <1>3, <1>4
<1>. QED
  BY <1>1, <1>2, <1>3, <1>5, CapIs

LEMMA SpotIs ==
  ASSUME Searchable, NEW i \in 1 .. Held + 1
  PROVE  /\ Spot(i) \in Cells
         /\ Gap(begin, Spot(i)) = (i - 1) * S
         /\ Gap(Spot(i), end) = ((Held + 1) - i) * S
         /\ Spot(i) = begin <=> i = 1
         /\ Spot(i) = end <=> i = Held + 1
<1>0. /\ begin \in Cells /\ end \in Cells
      /\ Held \in 1 .. Cap
      /\ Gap(begin, end) = Held * S /\ Held * S < Extent /\ Held * S \in Nat
  BY HeldIs
<1>1. PICK j \in 0 .. Held : j = (Held + 1) - i /\ Held - j = i - 1
  BY <1>0
<1>2. Spot(i) = WalkBack(end, j)
  BY <1>1 DEF Spot
<1>3. Spot(i) \in Cells
  <2>1. j \in Nat /\ j + 0 <= Cap /\ 0 \in Nat
    BY <1>0, CapIs
  <2>. QED
    BY <1>0, <1>2, <2>1, WalksAddUp
<1>4. Gap(begin, Spot(i)) = (i - 1) * S
  <2>1. Held \in 0 .. Cap
    BY <1>0
  <2>2. Gap(begin, WalkBack(end, j)) = (Held - j) * S
    BY <1>0, <2>1, GapBack
  <2>. QED
    BY <1>1, <1>2, <2>2
<1>5. Gap(Spot(i), end) = ((Held + 1) - i) * S
  <2>1. j \in Nat /\ Held - j \in Nat
    BY <1>0
  <2>2. j * S \in Nat /\ (Held - j) * S \in Nat
    BY <2>1, Multiples
  <2>3. (Held - j) * S = Held * S - j * S
    BY <1>0, <2>1, CapIs
  <2>4. j * S < Extent
    BY <1>0, <2>2, <2>3, CapIs
  <2>. QED
    BY <1>0, <1>1, <1>2, <2>1, <2>4, GapForth
<1>6. Spot(i) = begin <=> i = 1
  <2>1. Gap(begin, Spot(i)) = 0 <=> Spot(i) = begin
    BY <1>0, <1>3, CapIs DEF Gap, Cells
  <2>2. i - 1 \in Nat /\ ((i - 1) * S = 0 => i - 1 = 0)
    <3>1. i - 1 \in Nat
      OBVIOUS
    <3>. QED
      BY <3>1, Multiples
  <2>3. 0 * S = 0
    BY CapIs
  <2>4. i = 1 => i - 1 = 0
    OBVIOUS
  <2>. QED
    BY <1>4, <2>1, <2>2, <2>3, <2>4
<1>7. Spot(i) = end <=> i = Held + 1
  <2>1. Gap(Spot(i), end) = 0 <=> Spot(i) = end
    BY <1>0, <1>3, CapIs DEF Gap, Cells
  <2>2. j * S = 0 => j = 0
    BY <1>0, Multiples
  <2>3. 0 * S = 0
    BY CapIs
  <2>4. i = Held + 1 <=> j = 0
    BY <1>0, <1>1
  <2>. QED
    BY <1>1, <1>5, <2>1, <2>2, <2>3, <2>4
<1>. QED
  BY <1>3, <1>4, <1>5, <1>6, <1>7

\* How far the ends are, in records.
LEMMA SkipLengths ==
  ASSUME Searchable, NEW i \in 1 .. Held + 1, NEW cap
  PROVE  /\ i # 1 => SkipLength(begin, Spot(i), cap) = Power(i - 1, cap)
         /\ i # Held + 1 => SkipLength(Spot(i), end, cap) = Power((Held + 1) - i, cap)
<1>1. begin \in Cells /\ end \in Cells /\ Held \in 1 .. Cap
  BY HeldIs
<1>2. /\ Spot(i) \in Cells
      /\ Gap(begin, Spot(i)) = (i - 1) * S
      /\ Gap(Spot(i), end) = ((Held + 1) - i) * S
      /\ Spot(i) = begin <=> i = 1
      /\ Spot(i) = end <=> i = Held + 1
  BY SpotIs
<1>3. i - 1 \in Nat /\ (Held + 1) - i \in Nat
  BY <1>1
<1>4. /\ begin # Spot(i) => Distance(begin, Spot(i)) \div S = i - 1
      /\ Spot(i) # end => Distance(Spot(i), end) \div S = (Held + 1) - i
  BY <1>1, <1>2, <1>3, CountOf
<1>5. ASSUME i # 1 PROVE SkipLength(begin, Spot(i), cap) = Power(i - 1, cap)
  <2>1. Distance(begin, Spot(i)) \div S = i - 1
    BY <1>2, <1>4, <1>5
  <2>. QED
    BY <2>1, Zenon DEF SkipLength
<1>6. ASSUME i # Held + 1 PROVE SkipLength(Spot(i), end, cap) = Power((Held + 1) - i, cap)
  <2>1. Distance(Spot(i), end) \div S = (Held + 1) - i
    BY <1>2, <1>4, <1>6
  <2>. QED
    BY <2>1, Zenon DEF SkipLength
<1>. QED
  BY <1>5, <1>6

\* The steps go from one record to another.
LEMMA StepsLand ==
  ASSUME Searchable, NEW i \in 1 .. Held + 1, NEW c \in Nat, c # 0, c * S < 65536
  PROVE  /\ c <= i - 1 => MoveBack(Spot(i), c) = Spot(i - c)
         /\ c <= (Held + 1) - i => MoveForward(Spot(i), c) = Spot(i + c)
<1>1. begin \in Cells /\ end \in Cells /\ Held \in 1 .. Cap /\ Held <= nrec /\ nrec \in Nat
  BY HeldIs
<1>2. Spot(i) \in Cells
  BY SpotIs
<1>3. PICK j \in 0 .. Held : j = (Held + 1) - i
  BY <1>1
<1>4. Spot(i) = WalkBack(end, j)
  BY <1>3 DEF Spot
<1>5. ASSUME c <= i - 1 PROVE MoveBack(Spot(i), c) = Spot(i - c)
  <2>1. MoveBack(Spot(i), c) = WalkBack(Spot(i), c)
    <3>. c <= Cap
      BY <1>1, <1>5, CapIs
    <3>. QED
      BY <1>2, MoveBackBy
  <2>2. j \in Nat /\ j + c <= Cap /\ (Held + 1) - (i - c) = j + c
    BY <1>1, <1>3, <1>5, CapIs
  <2>3. WalkBack(WalkBack(end, j), c) = WalkBack(end, j + c)
    BY <1>1, <2>2, WalksAddUp
  <2>. QED
    BY <1>4, <2>1, <2>2, <2>3 DEF Spot
<1>6. ASSUME c <= (Held + 1) - i PROVE MoveForward(Spot(i), c) = Spot(i + c)
  <2>1. PICK h \in 0 .. Held : h = j - c
    BY <1>1, <1>3, <1>6
  <2>2. h \in Nat /\ h + c = j /\ h + c <= Cap /\ (Held + 1) - (i + c) = h /\ h < Held
    BY <1>1, <1>3, <2>1, CapIs
  <2>3. WalkBack(end, h) # PB
    BY <1>1, <2>1, <2>2 DEF Searchable, Clear
  <2>4. MoveForward(WalkBack(end, h + c), c) = WalkBack(end, h)
    BY <1>1, <2>2, <2>3, MoveForwardBy
  <2>. QED
    BY <1>4, <2>2, <2>4 DEF Spot
<1>. QED
  BY <1>5, <1>6

\* At END there is no whole record: nothing was written there yet, or BEGIN is less than one away.
LEMMA EndIsTorn ==
  ASSUME Searchable
  PROVE  RecordAt(mem, end).rec = 0
<1>1. /\ end \in Cells /\ nrec \in Nat /\ Held \in 1 .. Cap
      /\ Gap(begin, end) = Held * S /\ Held * S < Extent /\ Held * S \in Nat
  BY HeldIs
<1>2. mem[end].rec = 0 \/ \E k \in 0 .. S - 1 : mem[ReadAddr(end, k)].off # k
  <2>1. CASE nrec <= Cap
    <3>1. end \in end .. PE - 1
      BY <1>1, CapIs DEF Cells
    <3>. QED
      BY <2>1, <3>1 DEF Searchable, Fresh
  <2>2. CASE ~(nrec <= Cap)
    <3>1. Held = Cap
      BY <1>1, <2>2, CapIs DEF Held
    <3>. DEFINE G == Cap * S
                k == Extent - G
                x == WalkBack(end, Cap)
    <3>2. G \in Nat /\ G < Extent /\ Extent < G + S
      BY <1>1, <3>1, CapIs
    <3>3. x = IF end - G < PB THEN (end - G) + Extent ELSE end - G
      BY <1>1, <3>1, <3>2, CapIs, WalkIs
    <3>. HIDE DEF G, x
    <3>4. k \in 0 .. S - 1 /\ k # 0 /\ At(end, k) = x
      BY <1>1, <3>2, <3>3, CapIs DEF At, Cells
    <3>. HIDE DEF k
    <3>5. x \in Cells
      BY <1>1, CapIs, WalkBackIs DEF x
    <3>6. At(x, 0) = x /\ 0 \in 0 .. S - 1 /\ Cap \in 1 .. Held
      BY <1>1, <3>1, <3>5, AtZero, CapIs
    <3>7. mem[At(WalkBack(end, Cap), 0)].off = 0
      BY <3>6 DEF Searchable, Whole
    <3>8. mem[x].off = 0
      BY <3>6, <3>7 DEF x
    <3>9. ReadAddr(end, k) = x
      BY <1>1, <3>4, ReadAddrIs
    <3>. QED
      BY <3>4, <3>8, <3>9
  <2>. QED
    BY <2>1, <2>2
<1>. QED
  BY <1>2 DEF RecordAt

LEMMA ReadIs ==
  ASSUME Searchable, NEW i \in 1 .. Held + 1, NEW torn
  PROVE  DateAt(Spot(i), torn) = Shown(Held, nrec - Held, torn, i)
<1>1. /\ end \in Cells /\ nrec \in Nat /\ Held \in 1 .. Cap /\ Held <= nrec
      /\ Count(begin, end) = Held
  BY HeldIs
<1>2. CASE i <= Held
  <2>1. i \in 1 .. Held /\ (Held - i) + 1 = (Held + 1) - i /\ (nrec - (Held - i + 1)) + 1 = (nrec - Held) + i
    BY <1>1, <1>2
  <2>2. /\ Window(mem, begin, end) = [h \in 1 .. Held |-> Newest(Held - h + 1)]
    BY WindowIs DEF Searchable
  <2>3. Window(mem, begin, end)[i] = RecordAt(mem, Slot(begin, end, i))
    BY <1>1, <2>1 DEF Window
  <2>4. Slot(begin, end, i) = Spot(i)
    BY <1>1, <2>1 DEF Slot, Spot
  <2>5. RecordAt(mem, Spot(i)) = Newest(Held - i + 1)
    BY <2>1, <2>2, <2>3, <2>4
  <2>6. RecordAt(mem, Spot(i)).rec = (nrec - Held) + i
    BY <2>1, <2>5 DEF Newest
  <2>7. (nrec - Held) + i # 0
    BY <1>1, <2>1
  <2>. QED
    BY <1>2, <2>6, <2>7 DEF DateAt, Shown
<1>3. CASE ~(i <= Held)
  <2>1. i = Held + 1
    BY <1>1, <1>3
  <2>2. Spot(i) = end
    BY <2>1, SpotIs
  <2>. QED
    BY <1>3, <2>2, EndIsTorn DEF DateAt, Shown
<1>. QED
  BY <1>2, <1>3

-----------------------------------------------------------------------------
(* The loop. *)

Looking(i, s, f) == [at |-> Spot(i), skip |-> s, forward |-> f, done |-> FALSE]

\* One iteration ends the search next to the date, or goes on with less left to do.
LEMMA IterationIs ==
  ASSUME Searchable, NEW q, NEW cap \in SkipCaps, NEW n, n = Held, NEW b, b = nrec - Held,
         Sought(n, b, q.date, q.torn, cap), q.torn # q.date,
         NEW i, NEW s, NEW f, Searching(n, b, q.date, cap, i, s, f),
         NEW r, r = Iteration(q, cap, Looking(i, s, f))
  PROVE  \/ r = [Looking(i, s, f) EXCEPT !.done = TRUE] /\ Near(n, b, q.date, i)
         \/ \E j, u, g : /\ r = Looking(j, u, g)
                         /\ Nearer(n, b, q.date, q.torn, cap, i, s, f, j, u, g)
<1>. DEFINE t == q.date
            torn == q.torn
            d == Shown(n, b, torn, i)
            p == Passed(n, b, t, torn, i, f)
            u == IF p THEN s \div 2 ELSE s
            g == f # p
            to(z) == [at |-> z, skip |-> u, forward |-> g, done |-> FALSE]
<1>0. Sought(n, b, t, torn, cap) /\ Searching(n, b, t, cap, i, s, f)
  OBVIOUS
<1>1. /\ n \in Nat /\ b \in Nat /\ t \in Int /\ torn \in Int /\ cap \in Skips
      /\ Date(b) < t /\ t < Date(b + (n + 1))
  BY Zenon DEF Sought
<1>2. i \in 1 .. n + 1 /\ s \in Skips /\ f \in BOOLEAN /\ i \in 1 .. Held + 1
  BY Zenon DEF Searching
<1>3. \A c \in Nat : c <= cap => c * S < 65536
  <2>. SUFFICES ASSUME NEW c \in Nat, c <= cap PROVE c * S < 65536
    OBVIOUS
  <2>1. cap * S < 65536 /\ cap \in Nat
    BY SkipAssumption, SkipIs
  <2>2. (cap - c) * S >= 0 /\ (cap - c) * S = cap * S - c * S
    BY <2>1, CapIs
  <2>3. c * S \in Nat /\ cap * S \in Nat
    BY <2>1, CapIs
  <2>. QED
    BY <2>1, <2>2, <2>3
<1>4. DateAt(Spot(i), torn) = d
  BY <1>2, ReadIs
<1>5. p \in BOOLEAN /\ g \in BOOLEAN
  <2>1. (d > t) \in BOOLEAN /\ (d < t) \in BOOLEAN
    OBVIOUS
  <2>. QED
    BY <2>1, Zenon DEF Passed
<1>6. Looking(i, s, f).at = Spot(i) /\ Looking(i, s, f).skip = s /\ Looking(i, s, f).forward = f
  BY Zenon DEF Looking
<1>7. r = IF d = t \/ u = 0 THEN [Looking(i, s, f) EXCEPT !.done = TRUE]
          ELSE IF g
          THEN IF Spot(i) = end THEN [to(end) EXCEPT !.forward = FALSE]
               ELSE to(MoveForward(Spot(i), Least(u, SkipLength(Spot(i), end, cap))))
          ELSE IF Spot(i) = begin THEN [to(begin) EXCEPT !.forward = TRUE]
               ELSE to(MoveBack(Spot(i), Least(u, SkipLength(begin, Spot(i), cap))))
  BY <1>4, <1>6, Zenon DEF Iteration, Passed
<1>11. (Held + 1) - i = n + 1 - i /\ (i # n + 1 => i # Held + 1)
  BY <1>1, <1>2
<1>8. /\ Spot(i) = begin <=> i = 1
      /\ Spot(i) = end <=> i = n + 1
  BY <1>2, SpotIs
<1>9. CASE d = t
  <2>1. i <= n /\ Date(b + i) = t
    BY <1>1, <1>2, <1>9 DEF Shown
  <2>. QED
    BY <1>7, <1>9, <2>1, Zenon DEF Near
<1>10. CASE d # t
  <2>1. Turned(n, b, t, torn, i, s, f, p, u, g)
    BY <1>5, <1>10, Zenon DEF Turned
  <2>2. CASE u = 0
    <3>1. Near(n, b, t, i)
      BY <2>1, <2>2, Compared
    <3>. QED
      BY <1>7, <2>2, <3>1, Zenon
  <2>3. CASE u # 0 /\ g = TRUE /\ i = n + 1
    <3>1. r = Looking(i, u, FALSE)
      <4>1. r = [to(end) EXCEPT !.forward = FALSE]
        BY <1>7, <1>8, <1>10, <2>3, Zenon
      <4>. QED
        BY <1>8, <2>3, <4>1 DEF Looking
    <3>2. Nearer(n, b, t, torn, cap, i, s, f, i, u, FALSE)
      <4>. HIDE DEF t, torn, u, g, p
      <4>. QED
        BY <2>1, <2>3, <1>0, Goes, Zenon
    <3>. QED
      BY <3>1, <3>2, Zenon
  <2>4. CASE u # 0 /\ g = TRUE /\ i # n + 1
    <3>. DEFINE c == Least(u, Power(n + 1 - i, cap))
    <3>1. /\ c \in 1 .. n + 1 - i /\ c <= cap
          /\ Nearer(n, b, t, torn, cap, i, s, f, i + c, u, TRUE)
      <4>1. StepsForth(n, i, u, cap, c)
        BY DEF StepsForth
      <4>. HIDE DEF t, torn, u, g, p, c
      <4>. QED
        BY <2>1, <2>4, <4>1, <1>0, Goes, Zenon
    <3>2. r = to(MoveForward(Spot(i), c))
      <4>1. SkipLength(Spot(i), end, cap) = Power(n + 1 - i, cap)
        BY <1>2, <1>11, <2>4, SkipLengths, Zenon
      <4>. QED
        BY <1>7, <1>8, <1>10, <2>4, <4>1, Zenon
    <3>3. MoveForward(Spot(i), c) = Spot(i + c)
      <4>. HIDE DEF c
      <4>1. c \in Nat /\ c # 0 /\ c * S < 65536 /\ c <= (Held + 1) - i
        BY <1>1, <1>2, <1>3, <3>1
      <4>. QED
        BY <1>2, <4>1, StepsLand
    <3>4. r = Looking(i + c, u, TRUE)
      BY <2>4, <3>2, <3>3, Zenon DEF Looking
    <3>. QED
      BY <3>1, <3>4, Zenon
  <2>5. CASE u # 0 /\ g = FALSE /\ i = 1
    <3>1. r = Looking(i, u, TRUE)
      <4>1. r = [to(begin) EXCEPT !.forward = TRUE]
        BY <1>7, <1>8, <1>10, <2>5, Zenon
      <4>. QED
        BY <1>8, <2>5, <4>1 DEF Looking
    <3>2. Nearer(n, b, t, torn, cap, i, s, f, i, u, TRUE)
      <4>. HIDE DEF t, torn, u, g, p
      <4>. QED
        BY <1>0, <2>1, <2>5, Goes, Zenon
    <3>. QED
      BY <3>1, <3>2, Zenon
  <2>6. CASE u # 0 /\ g = FALSE /\ i # 1
    <3>. DEFINE c == Least(u, Power(i - 1, cap))
    <3>1. /\ c \in 1 .. i - 1 /\ c <= cap
          /\ Nearer(n, b, t, torn, cap, i, s, f, i - c, u, FALSE)
      <4>1. StepsBack(i, u, cap, c)
        BY DEF StepsBack
      <4>. HIDE DEF t, torn, u, g, p, c
      <4>. QED
        BY <1>0, <2>1, <2>6, <4>1, Goes, Zenon
    <3>2. r = to(MoveBack(Spot(i), c))
      <4>1. SkipLength(begin, Spot(i), cap) = Power(i - 1, cap)
        BY <1>2, <2>6, SkipLengths
      <4>. QED
        BY <1>7, <1>8, <1>10, <2>6, <4>1, Zenon
    <3>3. MoveBack(Spot(i), c) = Spot(i - c)
      <4>. HIDE DEF c
      <4>1. c \in Nat /\ c # 0 /\ c * S < 65536 /\ c <= i - 1
        BY <1>1, <1>2, <1>3, <3>1
      <4>. QED
        BY <1>2, <4>1, StepsLand
    <3>4. r = Looking(i - c, u, FALSE)
      BY <1>5, <2>6, <3>2, <3>3, Zenon DEF Looking
    <3>. QED
      BY <3>1, <3>4, Zenon
  <2>. QED
    BY <1>5, <2>2, <2>3, <2>4, <2>5, <2>6, Zenon
<1>. QED
  BY <1>9, <1>10

\* A set of naturals that is not empty has a least element.
LEMMA LeastOf ==
  ASSUME NEW T \in SUBSET Nat, T # {}
  PROVE  \E n \in T : \A k \in T : n <= k
<1>. DEFINE R == OpToRel(<, Nat)
<1>1. PICK n \in T : \A k \in T : ~ (<<k, n>> \in R)
  <2>. HIDE DEF R
  <2>1. IsWellFoundedOn(R, Nat)
    BY NatLessThanWellFounded DEF R
  <2>. QED
    BY <2>1, WFMin
<1>2. \A k \in T : ~(k < n)
  BY <1>1 DEF OpToRel
<1>. QED
  BY <1>2

LoopStart(z, cap) ==
  [at |-> z, skip |-> SkipLength(begin, end, cap), forward |-> FALSE, done |-> FALSE]
LoopStep(q, cap, p) == IF p.done THEN p ELSE Iteration(q, cap, p)

\* The recursion has a solution.
IsLoop(f, z, q, cap, m) ==
  f = [n \in 0 .. m |-> IF n = 0 THEN LoopStart(z, cap) ELSE LoopStep(q, cap, f[n - 1])]

LEMMA LoopExists ==
  ASSUME NEW m \in Nat, NEW z, NEW q, NEW cap
  PROVE  \E f : IsLoop(f, z, q, cap, m)
<1>. DEFINE first == LoopStart(z, cap)
            Is(f, k) == f = [n \in 0 .. k |-> IF n = 0 THEN first ELSE LoopStep(q, cap, f[n - 1])]
            Bad == {k \in Nat : ~ \E f : Is(f, k)}
<1>. HIDE DEF first
<1>. SUFFICES ASSUME Bad # {} PROVE FALSE
  BY Zenon DEF first, IsLoop
<1>1. Bad \in SUBSET Nat
  OBVIOUS
<1>2. PICK k \in Bad : \A j \in Bad : k <= j
  <2>. HIDE DEF Bad
  <2>. QED
    BY <1>1, LeastOf
<1>3. k \in Nat /\ ~ \E f : Is(f, k)
  OBVIOUS
<1>4. CASE k = 0
  <2>. DEFINE f == [n \in 0 .. k |-> first]
  <2>1. \A n \in 0 .. k : n = 0
    BY <1>4
  <2>2. Is(f, k)
    BY <2>1, Zenon
  <2>. QED
    BY <1>3, <2>2, Zenon
<1>5. CASE k # 0
  <2>1. k - 1 \in Nat /\ ~ (k <= k - 1)
    BY <1>3, <1>5
  <2>2. k - 1 \notin Bad
    BY <1>2, <2>1, Zenon
  <2>3. PICK f : Is(f, k - 1)
    BY <2>1, <2>2, Zenon
  <2>. DEFINE h == [n \in 0 .. k |-> IF n = k THEN LoopStep(q, cap, f[k - 1]) ELSE f[n]]
  <2>4. ASSUME NEW n \in 0 .. k
        PROVE  h[n] = IF n = 0 THEN first ELSE LoopStep(q, cap, h[n - 1])
    <3>1. CASE n = k
      <4>1. k - 1 \in 0 .. k /\ k - 1 # k
        BY <2>1, <1>3
      <4>2. h[k - 1] = f[k - 1] /\ h[k] = LoopStep(q, cap, f[k - 1])
        BY <3>1, <4>1, Zenon
      <4>. QED
        BY <1>5, <3>1, <4>2, Zenon
    <3>2. CASE n # k
      <4>1. n \in 0 .. k - 1 /\ (n # 0 => n - 1 \in 0 .. k /\ n - 1 # k)
        BY <1>3, <3>2
      <4>2. f[n] = IF n = 0 THEN first ELSE LoopStep(q, cap, f[n - 1])
        BY <2>3, <4>1, Zenon
      <4>3. h[n] = f[n] /\ (n # 0 => h[n - 1] = f[n - 1])
        BY <3>2, <4>1, Zenon
      <4>. QED
        BY <4>2, <4>3, Zenon
    <3>. QED
      BY <3>1, <3>2, Zenon
  <2>5. h = [n \in 0 .. k |-> h[n]]
    BY Zenon
  <2>6. Is(h, k)
    <3>. HIDE DEF h
    <3>. QED
      BY <2>4, <2>5, Zenon
  <2>. QED
    BY <1>3, <2>6, Zenon
<1>. QED
  BY <1>4, <1>5, Zenon

LEMMA FuelIs ==
  Fuel \in Nat /\ Fuel = (Cap + 1) * (Cap + 2)
<1>1. Fuel = (Cap + 1) * (Cap + 2)
  BY DEF Fuel, Cap
<1>2. (Cap + 1) * (Cap + 2) \in Nat
  BY CapIs
<1>. QED
  BY <1>1, <1>2

LEMMA LoopIs ==
  ASSUME NEW z, NEW q, NEW cap
  PROVE  \E L : /\ L[0] = LoopStart(z, cap)
                /\ \A n \in 1 .. Fuel : L[n] = LoopStep(q, cap, L[n - 1])
                /\ SearchFrom(z, q, cap) = L[Fuel]
<1>. DEFINE L == CHOOSE f : IsLoop(f, z, q, cap, Fuel)
<1>1. IsLoop(L, z, q, cap, Fuel)
  BY FuelIs, LoopExists, Zenon
<1>2. SearchFrom(z, q, cap) = L[Fuel]
  BY Zenon DEF SearchFrom, IsLoop, LoopStart, LoopStep
<1>. HIDE DEF L
<1>3. 0 \in 0 .. Fuel /\ \A n \in 1 .. Fuel : n \in 0 .. Fuel /\ n # 0
  BY FuelIs
<1>. QED
  BY <1>1, <1>2, <1>3, Zenon DEF IsLoop

\* Where a search is after k iterations, and how it has ended.
Underway(q, cap, n, b, k, p) ==
  \E i, s, f : /\ p = Looking(i, s, f) /\ Searching(n, b, q.date, cap, i, s, f)
               /\ Todo(n, b, q.date, q.torn, i, s, f) + k < Fuel
Ended(q, n, b, p) ==
  p.done /\ \E i \in 1 .. n + 1 : p.at = Spot(i) /\ Near(n, b, q.date, i)

LEMMA StartIs ==
  ASSUME Searchable, NEW q, NEW cap \in SkipCaps, NEW n, n = Held, NEW b, b = nrec - Held,
         Sought(n, b, q.date, q.torn, cap)
  PROVE  Underway(q, cap, n, b, 0, LoopStart(MoveBack(end, 1), cap))
<1>. DEFINE t == q.date
            torn == q.torn
            s == Power(n, cap)
<1>1. /\ n \in Nat /\ b \in Nat /\ t \in Int /\ torn \in Int /\ cap \in Skips
      /\ Date(b) < t /\ t < Date(b + (n + 1))
  BY Zenon DEF Sought
<1>2. end \in Cells /\ n \in 1 .. Cap
  BY HeldIs
<1>3. MoveBack(end, 1) = Spot(n)
  <2>1. (Held + 1) - n = 1
    BY <1>1
  <2>. QED
    BY <1>2, <2>1, MoveBackIs DEF Spot
<1>4. SkipLength(begin, end, cap) = s
  <2>1. n + 1 \in 1 .. Held + 1 /\ n + 1 # 1 /\ (n + 1) - 1 = n /\ n + 1 = Held + 1
    BY <1>1, <1>2
  <2>2. Spot(n + 1) = end
    BY <2>1, SpotIs
  <2>3. SkipLength(begin, Spot(n + 1), cap) = Power((n + 1) - 1, cap)
    BY <2>1, SkipLengths
  <2>. QED
    BY <2>1, <2>2, <2>3
<1>5. s \in Skips /\ s <= cap /\ (s = 1 \/ s <= n)
  BY <1>1, PowerIs
<1>6. s \in Nat /\ s >= 1 /\ (s # 1 => s \div 2 \in Nat)
  BY <1>5, SkipIs
<1>7. LoopStart(MoveBack(end, 1), cap) = Looking(n, s, FALSE)
  BY <1>3, <1>4, Zenon DEF LoopStart, Looking
<1>. HIDE DEF s, t, torn
<1>8. Searching(n, b, t, cap, n, s, FALSE)
  <2>1. n \in 1 .. n + 1 /\ s <= n /\ FALSE \in BOOLEAN /\ n # n + 1 /\ n <= n
    BY <1>1, <1>2, <1>5, <1>6
  <2>2. t < Date(b + (n + s))
    BY <1>1, <1>6 DEF Date
  <2>3. t < Date(b + n) /\ s # 1 => Above(n, b, t, n, s \div 2)
    <3>. SUFFICES ASSUME t < Date(b + n), s # 1 PROVE Above(n, b, t, n, s \div 2)
      OBVIOUS
    <3>1. n + 0 * (s \div 2) = n /\ 0 \in Nat
      BY <1>1, <1>6
    <3>. QED
      BY <2>1, <3>1, Zenon DEF Above
  <2>. QED
    BY <1>5, <2>1, <2>2, <2>3, Zenon DEF Searching
<1>9. Todo(n, b, t, torn, n, s, FALSE) + 0 < Fuel
  <2>. DEFINE x == Left(n, b, t, torn, n, FALSE)
  <2>0. FALSE \in BOOLEAN /\ n \in 1 .. n + 1
    BY <1>1, <1>2
  <2>1. x \in 0 .. n + 1
    BY <1>1, <2>0, LeftType, Zenon
  <2>2. PICK y : y = s * (n + 2) + x
    OBVIOUS
  <2>3. Todo(n, b, t, torn, n, s, FALSE) = y
    BY <2>2, Zenon DEF Todo
  <2>. HIDE DEF x
  <2>9. s <= n
    BY <1>2, <1>5
  <2>4. s * (n + 2) <= n * (n + 2)
    <3>1. (n - s) * (n + 2) >= 0
      BY <1>1, <1>6, <2>9
    <3>2. (n - s) * (n + 2) = n * (n + 2) - s * (n + 2)
      BY <1>1, <1>6
    <3>3. n * (n + 2) \in Nat /\ s * (n + 2) \in Nat
      BY <1>1, <1>6
    <3>. QED
      BY <3>1, <3>2, <3>3
  <2>5. (n + 1) * (n + 2) <= (Cap + 1) * (Cap + 2)
    <3>1. PICK d \in Nat : Cap = n + d
      <4>1. Cap - n \in Nat /\ Cap = n + (Cap - n)
        BY <1>1, <1>2, CapIs
      <4>. QED
        BY <4>1
    <3>2. ((n + d) + 1) * ((n + d) + 2) = (n + 1) * (n + 2) + (d * (n + 2) + (n + 1) * d + d * d)
      BY <1>1
    <3>3. d * (n + 2) + (n + 1) * d + d * d \in Nat /\ (n + 1) * (n + 2) \in Nat
      BY <1>1
    <3>. QED
      BY <3>1, <3>2, <3>3
  <2>6. (n + 1) * (n + 2) = n * (n + 2) + (n + 2)
    BY <1>1
  <2>7. n * (n + 2) \in Nat /\ s * (n + 2) \in Nat
    BY <1>1, <1>6
  <2>8. y + 0 < Fuel
    BY <1>1, <2>1, <2>2, <2>4, <2>5, <2>6, <2>7, FuelIs
  <2>. QED
    BY <2>3, <2>8, Zenon
<1>. QED
  BY <1>7, <1>8, <1>9, Zenon DEF Underway, t, torn

LEMMA GoesOn ==
  ASSUME Searchable, NEW q, NEW cap \in SkipCaps, NEW n, n = Held, NEW b, b = nrec - Held,
         Sought(n, b, q.date, q.torn, cap), q.torn # q.date, NEW k \in Nat, NEW p,
         Underway(q, cap, n, b, k, p) \/ Ended(q, n, b, p)
  PROVE  Underway(q, cap, n, b, k + 1, LoopStep(q, cap, p)) \/ Ended(q, n, b, LoopStep(q, cap, p))
<1>1. CASE Ended(q, n, b, p)
  BY <1>1, Zenon DEF Ended, LoopStep
<1>2. CASE Underway(q, cap, n, b, k, p)
  <2>1. PICK i, s, f : /\ p = Looking(i, s, f) /\ Searching(n, b, q.date, cap, i, s, f)
                       /\ Todo(n, b, q.date, q.torn, i, s, f) + k < Fuel
    BY <1>2, Zenon DEF Underway
  <2>. DEFINE r == Iteration(q, cap, Looking(i, s, f))
  <2>2. LoopStep(q, cap, p) = r
    BY <2>1, Zenon DEF LoopStep, Looking
  <2>. HIDE DEF r
  <2>3. \/ r = [Looking(i, s, f) EXCEPT !.done = TRUE] /\ Near(n, b, q.date, i)
        \/ \E j, u, g : /\ r = Looking(j, u, g)
                        /\ Nearer(n, b, q.date, q.torn, cap, i, s, f, j, u, g)
    BY <2>1, IterationIs DEF r
  <2>4. CASE r = [Looking(i, s, f) EXCEPT !.done = TRUE] /\ Near(n, b, q.date, i)
    <3>1. r.done /\ r.at = Spot(i)
      BY <2>4 DEF Looking
    <3>2. i \in 1 .. n + 1
      BY <2>1, Zenon DEF Searching
    <3>. QED
      BY <2>2, <2>4, <3>1, <3>2, Zenon DEF Ended
  <2>5. ASSUME NEW j, NEW u, NEW g, r = Looking(j, u, g),
               Nearer(n, b, q.date, q.torn, cap, i, s, f, j, u, g)
        PROVE  Underway(q, cap, n, b, k + 1, r)
    <3>1. /\ Searching(n, b, q.date, cap, j, u, g)
          /\ Todo(n, b, q.date, q.torn, j, u, g) < Todo(n, b, q.date, q.torn, i, s, f)
      BY <2>5, Zenon DEF Nearer
    <3>2. /\ Todo(n, b, q.date, q.torn, j, u, g) \in Nat
          /\ Todo(n, b, q.date, q.torn, i, s, f) \in Nat
      BY <2>1, <3>1, TodoType
    <3>3. PICK x, y : /\ x = Todo(n, b, q.date, q.torn, j, u, g)
                      /\ y = Todo(n, b, q.date, q.torn, i, s, f)
      OBVIOUS
    <3>4. x + (k + 1) < Fuel
      BY <2>1, <3>1, <3>2, <3>3, FuelIs
    <3>. QED
      BY <2>5, <3>1, <3>3, <3>4, Zenon DEF Underway
  <2>. QED
    BY <2>2, <2>3, <2>4, <2>5, Zenon
<1>. QED
  BY <1>1, <1>2

LEMMA SearchIs ==
  ASSUME Searchable, NEW q, NEW cap \in SkipCaps, NEW n, n = Held, NEW b, b = nrec - Held,
         Sought(n, b, q.date, q.torn, cap), q.torn # q.date
  PROVE  Ended(q, n, b, dl_search_record_by_date(q, cap))
<1>1. PICK L : /\ L[0] = LoopStart(MoveBack(end, 1), cap)
               /\ \A k \in 1 .. Fuel : L[k] = LoopStep(q, cap, L[k - 1])
               /\ dl_search_record_by_date(q, cap) = L[Fuel]
  <2>1. PICK z : z = MoveBack(end, 1)
    OBVIOUS
  <2>2. PICK L : /\ L[0] = LoopStart(z, cap)
                 /\ \A k \in 1 .. Fuel : L[k] = LoopStep(q, cap, L[k - 1])
                 /\ SearchFrom(z, q, cap) = L[Fuel]
    BY LoopIs
  <2>. QED
    BY <2>1, <2>2, Zenon DEF dl_search_record_by_date
<1>. DEFINE Is(k) == Underway(q, cap, n, b, k, L[k]) \/ Ended(q, n, b, L[k])
            Bad == {k \in 0 .. Fuel : ~Is(k)}
<1>2. Is(0)
  BY <1>1, StartIs, Zenon
<1>3. Bad = {}
  <2>. SUFFICES ASSUME Bad # {} PROVE FALSE
    OBVIOUS
  <2>1. Bad \in SUBSET Nat
    BY FuelIs
  <2>2. PICK k \in Bad : \A j \in Bad : k <= j
    <3>. HIDE DEF Bad
    <3>. QED
      BY <2>1, LeastOf
  <2>3. k \in 0 .. Fuel /\ ~Is(k)
    OBVIOUS
  <2>. HIDE DEF Is
  <2>4. k # 0
    BY <1>2, <2>3, Zenon
  <2>5. PICK h : h = k - 1
    OBVIOUS
  <2>6. h \in Nat /\ h \in 0 .. Fuel /\ k \in 1 .. Fuel /\ k = h + 1 /\ ~(k <= h)
    BY <2>3, <2>4, <2>5, FuelIs
  <2>7. Is(h)
    BY <2>2, <2>6, Zenon
  <2>8. L[k] = LoopStep(q, cap, L[h])
    BY <1>1, <2>5, <2>6, Zenon
  <2>9. \/ Underway(q, cap, n, b, h + 1, LoopStep(q, cap, L[h]))
        \/ Ended(q, n, b, LoopStep(q, cap, L[h]))
    BY <2>6, <2>7, GoesOn, Zenon DEF Is
  <2>. QED
    BY <2>3, <2>6, <2>8, <2>9, Zenon DEF Is
<1>4. Is(Fuel)
  <2>1. Fuel \in 0 .. Fuel
    BY FuelIs
  <2>. HIDE DEF Is
  <2>. QED
    BY <1>3, <2>1
<1>5. ~Underway(q, cap, n, b, Fuel, L[Fuel])
  <2>. SUFFICES ASSUME NEW i, NEW s, NEW f, Searching(n, b, q.date, cap, i, s, f),
                       Todo(n, b, q.date, q.torn, i, s, f) + Fuel < Fuel
                PROVE  FALSE
    BY Zenon DEF Underway
  <2>1. PICK x \in Nat : x = Todo(n, b, q.date, q.torn, i, s, f)
    BY TodoType, Zenon
  <2>2. x + Fuel < Fuel
    BY <2>1, Zenon
  <2>. QED
    BY <2>2, FuelIs
<1>. QED
  BY <1>1, <1>4, <1>5, Zenon

(***************************************************************************)
(* The loop of dl_search_record_by_date (datalogger.c:966-1038) ends on    *)
(* every ring the database can be in, whatever its size and wherever its   *)
(* ends lie in the partition, after no more than about n * n records read, *)
(* and it ends at the date or next to it.                                  *)
(***************************************************************************)
THEOREM SearchEnds == Spec => []SearchEndsAtTheDate
<1>1. Inv /\ (~slipped => Fresh /\ Clear) => SearchEndsAtTheDate
  <2>. SUFFICES ASSUME Searchable PROVE SearchEndsAtTheDate
    BY DEF Inv, Searchable, SearchEndsAtTheDate
  <2>. DEFINE n    == Count(begin, end)
              b    == nrec - Held
              at   == [i \in 1 .. n + 1 |-> IF i > n THEN end ELSE Slot(begin, end, i)]
              date == [i \in 0 .. n + 1 |-> Date(nrec - n + i)]
  <2>1. /\ n \in Nat /\ n >= 1 /\ nrec \in Nat /\ n <= nrec /\ b \in Nat
        /\ n = Held
    BY HeldIs
  <2>2. \A i \in 0 .. n + 1 : date[i] = Date(b + i) /\ Date(b + i) \in Nat
    BY <2>1 DEF Date
  <2>3. ASSUME NEW i \in 1 .. n + 1 PROVE at[i] = Spot(i)
    <3>1. CASE i > n
      <4>1. i = n + 1
        BY <2>1, <3>1
      <4>. QED
        BY <2>1, <2>3, <3>1, <4>1, SpotIs
    <3>2. CASE ~(i > n)
      <4>1. (Held - i) + 1 = (Held + 1) - i
        BY <2>1, <2>3
      <4>2. Slot(begin, end, i) = Spot(i)
        BY <2>1, <4>1 DEF Slot, Spot
      <4>. QED
        BY <2>3, <3>2, <4>2
    <3>. QED
      BY <3>1, <3>2
  <2>4. DOMAIN at = 1 .. n + 1
    OBVIOUS
  <2>5. Date(b) = date[0] /\ Date(b + (n + 1)) = date[n + 1]
    BY <2>1, <2>2
  <2>. HIDE DEF at, date, b, n
  <2>6. ASSUME NEW t \in date[0] + 1 .. date[n + 1] - 1, NEW cap \in SkipCaps,
               NEW torn \in (date[0] .. date[n + 1]) \ {t}
        PROVE  LET found == dl_search_record_by_date([date |-> t, torn |-> torn], cap)
               IN /\ found.done
                  /\ \E i \in DOMAIN at :
                       /\ found.at = at[i]
                       /\ \/ date[i] = t
                          \/ date[i - 1] < t /\ t < date[i]
                          \/ i < n + 1 /\ date[i] < t /\ t < date[i + 1]
    <3>. DEFINE q == [date |-> t, torn |-> torn]
                found == dl_search_record_by_date(q, cap)
    <3>1. q.date = t /\ q.torn = torn
      OBVIOUS
    <3>. HIDE DEF q
    <3>2. /\ Date(b) \in Nat /\ Date(b + (n + 1)) \in Nat /\ t \in Int /\ torn \in Int /\ torn # t
          /\ Date(b) < t /\ t < Date(b + (n + 1))
      <4>1. date[0] \in Nat /\ date[n + 1] \in Nat
        BY <2>1, <2>2
      <4>. QED
        BY <2>5, <4>1
    <3>3. cap \in Skips
      BY SkipAssumption
    <3>4. Sought(n, b, q.date, q.torn, cap) /\ q.torn # q.date
      BY <2>1, <3>1, <3>2, <3>3, Zenon DEF Sought
    <3>5. Ended(q, n, b, found)
      BY <2>1, <3>4, SearchIs DEF b
    <3>. HIDE DEF found
    <3>6. PICK i \in 1 .. n + 1 : found.at = Spot(i) /\ Near(n, b, t, i)
      BY <3>1, <3>5, Zenon DEF Ended
    <3>7. /\ i \in 0 .. n + 1 /\ i - 1 \in 0 .. n + 1
          /\ i <= n => i + 1 \in 0 .. n + 1 /\ i < n + 1
      BY <2>1
    <3>8. \/ date[i] = t
          \/ date[i - 1] < t /\ t < date[i]
          \/ i < n + 1 /\ date[i] < t /\ t < date[i + 1]
      BY <2>2, <3>6, <3>7, Zenon DEF Near
    <3>9. found.done /\ found.at = at[i] /\ i \in DOMAIN at
      BY <2>3, <2>4, <3>5, <3>6, Zenon DEF Ended
    <3>. QED
      BY <3>8, <3>9, Zenon DEF found, q
  <2>. QED
    BY <2>6, Zenon DEF SearchEndsAtTheDate, at, date, n
<1>. QED
  BY <1>1, SearchInv, PTL
=============================================================================
