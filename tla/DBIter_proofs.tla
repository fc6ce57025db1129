--------------------------- MODULE DBIter_proofs ---------------------------
(***************************************************************************)
(* Facts about the iterators and the pages, for every place and size of    *)
(* the partition, of its pages and of a record: where the blocks of a      *)
(* record go (PiecesFit, PieceCells), and which records another overlaps   *)
(* (Apart).  The proofs about DBRing and Datastore rest on them.           *)
(***************************************************************************)
EXTENDS DBIter, TLAPS

Cells == PB .. PE - 1

\* Byte o of the ring from address b on.
At(b, o) == IF b + o < PE THEN b + o ELSE (b + o) - Extent

-----------------------------------------------------------------------------
(* Addresses and pages. *)

LEMMA MoveForwardIs ==
  ASSUME NEW z \in Int
  PROVE  MoveForward(z, 1) = IF z > PE - S THEN (z + S) - Extent ELSE z + S
<1>1. S \in Nat /\ S < 65536 /\ PE \in Nat /\ PB \in Nat
  BY PartitionAssumption
<1>2. Stride(1) = S
  BY <1>1 DEF Stride
<1>. QED
  BY <1>1, <1>2 DEF MoveForward, Extent

LEMMA DivMod ==
  ASSUME NEW a \in Nat
  PROVE  /\ a \div PAGE \in Nat /\ a % PAGE \in 0 .. PAGE - 1
         /\ a = PAGE * (a \div PAGE) + (a % PAGE)
<1>. PAGE \in Nat /\ PAGE > 0
  BY PartitionAssumption
<1>1. a % PAGE \in 0 .. PAGE - 1
  OBVIOUS
<1>2. a = PAGE * (a \div PAGE) + (a % PAGE)
  OBVIOUS
<1>3. a \div PAGE \in Nat
  <2>. DEFINE q == a \div PAGE
              r == a % PAGE
  <2>1. q \in Int /\ r \in 0 .. PAGE - 1 /\ a = PAGE * q + r
    BY <1>1, <1>2
  <2>. HIDE DEF q, r
  <2>2. ASSUME q < 0 PROVE PAGE * q <= -PAGE
    BY <2>1, <2>2
  <2>3. PAGE * q \in Int
    BY <2>1
  <2>4. q >= 0
    BY <2>1, <2>2, <2>3
  <2>. QED
    BY <2>1, <2>4 DEF q
<1>. QED
  BY <1>1, <1>2, <1>3

\* The quotient and the remainder are the only ones.
LEMMA DivModUnique ==
  ASSUME NEW q \in Int, NEW r \in 0 .. PAGE - 1
  PROVE  (PAGE * q + r) \div PAGE = q /\ (PAGE * q + r) % PAGE = r
BY PartitionAssumption

\* Two addresses of one page differ by less than a page, and only they do.
LEMMA SamePage ==
  ASSUME NEW a \in Nat, NEW b \in Nat
  PROVE  /\ a \div PAGE = b \div PAGE => a - b = (a % PAGE) - (b % PAGE)
         /\ a >= b /\ a - b < PAGE - (b % PAGE) => a \div PAGE = b \div PAGE
<1>. DEFINE qa == a \div PAGE
            ra == a % PAGE
            qb == b \div PAGE
            rb == b % PAGE
<1>1. /\ qa \in Nat /\ ra \in 0 .. PAGE - 1 /\ a = PAGE * qa + ra
      /\ qb \in Nat /\ rb \in 0 .. PAGE - 1 /\ b = PAGE * qb + rb
  BY DivMod, Zenon
<1>2. a >= b /\ a - b < PAGE - rb => qa = qb
  <2>. SUFFICES ASSUME a >= b, a - b < PAGE - rb PROVE qa = qb
    OBVIOUS
  <2>1. rb + (a - b) \in 0 .. PAGE - 1 /\ a = PAGE * qb + (rb + (a - b))
    <3>. HIDE DEF qa, ra, qb, rb
    <3>1. PAGE * qb \in Int
      BY <1>1, PartitionAssumption
    <3>. QED
      BY <1>1, <3>1, PartitionAssumption
  <2>2. (PAGE * qb + (rb + (a - b))) \div PAGE = qb
    BY <1>1, <2>1, DivModUnique
  <2>. QED
    BY <2>1, <2>2
<1>3. qa = qb => a - b = ra - rb
  <2>. HIDE DEF qa, ra, qb, rb
  <2>1. PAGE * qb \in Int
    BY <1>1, PartitionAssumption
  <2>. QED
    BY <1>1, <2>1
<1>. QED
  BY <1>2, <1>3, Zenon

\* A block that ends inside its page is stored byte after byte.
LEMMA Block ==
  ASSUME NEW at \in Nat, NEW len \in 0 .. PAGE, (at % PAGE) + len <= PAGE, NEW a \in Nat
  PROVE  /\ (a \div PAGE = at \div PAGE /\ (a - at) % PAGE < len) <=> (at <= a /\ a < at + len)
         /\ at <= a /\ a < at + len => (a - at) % PAGE = a - at
<1>. PAGE \in Nat /\ PAGE > 0
  BY PartitionAssumption
<1>1. at % PAGE \in 0 .. PAGE - 1 /\ a % PAGE \in 0 .. PAGE - 1
  BY DivMod
<1>2. ASSUME NEW d \in 0 .. PAGE - 1 PROVE d % PAGE = d
  OBVIOUS
<1>3. ASSUME NEW d \in Int, -PAGE < d, d < 0 PROVE d % PAGE = d + PAGE
  <2>1. d + PAGE \in 0 .. PAGE - 1 /\ d = PAGE * (-1) + (d + PAGE)
    BY <1>3
  <2>. QED
    BY <2>1, DivModUnique
<1>4. CASE at <= a /\ a < at + len
  <2>1. a - at \in 0 .. PAGE - 1 /\ a - at < PAGE - (at % PAGE)
    <3>. DEFINE r == at % PAGE
    <3>1. r \in 0 .. PAGE - 1 /\ r + len <= PAGE
      BY <1>1
    <3>. HIDE DEF r
    <3>2. a - at \in 0 .. PAGE - 1 /\ a - at < PAGE - r
      BY <1>4, <3>1
    <3>. QED
      BY <3>2 DEF r
  <2>2. a \div PAGE = at \div PAGE
    BY <1>4, <2>1, SamePage
  <2>3. (a - at) % PAGE = a - at
    BY <1>2, <2>1
  <2>. QED
    BY <1>4, <2>2, <2>3
<1>5. CASE ~(at <= a /\ a < at + len)
  <2>. SUFFICES ASSUME a \div PAGE = at \div PAGE, (a - at) % PAGE < len PROVE FALSE
    BY <1>5
  <2>1. a - at = (a % PAGE) - (at % PAGE)
    BY SamePage
  <2>2. CASE a >= at
    <3>1. a - at \in 0 .. PAGE - 1
      BY <1>1, <2>1, <2>2
    <3>2. (a - at) % PAGE = a - at
      BY <1>2, <3>1
    <3>. QED
      BY <1>5, <2>2, <3>2
  <2>3. CASE a < at
    <3>0. a - at \in Int /\ -PAGE < a - at /\ a - at < 0
      BY <1>1, <2>1, <2>3
    <3>1. (a - at) % PAGE = (a - at) + PAGE
      BY <1>3, <3>0
    <3>2. ((a % PAGE) - (at % PAGE)) + PAGE < len
      BY <2>1, <3>1
    <3>. QED
      BY <1>1, <3>2
  <2>. QED
    BY <2>2, <2>3
<1>. QED
  BY <1>4, <1>5

\* An address a few bytes before the end of a page.
LEMMA BeforePageEnd ==
  ASSUME NEW e \in Nat, e % PAGE = 0, NEW n \in 1 .. PAGE, e - n \in Nat
  PROVE  (e - n) % PAGE = PAGE - n
<1>. DEFINE q == e \div PAGE
<1>1. q \in Nat /\ e = PAGE * q + 0
  BY DivMod
<1>. HIDE DEF q
<1>2. PAGE \in Nat /\ PAGE * q \in Int /\ PAGE * (q - 1) = PAGE * q - PAGE
  BY <1>1, PartitionAssumption
<1>3. e - n = PAGE * (q - 1) + (PAGE - n) /\ PAGE - n \in 0 .. PAGE - 1 /\ q - 1 \in Int
  BY <1>1, <1>2
<1>. QED
  BY <1>3, DivModUnique

-----------------------------------------------------------------------------
(* A record in its place. *)

\* How far a record at z reaches, and where its pieces are.
LEMMA PlaceIs ==
  ASSUME NEW z \in Cells
  PROVE  LET zn == MoveForward(z, 1)
             v  == zn % PAGE
         IN /\ v \in 0 .. PAGE - 1 /\ zn \in Nat
            /\ z + S <= PE => zn = z + S
            /\ z + S > PE  => zn = (z + S) - Extent /\ v = (z + S) - PE /\ v \in 1 .. S - 1
                              /\ zn - v = PB
<1>. S \in Nat /\ S >= 1 /\ S <= PAGE /\ PB \in Nat /\ PE \in Nat /\ PAGE \in Nat
     /\ PB + S <= PE /\ PB % PAGE = 0 /\ z \in Nat /\ PB <= z /\ z < PE
  BY PartitionAssumption DEF Cells
<1>. DEFINE zn == MoveForward(z, 1)
            v  == zn % PAGE
<1>1. zn = IF z > PE - S THEN (z + S) - Extent ELSE z + S
  BY MoveForwardIs
<1>2. zn \in Nat
  BY <1>1 DEF Extent
<1>3. v \in 0 .. PAGE - 1
  BY <1>2, DivMod
<1>4. ASSUME z + S > PE PROVE v = (z + S) - PE /\ zn = PB + v
  <2>. DEFINE q == PB \div PAGE
              w == (z + S) - PE
  <2>1. q \in Nat /\ PB = PAGE * q + 0
    BY DivMod
  <2>2. zn = PB + w
    BY <1>1, <1>4 DEF Extent
  <2>3. w \in 0 .. PAGE - 1
    BY <1>4
  <2>4. PAGE * q = PB
    BY <2>1
  <2>. HIDE DEF q, w
  <2>5. (PAGE * q + w) % PAGE = w
    BY <2>1, <2>3, DivModUnique
  <2>6. zn % PAGE = w
    BY <2>2, <2>4, <2>5
  <2>. QED
    BY <2>2, <2>6 DEF w
<1>. QED
  BY <1>1, <1>2, <1>3, <1>4 DEF Extent

\* Its bytes are read one after the other, the end of the partition taken as its beginning.
LEMMA ReadAddrIs ==
  ASSUME NEW z \in Cells, NEW k \in 0 .. S - 1
  PROVE  ReadAddr(z, k) = At(z, k) /\ At(z, k) \in Cells
<1>. S \in Nat /\ S >= 1 /\ S <= PAGE /\ PB \in Nat /\ PE \in Nat /\ PAGE \in Nat
     /\ PB + S <= PE /\ z \in Nat /\ PB <= z /\ z < PE /\ k \in Nat /\ k < S
  BY PartitionAssumption DEF Cells
<1>. DEFINE zn == MoveForward(z, 1)
            v  == zn % PAGE
<1>1. /\ v \in 0 .. PAGE - 1 /\ zn \in Nat
      /\ z + S <= PE => zn = z + S
      /\ z + S > PE  => v = (z + S) - PE /\ v \in 1 .. S - 1 /\ zn - v = PB
  BY PlaceIs
<1>2. ReadAddr(z, k) = IF v >= S \/ v = 0 \/ k < S - v THEN z + k ELSE (zn - v) + (k - (S - v))
  BY DEF ReadAddr
<1>. HIDE DEF v, zn
<1>3. ReadAddr(z, k) = At(z, k)
  BY <1>1, <1>2 DEF At, Extent
<1>4. At(z, k) \in Cells
  BY DEF At, Extent, Cells
<1>. QED
  BY <1>3, <1>4

\* The bytes of a record are in cells of their own.
LEMMA OwnCells ==
  ASSUME NEW z \in Cells, NEW k \in 0 .. S - 1, NEW n \in 0 .. S - 1, k # n
  PROVE  At(z, k) # At(z, n)
BY PartitionAssumption DEF At, Cells, Extent

\* A piece that ends inside its page.
LEMMA PieceIs ==
  ASSUME NEW m, DOMAIN m = Cells, NEW p, NEW r, p.at \in Nat, p.len \in 0 .. PAGE,
         (p.at % PAGE) + p.len <= PAGE, NEW a \in Cells
  PROVE  /\ DOMAIN WritePiece(m, p, r) = Cells
         /\ WritePiece(m, p, r)[a] = IF p.at <= a /\ a < p.at + p.len
                                     THEN ByteOf(r, p.from + (a - p.at)) ELSE m[a]
<1>1. a \in Nat
  BY PartitionAssumption DEF Cells
<1>2. /\ (a \div PAGE = p.at \div PAGE /\ (a - p.at) % PAGE < p.len)
           <=> (p.at <= a /\ a < p.at + p.len)
      /\ p.at <= a /\ a < p.at + p.len => (a - p.at) % PAGE = a - p.at
  BY <1>1, Block
<1>3. WritePiece(m, p, r)[a]
        = IF a \div PAGE = p.at \div PAGE /\ (a - p.at) % PAGE < p.len
          THEN ByteOf(r, p.from + ((a - p.at) % PAGE)) ELSE m[a]
  BY DEF WritePiece
<1>4. DOMAIN WritePiece(m, p, r) = Cells
  BY DEF WritePiece
<1>. QED
  BY <1>2, <1>3, <1>4, Zenon

\* A piece of the record at z that ends inside its page and goes where it is read.
Fits(z, p) ==
  /\ p.at \in Nat /\ p.from \in Nat /\ p.len \in 0 .. PAGE
  /\ p.from + p.len <= S /\ (p.at % PAGE) + p.len <= PAGE
  /\ \A k \in 0 .. S - 1 : p.from <= k /\ k < p.from + p.len => At(z, k) = p.at + (k - p.from)

\* The pieces of a record: each ends inside its page, and its bytes go where they are read.
LEMMA PiecesFit ==
  ASSUME NEW z \in Cells
  PROVE  LET ps == Pieces(z)
         IN /\ Fits(z, ps[1]) /\ ps[1].from = 0
            /\ Len(ps) = 1 => ps[1].len = S
            /\ Len(ps) # 1 => /\ Fits(z, ps[2])
                              /\ ps[2].from = ps[1].len /\ ps[2].from + ps[2].len = S
            /\ Len(ps) # 1 => MoveForward(z, 1) \in Cells
<1>. S \in Nat /\ S >= 1 /\ S <= PAGE /\ PB \in Nat /\ PE \in Nat /\ PAGE \in Nat
     /\ PB + S <= PE /\ z \in Nat /\ PB <= z /\ z < PE /\ PE % PAGE = 0 /\ PB % PAGE = 0
  BY PartitionAssumption DEF Cells
<1>. DEFINE zn == MoveForward(z, 1)
            v  == zn % PAGE
<1>1. /\ v \in 0 .. PAGE - 1 /\ zn \in Nat
      /\ z + S <= PE => zn = z + S
      /\ z + S > PE  => zn = (z + S) - Extent /\ v = (z + S) - PE /\ v \in 1 .. S - 1
                        /\ zn - v = PB
  BY PlaceIs
\* From the end of the page in which the record ends to the record's begin.
<1>3. ASSUME NEW e \in Nat, e % PAGE = 0, NEW n \in 1 .. S, z = e - n
      PROVE  (z % PAGE) + n <= PAGE
  <2>1. n \in 1 .. PAGE /\ e - n \in Nat
    BY <1>3
  <2>2. (e - n) % PAGE = PAGE - n
    BY <1>3, <2>1, BeforePageEnd
  <2>3. z % PAGE = PAGE - n
    BY <1>3, <2>2, Zenon
  <2>. QED
    BY <2>1, <2>3
<1>4. CASE v >= S \/ v = 0
  <2>1. zn = z + S /\ z + S <= PE
    BY <1>1, <1>4
  <2>2. (z % PAGE) + S <= PAGE
    <3>1. CASE v = 0
      BY <1>1, <1>3, <2>1, <3>1
    <3>2. CASE v >= S
      <4>. DEFINE q == zn \div PAGE
      <4>1. q \in Nat /\ zn = PAGE * q + v
        BY <1>1, DivMod
      <4>. HIDE DEF q, v
      <4>2. PAGE * q \in Int
        BY <4>1
      <4>3. z = PAGE * q + (v - S) /\ v - S \in 0 .. PAGE - 1
        BY <1>1, <2>1, <3>2, <4>1, <4>2
      <4>. DEFINE w == v - S
      <4>a. w \in 0 .. PAGE - 1 /\ q \in Int
        BY <4>1, <4>3
      <4>. HIDE DEF w
      <4>4. (PAGE * q + w) % PAGE = w
        BY <4>a, DivModUnique, Zenon
      <4>5. z % PAGE = w
        BY <4>3, <4>4, Zenon DEF w
      <4>6. w = v - S
        BY DEF w
      <4>. QED
        BY <1>1, <4>3, <4>5, <4>6
    <3>. QED
      BY <1>4, <3>1, <3>2
  <2>3. Pieces(z) = << [at |-> z, from |-> 0, len |-> S] >>
    BY <1>4 DEF Pieces
  <2>4. \A k \in 0 .. S - 1 : At(z, k) = z + (k - 0)
    BY <2>1 DEF At
  <2>. QED
    BY <2>2, <2>3, <2>4 DEF Fits
<1>5. CASE ~(v >= S \/ v = 0)
  \* The first piece ends with its page or with the partition, the second begins a page.
  <2>. DEFINE e == IF z + S > PE THEN PE ELSE zn - v
              f == zn - v
              n == S - v
              p == [at |-> z, from |-> 0, len |-> n]
              q == [at |-> f, from |-> n, len |-> v]
  <2>0. v \in 1 .. S - 1 /\ v <= PAGE /\ n \in 1 .. S /\ n = S - v /\ f = zn - v
    BY <1>1, <1>5
  <2>1. f \in Nat /\ f % PAGE = 0
    <3>. DEFINE h == zn \div PAGE
    <3>1. h \in Nat /\ zn = PAGE * h + v
      BY <1>1, DivMod
    <3>. HIDE DEF h, v
    <3>2. PAGE * h \in Nat
      BY <3>1
    <3>3. f = PAGE * h + 0 /\ 0 \in 0 .. PAGE - 1 /\ h \in Int
      BY <1>1, <3>1, <3>2
    <3>4. (PAGE * h + 0) % PAGE = 0
      BY <3>3, DivModUnique, Zenon
    <3>5. f % PAGE = 0
      BY <3>3, <3>4, Zenon
    <3>. QED
      BY <3>2, <3>3, <3>5
  <2>2. e \in Nat /\ e % PAGE = 0 /\ z = e - n
        /\ f = (IF z + S > PE THEN PB ELSE e)
        /\ (z + S > PE => e = PE /\ n = PE - z)
    <3>1. /\ e = IF z + S > PE THEN PE ELSE f
          /\ n = S - v
      OBVIOUS
    <3>2. f = zn - v
      OBVIOUS
    <3>3. v \in Int /\ zn \in Int /\ f \in Nat /\ f % PAGE = 0
      BY <1>1, <2>1
    <3>. HIDE DEF e, f, n, v, zn
    <3>4. e \in Nat /\ e % PAGE = 0
      BY <3>1, <3>3
    <3>. QED
      BY <1>1, <3>1, <3>2, <3>3, <3>4
  <2>3. Pieces(z) = << p, q >>
    BY <1>5 DEF Pieces
  <2>4. p.at = z /\ p.from = 0 /\ p.len = n /\ q.at = f /\ q.from = n /\ q.len = v
    OBVIOUS
  <2>5. (z % PAGE) + n <= PAGE
    <3>. HIDE DEF e, f, n, p, q, v, zn
    <3>. QED
      BY <1>3, <2>0, <2>2
  <2>. HIDE DEF e, f, n, p, q, v
  <2>6. \A k \in 0 .. S - 1 : k < n => At(z, k) = z + (k - 0)
    BY <1>1, <2>0, <2>2 DEF At
  <2>7. \A k \in 0 .. S - 1 : n <= k => At(z, k) = f + (k - n)
    BY <1>1, <2>0, <2>2 DEF At, Extent
  <2>8. zn \in Cells
    BY <1>1, <2>0, <2>1, <2>2 DEF Cells, Extent
  <2>. HIDE DEF zn
  <2>9. Len(Pieces(z)) # 1 /\ Pieces(z)[1] = p /\ Pieces(z)[2] = q
    BY <2>3
  <2>10. (q.at % PAGE) + q.len <= PAGE
    BY <2>0, <2>1, <2>4
  <2>11. n + v = S /\ n \in 0 .. PAGE /\ v \in 0 .. PAGE /\ z \in Nat /\ f \in Nat
    BY <1>1, <2>0, <2>1
  <2>12. Fits(z, p)
    BY <2>4, <2>5, <2>6, <2>11 DEF Fits
  <2>13. Fits(z, q)
    BY <2>4, <2>7, <2>10, <2>11 DEF Fits
  <2>. QED
    BY <2>4, <2>8, <2>9, <2>11, <2>12, <2>13 DEF zn
<1>. QED
  BY <1>4, <1>5

\* What a piece writes, in terms of what a reader looks at.
LEMMA PieceCells ==
  ASSUME NEW z \in Cells, NEW p, Fits(z, p),
         NEW m, DOMAIN m = Cells, NEW r
  PROVE  /\ DOMAIN WritePiece(m, p, r) = Cells
         /\ \A k \in 0 .. S - 1 : p.from <= k /\ k < p.from + p.len
                                    => WritePiece(m, p, r)[At(z, k)] = ByteOf(r, k)
         /\ \A a \in Cells :
              (\A k \in 0 .. S - 1 : p.from <= k /\ k < p.from + p.len => a # At(z, k))
                => WritePiece(m, p, r)[a] = m[a]
<1>. S \in Nat /\ S >= 1 /\ PB \in Nat /\ PE \in Nat
  BY PartitionAssumption
<1>0. /\ p.at \in Nat /\ p.from \in Nat /\ p.len \in 0 .. PAGE
      /\ p.from + p.len <= S /\ (p.at % PAGE) + p.len <= PAGE
  BY DEF Fits
<1>1. \A a \in Cells : /\ DOMAIN WritePiece(m, p, r) = Cells
                       /\ WritePiece(m, p, r)[a] = IF p.at <= a /\ a < p.at + p.len
                                                   THEN ByteOf(r, p.from + (a - p.at)) ELSE m[a]
  BY <1>0, PieceIs
<1>2. DOMAIN WritePiece(m, p, r) = Cells
  BY DEF WritePiece
<1>3. ASSUME NEW k \in 0 .. S - 1, p.from <= k, k < p.from + p.len
      PROVE  WritePiece(m, p, r)[At(z, k)] = ByteOf(r, k)
  <2>1. At(z, k) \in Cells
    BY ReadAddrIs
  <2>2. At(z, k) = p.at + (k - p.from)
    BY <1>3 DEF Fits
  <2>3. p.at <= At(z, k) /\ At(z, k) < p.at + p.len /\ p.from + (At(z, k) - p.at) = k
    BY <1>0, <1>3, <2>2
  <2>. QED
    BY <1>1, <2>1, <2>3
<1>4. ASSUME NEW a \in Cells,
             \A k \in 0 .. S - 1 : p.from <= k /\ k < p.from + p.len => a # At(z, k)
      PROVE  WritePiece(m, p, r)[a] = m[a]
  <2>1. ~(p.at <= a /\ a < p.at + p.len)
    <3>. SUFFICES ASSUME p.at <= a, a < p.at + p.len PROVE FALSE
      OBVIOUS
    <3>. DEFINE k == p.from + (a - p.at)
    <3>1. a \in Int
      BY DEF Cells
    <3>2. k \in 0 .. S - 1 /\ p.from <= k /\ k < p.from + p.len /\ p.at + (k - p.from) = a
      BY <1>0, <3>1
    <3>. QED
      BY <1>4, <3>2 DEF Fits
  <2>. QED
    BY <1>1, <2>1
<1>. QED
  BY <1>2, <1>3, <1>4

-----------------------------------------------------------------------------
(* The records from END back to BEGIN. *)

Cap == Extent \div S

\* The bytes from b on up to e.
Gap(b, e) == IF e >= b THEN e - b ELSE (e - b) + Extent

LEMMA CapIs ==
  /\ Cap \in Nat /\ Cap >= 1
  /\ Cap * S \in Nat /\ Cap * S <= Extent /\ Extent < Cap * S + S
  /\ Extent \in Nat /\ S \in Nat /\ S >= 1 /\ PB \in Nat /\ PE \in Nat /\ PE = PB + Extent
<1>1. Extent \in Nat /\ S \in Nat /\ S >= 1 /\ S <= Extent /\ PB \in Nat /\ PE \in Nat
      /\ PE = PB + Extent
  BY PartitionAssumption DEF Extent
<1>2. Cap \in Int /\ Extent % S \in 0 .. S - 1 /\ Extent = S * Cap + (Extent % S)
  BY <1>1 DEF Cap
<1>. DEFINE r == Extent % S
<1>3. r \in 0 .. S - 1 /\ Extent = S * Cap + r
  BY <1>2
<1>. HIDE DEF r
<1>4. S * Cap = Cap * S /\ Cap * S \in Int
  BY <1>1, <1>2
<1>5. Cap <= 0 => Cap * S <= 0
  BY <1>1, <1>2
<1>6. Cap * S > 0
  BY <1>1, <1>3, <1>4
<1>. QED
  BY <1>1, <1>2, <1>3, <1>4, <1>5, <1>6

\* Multiples of the size of a record.
LEMMA Multiples ==
  ASSUME NEW j \in Nat
  PROVE  /\ j * S \in Nat /\ (j + 1) * S = j * S + S
         /\ j >= 1 => j * S >= S
         /\ j <= Cap => j * S <= Cap * S
         /\ j < Cap => j * S + S <= Cap * S
         /\ (j * S) \div S = j /\ (j * S) % S = 0
         /\ j * S = 0 => j = 0
<1>. S \in Nat /\ S >= 1 /\ Cap \in Nat
  BY CapIs
<1>1. j * S \in Nat /\ (j + 1) * S = j * S + S
  OBVIOUS
<1>2. ASSUME NEW a \in Nat, NEW b \in Nat, a <= b PROVE a * S <= b * S
  <2>1. (b - a) * S >= 0
    BY <1>2
  <2>2. (b - a) * S = b * S - a * S
    BY <1>2
  <2>. QED
    BY <2>1, <2>2, <1>2
<1>3. j >= 1 => j * S >= S
  <2>1. 1 * S = S
    OBVIOUS
  <2>. QED
    BY <1>2, <2>1
<1>4. j <= Cap => j * S <= Cap * S
  BY <1>2
<1>5. j < Cap => j * S + S <= Cap * S
  <2>1. j < Cap => (j + 1) * S <= Cap * S
    BY <1>2
  <2>. QED
    BY <1>1, <2>1
<1>6. (j * S) \div S = j /\ (j * S) % S = 0
  OBVIOUS
<1>. QED
  BY <1>1, <1>3, <1>4, <1>5, <1>6

\* A walk that is no longer than the partition goes over its beginning once at most.
LEMMA WalkIs ==
  ASSUME NEW z \in Cells, NEW k \in Nat, k * S <= Extent
  PROVE  WalkBack(z, k) = IF z - k * S < PB THEN (z - k * S) + Extent ELSE z - k * S
<1>. DEFINE K == k * S
<1>1. K \in Nat /\ K <= Extent /\ (k = 0 => K = 0) /\ z \in Int /\ PB <= z /\ z < PE
  BY CapIs DEF Cells
<1>2. WalkBack(z, k) = IF k = 0 THEN z ELSE PB + (((z - PB) - K) % Extent)
  BY DEF WalkBack
<1>. DEFINE x == (z - PB) - K
<1>3. x \in Int /\ -Extent <= x /\ x < Extent /\ Extent \in Nat \ {0}
  BY <1>1, CapIs
<1>4. x % Extent = IF x < 0 THEN x + Extent ELSE x
  BY <1>3
<1>. HIDE DEF K
<1>. QED
  BY <1>1, <1>2, <1>4, CapIs DEF K

\* Walking back meets cells only.
LEMMA WalkBackIs ==
  ASSUME NEW e \in Cells, NEW j \in 1 .. Cap
  PROVE  WalkBack(e, j) \in Cells
<1>1. j * S \in Nat /\ j * S <= Extent
  BY Multiples, CapIs
<1>. QED
  BY <1>1, CapIs, WalkIs DEF Cells

\* An append moves END by one record, so that what was the j-th is then the next.
LEMMA Forth ==
  ASSUME NEW e \in Cells, MoveForward(e, 1) \in Cells
  PROVE  /\ WalkBack(MoveForward(e, 1), 1) = e
         /\ \A j \in 1 .. Cap - 1 : WalkBack(MoveForward(e, 1), j + 1) = WalkBack(e, j)
<1>. DEFINE f == MoveForward(e, 1)
<1>1. f = IF e > PE - S THEN (e + S) - Extent ELSE e + S
  BY MoveForwardIs DEF Cells
<1>2. f \in Cells /\ e \in Int /\ PB <= e /\ e < PE
  BY CapIs DEF Cells
<1>. HIDE DEF f
<1>3. WalkBack(f, 1) = e
  <2>1. 1 * S = S
    BY CapIs
  <2>. QED
    BY <1>1, <1>2, <2>1, CapIs, WalkIs DEF Cells
<1>4. ASSUME NEW j \in 1 .. Cap - 1 PROVE WalkBack(f, j + 1) = WalkBack(e, j)
  <2>. DEFINE J == j * S
  <2>1. J \in Nat /\ (j + 1) * S = J + S /\ J + S <= Extent /\ J >= S
    BY Multiples, CapIs
  <2>2. /\ WalkBack(f, j + 1) = IF f - (J + S) < PB THEN (f - (J + S)) + Extent ELSE f - (J + S)
        /\ WalkBack(e, j) = IF e - J < PB THEN (e - J) + Extent ELSE e - J
    BY <1>2, <2>1, CapIs, WalkIs
  <2>. HIDE DEF J
  <2>. QED
    BY <1>1, <1>2, <2>1, <2>2, CapIs DEF Cells
<1>. QED
  BY <1>3, <1>4 DEF f

\* The bytes of a record put at END are none of the records kept.
LEMMA Apart ==
  ASSUME NEW e \in Cells, NEW j \in 1 .. Cap - 1, NEW k \in 0 .. S - 1, NEW n \in 0 .. S - 1
  PROVE  At(WalkBack(e, j), k) # At(e, n)
<1>. DEFINE J == j * S
<1>1. J \in Nat /\ J + S <= Extent /\ J >= S
  BY Multiples, CapIs
<1>2. WalkBack(e, j) = IF e - J < PB THEN (e - J) + Extent ELSE e - J
  BY <1>1, CapIs, WalkIs
<1>. HIDE DEF J
<1>. QED
  BY <1>1, <1>2, CapIs DEF Cells, At

\* What the readers count: the only walk of n records or less that meets the first iterator.
LEMMA CountOf ==
  ASSUME NEW b \in Cells, NEW e \in Cells, NEW n \in Nat, Gap(b, e) = n * S
  PROVE  /\ Count(b, e) = n
         /\ b # e => Distance(b, e) \div S = n /\ Distance(b, e) % S = 0
<1>1. b # e => Distance(b, e) \div S = n /\ Distance(b, e) % S = 0
  <2>. SUFFICES ASSUME b # e PROVE Distance(b, e) \div S = n /\ Distance(b, e) % S = 0
    OBVIOUS
  <2>1. Distance(b, e) = n * S
    BY CapIs DEF Gap, Cells, Distance
  <2>2. (n * S) \div S = n /\ (n * S) % S = 0
    BY Multiples
  <2>. QED
    BY <2>1, <2>2
<1>2. n * S < Extent /\ n <= Extent
  <2>1. n * S < Extent
    BY CapIs DEF Gap, Cells
  <2>2. n <= n * S
    BY CapIs
  <2>. QED
    BY <2>1, <2>2, CapIs
<1>3. ASSUME NEW k \in 0 .. n PROVE WalkBack(e, k) = b <=> k = n
  <2>. DEFINE K == k * S
              N == n * S
  <2>1. K \in Nat /\ N \in Nat /\ K <= N /\ (k # n => K < N)
    <3>1. (n - k) * S = N - K /\ K \in Nat /\ N \in Nat
      BY CapIs
    <3>2. n - k \in Nat /\ (k # n => n - k >= 1)
      OBVIOUS
    <3>3. (n - k) * S \in Nat /\ (n - k >= 1 => (n - k) * S >= S)
      BY <3>2, Multiples
    <3>. QED
      BY <3>1, <3>2, <3>3, CapIs
  <2>2. WalkBack(e, k) = IF e - K < PB THEN (e - K) + Extent ELSE e - K
    BY <1>2, <2>1, CapIs, WalkIs
  <2>3. (IF e >= b THEN e - b ELSE (e - b) + Extent) = N
    BY DEF Gap
  <2>4. k = n => K = N
    OBVIOUS
  <2>5. N < Extent
    BY <1>2
  <2>. HIDE DEF K, N
  <2>. QED
    BY <2>1, <2>2, <2>3, <2>4, <2>5, CapIs DEF Cells
<1>. DEFINE P(m) == /\ m = Extent \/ WalkBack(e, m) = b
                    /\ \A k \in 0 .. m - 1 : WalkBack(e, k) # b
<1>4. n \in 0 .. Extent /\ P(n)
  <2>1. WalkBack(e, n) = b
    BY <1>3
  <2>2. \A k \in 0 .. n - 1 : WalkBack(e, k) # b
    BY <1>3
  <2>. QED
    BY <1>2, <2>1, <2>2, CapIs
<1>5. ASSUME NEW m \in 0 .. Extent, P(m) PROVE m = n
  <2>1. CASE m < n
    <3>1. WalkBack(e, m) = b
      BY <1>2, <1>5, <2>1, CapIs
    <3>. QED
      BY <1>3, <2>1, <3>1, CapIs
  <2>2. CASE n < m
    <3>1. n \in 0 .. m - 1
      BY <2>2, CapIs
    <3>2. WalkBack(e, n) # b
      BY <1>5, <3>1
    <3>. QED
      BY <1>3, <3>2
  <2>. QED
    BY <2>1, <2>2, CapIs
<1>6. Count(b, e) = CHOOSE m \in 0 .. Extent : P(m)
  BY Zenon DEF Count
<1>. HIDE DEF P
<1>7. Count(b, e) = n
  BY <1>4, <1>5, <1>6
<1>. QED
  BY <1>1, <1>7

\* No walk is needed from an iterator to itself.
LEMMA CountNone ==
  ASSUME NEW z \in Cells
  PROVE  Count(z, z) = 0
<1>1. Gap(z, z) = 0 * S
  BY CapIs DEF Gap, Cells
<1>. QED
  BY <1>1, CountOf

\* No two records share their first byte.
LEMMA OtherSlot ==
  ASSUME NEW e \in Cells, NEW i \in 1 .. Cap, NEW j \in 1 .. Cap, i # j
  PROVE  WalkBack(e, i) # WalkBack(e, j)
<1>1. ASSUME NEW h \in 1 .. Cap, NEW k \in 1 .. Cap, h < k PROVE WalkBack(e, h) # WalkBack(e, k)
  <2>. DEFINE H == h * S
              K == k * S
  <2>1. H \in Nat /\ K \in Nat /\ H >= S /\ K <= Extent
    BY Multiples, CapIs
  <2>2. H < K
    <3>1. k - h \in Nat /\ k - h >= 1
      BY <1>1
    <3>2. (k - h) * S >= S
      BY <3>1, Multiples
    <3>3. (k - h) * S = k * S - h * S
      BY CapIs
    <3>. QED
      BY <2>1, <3>2, <3>3, CapIs
  <2>3. /\ WalkBack(e, h) = IF e - H < PB THEN (e - H) + Extent ELSE e - H
        /\ WalkBack(e, k) = IF e - K < PB THEN (e - K) + Extent ELSE e - K
    BY <2>1, <2>2, CapIs, WalkIs
  <2>. HIDE DEF H, K
  <2>. QED
    BY <2>1, <2>2, <2>3, CapIs DEF Cells
<1>2. i < j \/ j < i
  OBVIOUS
<1>. QED
  BY <1>1, <1>2

-----------------------------------------------------------------------------
LEMMA ForwardType ==
  ASSUME NEW z \in PB .. PE
  PROVE  MoveForward(z, 1) \in PB .. PE
BY MoveForwardIs, PartitionAssumption DEF Extent

\* A piece holds bytes of a record.
LEMMA PieceType ==
  ASSUME NEW B, NEW m \in [Cells -> B], NEW r, \A k \in 0 .. S - 1 : ByteOf(r, k) \in B, NEW p,
         p.from \in Nat, p.len \in Nat, p.from + p.len <= S, p.at \in Nat
  PROVE  WritePiece(m, p, r) \in [Cells -> B]
<1>. S \in Nat /\ PB \in Nat /\ PE \in Nat /\ PAGE \in Nat \ {0}
  BY PartitionAssumption
<1>1. ASSUME NEW a \in Cells, (a - p.at) % PAGE < p.len
      PROVE  ByteOf(r, p.from + ((a - p.at) % PAGE)) \in B
  <2>. DEFINE k == (a - p.at) % PAGE
  <2>1. k \in Nat /\ k < p.len
    <3>1. a - p.at \in Int
      BY DEF Cells
    <3>. QED
      BY <1>1, <3>1
  <2>. HIDE DEF k
  <2>2. p.from + k \in 0 .. S - 1
    BY <2>1
  <2>3. ByteOf(r, p.from + k) \in B
    BY <2>2
  <2>. QED
    BY <2>3 DEF k
<1>2. ASSUME NEW a \in Cells PROVE m[a] \in B
  OBVIOUS
<1>3. WritePiece(m, p, r)
        = [a \in Cells |-> IF a \div PAGE = p.at \div PAGE /\ (a - p.at) % PAGE < p.len
                           THEN ByteOf(r, p.from + ((a - p.at) % PAGE)) ELSE m[a]]
  BY DEF WritePiece
<1>. QED
  BY <1>1, <1>2, <1>3, Zenon


\* The end of a page is not before the partition.
LEMMA PageFloor ==
  ASSUME NEW a \in Nat, PB <= a
  PROVE  a - (a % PAGE) \in Nat /\ PB <= a - (a % PAGE) /\ a - (a % PAGE) <= a
<1>. DEFINE q == a \div PAGE
            r == a % PAGE
            p == PB \div PAGE
<1>1. PB \in Nat /\ PAGE \in Nat /\ PAGE >= 1 /\ PB % PAGE = 0
  BY PartitionAssumption
<1>2. q \in Nat /\ r \in 0 .. PAGE - 1 /\ a = PAGE * q + r
  BY DivMod, Zenon
<1>3. p \in Nat /\ PB = PAGE * p + 0
  BY <1>1, DivMod
<1>. HIDE DEF p, q, r
<1>4. PAGE * q \in Nat /\ PAGE * p \in Nat
  BY <1>1, <1>2, <1>3
<1>5. q >= p
  <2>. SUFFICES ASSUME q <= p - 1 PROVE FALSE
    BY <1>2, <1>3
  <2>1. PAGE * ((p - 1) - q) >= 0
    BY <1>1, <1>2, <1>3
  <2>2. PAGE * ((p - 1) - q) = PAGE * p - PAGE - PAGE * q
    BY <1>1, <1>2, <1>3
  <2>. QED
    BY <1>1, <1>2, <1>3, <1>4, <2>1, <2>2
<1>6. PAGE * q >= PAGE * p
  <2>1. PAGE * (q - p) >= 0
    BY <1>1, <1>2, <1>3, <1>5
  <2>2. PAGE * (q - p) = PAGE * q - PAGE * p
    BY <1>1, <1>2, <1>3
  <2>. QED
    BY <1>4, <2>1, <2>2
<1>7. a - r = PAGE * q
  BY <1>2, <1>4
<1>8. a - r \in Nat /\ PB <= a - r /\ a - r <= a
  BY <1>1, <1>2, <1>3, <1>4, <1>6, <1>7
<1>. QED
  BY <1>8 DEF r

LEMMA AtZero ==
  ASSUME NEW x \in Cells
  PROVE  At(x, 0) = x
BY PartitionAssumption DEF At, Cells

\* DB_iterator_moveback is a walk back of one record.
LEMMA MoveBackIs ==
  ASSUME NEW z \in Cells
  PROVE  MoveBack(z, 1) = WalkBack(z, 1)
<1>1. Stride(1) = S
  BY PartitionAssumption DEF Stride
<1>2. 1 * S = S /\ S <= Extent
  BY PartitionAssumption DEF Extent
<1>3. WalkBack(z, 1) = IF z - S < PB THEN (z - S) + Extent ELSE z - S
  BY <1>2, WalkIs
<1>. QED
  BY <1>1, <1>3, CapIs DEF MoveBack, Cells

\* Walks add up.
LEMMA WalksAddUp ==
  ASSUME NEW e \in Cells, NEW i \in Nat, NEW j \in Nat, i + j <= Cap
  PROVE  /\ WalkBack(e, 0) = e /\ WalkBack(e, i) \in Cells
         /\ WalkBack(WalkBack(e, i), j) = WalkBack(e, i + j)
<1>. DEFINE I == i * S
            J == j * S
<1>1. I \in Nat /\ J \in Nat /\ (i + j) * S = I + J /\ I + J <= Extent
  <2>1. I \in Nat /\ J \in Nat /\ (i + j) * S = I + J
    BY CapIs
  <2>2. (i + j) * S <= Cap * S
    BY Multiples
  <2>. QED
    BY <2>1, <2>2, CapIs
<1>2. /\ WalkBack(e, i) = IF e - I < PB THEN (e - I) + Extent ELSE e - I
      /\ WalkBack(e, i + j) = IF e - (I + J) < PB THEN (e - (I + J)) + Extent ELSE e - (I + J)
      /\ \A x \in Cells : WalkBack(x, j) = IF x - J < PB THEN (x - J) + Extent ELSE x - J
  BY <1>1, CapIs, WalkIs
<1>3. WalkBack(e, 0) = e
  <2>1. 0 * S = 0
    BY CapIs
  <2>. QED
    BY <2>1, CapIs, WalkIs DEF Cells
<1>. HIDE DEF I, J
<1>4. WalkBack(e, i) \in Cells
  BY <1>1, <1>2, CapIs DEF Cells
<1>5. WalkBack(WalkBack(e, i), j) = WalkBack(e, i + j)
  BY <1>1, <1>2, CapIs DEF Cells
<1>. QED
  BY <1>3, <1>4, <1>5

\* The records from b to a place on the way back from e.
LEMMA GapBack ==
  ASSUME NEW b \in Cells, NEW e \in Cells, NEW n \in 0 .. Cap, Gap(b, e) = n * S, NEW i \in 0 .. n
  PROVE  Gap(b, WalkBack(e, i)) = (n - i) * S
<1>. DEFINE I == i * S
            N == n * S
<1>1. I \in Nat /\ N \in Nat /\ (n - i) * S = N - I /\ I <= N /\ N <= Extent
  <2>1. I \in Nat /\ N \in Nat /\ (n - i) * S = N - I
    BY CapIs
  <2>2. (n - i) * S \in Nat
    BY Multiples
  <2>3. N <= Cap * S
    BY Multiples, CapIs
  <2>. QED
    BY <2>1, <2>2, <2>3, CapIs
<1>2. WalkBack(e, i) = IF e - I < PB THEN (e - I) + Extent ELSE e - I
  BY <1>1, CapIs, WalkIs
<1>. HIDE DEF I, N
<1>3. Gap(b, e) = N
  BY DEF N
<1>. QED
  BY <1>1, <1>2, <1>3, CapIs DEF Gap, Cells

\* A piece of a record put at z is in none of the records that lie before z.
LEMMA Untouched ==
  ASSUME NEW z \in Cells, NEW p, Fits(z, p), NEW m, DOMAIN m = Cells, NEW r,
         NEW j \in 1 .. Cap - 1, NEW k \in 0 .. S - 1
  PROVE  WritePiece(m, p, r)[At(WalkBack(z, j), k)] = m[At(WalkBack(z, j), k)]
<1>1. j \in 1 .. Cap
  BY CapIs
<1>2. At(WalkBack(z, j), k) \in Cells
  BY <1>1, WalkBackIs, ReadAddrIs
<1>3. \A n \in 0 .. S - 1 : At(WalkBack(z, j), k) # At(z, n)
  BY Apart
<1>. QED
  BY <1>2, <1>3, PieceCells

\* What an append does to iterators that are n records apart: one more, until n fit.
LEMMA Advance ==
  ASSUME NEW b \in Cells, NEW e \in Cells, NEW n \in 0 .. Cap, Gap(b, e) = n * S,
         Extent = Cap * S => b = PB,
         NEW f, f = MoveForward(e, 1), NEW c, c = TrimBegin(b, f), ~Slips(b, e, c, f)
  PROVE  /\ c \in Cells /\ f \in Cells
         /\ Gap(c, f) = (IF n < Cap THEN n + 1 ELSE Cap) * S
         /\ n < Cap => c = b
<1>. DEFINE G == Cap * S
            J == n * S
<1>0. b \in Int /\ e \in Int /\ PB <= b /\ b < PE /\ PB <= e /\ e < PE
  BY CapIs DEF Cells
<1>1. /\ f = IF e > PE - S THEN (e + S) - Extent ELSE e + S
      /\ MoveForward(b, 1) = IF b > PE - S THEN (b + S) - Extent ELSE b + S
  BY <1>0, MoveForwardIs
<1>2. c = IF (f - b) \in 0 .. S - 1 THEN MoveForward(b, 1) ELSE b
  BY DEF TrimBegin
<1>3. c # PE /\ f # PE /\ ~(b > e /\ f < e /\ c = b)
  BY DEF Slips
<1>4. c \in Cells /\ f \in Cells
  BY <1>0, <1>1, <1>2, <1>3, CapIs DEF Cells
<1>5. J \in Nat /\ G \in Nat /\ G <= Extent /\ Extent < G + S /\ G >= S /\ Gap(b, e) = J
      /\ (n < Cap => J + S <= G) /\ (n + 1) * S = J + S
  BY CapIs, Multiples
<1>6. CASE n < Cap
  <2>1. Extent = G => b = PB
    OBVIOUS
  <2>. HIDE DEF G, J
  <2>2. ~((f - b) \in 0 .. S - 1) /\ Gap(b, f) = J + S
    <3>1. CASE e >= b
      <4>1. e - b = J
        BY <1>5, <3>1 DEF Gap
      <4>2. CASE e > PE - S
        <5>1. Extent # G
          BY <1>0, <1>5, <1>6, <2>1, <4>1, <4>2, CapIs, <1>1, <1>3
        <5>2. f - b = (J + S) - Extent /\ J + S < Extent
          BY <1>0, <1>1, <1>5, <1>6, <4>1, <4>2, <5>1, CapIs
        <5>. QED
          BY <1>0, <1>5, <5>2, <1>4, CapIs DEF Gap, Cells
      <4>3. CASE ~(e > PE - S)
        BY <1>0, <1>1, <1>5, <4>1, <4>3, CapIs DEF Gap
      <4>. QED
        BY <4>2, <4>3
    <3>2. CASE e < b
      <4>1. (e - b) + Extent = J
        BY <1>0, <1>5, <3>2 DEF Gap
      <4>2. f = e + S
        BY <1>0, <1>1, <1>5, <1>6, <3>2, <4>1, CapIs
      <4>3. Extent # G
        BY <1>0, <2>1, <3>2
      <4>. QED
        BY <1>0, <1>5, <1>6, <3>2, <4>1, <4>2, <4>3, CapIs DEF Gap
    <3>. QED
      BY <1>0, <3>1, <3>2
  <2>. QED
    BY <1>2, <1>4, <1>5, <1>6, <2>2
<1>7. CASE ~(n < Cap)
  <2>1. J = G
    BY <1>7, CapIs
  <2>. HIDE DEF G, J
  <2>2. Gap(c, f) = G
    <3>2. CASE e >= b
      <4>1. e - b = G
        BY <1>5, <2>1, <3>2 DEF Gap
      <4>2. e > PE - S
        BY <1>0, <1>1, <1>4, <1>5, <4>1, CapIs DEF Cells
      <4>3. f = (e + S) - Extent
        BY <1>1, <4>2
      <4>4. (f - b) \in 0 .. S - 1
        BY <1>0, <1>5, <4>1, <4>3, CapIs
      <4>5. c = b + S
        BY <1>0, <1>1, <1>2, <1>5, <4>1, <4>4, CapIs
      <4>. QED
        BY <1>0, <1>5, <4>1, <4>3, <4>5, CapIs DEF Gap
    <3>3. CASE e < b
      <4>1. (e - b) + Extent = G
        BY <1>0, <1>5, <2>1, <3>3 DEF Gap
      <4>2. e <= PE - S
        <5>. SUFFICES ASSUME e > PE - S PROVE FALSE
          BY <1>0, CapIs
        <5>1. f = (e + S) - Extent
          BY <1>1
        <5>2. ~((f - b) \in 0 .. S - 1) /\ f < e
          BY <1>0, <1>5, <3>3, <4>1, <5>1, CapIs
        <5>3. c = b
          BY <1>2, <5>2
        <5>. QED
          BY <1>0, <1>3, <3>3, <5>2, <5>3
      <4>3. f = e + S
        BY <1>0, <1>1, <4>2, CapIs
      <4>4. (f - b) \in 0 .. S - 1
        BY <1>0, <1>5, <3>3, <4>1, <4>3, CapIs
      <4>5. c = IF b > PE - S THEN (b + S) - Extent ELSE b + S
        BY <1>1, <1>2, <4>4
      <4>. QED
        BY <1>0, <1>5, <3>3, <4>1, <4>3, <4>5, CapIs DEF Gap
    <3>. QED
      BY <1>0, <3>2, <3>3
  <2>. QED
    BY <1>4, <1>7, <2>2 DEF G
<1>. QED
  BY <1>6, <1>7
=============================================================================
