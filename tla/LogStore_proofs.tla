--------------------------- MODULE LogStore_proofs ---------------------------
(***************************************************************************)
(* What holds of the event log for every size of the partition and of a    *)
(* page, every choice of lengths and any number of strings, failures and   *)
(* crashes.  Places are counted from the log's beginning, around the       *)
(* partition (At, Off): the log is a stretch of the ring that opens with   *)
(* BEG and ends at END (LogAt), and the rest of the argument is how each   *)
(* block write, each string read and each restart moves its two ends.      *)
(***************************************************************************)
EXTENDS LogStore, SequenceTheorems, WellFoundedInduction, TLAPS

Cells == PB .. PE - 1
SIZE == PE - PB

\* The address i bytes after b in the ring, and how far a is after b.
At(b, i)  == IF b + i < PE THEN b + i ELSE (b + i) - SIZE
Off(b, a) == IF a >= b THEN a - b ELSE (a - b) + SIZE

\* The bytes from BEG on, BEG included and END not.
Size(b, e) == IF e > b THEN e - b ELSE (e - b) + SIZE

-----------------------------------------------------------------------------
(* Addresses and pages. *)

LEMMA DivMod ==
  ASSUME NEW a \in Nat
  PROVE  /\ a \div PAGE \in Nat /\ a % PAGE \in 0 .. PAGE - 1
         /\ a = PAGE * (a \div PAGE) + (a % PAGE)
<1>. PAGE \in Nat /\ PAGE > 0
  BY PartitionAssumption
<1>1. a % PAGE \in 0 .. PAGE - 1
  OBVIOUS
<1>2. a = PAGE * (a \div PAGE) + (a % PAGE)
  OBVIOUS
<1>3. a \div PAGE \in Nat
  <2>. DEFINE q == a \div PAGE
              r == a % PAGE
  <2>1. q \in Int /\ r \in 0 .. PAGE - 1 /\ a = PAGE * q + r
    BY <1>1, <1>2
  <2>. HIDE DEF q, r
  <2>2. ASSUME q < 0 PROVE PAGE * q <= -PAGE
    BY <2>1, <2>2
  <2>3. PAGE * q \in Int
    BY <2>1
  <2>4. q >= 0
    BY <2>1, <2>2, <2>3
  <2>. QED
    BY <2>1, <2>4 DEF q
<1>. QED
  BY <1>1, <1>2, <1>3

\* The quotient and the remainder are the only ones.
LEMMA DivModUnique ==
  ASSUME NEW q \in Int, NEW r \in 0 .. PAGE - 1
  PROVE  (PAGE * q + r) \div PAGE = q /\ (PAGE * q + r) % PAGE = r
BY PartitionAssumption

\* Two addresses of one page differ by less than a page, and only they do.
LEMMA SamePage ==
  ASSUME NEW a \in Nat, NEW b \in Nat
  PROVE  /\ a \div PAGE = b \div PAGE => a - b = (a % PAGE) - (b % PAGE)
         /\ a >= b /\ a - b < PAGE - (b % PAGE) => a \div PAGE = b \div PAGE
<1>. DEFINE qa == a \div PAGE
            ra == a % PAGE
            qb == b \div PAGE
            rb == b % PAGE
<1>1. /\ qa \in Nat /\ ra \in 0 .. PAGE - 1 /\ a = PAGE * qa + ra
      /\ qb \in Nat /\ rb \in 0 .. PAGE - 1 /\ b = PAGE * qb + rb
  BY DivMod, Zenon
<1>2. a >= b /\ a - b < PAGE - rb => qa = qb
  <2>. SUFFICES ASSUME a >= b, a - b < PAGE - rb PROVE qa = qb
    OBVIOUS
  <2>1. rb + (a - b) \in 0 .. PAGE - 1 /\ a = PAGE * qb + (rb + (a - b))
    <3>. HIDE DEF qa, ra, qb, rb
    <3>1. PAGE * qb \in Int
      BY <1>1, PartitionAssumption
    <3>. QED
      BY <1>1, <3>1, PartitionAssumption
  <2>2. (PAGE * qb + (rb + (a - b))) \div PAGE = qb
    BY <1>1, <2>1, DivModUnique
  <2>. QED
    BY <2>1, <2>2
<1>3. qa = qb => a - b = ra - rb
  <2>. HIDE DEF qa, ra, qb, rb
  <2>1. PAGE * qb \in Int
    BY <1>1, PartitionAssumption
  <2>. QED
    BY <1>1, <2>1
<1>. QED
  BY <1>2, <1>3, Zenon

\* A block that ends inside its page is stored byte after byte.
LEMMA Block ==
  ASSUME NEW at \in Nat, NEW len \in 0 .. PAGE, (at % PAGE) + len <= PAGE, NEW a \in Nat
  PROVE  /\ (a \div PAGE = at \div PAGE /\ (a - at) % PAGE < len) <=> (at <= a /\ a < at + len)
         /\ at <= a /\ a < at + len => (a - at) % PAGE = a - at
<1>. PAGE \in Nat /\ PAGE > 0
  BY PartitionAssumption
<1>1. at % PAGE \in 0 .. PAGE - 1 /\ a % PAGE \in 0 .. PAGE - 1
  BY DivMod
<1>2. ASSUME NEW d \in 0 .. PAGE - 1 PROVE d % PAGE = d
  OBVIOUS
<1>3. ASSUME NEW d \in Int, -PAGE < d, d < 0 PROVE d % PAGE = d + PAGE
  <2>1. d + PAGE \in 0 .. PAGE - 1 /\ d = PAGE * (-1) + (d + PAGE)
    BY <1>3
  <2>. QED
    BY <2>1, DivModUnique
<1>4. CASE at <= a /\ a < at + len
  <2>1. a - at \in 0 .. PAGE - 1 /\ a - at < PAGE - (at % PAGE)
    <3>. DEFINE r == at % PAGE
    <3>1. r \in 0 .. PAGE - 1 /\ r + len <= PAGE
      BY <1>1
    <3>. HIDE DEF r
    <3>2. a - at \in 0 .. PAGE - 1 /\ a - at < PAGE - r
      BY <1>4, <3>1
    <3>. QED
      BY <3>2 DEF r
  <2>2. a \div PAGE = at \div PAGE
    BY <1>4, <2>1, SamePage
  <2>3. (a - at) % PAGE = a - at
    BY <1>2, <2>1
  <2>. QED
    BY <1>4, <2>2, <2>3
<1>5. CASE ~(at <= a /\ a < at + len)
  <2>. SUFFICES ASSUME a \div PAGE = at \div PAGE, (a - at) % PAGE < len PROVE FALSE
    BY <1>5
  <2>1. a - at = (a % PAGE) - (at % PAGE)
    BY SamePage
  <2>2. CASE a >= at
    <3>1. a - at \in 0 .. PAGE - 1
      BY <1>1, <2>1, <2>2
    <3>2. (a - at) % PAGE = a - at
      BY <1>2, <3>1
    <3>. QED
      BY <1>5, <2>2, <3>2
  <2>3. CASE a < at
    <3>0. a - at \in Int /\ -PAGE < a - at /\ a - at < 0
      BY <1>1, <2>1, <2>3
    <3>1. (a - at) % PAGE = (a - at) + PAGE
      BY <1>3, <3>0
    <3>2. ((a % PAGE) - (at % PAGE)) + PAGE < len
      BY <2>1, <3>1
    <3>. QED
      BY <1>1, <3>2
  <2>. QED
    BY <2>2, <2>3
<1>. QED
  BY <1>4, <1>5

\* An address a few bytes before the end of a page.
LEMMA BeforePageEnd ==
  ASSUME NEW e \in Nat, e % PAGE = 0, NEW n \in 1 .. PAGE, e - n \in Nat
  PROVE  (e - n) % PAGE = PAGE - n
<1>. DEFINE q == e \div PAGE
<1>1. q \in Nat /\ e = PAGE * q + 0
  BY DivMod
<1>. HIDE DEF q
<1>2. PAGE \in Nat /\ PAGE * q \in Int /\ PAGE * (q - 1) = PAGE * q - PAGE
  BY <1>1, PartitionAssumption
<1>3. e - n = PAGE * (q - 1) + (PAGE - n) /\ PAGE - n \in 0 .. PAGE - 1 /\ q - 1 \in Int
  BY <1>1, <1>2
<1>. QED
  BY <1>3, DivModUnique

\* Two page boundaries are a page apart or more.
LEMMA MultiplesApart ==
  \A a, b \in Nat : a % PAGE = 0 /\ b % PAGE = 0 /\ a < b => a + PAGE <= b
<1>. SUFFICES ASSUME NEW a \in Nat, NEW b \in Nat, a % PAGE = 0, b % PAGE = 0, a < b
              PROVE  a + PAGE <= b
  OBVIOUS
<1>. DEFINE p == a \div PAGE
            q == b \div PAGE
<1>1. p \in Nat /\ a = PAGE * p + 0 /\ q \in Nat /\ b = PAGE * q + 0
  BY DivMod
<1>. HIDE DEF p, q
<1>2. PAGE \in Nat /\ PAGE >= 2
  BY PartitionAssumption
<1>3. ASSUME q <= p PROVE FALSE
  <2>1. PAGE * q <= PAGE * p
    BY <1>1, <1>2, <1>3
  <2>. QED
    BY <1>1, <1>2, <2>1
<1>4. q >= p + 1
  BY <1>1, <1>3
<1>5. PAGE * q >= PAGE * (p + 1) /\ PAGE * (p + 1) = PAGE * p + PAGE
  BY <1>1, <1>2, <1>4
<1>. QED
  BY <1>1, <1>2, <1>5

LEMMA Sizes ==
  /\ PAGE \in Nat /\ PAGE >= 2 /\ PB \in Nat /\ PE \in Nat /\ PB < PE
  /\ PB % PAGE = 0 /\ PE % PAGE = 0
  /\ SIZE \in Nat /\ SIZE >= PAGE /\ SIZE <= 65536
<1>1. PAGE \in Nat /\ PAGE >= 2 /\ PB \in Nat /\ PE \in Nat /\ PB < PE /\ PB % PAGE = 0 /\ PE % PAGE = 0
      /\ PE - PB <= 65536
  BY PartitionAssumption
<1>2. PB \in Nat /\ PE \in Nat /\ PB % PAGE = 0 /\ PE % PAGE = 0 /\ PB < PE
  BY <1>1
<1>3. PB + PAGE <= PE
  BY <1>2, MultiplesApart, Zenon
<1>. QED
  BY <1>1, <1>3 DEF SIZE

\* Places of the ring.
LEMMA Places ==
  ASSUME NEW b \in Cells, NEW i \in 0 .. SIZE - 1
  PROVE  /\ At(b, i) \in Cells /\ Off(b, At(b, i)) = i
         /\ At(b, 0) = b
         /\ \A k \in 0 .. SIZE - 1 : i + k < SIZE => At(At(b, i), k) = At(b, i + k)
BY Sizes DEF Cells, At, Off, SIZE

LEMMA Offsets ==
  ASSUME NEW b \in Cells, NEW a \in Cells
  PROVE  Off(b, a) \in 0 .. SIZE - 1 /\ At(b, Off(b, a)) = a /\ Off(b, b) = 0
BY Sizes DEF Cells, At, Off, SIZE

LEMMA SizeIs ==
  ASSUME NEW b \in Cells, NEW e \in PB .. PE, Size(b, e) < SIZE
  PROVE  /\ Size(b, e) \in 1 .. SIZE - 1
         /\ At(b, Size(b, e)) = IF e = PE THEN PB ELSE e
         /\ e > b <=> b + Size(b, e) <= PE /\ ~(e = PB /\ b + Size(b, e) = PE)
BY Sizes DEF Cells, At, Size, SIZE

-----------------------------------------------------------------------------
(* Block writes. *)

Piece == [at : Nat, bytes : Seq(Byte)]

LEMMA BlockType ==
  ASSUME NEW m \in [Cells -> Byte], NEW p \in Piece
  PROVE  WriteBlock(m, p) \in [Cells -> Byte]
<1>. SUFFICES ASSUME NEW a \in Cells
              PROVE  LET k == (a - p.at) % PAGE
                     IN (IF a \div PAGE = p.at \div PAGE /\ k < Len(p.bytes) THEN p.bytes[k + 1] ELSE m[a]) \in Byte
  BY Zenon DEF WriteBlock
<1>. DEFINE k == (a - p.at) % PAGE
<1>1. k \in Nat
  BY Sizes DEF Piece, Cells
<1>2. p.bytes \in Seq(Byte)
  BY DEF Piece
<1>. HIDE DEF k
<1>3. k < Len(p.bytes) => p.bytes[k + 1] \in Byte
  BY <1>1, <1>2, ElementOfSeq
<1>. QED
  BY <1>3 DEF k

\* A block that ends in its page: every byte in its place, the rest as before.
LEMMA Written ==
  ASSUME NEW m \in [Cells -> Byte], NEW p \in Piece, (p.at % PAGE) + Len(p.bytes) <= PAGE,
         NEW a \in Cells
  PROVE  WriteBlock(m, p)[a] =
           IF p.at <= a /\ a < p.at + Len(p.bytes) THEN p.bytes[(a - p.at) + 1] ELSE m[a]
<1>1. p.at \in Nat /\ p.bytes \in Seq(Byte) /\ Len(p.bytes) \in Nat /\ a \in Nat
  BY Sizes DEF Piece, Cells
<1>2. p.at % PAGE \in 0 .. PAGE - 1
  BY <1>1, DivMod
<1>3. Len(p.bytes) \in 0 .. PAGE
  <2>. DEFINE r == p.at % PAGE
  <2>1. r \in 0 .. PAGE - 1 /\ r + Len(p.bytes) <= PAGE
    BY <1>2
  <2>. HIDE DEF r
  <2>. QED
    BY <1>1, <2>1, Sizes
<1>4. /\ (a \div PAGE = p.at \div PAGE /\ (a - p.at) % PAGE < Len(p.bytes))
         <=> (p.at <= a /\ a < p.at + Len(p.bytes))
      /\ p.at <= a /\ a < p.at + Len(p.bytes) => (a - p.at) % PAGE = a - p.at
  BY <1>1, <1>3, Block, Zenon
<1>5. WriteBlock(m, p)[a] =
        IF a \div PAGE = p.at \div PAGE /\ (a - p.at) % PAGE < Len(p.bytes)
        THEN p.bytes[((a - p.at) % PAGE) + 1] ELSE m[a]
  BY Zenon DEF WriteBlock
<1>. QED
  BY <1>4, <1>5, Zenon

LEMMA WriteOne ==
  ASSUME NEW m \in [Cells -> Byte], NEW x \in Nat, NEW c \in Byte
  PROVE  /\ Write1(m, x, c) \in [Cells -> Byte]
         /\ \A a \in Cells : Write1(m, x, c)[a] = IF a = x THEN c ELSE m[a]
<1>. DEFINE p == [at |-> x, bytes |-> <<c>>]
<1>1. p \in Piece /\ p.at = x /\ p.bytes = <<c>> /\ Len(<<c>>) = 1 /\ <<c>>[1] = c
  BY DEF Piece
<1>2. (p.at % PAGE) + Len(p.bytes) <= PAGE
  <2>1. x % PAGE \in 0 .. PAGE - 1
    BY DivMod
  <2>. QED
    BY <1>1, <2>1, Sizes
<1>. HIDE DEF p
<1>3. WriteBlock(m, p) \in [Cells -> Byte]
  BY <1>1, BlockType
<1>4. ASSUME NEW a \in Cells PROVE WriteBlock(m, p)[a] = IF a = x THEN c ELSE m[a]
  <2>1. WriteBlock(m, p)[a] =
          IF p.at <= a /\ a < p.at + Len(p.bytes) THEN p.bytes[(a - p.at) + 1] ELSE m[a]
    BY <1>1, <1>2, Written
  <2>2. a \in Nat
    BY Sizes DEF Cells
  <2>. QED
    BY <1>1, <2>1, <2>2
<1>. QED
  BY <1>3, <1>4 DEF Write1, p

(***************************************************************************)
(* The writes of one call of LOG_process_buffer_2: one for a block that    *)
(* ends in its page, two for one that reaches into the next, and only the  *)
(* first byte of one that spans three.                                     *)
(***************************************************************************)
LEMMA BlocksAre ==
  ASSUME NEW a \in Nat, NEW s \in Seq(Byte), Len(s) >= 1, Len(s) <= PAGE + 1
  PROVE  LET r == a % PAGE
             n == PAGE - r
         IN /\ r + Len(s) <= PAGE => Blocks(a, s) = << [at |-> a, bytes |-> s] >>
            /\ r + Len(s) > PAGE /\ r + Len(s) < 2 * PAGE =>
                 Blocks(a, s) = << [at |-> a, bytes |-> SubSeq(s, 1, n)],
                                   [at |-> a + n, bytes |-> SubSeq(s, n + 1, Len(s))] >>
            /\ r + Len(s) >= 2 * PAGE => Blocks(a, s) = << [at |-> a, bytes |-> SubSeq(s, 1, n)] >>
            /\ r + Len(s) >= 2 * PAGE => r = PAGE - 1 /\ Len(s) = PAGE + 1
<1>. DEFINE r == a % PAGE
            q == a \div PAGE
            L == Len(s)
            n == PAGE - r
            e == a + L
            pro == Least(n, L)
            epi == e % PAGE
<1>0. L \in Nat /\ PAGE \in Nat /\ PAGE >= 2
  BY Sizes
<1>1. r \in 0 .. PAGE - 1 /\ q \in Nat /\ a = PAGE * q + r /\ L \in Nat /\ PAGE \in Nat /\ PAGE >= 2
  BY <1>0, DivMod, Zenon
<1>2. Blocks(a, s) =
        IF e \div PAGE > q /\ epi > 0
        THEN << [at |-> a, bytes |-> SubSeq(s, 1, pro)],
                [at |-> a + pro, bytes |-> SubSeq(s, pro + 1, pro + epi)] >>
        ELSE << [at |-> a, bytes |-> SubSeq(s, 1, pro)] >>
  BY Zenon DEF Blocks
<1>3. SubSeq(s, 1, L) = s
  BY SubSeqFull
<1>4. CASE r + L < PAGE
  <2>1. r + L \in 0 .. PAGE - 1 /\ e = PAGE * q + (r + L)
    <3>. HIDE DEF r, q, L
    <3>1. PAGE * q \in Int
      BY <1>1
    <3>. QED
      BY <1>1, <1>4, <3>1
  <2>2. e \div PAGE = q
    <3>1. q \in Int
      BY <1>1
    <3>2. (PAGE * q + (r + L)) \div PAGE = q
      BY <2>1, <3>1, DivModUnique, Zenon
    <3>. QED
      BY <2>1, <3>2, Zenon
  <2>3. pro = L
    <3>. HIDE DEF r, L
    <3>. QED
      BY <1>1, <1>4 DEF Least
  <2>4. ~ (q > q)
    BY <1>1
  <2>5. Blocks(a, s) = << [at |-> a, bytes |-> s] >>
    BY <1>2, <1>3, <2>2, <2>3, <2>4
  <2>. HIDE DEF r, q, L, pro, epi, e
  <2>6. ~ (r + L > PAGE) /\ ~ (r + L >= 2 * PAGE)
    BY <1>1, <1>4
  <2>. QED
    BY <2>5, <2>6 DEF r, L
<1>5. CASE r + L >= PAGE /\ r + L < 2 * PAGE
  <2>1. (r + L) - PAGE \in 0 .. PAGE - 1 /\ e = PAGE * (q + 1) + ((r + L) - PAGE) /\ q + 1 \in Int
    <3>. HIDE DEF r, q, L
    <3>1. PAGE * q \in Int /\ PAGE * (q + 1) = PAGE * q + PAGE
      BY <1>1
    <3>. QED
      BY <1>1, <1>5, <3>1
  <2>2. e \div PAGE = q + 1 /\ epi = (r + L) - PAGE
    BY <1>1, <2>1, DivModUnique
  <2>3. pro = n /\ n + epi = L /\ q + 1 > q /\ (epi > 0 <=> r + L > PAGE) /\ (r + L <= PAGE => n = L)
    <3>. HIDE DEF r, L, q, e, epi
    <3>. QED
      BY <1>1, <1>5, <2>2 DEF Least
  <2>4. ~ (r + L >= 2 * PAGE)
    <3>. HIDE DEF r, L, q, e, epi
    <3>. QED
      BY <1>1, <1>5
  <2>5. CASE r + L > PAGE
    <3>1. Blocks(a, s) = << [at |-> a, bytes |-> SubSeq(s, 1, n)],
                            [at |-> a + n, bytes |-> SubSeq(s, n + 1, L)] >>
      BY <1>2, <2>2, <2>3, <2>5
    <3>2. ~ (r + L <= PAGE)
      <4>. HIDE DEF r, L, q, e, epi
      <4>. QED
        BY <1>1, <2>5
    <3>. QED
      BY <2>4, <3>1, <3>2, Zenon
  <2>6. CASE ~ (r + L > PAGE)
    <3>1. Blocks(a, s) = << [at |-> a, bytes |-> SubSeq(s, 1, pro)] >> /\ pro = L
      <4>1. r + L <= PAGE
        <5>. HIDE DEF r, L, q, e, epi
        <5>. QED
          BY <1>1, <2>6
      <4>. QED
        BY <1>2, <2>3, <2>6, <4>1, Zenon
    <3>. QED
      BY <1>3, <2>4, <2>6, <3>1, Zenon
  <2>. QED
    BY <2>5, <2>6, Zenon
<1>6. CASE r + L >= 2 * PAGE
  <2>1. r = PAGE - 1 /\ L = PAGE + 1
    <3>. HIDE DEF r, q, L
    <3>. QED
      BY <1>1, <1>6 DEF L
  <2>2. e = PAGE * (q + 2) + 0 /\ q + 2 \in Int /\ 0 \in 0 .. PAGE - 1
    <3>. HIDE DEF r, q, L
    <3>1. PAGE * q \in Int /\ PAGE * (q + 2) = PAGE * q + 2 * PAGE
      BY <1>1
    <3>. QED
      BY <1>1, <2>1, <3>1
  <2>3. epi = 0
    BY <2>2, DivModUnique
  <2>4. pro = n /\ ~ (0 > 0)
    <3>. HIDE DEF r, q, L
    <3>. QED
      BY <1>1, <2>1 DEF Least
  <2>5. Blocks(a, s) = << [at |-> a, bytes |-> SubSeq(s, 1, n)] >>
    BY <1>2, <2>3, <2>4
  <2>6. ~ (r + L <= PAGE) /\ ~ (r + L < 2 * PAGE)
    <3>. HIDE DEF r, q, L
    <3>. QED
      BY <1>1, <2>1
  <2>. QED
    BY <2>1, <2>5, <2>6, Zenon
<1>7. r + L < PAGE \/ (r + L >= PAGE /\ r + L < 2 * PAGE) \/ r + L >= 2 * PAGE
  <2>. HIDE DEF r, q, L
  <2>. QED
    BY <1>1
<1>. QED
  BY <1>4, <1>5, <1>6, <1>7, Zenon

-----------------------------------------------------------------------------
(* Searches. *)

\* A set of naturals that is not empty has a least element.
LEMMA LeastOf ==
  ASSUME NEW S \in SUBSET Nat, S # {}
  PROVE  \E n \in S : \A k \in S : n <= k
<1>. DEFINE R == OpToRel(<, Nat)
<1>1. PICK n \in S : \A k \in S : ~ (<<k, n>> \in R)
  <2>. HIDE DEF R
  <2>1. IsWellFoundedOn(R, Nat)
    BY NatLessThanWellFounded DEF R
  <2>. QED
    BY <2>1, WFMin
<1>2. \A k \in S : ~(k < n)
  BY <1>1 DEF OpToRel
<1>. QED
  BY <1>2

LEMMA FindIs ==
  ASSUME NEW m \in [Cells -> Byte], NEW tag
  PROVE  /\ (\E a \in Cells : m[a] = tag) =>
              /\ Find(m, tag) \in Cells /\ m[Find(m, tag)] = tag
              /\ \A a \in Cells : m[a] = tag => Find(m, tag) <= a
         /\ (\A a \in Cells : m[a] # tag) => Find(m, tag) = PE
<1>0. DOMAIN m = Cells
  OBVIOUS
<1>1. CASE \E a \in Cells : m[a] = tag
  <2>. DEFINE S == {a \in Cells : m[a] = tag}
              IsIt(a) == m[a] = tag /\ \A b \in Cells : m[b] = tag => a <= b
  <2>1. S \in SUBSET Nat /\ S # {}
    BY <1>1, Sizes DEF Cells
  <2>2. \E a \in Cells : IsIt(a)
    <3>. HIDE DEF S
    <3>1. PICK n \in S : \A k \in S : n <= k
      BY <2>1, LeastOf
    <3>. QED
      BY <3>1 DEF S
  <2>3. Find(m, tag) = CHOOSE a \in Cells : IsIt(a)
    BY <1>0, <1>1, Zenon DEF Find
  <2>4. Find(m, tag) \in Cells /\ IsIt(Find(m, tag))
    <3>. HIDE DEF IsIt
    <3>. QED
      BY <2>2, <2>3, Zenon
  <2>. QED
    BY <1>1, <2>4, Zenon
<1>2. CASE ~ \E a \in Cells : m[a] = tag
  BY <1>0, <1>2, Zenon DEF Find
<1>. QED
  BY <1>1, <1>2, Zenon

-----------------------------------------------------------------------------
(* Types. *)

LEMMA Tags ==
  /\ {Blank, BEG, END, DEL} \subseteq Byte
  /\ BEG # END /\ BEG # DEL /\ END # DEL /\ Blank \notin {BEG, END, DEL}
  /\ BEG.is = "beg" /\ END.is = "end" /\ DEL.is = "del" /\ Blank.is = "blank"
<1>1. 0 \in 0 .. MaxSaid /\ 0 \in 0 .. PAGE
  BY Sizes, BoundsAssumption
<1>2. {Blank, BEG, END, DEL} \subseteq Byte
  BY <1>1 DEF Blank, BEG, END, DEL, Tag, Byte
<1>3. BEG.is = "beg" /\ END.is = "end" /\ DEL.is = "del" /\ Blank.is = "blank"
  BY DEF Blank, BEG, END, DEL, Tag
<1>. QED
  BY <1>2, <1>3

LEMMA TextType ==
  ASSUME NEW n \in 0 .. MaxSaid, NEW k \in 0 .. PAGE, NEW len
  PROVE  Text(n, k, len) \in Byte
BY DEF Text, Byte

LEMMA ResetIs ==
  ASSUME NEW m \in [Cells -> Byte]
  PROVE  /\ Reset(m) \in [Cells -> Byte]
         /\ \A a \in Cells : Reset(m)[a] = IF a = PB THEN BEG ELSE IF a = PB + 1 THEN END ELSE m[a]
<1>. DEFINE p == [at |-> PB, bytes |-> <<BEG, END>>]
<1>1. /\ p \in Piece /\ p.at = PB /\ p.bytes = <<BEG, END>>
      /\ Len(<<BEG, END>>) = 2 /\ <<BEG, END>>[1] = BEG /\ <<BEG, END>>[2] = END
  BY Sizes, Tags DEF Piece
<1>2. (p.at % PAGE) + Len(p.bytes) <= PAGE
  BY <1>1, Sizes
<1>. HIDE DEF p
<1>3. WriteBlock(m, p) \in [Cells -> Byte]
  BY <1>1, BlockType
<1>4. ASSUME NEW a \in Cells
      PROVE  WriteBlock(m, p)[a] = IF a = PB THEN BEG ELSE IF a = PB + 1 THEN END ELSE m[a]
  <2>1. WriteBlock(m, p)[a] =
          IF p.at <= a /\ a < p.at + Len(p.bytes) THEN p.bytes[(a - p.at) + 1] ELSE m[a]
    BY <1>1, <1>2, Written
  <2>2. a \in Nat /\ PB \in Nat /\ PB <= a
    BY Sizes DEF Cells
  <2>3. WriteBlock(m, p)[a] = IF a < PB + 2 THEN <<BEG, END>>[(a - PB) + 1] ELSE m[a]
    BY <1>1, <2>1, <2>2
  <2>4. a = PB \/ a = PB + 1 \/ ~ (a < PB + 2)
    BY <2>2
  <2>. QED
    BY <1>1, <2>2, <2>3, <2>4
<1>. QED
  BY <1>3, <1>4 DEF Reset, p

\* Where the page of an address begins.
LEMMA PageStart ==
  ASSUME NEW x \in Nat
  PROVE  LET b == (x \div PAGE) * PAGE
         IN /\ b \in Nat /\ b % PAGE = 0 /\ b = x - (x % PAGE) /\ b <= x /\ x < b + PAGE
            /\ \A k \in 0 .. PAGE - 1 : (b + k) \div PAGE = x \div PAGE /\ (b + k) % PAGE = k
            /\ PB <= x => PB <= b
            /\ x < PE => b + PAGE <= PE
            /\ x < PE + PAGE => b <= PE
<1>. DEFINE q == x \div PAGE
            r == x % PAGE
            b == q * PAGE
<1>1. q \in Nat /\ r \in 0 .. PAGE - 1 /\ x = PAGE * q + r /\ PAGE \in Nat /\ PAGE >= 2 /\ PB \in Nat /\ PE \in Nat
  <2>1. PAGE \in Nat /\ PAGE >= 2 /\ PB \in Nat /\ PE \in Nat
    BY Sizes
  <2>. QED
    BY <2>1, DivMod, Zenon
<1>2. b = PAGE * q /\ b \in Nat
  <2>. HIDE DEF q
  <2>. QED
    BY <1>1
<1>3. \A k \in 0 .. PAGE - 1 : (b + k) \div PAGE = q /\ (b + k) % PAGE = k
  <2>1. \A k \in 0 .. PAGE - 1 : (PAGE * q + k) \div PAGE = q /\ (PAGE * q + k) % PAGE = k
    <3>1. q \in Int
      BY <1>1
    <3>. QED
      BY <3>1, DivModUnique, Zenon
  <2>. HIDE DEF b, q
  <2>. TAKE k \in 0 .. PAGE - 1
  <2>2. b + k = PAGE * q + k
    BY <1>2
  <2>. QED
    BY <2>1, <2>2, Zenon
<1>4. b % PAGE = 0
  <2>. HIDE DEF b, q
  <2>1. b + 0 = b /\ 0 \in 0 .. PAGE - 1
    BY <1>1, <1>2
  <2>. QED
    BY <1>3, <2>1
<1>5. b = x - r /\ b <= x /\ x < b + PAGE
  <2>. HIDE DEF b, q, r
  <2>. QED
    BY <1>1, <1>2
<1>6. PB % PAGE = 0 /\ PE % PAGE = 0
  BY Sizes
<1>7. /\ b < PB => b + PAGE <= PB
      /\ b < PE => b + PAGE <= PE
      /\ PE < b => PE + PAGE <= b
  BY <1>1, <1>2, <1>4, <1>6, MultiplesApart, Zenon
<1>. HIDE DEF b, q, r
<1>8. (PB <= x => PB <= b) /\ (x < PE => b + PAGE <= PE) /\ (x < PE + PAGE => b <= PE)
  BY <1>1, <1>2, <1>5, <1>7
<1>. QED
  BY <1>2, <1>3, <1>4, <1>5, <1>8, Zenon DEF b, q, r

\* What a byte read makes of the reader.
RState == [it : PB .. PE + PAGE - 1, page : [0 .. PAGE - 1 -> Byte], lsb : 0 .. PAGE - 1,
           s : Seq(Byte), done : BOOLEAN]

LEMMA PageType ==
  ASSUME NEW m \in [Cells -> Byte], NEW a \in Nat
  PROVE  PageOf(m, a) \in [0 .. PAGE - 1 -> Byte]
<1>1. DOMAIN m = Cells
  OBVIOUS
<1>2. ASSUME NEW x PROVE (IF x \in DOMAIN m THEN m[x] ELSE Blank) \in Byte
  BY <1>1, Tags
<1>. QED
  BY <1>2, Zenon DEF PageOf

LEMMA NextPageType ==
  ASSUME NEW a \in PB .. PE + PAGE - 1
  PROVE  NextPage(a) \in PB .. PE + PAGE - 1
BY Sizes DEF NextPage

LEMMA TakeType ==
  ASSUME mem \in [Cells -> Byte], NEW r \in RState
  PROVE  TakeByte(r) \in RState
<1>1. /\ r.it \in PB .. PE + PAGE - 1 /\ r.page \in [0 .. PAGE - 1 -> Byte]
      /\ r.lsb \in 0 .. PAGE - 1 /\ r.s \in Seq(Byte)
  BY DEF RState
<1>. DEFINE c == r.page[r.lsb]
            s == IF c = BEG THEN r.s ELSE Append(r.s, c)
            l == (r.lsb + 1) % PAGE
            a == IF l = 0 THEN NextPage(r.it) ELSE r.it
            p == IF l = 0 THEN PageOf(mem, a) ELSE r.page
            d == c # BEG /\ (c.is = "zero" \/ Len(s) = ToRead)
<1>2. TakeByte(r) = [it |-> a, page |-> p, lsb |-> l, s |-> s, done |-> d]
  BY Zenon DEF TakeByte
<1>3. c \in Byte
  BY <1>1
<1>4. s \in Seq(Byte)
  <2>. HIDE DEF c
  <2>. QED
    BY <1>1, <1>3
<1>5. l \in 0 .. PAGE - 1
  <2>1. r.lsb + 1 \in Nat
    BY <1>1
  <2>. QED
    BY <2>1, DivMod
<1>6. a \in PB .. PE + PAGE - 1
  <2>. HIDE DEF l
  <2>. QED
    BY <1>1, NextPageType
<1>7. p \in [0 .. PAGE - 1 -> Byte]
  <2>. HIDE DEF l, a
  <2>1. a \in Nat
    BY <1>6, Sizes
  <2>. QED
    BY <1>1, <2>1, PageType
<1>8. d \in BOOLEAN
  BY Zenon
<1>. HIDE DEF c, s, l, a, p, d
<1>. QED
  BY <1>2, <1>4, <1>5, <1>6, <1>7, <1>8 DEF RState

(***************************************************************************)
(* The reading is defined by recursion: it exists, and each of its states  *)
(* is a state of the reader.                                               *)
(***************************************************************************)
ReadStart == [it |-> it, page |-> page, lsb |-> it % PAGE, s |-> << >>, done |-> FALSE]
ReadStep(r) == IF r.done THEN r ELSE TakeByte(r)

LEMMA ReadStartType ==
  ASSUME TypeOK
  PROVE  ReadStart \in RState
<1>1. it \in PB .. PE + PAGE - 1 /\ page \in [0 .. PAGE - 1 -> Byte]
  BY DEF TypeOK
<1>2. it % PAGE \in 0 .. PAGE - 1
  <2>1. it \in Nat
    BY <1>1, Sizes
  <2>. QED
    BY <2>1, DivMod
<1>3. << >> \in Seq(Byte)
  OBVIOUS
<1>. HIDE DEF TypeOK
<1>. QED
  BY <1>1, <1>2, <1>3 DEF ReadStart, RState

LEMMA ReadStepType ==
  ASSUME mem \in [Cells -> Byte], NEW r \in RState
  PROVE  ReadStep(r) \in RState
BY TakeType, Zenon DEF ReadStep

LEMMA ReadingExists ==
  ASSUME NEW N \in Nat
  PROVE  \E f : f = [n \in 0 .. N |-> IF n = 0 THEN ReadStart ELSE ReadStep(f[n - 1])]
<1>. DEFINE Is(f, k) == f = [n \in 0 .. k |-> IF n = 0 THEN ReadStart ELSE ReadStep(f[n - 1])]
            Bad == {k \in Nat : ~ \E f : Is(f, k)}
<1>. SUFFICES ASSUME Bad # {} PROVE FALSE
  BY Zenon
<1>1. Bad \in SUBSET Nat
  OBVIOUS
<1>2. PICK k \in Bad : \A j \in Bad : k <= j
  <2>. HIDE DEF Bad
  <2>. QED
    BY <1>1, LeastOf
<1>3. k \in Nat /\ ~ \E f : Is(f, k)
  OBVIOUS
<1>4. CASE k = 0
  <2>. DEFINE f == [n \in 0 .. k |-> ReadStart]
  <2>1. \A n \in 0 .. k : n = 0
    BY <1>4
  <2>2. Is(f, k)
    BY <2>1, Zenon
  <2>. QED
    BY <1>3, <2>2, Zenon
<1>5. CASE k # 0
  <2>1. k - 1 \in Nat /\ ~ (k <= k - 1)
    BY <1>3, <1>5
  <2>2. k - 1 \notin Bad
    BY <1>2, <2>1, Zenon
  <2>3. PICK f : Is(f, k - 1)
    BY <2>1, <2>2, Zenon
  <2>. DEFINE g == [n \in 0 .. k |-> IF n = k THEN ReadStep(f[k - 1]) ELSE f[n]]
  <2>4. ASSUME NEW n \in 0 .. k
        PROVE  g[n] = IF n = 0 THEN ReadStart ELSE ReadStep(g[n - 1])
    <3>1. CASE n = k
      <4>1. k - 1 \in 0 .. k /\ k - 1 # k
        BY <2>1, <1>3
      <4>2. g[k - 1] = f[k - 1] /\ g[k] = ReadStep(f[k - 1])
        BY <3>1, <4>1, Zenon
      <4>. QED
        BY <1>5, <3>1, <4>2, Zenon
    <3>2. CASE n # k
      <4>1. n \in 0 .. k - 1 /\ (n # 0 => n - 1 \in 0 .. k /\ n - 1 # k)
        BY <1>3, <3>2
      <4>2. f[n] = IF n = 0 THEN ReadStart ELSE ReadStep(f[n - 1])
        BY <2>3, <4>1, Zenon
      <4>3. g[n] = f[n] /\ (n # 0 => g[n - 1] = f[n - 1])
        BY <3>2, <4>1, Zenon
      <4>. QED
        BY <4>2, <4>3, Zenon
    <3>. QED
      BY <3>1, <3>2, Zenon
  <2>5. g = [n \in 0 .. k |-> g[n]]
    BY Zenon
  <2>6. Is(g, k)
    <3>. HIDE DEF g
    <3>. QED
      BY <2>4, <2>5, Zenon
  <2>. QED
    BY <1>3, <2>6, Zenon
<1>. QED
  BY <1>4, <1>5, Zenon

LEMMA ReadingIs ==
  /\ Reading[0] = ReadStart
  /\ \A n \in 1 .. 2 * PAGE : Reading[n] = ReadStep(Reading[n - 1])
<1>1. 2 * PAGE \in Nat
  BY Sizes
<1>2. \E f : f = [n \in 0 .. 2 * PAGE |-> IF n = 0 THEN ReadStart ELSE ReadStep(f[n - 1])]
  BY <1>1, ReadingExists
<1>3. Reading = [n \in 0 .. 2 * PAGE |-> IF n = 0 THEN ReadStart ELSE ReadStep(Reading[n - 1])]
  BY <1>2, Zenon DEF Reading, ReadStart, ReadStep
<1>4. 0 \in 0 .. 2 * PAGE /\ \A n \in 1 .. 2 * PAGE : n \in 0 .. 2 * PAGE /\ n # 0
  BY <1>1
<1>. QED
  BY <1>3, <1>4, Zenon

LEMMA ReadingType ==
  ASSUME TypeOK
  PROVE  \A n \in 0 .. 2 * PAGE : Reading[n] \in RState
<1>. DEFINE Bad == {n \in 0 .. 2 * PAGE : Reading[n] \notin RState}
<1>. SUFFICES ASSUME Bad # {} PROVE FALSE
  BY Zenon
<1>0. PAGE \in Nat /\ mem \in [Cells -> Byte]
  BY Sizes DEF TypeOK, Cells
<1>1. Bad \in SUBSET Nat
  BY <1>0
<1>2. PICK k \in Bad : \A j \in Bad : k <= j
  <2>. HIDE DEF Bad
  <2>. QED
    BY <1>1, LeastOf
<1>3. k # 0
  BY ReadingIs, ReadStartType, Zenon
<1>4. k \in 1 .. 2 * PAGE /\ k - 1 \in 0 .. 2 * PAGE /\ ~ (k <= k - 1)
  <2>1. k \in 0 .. 2 * PAGE
    OBVIOUS
  <2>. QED
    BY <1>0, <1>3, <2>1
<1>5. Reading[k - 1] \in RState
  BY <1>2, <1>4, Zenon
<1>6. Reading[k] \in RState
  BY <1>0, <1>4, <1>5, ReadingIs, ReadStepType, Zenon
<1>. QED
  BY <1>6, Zenon

LEMMA NextStringType ==
  ASSUME TypeOK
  PROVE  /\ NextString.it \in PB .. PE + PAGE - 1
         /\ NextString.page \in [0 .. PAGE - 1 -> Byte]
         /\ NextString.s \in Seq(Byte)
<1>. DEFINE z == Reading[2 * PAGE]
            a == (z.it \div PAGE) * PAGE + z.lsb
<1>1. z \in RState
  <2>1. 2 * PAGE \in 0 .. 2 * PAGE
    BY Sizes
  <2>. QED
    BY <2>1, ReadingType, Zenon
<1>2. /\ z.it \in PB .. PE + PAGE - 1 /\ z.page \in [0 .. PAGE - 1 -> Byte]
      /\ z.lsb \in 0 .. PAGE - 1 /\ z.s \in Seq(Byte)
  <2>. HIDE DEF z
  <2>. QED
    BY <1>1 DEF RState
<1>3. NextString = [empty |-> ToRead = 0, s |-> z.s, page |-> z.page,
                    it |-> IF z.page[z.lsb] = END THEN Dec(a) ELSE a]
  BY Zenon DEF NextString
<1>. HIDE DEF z
<1>4. a \in PB .. PE + PAGE - 1
  <2>. DEFINE b == (z.it \div PAGE) * PAGE
  <2>1. z.it \in Nat /\ PB <= z.it /\ z.it < PE + PAGE
    BY <1>2, Sizes
  <2>2. b \in Nat /\ PB <= b /\ b <= PE
    BY <2>1, PageStart, Zenon
  <2>. HIDE DEF b
  <2>3. b + z.lsb \in PB .. PE + PAGE - 1
    BY <1>2, <2>2, Sizes
  <2>. QED
    BY <2>3 DEF b
<1>. HIDE DEF a
<1>5. Dec(a) \in PB .. PE + PAGE - 1
  BY <1>4, Sizes DEF Dec
<1>. QED
  BY <1>2, <1>3, <1>4, <1>5

\* The types, with those of what TypeOK leaves open; a string fits in a page
\* with BEG before it and a byte to spare.
Types ==
  /\ TypeOK
  /\ todo \in Seq(Piece) /\ chunk \in Seq(Seq(Byte))
  /\ \A n \in 1 .. Len(said) : said[n] <= PAGE - 2
  /\ delivered \subseteq Seq(Byte)

\* The bytes of a string from one place to another.
LEMMA PartIs ==
  ASSUME NEW s \in Seq(Byte), NEW i \in 1 .. Len(s) + 1, NEW j \in 0 .. Len(s), i <= j + 1
  PROVE  /\ SubSeq(s, i, j) \in Seq(Byte) /\ Len(SubSeq(s, i, j)) = (j - i) + 1
         /\ \A k \in 1 .. (j - i) + 1 : SubSeq(s, i, j)[k] = s[(i + k) - 1]
<1>1. /\ i \in Int /\ j \in Int /\ Len(s) \in Nat
      /\ \A k \in i .. j : s[k] \in Byte
  OBVIOUS
<1>2. /\ SubSeq(s, i, j) \in Seq(Byte)
      /\ Len(SubSeq(s, i, j)) = IF i <= j THEN j - i + 1 ELSE 0
      /\ \A k \in 1 .. j - i + 1 : SubSeq(s, i, j)[k] = s[i + k - 1]
  BY <1>1, SubSeqProperties
<1>. QED
  BY <1>1, <1>2

LEMMA BlocksType ==
  ASSUME NEW a \in Nat, NEW s \in Seq(Byte), Len(s) >= 1, Len(s) <= PAGE + 1
  PROVE  Blocks(a, s) \in Seq(Piece) /\ Len(Blocks(a, s)) <= 2
<1>. DEFINE r == a % PAGE
            L == Len(s)
            n == PAGE - r
<1>1. r \in 0 .. PAGE - 1 /\ L \in Nat /\ PAGE \in Nat /\ PAGE >= 2
  <2>1. PAGE \in Nat /\ PAGE >= 2 /\ L \in Nat
    BY Sizes
  <2>. QED
    BY <2>1, DivMod, Zenon
<1>2. /\ r + L <= PAGE => Blocks(a, s) = << [at |-> a, bytes |-> s] >>
      /\ r + L > PAGE /\ r + L < 2 * PAGE =>
           Blocks(a, s) = << [at |-> a, bytes |-> SubSeq(s, 1, n)],
                             [at |-> a + n, bytes |-> SubSeq(s, n + 1, Len(s))] >>
      /\ r + L >= 2 * PAGE => Blocks(a, s) = << [at |-> a, bytes |-> SubSeq(s, 1, n)] >>
  BY BlocksAre, Zenon
<1>. HIDE DEF r
<1>3. /\ n \in 1 .. PAGE /\ a + n \in Nat
      /\ r + L > PAGE => n < L
  BY <1>1
<1>4. ASSUME NEW i \in 1 .. L, NEW j \in 0 .. L PROVE SubSeq(s, i, j) \in Seq(Byte)
  BY <1>4, SubSeqProperties
<1>5. r + L > PAGE => SubSeq(s, 1, n) \in Seq(Byte) /\ SubSeq(s, n + 1, L) \in Seq(Byte)
  <2>. SUFFICES ASSUME r + L > PAGE PROVE SubSeq(s, 1, n) \in Seq(Byte) /\ SubSeq(s, n + 1, L) \in Seq(Byte)
    OBVIOUS
  <2>1. 1 \in 1 .. L /\ n \in 0 .. L /\ n + 1 \in 1 .. L /\ L \in 0 .. L
    BY <1>1, <1>3
  <2>. QED
    BY <1>4, <2>1
<1>. DEFINE whole == [at |-> a, bytes |-> s]
            first == [at |-> a, bytes |-> SubSeq(s, 1, n)]
            last == [at |-> a + n, bytes |-> SubSeq(s, n + 1, Len(s))]
<1>6. whole \in Piece /\ (r + L > PAGE => first \in Piece /\ last \in Piece)
  BY <1>3, <1>5 DEF Piece
<1>. HIDE DEF whole, first, last, n
<1>7. CASE r + L <= PAGE
  <2>1. Blocks(a, s) = << whole >>
    BY <1>2, <1>7 DEF whole
  <2>. QED
    BY <1>6, <2>1
<1>8. CASE r + L > PAGE /\ r + L < 2 * PAGE
  <2>1. Blocks(a, s) = << first, last >>
    BY <1>2, <1>8 DEF first, last
  <2>. QED
    BY <1>6, <1>8, <2>1
<1>9. CASE r + L >= 2 * PAGE
  <2>1. Blocks(a, s) = << first >> /\ r + L > PAGE
    BY <1>1, <1>2, <1>9 DEF first
  <2>. QED
    BY <1>6, <2>1
<1>. QED
  BY <1>1, <1>7, <1>8, <1>9

LEMMA AllIs ==
  ASSUME buf \in Seq(Byte), Len(buf) <= PAGE
  PROVE  /\ Append(buf, END) \in Seq(Byte) /\ Len(Append(buf, END)) = Len(buf) + 1
         /\ Len(buf) \in Nat
         /\ \A k \in 1 .. Len(buf) : Append(buf, END)[k] = buf[k]
         /\ Append(buf, END)[Len(buf) + 1] = END
BY Tags

LEMMA ProcessType ==
  ASSUME TypeOK
  PROVE  ProcessBlocks \in Seq(Piece) /\ Len(ProcessBlocks) <= 4
<1>. DEFINE all == Append(buf, END)
            d == Len(all)
            f == FreeBehind
            g == FreeBefore
            v == Least(d - f, g)
            B1 == IF f > 0 THEN Blocks(end, SubSeq(all, 1, f)) ELSE << >>
            B2 == IF g > 0 THEN Blocks(PB, SubSeq(all, f + 1, f + v)) ELSE << >>
<1>1. /\ beg \in PB .. PE + PAGE - 1 /\ end \in PB .. PE /\ PB \in Nat /\ PE \in Nat /\ PAGE \in Nat
      /\ end \in Nat
  BY Sizes DEF TypeOK
<1>2. all \in Seq(Byte) /\ d \in 1 .. PAGE + 1
  <2>1. buf \in Seq(Byte) /\ Len(buf) <= PAGE
    BY DEF TypeOK
  <2>2. all \in Seq(Byte) /\ d = Len(buf) + 1 /\ Len(buf) \in Nat
    BY <2>1, AllIs
  <2>. HIDE DEF d, all
  <2>. QED
    BY <1>1, <2>1, <2>2
<1>3. f \in Nat /\ g \in Int
  BY <1>1 DEF FreeBehind, FreeBefore
<1>4. ProcessBlocks = IF f >= d THEN Blocks(end, all) ELSE B1 \o B2
  BY Zenon DEF ProcessBlocks
<1>5. Blocks(end, all) \in Seq(Piece) /\ Len(Blocks(end, all)) <= 2
  <2>. HIDE DEF all
  <2>1. Len(all) >= 1 /\ Len(all) <= PAGE + 1
    BY <1>1, <1>2
  <2>. QED
    BY <1>1, <1>2, <2>1, BlocksType, Zenon
<1>. HIDE DEF all
<1>6. ASSUME ~ (f >= d) PROVE B1 \in Seq(Piece) /\ Len(B1) <= 2
  <2>1. CASE f > 0
    <3>1. 1 \in 1 .. d + 1 /\ f \in 0 .. d
      BY <1>2, <1>3, <1>6
    <3>2. SubSeq(all, 1, f) \in Seq(Byte) /\ Len(SubSeq(all, 1, f)) = f
      BY <1>2, <1>3, <2>1, <3>1, PartIs
    <3>3. Len(SubSeq(all, 1, f)) >= 1 /\ Len(SubSeq(all, 1, f)) <= PAGE + 1
      BY <1>1, <1>2, <1>3, <1>6, <2>1, <3>2
    <3>. QED
      BY <1>1, <2>1, <3>2, <3>3, BlocksType, Zenon
  <2>2. CASE ~ (f > 0)
    BY <2>2
  <2>. QED
    BY <2>1, <2>2
<1>7. ASSUME ~ (f >= d) PROVE B2 \in Seq(Piece) /\ Len(B2) <= 2
  <2>1. CASE g > 0
    <3>1. v \in 1 .. d - f
      BY <1>2, <1>3, <1>7, <2>1 DEF Least
    <3>. HIDE DEF v
    <3>2. f + 1 \in 1 .. d + 1 /\ f + v \in 0 .. d /\ (f + v) - (f + 1) + 1 = v /\ f + 1 <= f + v
      BY <1>2, <1>3, <1>7, <3>1
    <3>3. SubSeq(all, f + 1, f + v) \in Seq(Byte) /\ Len(SubSeq(all, f + 1, f + v)) = v
      BY <1>2, <3>2, PartIs
    <3>4. Len(SubSeq(all, f + 1, f + v)) >= 1 /\ Len(SubSeq(all, f + 1, f + v)) <= PAGE + 1
      BY <1>1, <1>2, <1>3, <3>1, <3>3
    <3>. QED
      BY <1>1, <2>1, <3>3, <3>4, BlocksType, Zenon
  <2>2. CASE ~ (g > 0)
    BY <2>2
  <2>. QED
    BY <2>1, <2>2
<1>8. CASE f >= d
  <2>1. ProcessBlocks = Blocks(end, all)
    BY <1>4, <1>8, Zenon
  <2>2. Len(Blocks(end, all)) \in Nat
    BY <1>5
  <2>. QED
    BY <1>5, <2>1, <2>2
<1>9. CASE ~ (f >= d)
  <2>. HIDE DEF B1, B2
  <2>1. ProcessBlocks = B1 \o B2
    BY <1>4, <1>9, Zenon
  <2>2. B1 \in Seq(Piece) /\ Len(B1) <= 2 /\ B2 \in Seq(Piece) /\ Len(B2) <= 2
    BY <1>6, <1>7, <1>9, Zenon
  <2>3. Len(B1) \in Nat /\ Len(B2) \in Nat /\ B1 \o B2 \in Seq(Piece) /\ Len(B1 \o B2) = Len(B1) + Len(B2)
    BY <2>2
  <2>. QED
    BY <2>1, <2>2, <2>3
<1>. QED
  BY <1>8, <1>9, Zenon

\* The string's bytes as LOG_say puts them in the buffer.
LEMMA SayIs ==
  ASSUME TypeOK, NEW len \in Lengths, LOG_say(len)
  PROVE  LET l == Least(len, PAGE - Len(buf))
             n == Len(said) + 1
             new == [k \in 1 .. l |-> Text(n, k, l)]
         IN /\ l \in 1 .. PAGE - 2 /\ n \in 1 .. MaxSaid /\ l + Len(buf) <= PAGE
            /\ said' = Append(said, l) /\ said' \in Seq(1 .. PAGE) /\ Len(said') = n
            /\ \A m \in 1 .. Len(said) : said'[m] = said[m]
            /\ said'[n] = l
            /\ buf' \in Seq(Byte) /\ Len(buf') = Len(buf) + l
            /\ \A k \in 1 .. Len(buf) : buf'[k] = buf[k]
            /\ \A k \in 1 .. l : buf'[Len(buf) + k] = Text(n, k, l)
<1>. DEFINE l == Least(len, PAGE - Len(buf))
            n == Len(said) + 1
            new == [k \in 1 .. l |-> Text(n, k, l)]
<1>1. /\ said \in Seq(1 .. PAGE) /\ buf \in Seq(Byte) /\ Len(buf) <= PAGE
      /\ Len(said) \in Nat /\ Len(buf) \in Nat /\ MaxSaid \in Nat /\ PAGE \in Nat /\ PAGE >= 2
  <2>1. said \in Seq(1 .. PAGE) /\ buf \in Seq(Byte) /\ Len(buf) <= PAGE
    BY DEF TypeOK
  <2>2. Len(said) \in Nat /\ Len(buf) \in Nat
    BY <2>1
  <2>3. MaxSaid \in Nat /\ PAGE \in Nat /\ PAGE >= 2
    BY Sizes, BoundsAssumption
  <2>. QED
    BY <2>1, <2>2, <2>3, Zenon
<1>2. l > 0 /\ said' = Append(said, l) /\ buf' = buf \o new /\ Len(said) < MaxSaid
  BY Zenon DEF LOG_say
<1>3. len \in Nat /\ len <= PAGE - 2
  BY LengthsAssumption
<1>4. l \in 1 .. PAGE - 2 /\ n \in 1 .. MaxSaid /\ l + Len(buf) <= PAGE
  BY <1>1, <1>2, <1>3 DEF Least
<1>. HIDE DEF l
<1>5. new \in Seq(Byte) /\ Len(new) = l /\ \A k \in 1 .. l : new[k] = Text(n, k, l)
  <2>1. ASSUME NEW k \in 1 .. l PROVE Text(n, k, l) \in Byte
    <3>1. n \in 0 .. MaxSaid /\ k \in 0 .. PAGE
      BY <1>1, <1>4
    <3>. QED
      BY <3>1, TextType
  <2>2. l \in Nat
    BY <1>4
  <2>3. new \in [1 .. l -> Byte]
    BY <2>1, Zenon
  <2>. QED
    BY <2>2, <2>3
<1>. HIDE DEF new
<1>6. /\ buf \o new \in Seq(Byte) /\ Len(buf \o new) = Len(buf) + l
      /\ \A k \in 1 .. Len(buf) : (buf \o new)[k] = buf[k]
      /\ \A k \in 1 .. l : (buf \o new)[Len(buf) + k] = new[k]
  BY <1>1, <1>4, <1>5, SMTT(20)
<1>7. l \in 1 .. PAGE
  BY <1>1, <1>4
<1>8. /\ said' \in Seq(1 .. PAGE) /\ Len(said') = n /\ said'[n] = l
      /\ \A m \in 1 .. Len(said) : said'[m] = said[m]
  BY <1>1, <1>2, <1>7
<1>. QED
  BY <1>2, <1>4, <1>5, <1>6, <1>8 DEF l, new

LEMMA NoPageType == NoPage \in [0 .. PAGE - 1 -> Byte]
BY Tags DEF NoPage

LEMMA TypesStart == Init => Types
<1>. SUFFICES ASSUME Init PROVE Types
  OBVIOUS
<1>1. [a \in PB .. PE - 1 |-> Blank] \in [Cells -> Byte]
  BY Tags DEF Cells
<1>2. mem \in [Cells -> Byte]
  BY <1>1, ResetIs DEF Init
<1>3. PB \in PB .. PE /\ PB + 1 \in PB .. PE /\ PB \in PB .. PE + PAGE - 1
  BY Sizes
<1>4. 0 \in 0 .. MaxFail /\ 0 \in 0 .. MaxCrashes /\ 0 <= MaxSaid /\ 0 <= Chunk
  BY BoundsAssumption
<1>5. page \in [0 .. PAGE - 1 -> Byte]
  BY NoPageType DEF Init
<1>. QED
  BY <1>2, <1>3, <1>4, <1>5, Sizes DEF Init, Types, TypeOK, Cells

LEMMA TypesKept == Types /\ [Next]_vars => Types'
<1>. SUFFICES ASSUME Types, [Next]_vars PROVE Types'
  OBVIOUS
<1>0. /\ TypeOK /\ mem \in [Cells -> Byte]
      /\ todo \in Seq(Piece) /\ chunk \in Seq(Seq(Byte)) /\ delivered \subseteq Seq(Byte)
      /\ beg \in PB .. PE + PAGE - 1 /\ beg \in Nat /\ it \in PB .. PE + PAGE - 1 /\ it \in Nat
      /\ PB \in PB .. PE + PAGE - 1
      /\ buf \in Seq(Byte) /\ Len(buf) \in Nat
  BY Sizes DEF Types, TypeOK, Cells
<1>e. /\ << >> \in Seq(Byte) /\ Len(<< >>) = 0 /\ << >> \in Seq(Piece) /\ << >> \in Seq(Seq(Byte))
      /\ 0 <= PAGE /\ 0 <= Chunk /\ 0 <= 4
  BY Sizes, BoundsAssumption
<1>1. ASSUME NEW len \in Lengths, LOG_say(len) PROVE Types'
  <2>1. /\ said' \in Seq(1 .. PAGE) /\ Len(said') <= MaxSaid
        /\ \A m \in 1 .. Len(said') : said'[m] <= PAGE - 2
        /\ buf' \in Seq(Byte) /\ Len(buf') <= PAGE
    <3>. DEFINE l == Least(len, PAGE - Len(buf))
                n == Len(said) + 1
    <3>1. /\ l \in 1 .. PAGE - 2 /\ n \in 1 .. MaxSaid /\ l + Len(buf) <= PAGE
          /\ said' \in Seq(1 .. PAGE) /\ Len(said') = n
          /\ \A m \in 1 .. Len(said) : said'[m] = said[m]
          /\ said'[n] = l
          /\ buf' \in Seq(Byte) /\ Len(buf') = Len(buf) + l
      BY <1>0, <1>1, SayIs, Zenon
    <3>. HIDE DEF l
    <3>2. Len(said) \in Nat /\ \A m \in 1 .. Len(said) : said[m] <= PAGE - 2
      BY DEF Types, TypeOK
    <3>3. \A m \in 1 .. n : m \in 1 .. Len(said) \/ m = n
      BY <3>2
    <3>4. \A m \in 1 .. Len(said') : said'[m] <= PAGE - 2
      <4>1. l <= PAGE - 2
        BY <3>1, Sizes
      <4>. QED
        BY <3>1, <3>2, <3>3, <4>1, Zenon
    <3>5. n <= MaxSaid
      BY <3>1, BoundsAssumption
    <3>6. Len(buf') <= PAGE
      <4>1. l \in Nat /\ l + Len(buf) = Len(buf) + l
        BY <1>0, <3>1, Sizes
      <4>. QED
        BY <3>1, <4>1, Zenon
    <3>. QED
      BY <3>1, <3>4, <3>5, <3>6, Zenon
  <2>. QED
    BY <1>1, <2>1 DEF Types, TypeOK, LOG_say, store, reader, counts
<1>2. ASSUME LOG_process_buffer PROVE Types'
  <2>1. todo' \in Seq(Piece) /\ Len(todo') <= 4
    BY <1>0, <1>2, ProcessType DEF LOG_process_buffer
  <2>2. spoilt' \subseteq {"overrun", "long", "stale", "exact", "unsent", "reset", "stray"}
    BY <1>2 DEF LOG_process_buffer, Types, TypeOK
  <2>. QED
    BY <1>2, <2>1, <2>2 DEF Types, TypeOK, LOG_process_buffer, store, reader, counts
<1>3. ASSUME WritePiece PROVE Types'
  <2>1. Head(todo) \in Piece /\ Tail(todo) \in Seq(Piece) /\ Len(Tail(todo)) <= 4
    BY <1>0, <1>3 DEF WritePiece, TypeOK
  <2>2. WriteBlock(mem, Head(todo)) \in [Cells -> Byte]
    BY <1>0, <2>1, BlockType
  <2>. QED
    BY <1>3, <2>1, <2>2 DEF Types, TypeOK, WritePiece, reader, counts, Cells
<1>4. ASSUME ProcessEnds PROVE Types'
  <2>1. AddOffset(end, Len(buf)) \in PB .. PE
    <3>1. Len(buf) \in 0 .. PAGE /\ end \in PB .. PE
      BY <1>0 DEF TypeOK
    <3>. QED
      BY <3>1, Sizes DEF AddOffset, SIZE
  <2>. QED
    BY <1>4, <1>e, <2>1 DEF Types, TypeOK, ProcessEnds, reader, counts
<1>5. ASSUME LOG_lock PROVE Types'
  <2>1. PageOf(mem, beg) \in [0 .. PAGE - 1 -> Byte]
    BY <1>0, PageType
  <2>. QED
    BY <1>0, <1>5, <1>e, <2>1 DEF Types, TypeOK, LOG_lock, store, counts
<1>6. ASSUME LOG_get_next_string PROVE Types'
  <2>1. /\ NextString.it \in PB .. PE + PAGE - 1
        /\ NextString.page \in [0 .. PAGE - 1 -> Byte]
        /\ NextString.s \in Seq(Byte)
    BY <1>0, NextStringType
  <2>2. page' \in [0 .. PAGE - 1 -> Byte]
    BY <1>6, <2>1 DEF LOG_get_next_string
  <2>3. CASE Len(chunk) < Chunk
    <3>1. chunk' = Append(chunk, NextString.s) /\ it' = NextString.it /\ UNCHANGED <<pc, spoilt>>
      BY <1>6, <2>3, Zenon DEF LOG_get_next_string
    <3>2. chunk' \in Seq(Seq(Byte)) /\ Len(chunk') <= Chunk
      BY <1>0, <2>1, <2>3, <3>1, BoundsAssumption
    <3>. QED
      BY <1>6, <2>1, <2>2, <3>1, <3>2 DEF Types, TypeOK, LOG_get_next_string, store, counts
  <2>4. CASE ~ (Len(chunk) < Chunk)
    <3>1. /\ pc' = "chunk" /\ UNCHANGED <<chunk, it>>
          /\ spoilt' = spoilt \cup (IF page' # page THEN {"stale"} ELSE {})
      BY <1>6, <2>4, Zenon DEF LOG_get_next_string
    <3>. QED
      BY <1>6, <2>2, <3>1 DEF Types, TypeOK, LOG_get_next_string, store, counts
  <2>. QED
    BY <2>3, <2>4
<1>s. {chunk[n] : n \in DOMAIN chunk} \subseteq Seq(Byte)
  BY <1>0
<1>7. ASSUME SendChunk PROVE Types'
  <2>. DEFINE Sent == /\ delivered' = delivered \cup {chunk[n] : n \in DOMAIN chunk}
                      /\ chunk' = << >> /\ pc' = "read" /\ UNCHANGED <<it, page, fails>>
              Fails == /\ fails < MaxFail /\ fails' = fails + 1
                       /\ pc' = "run" /\ chunk' = << >> /\ it' = PB /\ page' = NoPage
                       /\ UNCHANGED delivered
  <2>1. (Sent \/ Fails) /\ UNCHANGED <<store, buf, todo, said, crashes, spoilt>>
    BY <1>7, Zenon DEF SendChunk
  <2>2. CASE Sent
    <3>1. delivered' \subseteq Seq(Byte)
      BY <1>0, <1>s, <2>2
    <3>. QED
      BY <1>e, <2>1, <2>2, <3>1 DEF Types, TypeOK, store
  <2>3. CASE Fails
    <3>1. fails' \in 0 .. MaxFail
      <4>1. fails \in 0 .. MaxFail
        BY DEF Types, TypeOK
      <4>. QED
        BY <2>3, <4>1, BoundsAssumption
    <3>. QED
      BY <1>0, <1>e, <2>1, <2>3, <3>1, NoPageType DEF Types, TypeOK, store
  <2>. QED
    BY <2>1, <2>2, <2>3
<1>8. ASSUME LOG_unlock PROVE Types'
  <2>1. Write1(mem, beg, DEL) \in [Cells -> Byte]
    BY <1>0, Tags, WriteOne
  <2>2. spoilt' \subseteq {"overrun", "long", "stale", "exact", "unsent", "reset", "stray"}
    BY <1>8 DEF LOG_unlock, Types, TypeOK
  <2>. QED
    BY <1>8, <2>1, <2>2 DEF Types, TypeOK, LOG_unlock, reader, counts, Cells
<1>9. ASSUME LOG_unlock_mark PROVE Types'
  <2>1. Write1(mem, it, BEG) \in [Cells -> Byte]
    BY <1>0, Tags, WriteOne
  <2>. QED
    BY <1>0, <1>9, <2>1 DEF Types, TypeOK, LOG_unlock_mark, reader, counts, Cells
<1>10. ASSUME SendLast PROVE Types'
  <2>. DEFINE Sent == /\ delivered' = delivered \cup {chunk[n] : n \in DOMAIN chunk}
                      /\ UNCHANGED <<fails, spoilt>>
              Fails == /\ fails < MaxFail /\ fails' = fails + 1
                       /\ spoilt' = spoilt \cup {"unsent"}
                       /\ UNCHANGED delivered
  <2>1. /\ Sent \/ Fails
        /\ UNCHANGED <<store, buf, todo, said, crashes>>
        /\ pc' = "run" /\ chunk' = << >> /\ it' = PB /\ page' = NoPage
    BY <1>10, Zenon DEF SendLast
  <2>2. CASE Sent
    <3>1. delivered' \subseteq Seq(Byte)
      BY <1>0, <1>s, <2>2
    <3>. QED
      BY <1>0, <1>e, <2>1, <2>2, <3>1, NoPageType DEF Types, TypeOK, store
  <2>3. CASE Fails
    <3>1. fails' \in 0 .. MaxFail
      <4>1. fails \in 0 .. MaxFail
        BY DEF Types, TypeOK
      <4>. QED
        BY <2>3, <4>1, BoundsAssumption
    <3>. QED
      BY <1>0, <1>e, <2>1, <2>3, <3>1, NoPageType DEF Types, TypeOK, store
  <2>. QED
    BY <2>1, <2>2, <2>3
<1>11. ASSUME Crash PROVE Types'
  <2>1. crashes' \in 0 .. MaxCrashes
    <3>1. crashes \in 0 .. MaxCrashes
      BY DEF Types, TypeOK
    <3>. QED
      BY <1>11, <3>1, BoundsAssumption DEF Crash
  <2>2. spoilt' \subseteq {"overrun", "long", "stale", "exact", "unsent", "reset", "stray"}
    BY <1>11 DEF Crash, Types, TypeOK
  <2>. QED
    BY <1>0, <1>11, <1>e, <2>1, <2>2, NoPageType DEF Types, TypeOK, Crash, store
<1>12. ASSUME LOG_init PROVE Types'
  <2>1. CASE PE \in {Find(mem, BEG), Find(mem, END)}
    <3>1. mem' = Reset(mem) /\ beg' = PB /\ end' = PB + 1 /\ spoilt' = spoilt \cup {"reset"}
      BY <1>12, <2>1, Zenon DEF LOG_init
    <3>2. mem' \in [Cells -> Byte] /\ PB + 1 \in PB .. PE
      <4>1. Reset(mem) \in [Cells -> Byte]
        BY <1>0, ResetIs
      <4>2. PB + 1 \in PB .. PE
        BY Sizes
      <4>. QED
        BY <3>1, <4>1, <4>2
    <3>. QED
      BY <1>0, <1>12, <3>1, <3>2 DEF Types, TypeOK, LOG_init, reader, counts, Cells
  <2>2. CASE ~ (PE \in {Find(mem, BEG), Find(mem, END)})
    <3>1. beg' = Find(mem, BEG) /\ end' = Find(mem, END) /\ UNCHANGED <<mem, spoilt>>
      BY <1>12, <2>2, Zenon DEF LOG_init
    <3>2. Find(mem, BEG) \in Cells /\ Find(mem, END) \in Cells
      BY <1>0, <2>2, FindIs
    <3>3. beg' \in PB .. PE + PAGE - 1 /\ end' \in PB .. PE
      BY <3>1, <3>2, Sizes DEF Cells
    <3>. QED
      BY <1>12, <3>1, <3>3 DEF Types, TypeOK, LOG_init, reader, counts
  <2>. QED
    BY <2>1, <2>2
<1>13. ASSUME LOG_unlock_fails PROVE Types'
  <2>1. fails' \in 0 .. MaxFail
    <3>1. fails \in 0 .. MaxFail
      BY DEF Types, TypeOK
    <3>. QED
      BY <1>13, <3>1, BoundsAssumption DEF LOG_unlock_fails
  <2>. QED
    BY <1>13, <2>1 DEF Types, TypeOK, LOG_unlock_fails, store, reader
<1>14. ASSUME UNCHANGED vars PROVE Types'
  BY <1>14 DEF Types, TypeOK, vars
<1>. QED
  BY <1>1, <1>2, <1>3, <1>4, <1>5, <1>6, <1>7, <1>8, <1>9, <1>10, <1>11, <1>12, <1>13, <1>14, Zenon DEF Next

LEMMA TypesHold == Spec => []Types
BY TypesStart, TypesKept, PTL DEF Spec

(***************************************************************************)
(* The ends of the log, the reader's place and what the pages hold stay in *)
(* their ranges, whatever is said, sent or cut off.                        *)
(***************************************************************************)
THEOREM LogTypeCorrect == Spec => []TypeOK
BY TypesHold, PTL DEF Types

-----------------------------------------------------------------------------
(* The strings in the bytes. *)

\* A byte of a string said, and what may come after it: the next byte of the
\* string, after the last the first byte of a string or the end of the log.
IsByte(y, sd) == \E m \in 1 .. Len(sd) : \E k \in 1 .. sd[m] : y = Text(m, k, sd[m])
Opens(y, sd) == y = END \/ \E m \in 1 .. Len(sd) : y = Text(m, 1, sd[m])
Follows(x, y, sd) ==
  IF x.k < sd[x.m] THEN y = Text(x.m, x.k + 1, sd[x.m]) ELSE Opens(y, sd)

\* The strings sd2 begin with sd.
Longer(sd, sd2) ==
  Len(sd) \in Nat /\ Len(sd2) \in Nat /\ Len(sd) <= Len(sd2) /\ \A m \in 1 .. Len(sd) : sd2[m] = sd[m]

LEMMA ByteIs ==
  ASSUME NEW sd \in Seq(1 .. PAGE), NEW y, IsByte(y, sd)
  PROVE  /\ y.m \in 1 .. Len(sd) /\ y.k \in 1 .. sd[y.m] /\ sd[y.m] \in 1 .. PAGE
         /\ y = Text(y.m, y.k, sd[y.m])
         /\ y.is = "zero" <=> y.k = sd[y.m]
         /\ y.is \in {"char", "zero"}
         /\ y \notin {BEG, END, DEL}
<1>0. PICK m \in 1 .. Len(sd) : \E k \in 1 .. sd[m] : y = Text(m, k, sd[m])
  BY DEF IsByte
<1>1. PICK k \in 1 .. sd[m] : y = Text(m, k, sd[m])
  BY <1>0
<1>2. y.m = m /\ y.k = k /\ y.is = IF k = sd[m] THEN "zero" ELSE "char"
  BY <1>1 DEF Text
<1>3. BEG.is = "beg" /\ END.is = "end" /\ DEL.is = "del"
  BY Tags
<1>4. sd[m] \in 1 .. PAGE
  BY ElementOfSeq, Zenon
<1>. QED
  BY <1>1, <1>2, <1>3, <1>4

LEMMA TextIsNot ==
  ASSUME NEW m, NEW k, NEW len
  PROVE  Text(m, k, len) # END /\ Text(m, k, len) # BEG /\ Text(m, k, len).m = m /\ Text(m, k, len).k = k
<1>1. BEG.is = "beg" /\ END.is = "end"
  BY Tags
<1>. QED
  BY <1>1 DEF Text

LEMMA OpensByte ==
  ASSUME NEW sd \in Seq(1 .. PAGE), NEW y, Opens(y, sd), y # END
  PROVE  IsByte(y, sd) /\ y.k = 1
<1>1. PICK m \in 1 .. Len(sd) : y = Text(m, 1, sd[m])
  BY DEF Opens
<1>2. sd[m] \in 1 .. PAGE /\ 1 \in 1 .. sd[m]
  <2>1. sd[m] \in 1 .. PAGE
    BY ElementOfSeq, Zenon
  <2>. QED
    BY <2>1, Sizes
<1>3. IsByte(y, sd)
  BY <1>1, <1>2, Zenon DEF IsByte
<1>4. y.k = 1
  BY <1>1, TextIsNot
<1>. QED
  BY <1>3, <1>4

LEMMA ByteKept ==
  ASSUME NEW sd, NEW sd2, Longer(sd, sd2), NEW y
  PROVE  /\ IsByte(y, sd) => IsByte(y, sd2)
         /\ Opens(y, sd) => Opens(y, sd2)
<1>1. \A m \in 1 .. Len(sd) : m \in 1 .. Len(sd2) /\ sd2[m] = sd[m]
  BY DEF Longer
<1>2. IsByte(y, sd) => IsByte(y, sd2)
  <2>. SUFFICES ASSUME IsByte(y, sd) PROVE IsByte(y, sd2)
    OBVIOUS
  <2>0. PICK m \in 1 .. Len(sd) : \E k \in 1 .. sd[m] : y = Text(m, k, sd[m])
    BY Zenon DEF IsByte
  <2>1. PICK k \in 1 .. sd[m] : y = Text(m, k, sd[m])
    BY <2>0, Zenon
  <2>2. m \in 1 .. Len(sd2) /\ k \in 1 .. sd2[m] /\ y = Text(m, k, sd2[m])
    BY <1>1, <2>1, Zenon
  <2>. QED
    BY <2>2, Zenon DEF IsByte
<1>3. Opens(y, sd) => Opens(y, sd2)
  <2>. SUFFICES ASSUME Opens(y, sd), y # END PROVE Opens(y, sd2)
    BY Zenon DEF Opens
  <2>1. PICK m \in 1 .. Len(sd) : y = Text(m, 1, sd[m])
    BY Zenon DEF Opens
  <2>2. m \in 1 .. Len(sd2) /\ y = Text(m, 1, sd2[m])
    BY <1>1, <2>1, Zenon
  <2>. QED
    BY <2>2, Zenon DEF Opens
<1>. QED
  BY <1>2, <1>3

LEMMA FollowsKept ==
  ASSUME NEW sd \in Seq(1 .. PAGE), NEW sd2, Longer(sd, sd2), NEW x, NEW y, IsByte(x, sd), Follows(x, y, sd)
  PROVE  Follows(x, y, sd2)
<1>1. sd2[x.m] = sd[x.m]
  BY ByteIs, Zenon DEF Longer
<1>. QED
  BY <1>1, ByteKept, Zenon DEF Follows

(***************************************************************************)
(* The log in the ring m from b to e, its first byte being tag: END is     *)
(* where it should be, and no other tag is, but what a reset has left      *)
(* behind the end; between the two the strings lie byte after byte.  The   *)
(* first may have lost its beginning to BEG ("exact").                     *)
(***************************************************************************)
OnlyTags(m, b, e, sp) ==
  \A i \in 1 .. SIZE - 1 :
    m[At(b, i)] \in {BEG, END} =>
      i = Size(b, e) \/ ("reset" \in sp /\ i > Size(b, e) /\ b + i < PE)

Body(m, b, e, sd) ==
  \A i \in 1 .. Size(b, e) - 1 :
    IsByte(m[At(b, i)], sd) /\ Follows(m[At(b, i)], m[At(b, i + 1)], sd)

LogAt(m, tag, b, e, sd, sp) ==
  /\ b \in Cells /\ e \in PB .. PE
  /\ Size(b, e) < SIZE
  /\ m[b] = tag
  /\ m[At(b, Size(b, e))] = END
  /\ OnlyTags(m, b, e, sp)
  /\ Body(m, b, e, sd)
  /\ "exact" \notin sp => Opens(m[At(b, 1)], sd)

LEMMA LogKept ==
  ASSUME NEW m, NEW tag, NEW b, NEW e, NEW sd \in Seq(1 .. PAGE), NEW sp, NEW sd2, NEW sp2,
         Longer(sd, sd2), sp \subseteq sp2, LogAt(m, tag, b, e, sd, sp)
  PROVE  LogAt(m, tag, b, e, sd2, sp2)
<1>1. OnlyTags(m, b, e, sp2)
  BY Zenon DEF LogAt, OnlyTags
<1>2. Body(m, b, e, sd2)
  <2>. SUFFICES ASSUME NEW i \in 1 .. Size(b, e) - 1
                PROVE  IsByte(m[At(b, i)], sd2) /\ Follows(m[At(b, i)], m[At(b, i + 1)], sd2)
    BY Zenon DEF Body
  <2>1. IsByte(m[At(b, i)], sd) /\ Follows(m[At(b, i)], m[At(b, i + 1)], sd)
    BY Zenon DEF LogAt, Body
  <2>. QED
    BY <2>1, ByteKept, FollowsKept, Zenon
<1>3. "exact" \notin sp2 => Opens(m[At(b, 1)], sd2)
  BY ByteKept, Zenon DEF LogAt
<1>. QED
  BY <1>1, <1>2, <1>3, Zenon DEF LogAt

\* The numbers of a log.
LEMMA LogSizes ==
  ASSUME NEW b \in Cells, NEW e \in PB .. PE, Size(b, e) < SIZE
  PROVE  LET S == Size(b, e)
         IN /\ S \in Nat /\ S >= 1 /\ S <= SIZE - 1 /\ SIZE \in Nat /\ SIZE >= 2
            /\ \A i \in 0 .. SIZE - 1 : At(b, i) \in Cells /\ Off(b, At(b, i)) = i
            /\ \A a \in Cells : Off(b, a) \in 0 .. SIZE - 1 /\ At(b, Off(b, a)) = a
            /\ At(b, 0) = b
<1>1. Size(b, e) \in 1 .. SIZE - 1
  BY SizeIs
<1>2. SIZE \in Nat /\ SIZE >= 2
  BY Sizes
<1>3. 0 \in 0 .. SIZE - 1
  BY <1>2
<1>4. At(b, 0) = b /\ \A i \in 0 .. SIZE - 1 : At(b, i) \in Cells /\ Off(b, At(b, i)) = i
  BY <1>3, Places, Zenon
<1>5. \A a \in Cells : Off(b, a) \in 0 .. SIZE - 1 /\ At(b, Off(b, a)) = a
  BY Offsets, Zenon
<1>6. Size(b, e) \in Nat /\ Size(b, e) >= 1 /\ Size(b, e) <= SIZE - 1
  BY <1>1
<1>. QED
  BY <1>2, <1>4, <1>5, <1>6, Zenon

(***************************************************************************)
(* A restart finds the log: BEG and END are the first of their kind.       *)
(***************************************************************************)
LEMMA LogIsFound ==
  ASSUME NEW m \in [Cells -> Byte], NEW b, NEW e, NEW sd, NEW sp, LogAt(m, BEG, b, e, sd, sp)
  PROVE  Find(m, BEG) = b /\ Find(m, END) = IF e = PE THEN PB ELSE e
<1>. DEFINE S == Size(b, e)
            x == At(b, S)
<1>1. b \in Cells /\ e \in PB .. PE /\ S < SIZE /\ m[b] = BEG /\ m[x] = END /\ OnlyTags(m, b, e, sp)
  BY Zenon DEF LogAt
<1>2. /\ S \in Nat /\ S >= 1 /\ S <= SIZE - 1 /\ SIZE \in Nat /\ SIZE >= 2
      /\ \A i \in 0 .. SIZE - 1 : At(b, i) \in Cells /\ Off(b, At(b, i)) = i
      /\ \A a \in Cells : Off(b, a) \in 0 .. SIZE - 1 /\ At(b, Off(b, a)) = a
      /\ At(b, 0) = b
  BY <1>1, LogSizes, Zenon
<1>3. x = IF e = PE THEN PB ELSE e
  BY <1>1, SizeIs
<1>4. x \in Cells
  BY <1>2
<1>5. ASSUME NEW a \in Cells, m[a] \in {BEG, END}
      PROVE  a = b \/ a = x \/ (a > b /\ a > x)
  <2>. DEFINE i == Off(b, a)
  <2>1. i \in 0 .. SIZE - 1 /\ At(b, i) = a
    BY <1>2
  <2>2. CASE i = 0
    BY <1>2, <2>1, <2>2, Zenon
  <2>3. CASE i # 0
    <3>0. i \in 1 .. SIZE - 1
      <4>. HIDE DEF i
      <4>. QED
        BY <1>2, <2>1, <2>3
    <3>1. i = S \/ (i > S /\ b + i < PE)
      BY <1>1, <1>5, <2>1, <3>0, Zenon DEF OnlyTags
    <3>2. CASE i = S
      BY <2>1, <3>2, Zenon
    <3>3. CASE i > S /\ b + i < PE
      <4>1. b \in Nat /\ PE \in Nat
        BY <1>1, Sizes DEF Cells
      <4>. HIDE DEF i, S
      <4>2. At(b, i) = b + i /\ At(b, S) = b + S
        BY <1>2, <3>0, <3>3, <4>1 DEF At
      <4>. QED
        BY <1>2, <2>1, <3>0, <3>3, <4>1, <4>2
    <3>. QED
      BY <3>1, <3>2, <3>3, Zenon
  <2>. QED
    BY <2>2, <2>3, Zenon
<1>6. Find(m, BEG) = b
  <2>1. /\ Find(m, BEG) \in Cells /\ m[Find(m, BEG)] = BEG
        /\ Find(m, BEG) <= b
    BY <1>1, FindIs
  <2>2. Find(m, BEG) = b \/ Find(m, BEG) = x \/ Find(m, BEG) > b
    BY <1>5, <2>1, Zenon
  <2>3. Find(m, BEG) # x
    BY <1>1, <2>1, Tags
  <2>. QED
    BY <1>1, <2>1, <2>2, <2>3, Sizes DEF Cells
<1>7. Find(m, END) = x
  <2>1. /\ Find(m, END) \in Cells /\ m[Find(m, END)] = END
        /\ Find(m, END) <= x
    BY <1>1, <1>4, FindIs
  <2>2. Find(m, END) = b \/ Find(m, END) = x \/ Find(m, END) > x
    BY <1>5, <2>1, Zenon
  <2>3. Find(m, END) # b
    BY <1>1, <2>1, Tags
  <2>. HIDE DEF x
  <2>. QED
    BY <1>4, <2>1, <2>2, <2>3, Sizes DEF Cells
<1>. QED
  BY <1>3, <1>6, <1>7

-----------------------------------------------------------------------------
(* What the operations make of the log. *)

\* A reset leaves an empty log, and whatever was there behind it.
LEMMA LogReset ==
  ASSUME NEW m \in [Cells -> Byte], NEW sd, NEW sp
  PROVE  LogAt(Reset(m), BEG, PB, PB + 1, sd, sp \cup {"reset"})
<1>1. PB \in Cells /\ PB + 1 \in Cells /\ PB + 1 \in PB .. PE /\ SIZE \in Nat /\ SIZE >= 2 /\ PE = PB + SIZE
      /\ PB \in Nat
  BY Sizes DEF Cells, SIZE
<1>2. Size(PB, PB + 1) = 1
  BY <1>1 DEF Size
<1>3. At(PB, 1) = PB + 1
  BY <1>1 DEF At
<1>4. Reset(m)[PB] = BEG /\ Reset(m)[PB + 1] = END
  <2>1. PB + 1 # PB
    BY <1>1
  <2>. QED
    BY <1>1, <2>1, ResetIs, Zenon
<1>5. OnlyTags(Reset(m), PB, PB + 1, sp \cup {"reset"})
  <2>1. \A i \in 1 .. SIZE - 1 : i = 1 \/ (i > 1 /\ PB + i < PE)
    BY <1>1
  <2>. QED
    BY <1>2, <2>1, Zenon DEF OnlyTags
<1>6. Body(Reset(m), PB, PB + 1, sd)
  <2>1. ~ \E i \in 1 .. 1 - 1 : TRUE
    OBVIOUS
  <2>. QED
    BY <1>2, <2>1, Zenon DEF Body
<1>7. Opens(END, sd) /\ 1 < SIZE
  BY <1>1 DEF Opens
<1>. QED
  BY <1>1, <1>2, <1>3, <1>4, <1>5, <1>6, <1>7, Zenon DEF LogAt

\* LOG_reset on a blank partition.
LEMMA LogStart ==
  ASSUME NEW sd
  PROVE  LogAt(Reset([a \in Cells |-> Blank]), BEG, PB, PB + 1, sd, {})
<1>. DEFINE z == [a \in Cells |-> Blank]
<1>0. z \in [Cells -> Byte] /\ \A a \in Cells : z[a] = Blank
  BY Tags
<1>. HIDE DEF z
<1>1. LogAt(Reset(z), BEG, PB, PB + 1, sd, {} \cup {"reset"})
  BY <1>0, LogReset, Zenon
<1>2. PB \in Cells /\ PB + 1 \in Cells /\ SIZE \in Nat /\ SIZE >= 2 /\ PB \in Nat /\ PE = PB + SIZE
  BY Sizes DEF Cells, SIZE
<1>3. Size(PB, PB + 1) = 1
  BY <1>2 DEF Size
<1>4. OnlyTags(Reset(z), PB, PB + 1, {})
  <2>. SUFFICES ASSUME NEW i \in 1 .. SIZE - 1, Reset(z)[At(PB, i)] \in {BEG, END}, i # 1 PROVE FALSE
    BY <1>3, Zenon DEF OnlyTags
  <2>1. At(PB, i) \in Cells /\ At(PB, i) # PB /\ At(PB, i) # PB + 1
    BY <1>2 DEF At, Cells
  <2>2. Reset(z)[At(PB, i)] = Blank
    BY <1>0, <2>1, ResetIs, Zenon
  <2>. QED
    BY <2>2, Tags
<1>5. Opens(Reset(z)[At(PB, 1)], sd)
  <2>1. At(PB, 1) = PB + 1 /\ PB + 1 # PB
    BY <1>2 DEF At
  <2>. QED
    BY <1>0, <1>2, <2>1, ResetIs, Zenon DEF Opens
<1>. QED
  BY <1>1, <1>4, <1>5, Zenon DEF LogAt, z

\* The first byte written over.
LEMMA LogFirst ==
  ASSUME NEW m \in [Cells -> Byte], NEW tag, NEW tag2 \in Byte, NEW b, NEW e, NEW sd, NEW sp,
         LogAt(m, tag, b, e, sd, sp)
  PROVE  LogAt(Write1(m, b, tag2), tag2, b, e, sd, sp)
<1>. DEFINE S == Size(b, e)
            w == Write1(m, b, tag2)
<1>1. b \in Cells /\ b \in Nat /\ e \in PB .. PE /\ S < SIZE /\ m[At(b, S)] = END
  BY Sizes DEF LogAt, Cells
<1>2. /\ S \in Nat /\ S >= 1 /\ S <= SIZE - 1 /\ SIZE \in Nat /\ SIZE >= 2
      /\ \A i \in 0 .. SIZE - 1 : At(b, i) \in Cells /\ Off(b, At(b, i)) = i
      /\ At(b, 0) = b
  BY <1>1, LogSizes, Zenon
<1>3. \A a \in Cells : w[a] = IF a = b THEN tag2 ELSE m[a]
  <2>1. b \in Nat
    BY <1>1
  <2>. QED
    BY <2>1, WriteOne
<1>. HIDE DEF w
<1>4. ASSUME NEW i \in 1 .. SIZE - 1 PROVE w[At(b, i)] = m[At(b, i)]
  <2>1. i \in 0 .. SIZE - 1 /\ 0 \in 0 .. SIZE - 1 /\ i # 0
    BY <1>2
  <2>2. At(b, i) \in Cells /\ At(b, i) # b
    BY <1>2, <2>1, Zenon
  <2>. QED
    BY <1>3, <2>2, Zenon
<1>5. OnlyTags(w, b, e, sp)
  BY <1>4, Zenon DEF OnlyTags, LogAt
<1>6. ASSUME NEW i \in 1 .. S - 1 PROVE i \in 1 .. SIZE - 1 /\ i + 1 \in 1 .. SIZE - 1
  <2>. HIDE DEF S
  <2>. QED
    BY <1>2
<1>7. Body(w, b, e, sd)
  <2>. SUFFICES ASSUME NEW i \in 1 .. S - 1
                PROVE  IsByte(w[At(b, i)], sd) /\ Follows(w[At(b, i)], w[At(b, i + 1)], sd)
    BY Zenon DEF Body
  <2>1. IsByte(m[At(b, i)], sd) /\ Follows(m[At(b, i)], m[At(b, i + 1)], sd)
    BY Zenon DEF LogAt, Body
  <2>2. w[At(b, i)] = m[At(b, i)] /\ w[At(b, i + 1)] = m[At(b, i + 1)]
    BY <1>4, <1>6, Zenon
  <2>. QED
    BY <2>1, <2>2, Zenon
<1>8. S \in 1 .. SIZE - 1 /\ 1 \in 1 .. SIZE - 1
  <2>. HIDE DEF S
  <2>. QED
    BY <1>2
<1>9. w[b] = tag2 /\ w[At(b, S)] = END /\ w[At(b, 1)] = m[At(b, 1)]
  BY <1>1, <1>3, <1>4, <1>8, Zenon
<1>. QED
  BY <1>1, <1>5, <1>7, <1>9, Zenon DEF LogAt, w

(***************************************************************************)
(* BEG at a place of the log, the first byte being no tag any more: the    *)
(* log from there on.                                                      *)
(***************************************************************************)
LEMMA Shift ==
  ASSUME NEW b \in Cells, NEW e \in PB .. PE, Size(b, e) < SIZE, NEW x \in Cells, Off(b, x) < Size(b, e)
  PROVE  LET S == Size(b, e)
             o == Off(b, x)
         IN /\ o \in 0 .. S - 1
            /\ Size(x, e) = S - o
            /\ \A i \in 0 .. (SIZE - 1) - o : At(x, i) = At(b, o + i)
            /\ \A i \in 1 .. SIZE - 1 : LET j == Off(b, At(x, i))
                                        IN /\ At(x, i) # x /\ At(x, i) \in Cells
                                           /\ j \in 0 .. SIZE - 1 /\ At(b, j) = At(x, i)
                                           /\ j >= S => i = j - o
                                           /\ j > S /\ b + j < PE => x + i < PE
<1>1. b \in PB .. PE - 1 /\ x \in PB .. PE - 1 /\ PB \in Nat /\ PE \in Nat /\ SIZE = PE - PB /\ SIZE >= 2
  BY Sizes DEF Cells, SIZE
<1>2. Off(b, x) \in 0 .. Size(b, e) - 1 /\ Size(x, e) = Size(b, e) - Off(b, x)
  BY <1>1 DEF Off, Size
<1>3. \A i \in 0 .. (SIZE - 1) - Off(b, x) : At(x, i) = At(b, Off(b, x) + i)
  BY <1>1 DEF Off, At
<1>4. ASSUME NEW i \in 1 .. SIZE - 1
      PROVE  LET j == Off(b, At(x, i))
             IN /\ At(x, i) # x /\ At(x, i) \in Cells
                /\ j \in 0 .. SIZE - 1 /\ At(b, j) = At(x, i)
                /\ j >= Size(b, e) => i = j - Off(b, x)
                /\ j > Size(b, e) /\ b + j < PE => x + i < PE
  <2>1. At(x, i) \in Cells /\ At(x, i) # x
    BY <1>1 DEF At, Cells
  <2>2. Off(b, At(x, i)) \in 0 .. SIZE - 1 /\ At(b, Off(b, At(x, i))) = At(x, i)
    BY <2>1, Offsets
  <2>3. Off(b, At(x, i)) >= Size(b, e) => i = Off(b, At(x, i)) - Off(b, x)
    BY <1>1 DEF Off, At, Size
  <2>4. Off(b, At(x, i)) > Size(b, e) /\ b + Off(b, At(x, i)) < PE => x + i < PE
    BY <1>1 DEF Off, At, Size
  <2>. QED
    BY <2>1, <2>2, <2>3, <2>4
<1>. QED
  BY <1>2, <1>3, <1>4, Zenon

Wrote(w, m, x, c) == w \in [Cells -> Byte] /\ \A a \in Cells : w[a] = IF a = x THEN c ELSE m[a]

LEMMA WroteOne ==
  ASSUME NEW m \in [Cells -> Byte], NEW x \in Nat, NEW c \in Byte
  PROVE  Wrote(Write1(m, x, c), m, x, c)
BY WriteOne DEF Wrote

LEMMA LogMarked ==
  ASSUME NEW m \in [Cells -> Byte], NEW b, NEW e, NEW sd \in Seq(1 .. PAGE), NEW sp,
         LogAt(m, DEL, b, e, sd, sp), NEW x \in Cells, Off(b, x) < Size(b, e),
         "exact" \in sp \/ Off(b, x) = Size(b, e) - 1
  PROVE  LogAt(Write1(m, x, BEG), BEG, x, e, sd, sp)
<1>. DEFINE S == Size(b, e)
            o == Off(b, x)
            w == Write1(m, x, BEG)
            T == Size(x, e)
<1>1. b \in Cells /\ e \in PB .. PE /\ S < SIZE /\ m[b] = DEL /\ m[At(b, S)] = END
  BY DEF LogAt
<1>2. /\ S \in Nat /\ S >= 1 /\ S <= SIZE - 1 /\ SIZE \in Nat /\ SIZE >= 2
      /\ \A i \in 0 .. SIZE - 1 : At(b, i) \in Cells /\ Off(b, At(b, i)) = i
      /\ At(b, 0) = b /\ At(b, o) = x
  BY <1>1, LogSizes, Zenon
<1>3. /\ o \in 0 .. S - 1
      /\ T = S - o
      /\ \A i \in 0 .. (SIZE - 1) - o : At(x, i) = At(b, o + i)
      /\ \A i \in 1 .. SIZE - 1 : LET j == Off(b, At(x, i))
                                  IN /\ At(x, i) # x /\ At(x, i) \in Cells
                                     /\ j \in 0 .. SIZE - 1 /\ At(b, j) = At(x, i)
                                     /\ j >= S => i = j - o
                                     /\ j > S /\ b + j < PE => x + i < PE
  BY <1>1, Shift, Zenon
<1>4. \A a \in Cells : w[a] = IF a = x THEN BEG ELSE m[a]
  <2>1. x \in Nat
    BY Sizes DEF Cells
  <2>2. BEG \in Byte
    BY Tags
  <2>3. Wrote(w, m, x, BEG)
    BY <2>1, <2>2, WroteOne, Zenon
  <2>. QED
    BY <2>3, Zenon DEF Wrote
<1>. HIDE DEF w, S, o, T
<1>5. \A i \in 1 .. SIZE - 1 : w[At(x, i)] = m[At(x, i)]
  BY <1>3, <1>4, Zenon
<1>6. OnlyTags(w, x, e, sp)
  <2>. SUFFICES ASSUME NEW i \in 1 .. SIZE - 1, w[At(x, i)] \in {BEG, END}
                PROVE  i = T \/ ("reset" \in sp /\ i > T /\ x + i < PE)
    BY Zenon DEF OnlyTags, T
  <2>. DEFINE j == Off(b, At(x, i))
  <2>1. /\ j \in 0 .. SIZE - 1 /\ At(b, j) = At(x, i)
        /\ j >= S => i = j - o
        /\ j > S /\ b + j < PE => x + i < PE
    BY <1>3, Zenon
  <2>2. m[At(b, j)] \in {BEG, END}
    BY <1>5, <2>1, Zenon
  <2>. HIDE DEF j
  <2>3. j # 0
    BY <1>1, <1>2, <2>2, Tags
  <2>4. j \in 1 .. SIZE - 1
    BY <1>2, <2>1, <2>3
  <2>5. j = S \/ ("reset" \in sp /\ j > S /\ b + j < PE)
    BY <2>2, <2>4, Zenon DEF LogAt, OnlyTags, S
  <2>. QED
    BY <1>2, <1>3, <2>1, <2>4, <2>5
<1>7. ASSUME NEW i \in 1 .. T
      PROVE  o + i \in 1 .. S /\ i \in 1 .. SIZE - 1 /\ i \in 0 .. (SIZE - 1) - o
  BY <1>2, <1>3
<1>8. \A i \in 1 .. T : w[At(x, i)] = m[At(b, o + i)]
  BY <1>3, <1>5, <1>7, Zenon
<1>9. Body(w, x, e, sd)
  <2>. SUFFICES ASSUME NEW i \in 1 .. T - 1
                PROVE  IsByte(w[At(x, i)], sd) /\ Follows(w[At(x, i)], w[At(x, i + 1)], sd)
    BY Zenon DEF Body, T
  <2>1. i \in 1 .. T /\ i + 1 \in 1 .. T /\ o + i \in 1 .. S - 1 /\ o + (i + 1) = (o + i) + 1
    BY <1>2, <1>3
  <2>2. IsByte(m[At(b, o + i)], sd) /\ Follows(m[At(b, o + i)], m[At(b, (o + i) + 1)], sd)
    BY <2>1, Zenon DEF LogAt, Body, S
  <2>3. w[At(x, i)] = m[At(b, o + i)]
    BY <1>8, <2>1, Zenon
  <2>4. w[At(x, i + 1)] = m[At(b, (o + i) + 1)]
    <3>1. w[At(x, i + 1)] = m[At(b, o + (i + 1))]
      BY <1>8, <2>1, Zenon
    <3>2. At(b, o + (i + 1)) = At(b, (o + i) + 1)
      BY <2>1, Zenon
    <3>. QED
      BY <3>1, <3>2, Zenon
  <2>. QED
    BY <2>2, <2>3, <2>4, Zenon
<1>10. T \in 1 .. T /\ 1 \in 1 .. T /\ o + T = S
  BY <1>2, <1>3
<1>11. w[At(x, T)] = END
  BY <1>1, <1>8, <1>10, Zenon DEF S
<1>12. "exact" \notin sp => Opens(w[At(x, 1)], sd)
  <2>. SUFFICES ASSUME "exact" \notin sp PROVE Opens(w[At(x, 1)], sd)
    OBVIOUS
  <2>1. o = S - 1
    BY Zenon DEF o, S
  <2>2. T = 1
    BY <1>2, <1>3, <2>1
  <2>. QED
    BY <1>11, <2>2, Zenon DEF Opens
<1>13. w[x] = BEG /\ T < SIZE
  <2>1. T < SIZE
    BY <1>2, <1>3
  <2>. QED
    BY <1>4, <2>1, Zenon
<1>. QED
  BY <1>1, <1>6, <1>9, <1>11, <1>12, <1>13, Zenon DEF LogAt, w, T

-----------------------------------------------------------------------------
(* The flush. *)

\* Write number p puts the bytes from j + 1 to n of the buffer u in their place.
InPlace(b, e, u, p, j, n) ==
  /\ p = [at |-> At(b, Size(b, e) + j), bytes |-> SubSeq(Append(u, END), j + 1, n)]
  /\ (p.at % PAGE) + (n - j) <= PAGE
  /\ j \in Int /\ n \in Int /\ 0 <= j /\ j < n /\ n <= Len(u) + 1

LEMMA Room ==
  ASSUME TypeOK, beg \in Cells, Size(beg, end) < SIZE, Len(buf) + 1 <= FreeBehind + FreeBefore
  PROVE  LET S == Size(beg, end)
             d == Len(buf) + 1
         IN /\ S + d <= SIZE /\ d \in 1 .. PAGE + 1 /\ S \in 1 .. SIZE - 1
            /\ FreeBehind >= d =>
                 end \in Cells /\ \A n \in 0 .. d - 1 : At(beg, S + n) = end + n /\ end + n \in Cells
            /\ ~ (FreeBehind >= d) =>
                 /\ FreeBehind = PE - end /\ FreeBefore > 0 /\ FreeBehind \in 0 .. d - 1
                 /\ Least(d - FreeBehind, FreeBefore) = d - FreeBehind
                 /\ FreeBehind > 0 => At(beg, S) = end
                 /\ \A n \in 0 .. d - FreeBehind - 1 : At(beg, S + FreeBehind + n) = PB + n
<1>1. /\ end \in PB .. PE /\ beg \in PB .. PE - 1 /\ PB \in Nat /\ PE \in Nat /\ SIZE = PE - PB
      /\ Len(buf) \in 0 .. PAGE /\ PAGE \in Nat
  BY Sizes DEF TypeOK, Cells, SIZE
<1>2. Size(beg, end) \in 1 .. SIZE - 1
  BY SizeIs, Zenon DEF TypeOK
<1>3. end # beg
  BY <1>1 DEF Size
<1>4. CASE end < beg
  <2>1. Size(beg, end) = (end - beg) + SIZE /\ FreeBehind = (beg - end) - 1 /\ FreeBefore = 0
    BY <1>1, <1>4 DEF Size, FreeBehind, FreeBefore
  <2>2. FreeBehind >= Len(buf) + 1 /\ Size(beg, end) + (Len(buf) + 1) <= SIZE /\ end \in Cells
    BY <1>1, <1>4, <2>1 DEF Cells
  <2>3. \A n \in 0 .. Len(buf) : At(beg, Size(beg, end) + n) = end + n /\ end + n \in Cells
    BY <1>1, <1>4, <2>1, <2>2 DEF At, Cells
  <2>4. (Len(buf) + 1) - 1 = Len(buf) /\ Len(buf) + 1 \in 1 .. PAGE + 1
    BY <1>1
  <2>. QED
    BY <1>2, <2>2, <2>3, <2>4
<1>5. CASE end > beg
  <2>1. Size(beg, end) = end - beg /\ FreeBehind = PE - end /\ FreeBefore = beg - PB
    BY <1>1, <1>5 DEF Size, FreeBehind, FreeBefore
  <2>2. Size(beg, end) + (Len(buf) + 1) <= SIZE /\ Len(buf) + 1 \in 1 .. PAGE + 1
    BY <1>1, <2>1
  <2>3. CASE FreeBehind >= Len(buf) + 1
    <3>1. end \in Cells
      BY <1>1, <2>1, <2>3 DEF Cells
    <3>2. \A n \in 0 .. (Len(buf) + 1) - 1 : At(beg, Size(beg, end) + n) = end + n /\ end + n \in Cells
      BY <1>1, <1>5, <2>1, <2>3 DEF At, Cells
    <3>. QED
      BY <1>2, <2>2, <2>3, <3>1, <3>2
  <2>4. CASE ~ (FreeBehind >= Len(buf) + 1)
    <3>1. FreeBefore > 0 /\ FreeBehind \in 0 .. (Len(buf) + 1) - 1
      BY <1>1, <2>1, <2>4
    <3>2. Least((Len(buf) + 1) - FreeBehind, FreeBefore) = (Len(buf) + 1) - FreeBehind
      BY <1>1, <2>1, <3>1 DEF Least
    <3>3. FreeBehind > 0 => At(beg, Size(beg, end)) = end
      BY <1>1, <1>5, <2>1 DEF At
    <3>4. \A n \in 0 .. (Len(buf) + 1) - FreeBehind - 1 : At(beg, Size(beg, end) + FreeBehind + n) = PB + n
      BY <1>1, <1>5, <2>1 DEF At
    <3>. QED
      BY <1>2, <2>1, <2>2, <2>4, <3>1, <3>2, <3>3, <3>4
  <2>. QED
    BY <2>3, <2>4
<1>. QED
  BY <1>1, <1>3, <1>4, <1>5

\* What is still to be written when j bytes of the buffer have been.
Todo(b, e, u, t, j) ==
  LET d == Len(u) + 1
  IN \/ t = << >> /\ j = d
     \/ \E p : t = << p >> /\ InPlace(b, e, u, p, j, d)
     \/ \E p, q, n : t = << p, q >> /\ InPlace(b, e, u, p, j, n) /\ InPlace(b, e, u, q, n, d)

LEMMA AllBytes ==
  ASSUME NEW s \in Seq(Byte)
  PROVE  SubSeq(s, 1, Len(s)) = s
BY SubSeqProperties

\* The whole buffer from one place on.
LEMMA WholeInPlace ==
  ASSUME TypeOK, NEW a \in Nat,
         \A n \in 0 .. Len(buf) : At(beg, Size(beg, end) + n) = a + n,
         (a % PAGE) + (Len(buf) + 1) < 2 * PAGE, Size(beg, end) \in Nat
  PROVE  Todo(beg, end, buf, Blocks(a, Append(buf, END)), 0)
<1>. DEFINE all == Append(buf, END)
            d == Len(buf) + 1
            r == a % PAGE
            n == PAGE - r
            S == Size(beg, end)
<1>1. /\ buf \in Seq(Byte) /\ Len(buf) \in Nat /\ Len(buf) <= PAGE /\ PAGE \in Nat /\ PAGE >= 2
      /\ d \in Nat /\ d >= 1 /\ d <= PAGE + 1
  <2>1. buf \in Seq(Byte) /\ Len(buf) <= PAGE
    BY Zenon DEF TypeOK
  <2>2. PAGE \in Nat /\ PAGE >= 2
    BY PartitionAssumption
  <2>3. Len(buf) \in Nat
    BY <2>1
  <2>. QED
    BY <2>1, <2>2, <2>3
<1>2. all \in Seq(Byte) /\ Len(all) = d /\ r \in 0 .. PAGE - 1
  <2>1. r \in 0 .. PAGE - 1
    BY DivMod, Zenon
  <2>. QED
    BY <1>1, <2>1, AllIs, Zenon
<1>3. all = SubSeq(all, 0 + 1, d)
  <2>1. 0 + 1 = 1
    OBVIOUS
  <2>. QED
    BY <1>2, <2>1, AllBytes, Zenon
<1>4. At(beg, S + 0) = a /\ S + 0 = S
  <2>1. 0 \in 0 .. Len(buf) /\ a + 0 = a /\ S + 0 = S
    BY <1>1
  <2>. QED
    BY <2>1, Zenon
<1>5. CASE r + d <= PAGE
  <2>1. Len(all) >= 1 /\ Len(all) <= PAGE + 1 /\ r + Len(all) <= PAGE
    BY <1>1, <1>2, <1>5, Zenon
  <2>2. Blocks(a, all) = << [at |-> a, bytes |-> all] >>
    BY <1>2, <2>1, BlocksAre, Zenon
  <2>. DEFINE p == [at |-> a, bytes |-> all]
  <2>3. p = [at |-> At(beg, S + 0), bytes |-> SubSeq(all, 0 + 1, d)] /\ p.at = a
    BY <1>3, <1>4, Zenon
  <2>4. r + (d - 0) <= PAGE /\ 0 <= 0 /\ 0 < d /\ d <= Len(buf) + 1 /\ 0 \in Int /\ d \in Int
    <3>. HIDE DEF r
    <3>. QED
      BY <1>1, <1>2, <1>5
  <2>5. InPlace(beg, end, buf, p, 0, d)
    <3>. HIDE DEF p
    <3>. QED
      BY <2>3, <2>4, Zenon DEF InPlace
  <2>. QED
    BY <2>2, <2>5, Zenon DEF Todo
<1>6. CASE ~ (r + d <= PAGE)
  <2>. DEFINE p == [at |-> a, bytes |-> SubSeq(all, 1, n)]
              q == [at |-> a + n, bytes |-> SubSeq(all, n + 1, Len(all))]
  <2>1. /\ n \in 1 .. PAGE /\ n \in 0 .. Len(buf) /\ n < d /\ 0 < n /\ 0 <= n /\ n <= Len(buf) + 1
        /\ r + (n - 0) <= PAGE /\ d - n \in 1 .. PAGE /\ 0 <= 0 /\ d <= Len(buf) + 1
        /\ r + d > PAGE /\ 0 + 1 = 1 /\ 0 \in Int /\ n \in Int /\ d \in Int
    <3>. HIDE DEF r
    <3>. QED
      BY <1>1, <1>2, <1>6
  <2>2. Blocks(a, all) = << p, q >>
    <3>1. Len(all) >= 1 /\ Len(all) <= PAGE + 1 /\ r + Len(all) > PAGE /\ r + Len(all) < 2 * PAGE
      BY <1>1, <1>2, <2>1, Zenon
    <3>. HIDE DEF all
    <3>. QED
      BY <1>2, <3>1, BlocksAre, Zenon
  <2>3. InPlace(beg, end, buf, p, 0, n)
    <3>1. p = [at |-> At(beg, S + 0), bytes |-> SubSeq(all, 0 + 1, n)] /\ p.at = a
      BY <1>4, <2>1, Zenon
    <3>. HIDE DEF p, n
    <3>. QED
      BY <2>1, <3>1, Zenon DEF InPlace
  <2>4. (a + n) % PAGE = 0
    <3>. DEFINE k == a \div PAGE
    <3>1. k \in Nat /\ a = PAGE * k + r
      BY DivMod, Zenon
    <3>. HIDE DEF r, k
    <3>2. a + n = PAGE * (k + 1) + 0 /\ k + 1 \in Int /\ 0 \in 0 .. PAGE - 1
      BY <1>1, <1>2, <3>1
    <3>. QED
      BY <3>2, DivModUnique, Zenon
  <2>5. InPlace(beg, end, buf, q, n, d)
    <3>1. q = [at |-> At(beg, S + n), bytes |-> SubSeq(all, n + 1, d)] /\ q.at = a + n
      BY <1>2, <2>1, Zenon
    <3>2. ((a + n) % PAGE) + (d - n) <= PAGE
      BY <1>1, <2>1, <2>4
    <3>. HIDE DEF q, n
    <3>. QED
      BY <2>1, <3>1, <3>2, Zenon DEF InPlace
  <2>. QED
    BY <2>2, <2>3, <2>5, Zenon DEF Todo
<1>. QED
  BY <1>5, <1>6

LEMMA TwoInOne ==
  \A p, q : << p >> \o << q >> = << p, q >>
<1>. TAKE p, q
<1>1. << p >> \in Seq({p, q}) /\ << q >> \in Seq({p, q}) /\ << p, q >> \in Seq({p, q})
  OBVIOUS
<1>2. Len(<< p >>) = 1 /\ Len(<< q >>) = 1 /\ Len(<< p, q >>) = 2
  OBVIOUS
<1>3. Len(<< p >> \o << q >>) = 2 /\ << p >> \o << q >> \in Seq({p, q})
  BY <1>1, <1>2
<1>4. (<< p >> \o << q >>)[1] = p /\ (<< p >> \o << q >>)[2] = q
  BY <1>1, <1>2
<1>5. << p, q >>[1] = p /\ << p, q >>[2] = q
  OBVIOUS
<1>. DEFINE s == << p >> \o << q >>
            t == << p, q >>
<1>. HIDE DEF s, t
<1>6. s \in Seq({p, q}) /\ t \in Seq({p, q}) /\ Len(s) = 2 /\ Len(t) = 2
      /\ s[1] = t[1] /\ s[2] = t[2]
  BY <1>1, <1>2, <1>3, <1>4, <1>5, Zenon DEF s, t
<1>7. \A i \in 1 .. Len(s) : s[i] = t[i]
  BY <1>6
<1>8. s = t
  BY <1>6, <1>7, SeqEqual
<1>. QED
  BY <1>8 DEF s, t

\* LOG_process_buffer puts the buffer and END where the log ends, around the
\* partition, when there is room and the buffer spans no more than two pages.
LEMMA ProcessIs ==
  ASSUME TypeOK, beg \in Cells, Size(beg, end) < SIZE,
         Len(buf) + 1 <= FreeBehind + FreeBefore,
         ~ (Len(buf) + 1 > PAGE /\ end % PAGE = PAGE - 1)
  PROVE  Todo(beg, end, buf, ProcessBlocks, 0)
<1>. DEFINE all == Append(buf, END)
            d == Len(buf) + 1
            f == FreeBehind
            g == FreeBefore
            S == Size(beg, end)
            v == Least(d - f, g)
            B1 == IF f > 0 THEN Blocks(end, SubSeq(all, 1, f)) ELSE << >>
            B2 == IF g > 0 THEN Blocks(PB, SubSeq(all, f + 1, f + v)) ELSE << >>
<1>1. /\ buf \in Seq(Byte) /\ Len(buf) \in Nat /\ Len(buf) <= PAGE /\ PAGE \in Nat /\ PAGE >= 2
      /\ d \in Nat /\ d >= 1 /\ d <= PAGE + 1 /\ end \in Nat /\ PB \in Nat /\ PE \in Nat /\ PB % PAGE = 0
      /\ PE % PAGE = 0 /\ end \in PB .. PE
  <2>1. buf \in Seq(Byte) /\ Len(buf) <= PAGE /\ end \in PB .. PE
    BY Zenon DEF TypeOK
  <2>2. Len(buf) \in Nat
    BY <2>1
  <2>. QED
    BY <2>1, <2>2, Sizes
<1>2. all \in Seq(Byte) /\ Len(all) = d
  BY <1>1, AllIs, Zenon
<1>3. /\ S \in 1 .. SIZE - 1
      /\ f >= d => \A n \in 0 .. d - 1 : At(beg, S + n) = end + n
      /\ ~ (f >= d) =>
           /\ f = PE - end /\ g > 0 /\ f \in 0 .. d - 1
           /\ v = d - f
           /\ f > 0 => At(beg, S) = end
           /\ \A n \in 0 .. d - f - 1 : At(beg, S + f + n) = PB + n
  BY Room, Zenon
<1>4. ProcessBlocks = IF f >= Len(all) THEN Blocks(end, all)
                      ELSE (IF f > 0 THEN Blocks(end, SubSeq(all, 1, f)) ELSE << >>)
                           \o (IF g > 0 THEN Blocks(PB, SubSeq(all, f + 1, f + Least(Len(all) - f, g))) ELSE << >>)
  BY Zenon DEF ProcessBlocks
<1>5. ProcessBlocks = IF f >= d THEN Blocks(end, all) ELSE B1 \o B2
  BY <1>2, <1>4, Zenon
<1>6. S \in Nat /\ d - 1 = Len(buf) /\ \A i \in 0 .. Len(buf) : i \in 0 .. d - 1
  BY <1>1, <1>3
<1>7. CASE f >= d
  <2>1. \A n \in 0 .. Len(buf) : At(beg, S + n) = end + n
    BY <1>3, <1>6, <1>7, Zenon
  <2>2. (end % PAGE) + (Len(buf) + 1) < 2 * PAGE
    <3>1. end % PAGE \in 0 .. PAGE - 1
      BY <1>1, DivMod, Zenon
    <3>. DEFINE r == end % PAGE
    <3>2. ~ (d > PAGE /\ r = PAGE - 1)
      OBVIOUS
    <3>. HIDE DEF r
    <3>. QED
      BY <1>1, <3>1, <3>2 DEF r
  <2>3. Todo(beg, end, buf, Blocks(end, all), 0)
    BY <1>1, <1>6, <2>1, <2>2, WholeInPlace, Zenon
  <2>. QED
    BY <1>5, <1>7, <2>3, Zenon
<1>8. CASE ~ (f >= d) /\ f = 0
  <2>1. f + 1 = 1 /\ f + v = d /\ ~ (f > 0) /\ g > 0
    <3>. HIDE DEF f, g, v
    <3>. QED
      BY <1>1, <1>3, <1>8
  <2>2. \A n \in 0 .. Len(buf) : At(beg, S + n) = PB + n
    <3>1. S + f = S /\ d - f - 1 = Len(buf)
      BY <1>1, <1>3, <1>8
    <3>. QED
      BY <1>3, <1>8, <3>1, Zenon
  <2>3. (PB % PAGE) + (Len(buf) + 1) < 2 * PAGE
    <3>1. PB % PAGE = 0
      BY <1>1
    <3>. QED
      BY <1>1, <3>1
  <2>4. Todo(beg, end, buf, Blocks(PB, all), 0)
    BY <1>1, <1>6, <2>2, <2>3, WholeInPlace, Zenon
  <2>5. B2 = Blocks(PB, all) /\ B1 = << >>
    <3>1. SubSeq(all, 1, d) = all
      BY <1>2, AllBytes, Zenon
    <3>. QED
      BY <2>1, <3>1, Zenon
  <2>6. << >> \o Blocks(PB, all) = Blocks(PB, all)
    <3>1. Blocks(PB, all) \in Seq(Piece)
      BY <1>1, <1>2, BlocksType
    <3>. QED
      BY <3>1
  <2>. HIDE DEF B1, B2, all
  <2>. QED
    BY <1>5, <1>8, <2>4, <2>5, <2>6, Zenon
<1>9. CASE ~ (f >= d) /\ f # 0
  <2>1. /\ f \in 1 .. PAGE /\ f = PE - end /\ g > 0 /\ v = d - f /\ f > 0 /\ f + v = d /\ f < d /\ 0 < f
        /\ f \in Nat /\ d - f \in 1 .. PAGE /\ At(beg, S) = end
    <3>. HIDE DEF f, g, v
    <3>. QED
      BY <1>1, <1>3, <1>9
  <2>. DEFINE p == [at |-> end, bytes |-> SubSeq(all, 1, f)]
              q == [at |-> PB, bytes |-> SubSeq(all, f + 1, d)]
  <2>2. PE - f = end /\ end % PAGE = PAGE - f
    <3>1. PE - f = end
      <4>. HIDE DEF f
      <4>. QED
        BY <1>1, <2>1
    <3>2. (PE - f) % PAGE = PAGE - f
      <4>1. PE - f \in Nat
        BY <1>1, <3>1
      <4>. HIDE DEF f
      <4>. QED
        BY <1>1, <2>1, <4>1, BeforePageEnd
    <3>. QED
      BY <3>1, <3>2, Zenon
  <2>. HIDE DEF f
  <2>3. /\ SubSeq(all, 1, f) \in Seq(Byte) /\ Len(SubSeq(all, 1, f)) = f
        /\ SubSeq(all, f + 1, d) \in Seq(Byte) /\ Len(SubSeq(all, f + 1, d)) = d - f
    <3>1. 1 \in 1 .. Len(all) + 1 /\ f \in 0 .. Len(all) /\ f + 1 \in 1 .. Len(all) + 1 /\ d \in 0 .. Len(all)
      BY <1>1, <1>2, <2>1
    <3>. HIDE DEF all, d
    <3>2. SubSeq(all, 1, f) \in Seq(Byte) /\ Len(SubSeq(all, 1, f)) = f
      <4>1. f \in Nat /\ 1 <= f + 1 /\ (f - 1) + 1 = f
        BY <2>1
      <4>2. SubSeq(all, 1, f) \in Seq(Byte) /\ Len(SubSeq(all, 1, f)) = (f - 1) + 1
        BY <1>2, <3>1, <4>1, PartIs
      <4>. QED
        BY <4>1, <4>2
    <3>3. d \in Nat
      BY <1>1
    <3>4. SubSeq(all, f + 1, d) \in Seq(Byte) /\ Len(SubSeq(all, f + 1, d)) = d - f
      <4>1. PICK a \in Nat : a = f + 1
        BY <2>1
      <4>2. a \in 1 .. Len(all) + 1 /\ a <= d + 1 /\ (d - a) + 1 = d - f
        <5>1. f \in Nat /\ f < d
          BY <2>1
        <5>2. a <= d + 1 /\ (d - a) + 1 = d - f
          BY <3>3, <4>1, <5>1
        <5>. QED
          BY <3>1, <4>1, <5>2
      <4>3. SubSeq(all, a, d) \in Seq(Byte) /\ Len(SubSeq(all, a, d)) = (d - a) + 1
        BY <1>2, <3>1, <4>2, PartIs
      <4>. QED
        BY <4>1, <4>2, <4>3
    <3>. QED
      BY <3>2, <3>4
  <2>4. Blocks(end, SubSeq(all, 1, f)) = << p >>
    <3>. DEFINE s == SubSeq(all, 1, f)
                r == end % PAGE
    <3>1. s \in Seq(Byte) /\ Len(s) >= 1 /\ Len(s) <= PAGE + 1 /\ r + Len(s) <= PAGE
      <4>1. Len(s) = f /\ r = PAGE - f
        BY <2>2, <2>3, Zenon
      <4>. HIDE DEF r
      <4>. QED
        BY <1>1, <2>1, <2>3, <4>1
    <3>. HIDE DEF s
    <3>2. Blocks(end, s) = << [at |-> end, bytes |-> s] >>
      BY <1>1, <3>1, BlocksAre, Zenon
    <3>. QED
      BY <3>2, Zenon DEF s
  <2>5. Blocks(PB, SubSeq(all, f + 1, d)) = << q >>
    <3>. DEFINE s == SubSeq(all, f + 1, d)
                r == PB % PAGE
    <3>1. s \in Seq(Byte) /\ Len(s) >= 1 /\ Len(s) <= PAGE + 1 /\ r + Len(s) <= PAGE
      <4>1. Len(s) = d - f /\ r = 0
        BY <1>1, <2>3, Zenon
      <4>2. s \in Seq(Byte)
        BY <2>3, Zenon
      <4>. HIDE DEF r, s
      <4>. QED
        BY <1>1, <2>1, <4>1, <4>2
    <3>. HIDE DEF s
    <3>2. Blocks(PB, s) = << [at |-> PB, bytes |-> s] >>
      BY <1>1, <3>1, BlocksAre, Zenon
    <3>. QED
      BY <3>2, Zenon DEF s
  <2>6. InPlace(beg, end, buf, p, 0, f)
    <3>1. p = [at |-> At(beg, S + 0), bytes |-> SubSeq(all, 0 + 1, f)] /\ p.at = end
      <4>1. S + 0 = S /\ 0 + 1 = 1
        BY <1>3
      <4>. QED
        BY <2>1, <4>1, Zenon
    <3>2. (end % PAGE) + (f - 0) <= PAGE /\ 0 <= 0 /\ f <= Len(buf) + 1 /\ 0 \in Int /\ f \in Int
      BY <1>1, <2>1, <2>2
    <3>. HIDE DEF p, all, S
    <3>. QED
      BY <2>1, <3>1, <3>2, Zenon DEF InPlace, all, S
  <2>7. InPlace(beg, end, buf, q, f, d)
    <3>1. At(beg, S + f) = PB
      <4>1. 0 \in 0 .. d - f - 1 /\ PB + 0 = PB /\ (S + f) + 0 = S + f
        BY <1>1, <1>3, <2>1
      <4>2. At(beg, S + f + 0) = PB + 0
        BY <1>3, <1>9, <4>1, Zenon
      <4>. QED
        BY <4>1, <4>2, Zenon
    <3>2. q = [at |-> At(beg, S + f), bytes |-> SubSeq(all, f + 1, d)] /\ q.at = PB
      BY <3>1, Zenon
    <3>3. (PB % PAGE) + (d - f) <= PAGE /\ 0 <= f /\ d <= Len(buf) + 1 /\ d \in Int /\ f \in Int
      BY <1>1, <2>1
    <3>. HIDE DEF q, all, S
    <3>. QED
      BY <2>1, <3>2, <3>3, Zenon DEF InPlace, all, S
  <2>8. ProcessBlocks = << p, q >>
    <3>1. B1 = << p >> /\ B2 = << q >>
      BY <2>1, <2>4, <2>5, Zenon
    <3>. HIDE DEF p, q, B1, B2, all
    <3>2. ProcessBlocks = << p >> \o << q >>
      BY <1>5, <1>9, <3>1, Zenon
    <3>3. << p >> \o << q >> = << p, q >>
      BY TwoInOne, Zenon
    <3>. QED
      BY <3>2, <3>3, Zenon
  <2>. HIDE DEF p, q
  <2>. QED
    BY <2>6, <2>7, <2>8, Zenon DEF Todo
<1>. QED
  BY <1>7, <1>8, <1>9, Zenon

\* What is behind the end may be overwritten with anything but tags.
LEMMA LogBehind ==
  ASSUME NEW m, NEW m2, NEW tag, NEW b, NEW e, NEW sd, NEW sp, LogAt(m, tag, b, e, sd, sp),
         \A i \in 0 .. SIZE - 1 : i <= Size(b, e) => m2[At(b, i)] = m[At(b, i)],
         \A i \in 0 .. SIZE - 1 : m2[At(b, i)] \in {BEG, END} => m[At(b, i)] \in {BEG, END}
  PROVE  LogAt(m2, tag, b, e, sd, sp)
<1>. DEFINE S == Size(b, e)
<1>1. b \in Cells /\ e \in PB .. PE /\ S < SIZE /\ m[b] = tag /\ m[At(b, S)] = END
  BY DEF LogAt
<1>2. S \in Nat /\ S >= 1 /\ S <= SIZE - 1 /\ SIZE \in Nat /\ SIZE >= 2 /\ At(b, 0) = b
  BY <1>1, LogSizes, Zenon
<1>. HIDE DEF S
<1>3. /\ 0 \in 0 .. SIZE - 1 /\ S \in 0 .. SIZE - 1 /\ 1 \in 0 .. SIZE - 1 /\ 0 <= S /\ S <= S /\ 1 <= S
      /\ \A i \in 1 .. SIZE - 1 : i \in 0 .. SIZE - 1
      /\ \A i \in 1 .. S - 1 : i \in 0 .. SIZE - 1 /\ i <= S /\ i + 1 \in 0 .. SIZE - 1 /\ i + 1 <= S
  BY <1>2
<1>4. m2[b] = tag /\ m2[At(b, S)] = END /\ m2[At(b, 1)] = m[At(b, 1)]
  BY <1>1, <1>2, <1>3, Zenon DEF S
<1>5. OnlyTags(m2, b, e, sp)
  BY <1>3, Zenon DEF OnlyTags, LogAt
<1>6. Body(m2, b, e, sd)
  <2>. SUFFICES ASSUME NEW i \in 1 .. S - 1
                PROVE  IsByte(m2[At(b, i)], sd) /\ Follows(m2[At(b, i)], m2[At(b, i + 1)], sd)
    BY Zenon DEF Body, S
  <2>1. IsByte(m[At(b, i)], sd) /\ Follows(m[At(b, i)], m[At(b, i + 1)], sd)
    BY Zenon DEF LogAt, Body, S
  <2>2. m2[At(b, i)] = m[At(b, i)]
    BY <1>3, Zenon DEF S
  <2>3. m2[At(b, i + 1)] = m[At(b, i + 1)]
    BY <1>3, Zenon DEF S
  <2>. QED
    BY <2>1, <2>2, <2>3, Zenon
<1>. QED
  BY <1>1, <1>4, <1>5, <1>6, Zenon DEF LogAt, S

\* A write of the flush, by places of the ring.
LEMMA PieceWritten ==
  ASSUME TypeOK, beg \in Cells, Size(beg, end) + (Len(buf) + 1) <= SIZE, Size(beg, end) < SIZE,
         NEW p, NEW j \in Int, NEW n \in Int, InPlace(beg, end, buf, p, j, n)
  PROVE  LET S == Size(beg, end)
         IN \A i \in 0 .. SIZE - 1 :
              WriteBlock(mem, p)[At(beg, i)] =
                IF S + j <= i /\ i < S + n THEN Append(buf, END)[(i - S) + 1] ELSE mem[At(beg, i)]
<1>. DEFINE S == Size(beg, end)
            all == Append(buf, END)
            d == Len(buf) + 1
            x == At(beg, S + j)
            l == n - j
<1>1. /\ buf \in Seq(Byte) /\ Len(buf) \in Nat /\ Len(buf) <= PAGE /\ PAGE \in Nat /\ PAGE >= 2 /\ d \in Nat
      /\ mem \in [Cells -> Byte] /\ end \in PB .. PE /\ beg \in PB .. PE - 1
      /\ PB \in Nat /\ PE \in Nat /\ SIZE = PE - PB /\ SIZE \in Nat /\ PE % PAGE = 0
  BY Sizes, SMTT(20) DEF TypeOK, Cells, SIZE
<1>2. /\ S \in Nat /\ S >= 1 /\ S <= SIZE - 1
      /\ \A i \in 0 .. SIZE - 1 : At(beg, i) \in Cells /\ Off(beg, At(beg, i)) = i
  BY <1>1, LogSizes, Zenon
<1>3. all \in Seq(Byte) /\ Len(all) = d
  BY <1>1, AllIs, Zenon
<1>4. /\ p = [at |-> x, bytes |-> SubSeq(all, j + 1, n)]
      /\ (p.at % PAGE) + (n - j) <= PAGE /\ 0 <= j /\ j < n /\ n <= d
  BY Zenon DEF InPlace
<1>. HIDE DEF d
<1>5. p.at = x /\ p.bytes = SubSeq(all, j + 1, n)
  BY <1>4
<1>. HIDE DEF S
<1>6. S + j \in 0 .. SIZE - 1 /\ S + d <= SIZE /\ l \in 1 .. d /\ l \in Nat
  BY <1>1, <1>2, <1>4 DEF S, d
<1>7. x \in Cells /\ Off(beg, x) = S + j /\ x \in Nat
  <2>1. x \in Cells /\ Off(beg, x) = S + j
    BY <1>2, <1>6, Zenon
  <2>. QED
    BY <1>1, <2>1 DEF Cells
<1>. HIDE DEF x
<1>8. /\ Len(p.bytes) = l /\ p.bytes \in Seq(Byte)
      /\ \A k \in 1 .. l : p.bytes[k] = all[j + k]
  <2>1. j + 1 \in 1 .. Len(all) + 1 /\ n \in 0 .. Len(all) /\ j + 1 <= n
    BY <1>1, <1>3, <1>4
  <2>. HIDE DEF all
  <2>2. /\ SubSeq(all, j + 1, n) \in Seq(Byte) /\ Len(SubSeq(all, j + 1, n)) = (n - (j + 1)) + 1
        /\ \A k \in 1 .. (n - (j + 1)) + 1 : SubSeq(all, j + 1, n)[k] = all[((j + 1) + k) - 1]
    BY <1>3, <2>1, PartIs, SMTT(30)
  <2>3. (n - (j + 1)) + 1 = l /\ \A k \in 1 .. l : ((j + 1) + k) - 1 = j + k
    OBVIOUS
  <2>. QED
    BY <1>5, <2>2, <2>3
<1>9. p \in Piece
  <2>. HIDE DEF all
  <2>1. SubSeq(all, j + 1, n) \in Seq(Byte)
    BY <1>5, <1>8
  <2>. QED
    BY <1>4, <1>7, <2>1 DEF Piece
<1>10. x + l <= PE
  <2>. DEFINE r == x % PAGE
  <2>1. r + l <= PAGE /\ r \in 0 .. PAGE - 1
    BY <1>4, <1>5, <1>7, DivMod, Zenon
  <2>2. (x \div PAGE) * PAGE = x - r /\ (x \div PAGE) * PAGE + PAGE <= PE
    <3>1. x < PE
      BY <1>1, <1>7 DEF Cells
    <3>. QED
      BY <1>7, <3>1, PageStart, Zenon
  <2>. DEFINE y == (x \div PAGE) * PAGE
  <2>. HIDE DEF r, y
  <2>3. y = x - r /\ y + PAGE <= PE
    BY <2>2, Zenon DEF y, r
  <2>4. r + l <= PAGE /\ r \in 0 .. PAGE - 1
    BY <2>1, Zenon DEF r
  <2>. QED
    BY <1>1, <1>6, <1>7, <2>3, <2>4
<1>. SUFFICES ASSUME NEW i \in 0 .. SIZE - 1
              PROVE  WriteBlock(mem, p)[At(beg, i)] =
                       IF S + j <= i /\ i < S + n THEN all[(i - S) + 1] ELSE mem[At(beg, i)]
  BY Zenon DEF S
<1>. DEFINE a == At(beg, i)
<1>11. WriteBlock(mem, p)[a] = IF x <= a /\ a < x + l THEN p.bytes[(a - x) + 1] ELSE mem[a]
  <2>1. (p.at % PAGE) + Len(p.bytes) <= PAGE
    BY <1>4, <1>8, Zenon
  <2>2. a \in Cells
    BY <1>2, Zenon
  <2>. QED
    BY <1>1, <1>5, <1>8, <1>9, <2>1, <2>2, Written, Zenon
<1>12. /\ (x <= a /\ a < x + l) <=> (S + j <= i /\ i < S + n)
       /\ x <= a /\ a < x + l => a - x = i - (S + j)
  <2>1. x = IF beg + (S + j) < PE THEN beg + (S + j) ELSE (beg + (S + j)) - SIZE
    BY DEF x, At
  <2>2. a = IF beg + i < PE THEN beg + i ELSE (beg + i) - SIZE
    BY DEF At
  <2>. HIDE DEF a
  <2>. QED
    BY <1>1, <1>2, <1>4, <1>6, <1>10, <2>1, <2>2
<1>13. CASE S + j <= i /\ i < S + n
  <2>1. (a - x) + 1 \in 1 .. l /\ j + ((a - x) + 1) = (i - S) + 1
    BY <1>2, <1>4, <1>6, <1>12, <1>13
  <2>2. p.bytes[(a - x) + 1] = all[j + ((a - x) + 1)]
    BY <1>8, <2>1, Zenon
  <2>3. WriteBlock(mem, p)[a] = p.bytes[(a - x) + 1]
    BY <1>11, <1>12, <1>13, Zenon
  <2>. QED
    BY <1>13, <2>1, <2>2, <2>3, Zenon
<1>14. CASE ~ (S + j <= i /\ i < S + n)
  <2>1. WriteBlock(mem, p)[a] = mem[a]
    BY <1>11, <1>12, <1>14, Zenon
  <2>. QED
    BY <1>14, <2>1, Zenon
<1>. QED
  BY <1>13, <1>14, Zenon

(***************************************************************************)
(* In the middle of the flush: with j bytes written, and t still to be,    *)
(* the log is what it was if one looks away from the bytes written.        *)
(***************************************************************************)
Before(b, e, m, j) ==
  [a \in Cells |-> LET i == Off(b, a)
                       S == Size(b, e)
                   IN IF i = S /\ j > 0 THEN END
                      ELSE IF S < i /\ i < S + j THEN DEL ELSE m[a]]

Writing(b, e, u, sd, m, t, sp, j) ==
  /\ j \in 0 .. Len(u) + 1
  /\ Size(b, e) + (Len(u) + 1) <= SIZE
  /\ LogAt(Before(b, e, m, j), BEG, b, e, sd, sp)
  /\ \A k \in 1 .. j : m[At(b, Size(b, e) + (k - 1))] = Append(u, END)[k]
  /\ Todo(b, e, u, t, j)

\* The strings in the buffer lie one after the other, END behind them.
BufferHolds ==
  /\ Opens(Append(buf, END)[1], said)
  /\ \A k \in 1 .. Len(buf) :
       IsByte(Append(buf, END)[k], said) /\ Follows(Append(buf, END)[k], Append(buf, END)[k + 1], said)

LEMMA BeforeIs ==
  ASSUME NEW m, NEW j, beg \in Cells, end \in PB .. PE, Size(beg, end) < SIZE
  PROVE  \A i \in 0 .. SIZE - 1 :
           Before(beg, end, m, j)[At(beg, i)] = IF i = Size(beg, end) /\ j > 0 THEN END
                                      ELSE IF Size(beg, end) < i /\ i < Size(beg, end) + j THEN DEL
                                      ELSE m[At(beg, i)]
<1>. SUFFICES ASSUME NEW i \in 0 .. SIZE - 1
              PROVE  Before(beg, end, m, j)[At(beg, i)] = IF i = Size(beg, end) /\ j > 0 THEN END
                                      ELSE IF Size(beg, end) < i /\ i < Size(beg, end) + j THEN DEL
                                      ELSE m[At(beg, i)]
  OBVIOUS
<1>1. At(beg, i) \in Cells /\ Off(beg, At(beg, i)) = i
  BY LogSizes, Zenon
<1>2. Before(beg, end, m, j)[At(beg, i)] =
        LET x == Off(beg, At(beg, i))
        IN IF x = Size(beg, end) /\ j > 0 THEN END
           ELSE IF Size(beg, end) < x /\ x < Size(beg, end) + j THEN DEL ELSE m[At(beg, i)]
  BY <1>1, Zenon DEF Before
<1>. QED
  BY <1>1, <1>2, Zenon

LEMMA WriteStarts ==
  ASSUME TypeOK, NEW sp, LogAt(mem, BEG, beg, end, said, sp),
         Len(buf) + 1 <= FreeBehind + FreeBefore,
         ~ (Len(buf) + 1 > PAGE /\ end % PAGE = PAGE - 1)
  PROVE  Writing(beg, end, buf, said, mem, ProcessBlocks, sp, 0)
<1>. DEFINE S == Size(beg, end)
<1>1. beg \in Cells /\ end \in PB .. PE /\ S < SIZE /\ said \in Seq(1 .. PAGE)
  BY Zenon DEF LogAt, TypeOK
<1>2. S + (Len(buf) + 1) <= SIZE
  BY <1>1, Room, Zenon
<1>3. Todo(beg, end, buf, ProcessBlocks, 0)
  BY <1>1, ProcessIs, Zenon
<1>4. 0 \in 0 .. Len(buf) + 1 /\ ~ \E k \in 1 .. 0 : TRUE
  <2>1. Len(buf) \in Nat
    BY DEF TypeOK
  <2>. QED
    BY <2>1
<1>5. LogAt(Before(beg, end, mem, 0), BEG, beg, end, said, sp)
  <2>1. \A i \in 0 .. SIZE - 1 : Before(beg, end, mem, 0)[At(beg, i)] = mem[At(beg, i)]
    <3>1. SIZE \in Nat /\ S \in Nat
      BY <1>1, LogSizes, Zenon
    <3>. TAKE i \in 0 .. SIZE - 1
    <3>. HIDE DEF S
    <3>2. ~ (0 > 0) /\ ~ (S < i /\ i < S + 0)
      BY <3>1
    <3>. QED
      BY <1>1, <3>2, BeforeIs, Zenon DEF S
  <2>. QED
    BY <2>1, LogBehind, Zenon
<1>. QED
  BY <1>2, <1>3, <1>4, <1>5, Zenon DEF Writing

LEMMA WriteGoesOn ==
  ASSUME TypeOK, NEW sp, NEW j, Writing(beg, end, buf, said, mem, todo, sp, j), todo # << >>
  PROVE  /\ \E n : Writing(beg, end, buf, said, WriteBlock(mem, Head(todo)), Tail(todo), sp, n)
         /\ \A i \in 1 .. Size(beg, end) - 1 : WriteBlock(mem, Head(todo))[At(beg, i)] = mem[At(beg, i)]
<1>. DEFINE S == Size(beg, end)
            d == Len(buf) + 1
            all == Append(buf, END)
            p == Head(todo)
            m2 == WriteBlock(mem, p)
<1>1. /\ LogAt(Before(beg, end, mem, j), BEG, beg, end, said, sp)
      /\ beg \in Cells /\ end \in PB .. PE /\ S < SIZE /\ S + d <= SIZE /\ j \in 0 .. d
      /\ \A k \in 1 .. j : mem[At(beg, S + (k - 1))] = all[k]
  BY Zenon DEF Writing, LogAt
<1>2. d \in Nat /\ j \in Nat /\ j \in Int
  <2>1. Len(buf) \in Nat
    BY DEF TypeOK
  <2>. QED
    BY <1>1, <2>1
<1>3. PICK n : InPlace(beg, end, buf, p, j, n) /\ n \in Int /\ Todo(beg, end, buf, Tail(todo), n)
  <2>1. CASE \E q : todo = << q >> /\ InPlace(beg, end, buf, q, j, d)
    <3>1. PICK q : todo = << q >> /\ InPlace(beg, end, buf, q, j, d)
      BY <2>1, Zenon
    <3>2. Head(todo) = q /\ Tail(todo) = << >>
      BY <3>1
    <3>3. d \in Int
      BY <1>2
    <3>. QED
      BY <3>1, <3>2, <3>3, Zenon DEF Todo
  <2>2. CASE \E q, r, k : todo = << q, r >> /\ InPlace(beg, end, buf, q, j, k) /\ InPlace(beg, end, buf, r, k, d)
    <3>1. PICK q, r, k : todo = << q, r >> /\ InPlace(beg, end, buf, q, j, k) /\ InPlace(beg, end, buf, r, k, d)
      BY <2>2, Zenon
    <3>2. Head(todo) = q /\ Tail(todo) = << r >>
      BY <3>1
    <3>3. k \in Int
      BY <3>1, Zenon DEF InPlace
    <3>. QED
      BY <3>1, <3>2, <3>3, Zenon DEF Todo
  <2>. QED
    BY <2>1, <2>2, Zenon DEF Writing, Todo
<1>. HIDE DEF p
<1>4. j < n /\ n <= d /\ n \in 0 .. d
  <2>1. j < n /\ n <= d
    BY <1>3, Zenon DEF InPlace
  <2>. QED
    BY <1>2, <1>3, <2>1
<1>5. \A i \in 0 .. SIZE - 1 :
        m2[At(beg, i)] = IF S + j <= i /\ i < S + n THEN all[(i - S) + 1] ELSE mem[At(beg, i)]
  BY <1>1, <1>2, <1>3, PieceWritten, Zenon
<1>6. S \in Nat /\ S >= 1 /\ S <= SIZE - 1 /\ SIZE \in Nat
  BY <1>1, LogSizes, Zenon
<1>. HIDE DEF m2, S, d, all
<1>7. \A k \in 1 .. n : m2[At(beg, S + (k - 1))] = all[k]
  <2>. TAKE k \in 1 .. n
  <2>1. /\ S + (k - 1) \in 0 .. SIZE - 1 /\ ((S + (k - 1)) - S) + 1 = k
        /\ (S + j <= S + (k - 1) /\ S + (k - 1) < S + n) \/ k \in 1 .. j
        /\ k \in 1 .. j => ~ (S + j <= S + (k - 1))
    BY <1>1, <1>2, <1>4, <1>6
  <2>. QED
    BY <1>1, <1>5, <2>1, Zenon
<1>8. LogAt(Before(beg, end, m2, n), BEG, beg, end, said, sp)
  <2>1. \A i \in 0 .. SIZE - 1 :
          Before(beg, end, mem, j)[At(beg, i)] = IF i = S /\ j > 0 THEN END
                                      ELSE IF S < i /\ i < S + j THEN DEL ELSE mem[At(beg, i)]
    BY <1>1, BeforeIs, Zenon DEF S
  <2>2. \A i \in 0 .. SIZE - 1 :
          Before(beg, end, m2, n)[At(beg, i)] = IF i = S /\ n > 0 THEN END
                                      ELSE IF S < i /\ i < S + n THEN DEL ELSE m2[At(beg, i)]
    BY <1>1, BeforeIs, Zenon DEF S
  <2>3. Before(beg, end, mem, j)[At(beg, S)] = END
    BY <1>1, Zenon DEF LogAt, S
  <2>4. ASSUME NEW i \in 0 .. SIZE - 1, i <= S
        PROVE  Before(beg, end, m2, n)[At(beg, i)] = Before(beg, end, mem, j)[At(beg, i)]
    <3>1. CASE i = S
      <4>1. n > 0
        BY <1>2, <1>4
      <4>. QED
        BY <2>2, <2>3, <3>1, <4>1, Zenon
    <3>2. CASE i # S
      <4>1. ~ (S < i) /\ ~ (S + j <= i)
        BY <1>2, <1>6, <2>4, <3>2
      <4>. QED
        BY <1>5, <2>1, <2>2, <3>2, <4>1, Zenon
    <3>. QED
      BY <3>1, <3>2
  <2>5. ASSUME NEW i \in 0 .. SIZE - 1, Before(beg, end, m2, n)[At(beg, i)] \in {BEG, END}
        PROVE  Before(beg, end, mem, j)[At(beg, i)] \in {BEG, END}
    <3>1. CASE i <= S
      BY <2>4, <2>5, <3>1, Zenon
    <3>2. CASE ~ (i <= S)
      <4>1. S < i /\ i # S
        BY <1>6, <3>2
      <4>2. ~ (i < S + n)
        BY <2>2, <2>5, <4>1, Tags
      <4>3. ~ (i < S + j)
        BY <1>2, <1>3, <1>4, <1>6, <4>2
      <4>. QED
        BY <1>5, <2>1, <2>2, <2>5, <4>1, <4>2, <4>3, Zenon
    <3>. QED
      BY <3>1, <3>2
  <2>. QED
    BY <1>1, <2>4, <2>5, LogBehind, Zenon DEF S
<1>9. Writing(beg, end, buf, said, m2, Tail(todo), sp, n)
  BY <1>1, <1>3, <1>4, <1>7, <1>8, Zenon DEF Writing, S, d, all
<1>10. \A i \in 1 .. S - 1 : m2[At(beg, i)] = mem[At(beg, i)]
  <2>. TAKE i \in 1 .. S - 1
  <2>1. i \in 0 .. SIZE - 1 /\ ~ (S + j <= i)
    BY <1>2, <1>6
  <2>. QED
    BY <1>5, <2>1, Zenon
<1>. QED
  BY <1>9, <1>10, Zenon DEF m2, p, S

LEMMA EndMoves ==
  ASSUME NEW b \in Cells, NEW e \in PB .. PE, NEW n \in Nat, Size(b, e) < SIZE, Size(b, e) + n < SIZE
  PROVE  AddOffset(e, n) \in PB .. PE /\ Size(b, AddOffset(e, n)) = Size(b, e) + n
<1>1. b \in PB .. PE - 1 /\ PB \in Nat /\ PE \in Nat /\ SIZE = PE - PB /\ PB < PE
  BY Sizes DEF Cells, SIZE
<1>2. AddOffset(e, n) = IF e + n > PE THEN (e + n) - SIZE ELSE e + n
  BY DEF AddOffset, SIZE
<1>. QED
  BY <1>1, <1>2 DEF Size

\* What the flush has written: its bytes are in their places, and around them
\* nothing has changed.
LEMMA WrittenIs ==
  ASSUME TypeOK, BufferHolds, NEW t, NEW sp, NEW j, Writing(beg, end, buf, said, mem, t, sp, j)
  PROVE  LET S == Size(beg, end)
             all == Append(buf, END)
         IN /\ beg \in Cells /\ end \in PB .. PE /\ S \in Nat /\ S >= 1 /\ S <= SIZE - 1 /\ SIZE \in Nat
            /\ Len(buf) \in Nat /\ S + (Len(buf) + 1) <= SIZE /\ j \in 0 .. Len(buf) + 1
            /\ mem[beg] = BEG
            /\ \A i \in 1 .. SIZE - 1 :
                 /\ i < S => IsByte(mem[At(beg, i)], said)
                 /\ i < S - 1 => Follows(mem[At(beg, i)], mem[At(beg, i + 1)], said)
                 /\ i = S - 1 => Follows(mem[At(beg, i)], END, said)
                 /\ S <= i /\ i < S + j => mem[At(beg, i)] = all[(i - S) + 1]
                 /\ i >= S + j /\ mem[At(beg, i)] \in {BEG, END} =>
                      (i = S /\ j = 0) \/ ("reset" \in sp /\ i > S /\ beg + i < PE)
            /\ "exact" \notin sp => (S > 1 => Opens(mem[At(beg, 1)], said))
<1>. DEFINE S == Size(beg, end)
            all == Append(buf, END)
            o == Before(beg, end, mem, j)
<1>1. /\ LogAt(o, BEG, beg, end, said, sp)
      /\ beg \in Cells /\ end \in PB .. PE /\ S < SIZE /\ S + (Len(buf) + 1) <= SIZE /\ j \in 0 .. Len(buf) + 1
      /\ \A k \in 1 .. j : mem[At(beg, S + (k - 1))] = all[k]
      /\ o[beg] = BEG /\ o[At(beg, S)] = END
  BY Zenon DEF Writing, LogAt
<1>2. Len(buf) \in Nat
  BY DEF TypeOK
<1>3. /\ S \in Nat /\ S >= 1 /\ S <= SIZE - 1 /\ SIZE \in Nat /\ SIZE >= 2
      /\ \A i \in 0 .. SIZE - 1 : At(beg, i) \in Cells /\ Off(beg, At(beg, i)) = i
      /\ At(beg, 0) = beg
  BY <1>1, LogSizes, Zenon
<1>4. \A i \in 0 .. SIZE - 1 :
        o[At(beg, i)] = IF i = S /\ j > 0 THEN END
                        ELSE IF S < i /\ i < S + j THEN DEL ELSE mem[At(beg, i)]
  BY <1>1, BeforeIs, Zenon
<1>5. j \in Nat
  BY <1>1, <1>2
<1>. HIDE DEF S, all, o
<1>6. \A i \in 0 .. SIZE - 1 : i < S => o[At(beg, i)] = mem[At(beg, i)]
  <2>. TAKE i \in 0 .. SIZE - 1
  <2>1. i < S => i # S /\ ~ (S < i)
    BY <1>3
  <2>. QED
    BY <1>4, <2>1, Zenon
<1>7. mem[beg] = BEG
  <2>1. 0 \in 0 .. SIZE - 1 /\ 0 < S
    BY <1>3
  <2>. QED
    BY <1>1, <1>3, <1>6, <2>1, Zenon
<1>8. ASSUME NEW i \in 1 .. SIZE - 1, i < S
      PROVE  /\ IsByte(mem[At(beg, i)], said)
             /\ i < S - 1 => Follows(mem[At(beg, i)], mem[At(beg, i + 1)], said)
             /\ i = S - 1 => Follows(mem[At(beg, i)], END, said)
  <2>1. /\ i \in 0 .. SIZE - 1 /\ i \in 1 .. S - 1 /\ i + 1 \in 0 .. SIZE - 1
        /\ i < S - 1 => i + 1 < S
        /\ i = S - 1 => i + 1 = S
    BY <1>3, <1>8
  <2>2. IsByte(o[At(beg, i)], said) /\ Follows(o[At(beg, i)], o[At(beg, i + 1)], said)
    BY <1>1, <2>1, Zenon DEF LogAt, Body, S
  <2>3. o[At(beg, i)] = mem[At(beg, i)]
    BY <1>6, <1>8, <2>1, Zenon
  <2>4. i < S - 1 => o[At(beg, i + 1)] = mem[At(beg, i + 1)]
    BY <1>6, <2>1, Zenon
  <2>5. i = S - 1 => o[At(beg, i + 1)] = END
    BY <1>1, <2>1, Zenon
  <2>. QED
    BY <2>2, <2>3, <2>4, <2>5, Zenon
<1>9. ASSUME NEW i \in 1 .. SIZE - 1, S <= i, i < S + j
      PROVE  mem[At(beg, i)] = all[(i - S) + 1]
  <2>1. (i - S) + 1 \in 1 .. j /\ S + (((i - S) + 1) - 1) = i
    BY <1>3, <1>5, <1>9
  <2>. QED
    BY <1>1, <2>1, Zenon
<1>10. ASSUME NEW i \in 1 .. SIZE - 1, i >= S + j, mem[At(beg, i)] \in {BEG, END}
       PROVE  (i = S /\ j = 0) \/ ("reset" \in sp /\ i > S /\ beg + i < PE)
  <2>1. i \in 0 .. SIZE - 1 /\ ~ (i = S /\ j > 0) /\ ~ (i < S + j) /\ (i = S => j = 0)
    BY <1>3, <1>5, <1>10
  <2>2. o[At(beg, i)] = mem[At(beg, i)]
    BY <1>4, <2>1, Zenon
  <2>. QED
    BY <1>1, <1>10, <2>1, <2>2, Zenon DEF LogAt, OnlyTags, S
<1>11. ASSUME "exact" \notin sp, S > 1 PROVE Opens(mem[At(beg, 1)], said)
  <2>1. 1 \in 0 .. SIZE - 1 /\ 1 < S
    BY <1>3, <1>11
  <2>. QED
    BY <1>1, <1>6, <1>11, <2>1, Zenon DEF LogAt
<1>12. \A i \in 1 .. SIZE - 1 :
         /\ i < S => IsByte(mem[At(beg, i)], said)
         /\ i < S - 1 => Follows(mem[At(beg, i)], mem[At(beg, i + 1)], said)
         /\ i = S - 1 => Follows(mem[At(beg, i)], END, said)
         /\ S <= i /\ i < S + j => mem[At(beg, i)] = all[(i - S) + 1]
         /\ i >= S + j /\ mem[At(beg, i)] \in {BEG, END} =>
              (i = S /\ j = 0) \/ ("reset" \in sp /\ i > S /\ beg + i < PE)
  <2>. TAKE i \in 1 .. SIZE - 1
  <2>1. i < S - 1 => i < S
    BY <1>3
  <2>2. i = S - 1 => i < S
    BY <1>3
  <2>. QED
    BY <1>8, <1>9, <1>10, <2>1, <2>2, Zenon
<1>. QED
  BY <1>1, <1>2, <1>3, <1>7, <1>11, <1>12, Zenon DEF S, all

LEMMA BufferBytes ==
  ASSUME TypeOK, BufferHolds
  PROVE  \A k \in 1 .. Len(buf) : Append(buf, END)[k] \notin {BEG, END}
<1>. TAKE k \in 1 .. Len(buf)
<1>1. IsByte(Append(buf, END)[k], said)
  BY Zenon DEF BufferHolds
<1>2. said \in Seq(1 .. PAGE)
  BY DEF TypeOK
<1>. DEFINE y == Append(buf, END)[k]
<1>. HIDE DEF y
<1>3. y \notin {BEG, END, DEL}
  BY <1>1, <1>2, ByteIs, Zenon DEF y
<1>. QED
  BY <1>3, Zenon DEF y

\* A string's last byte is followed by what opens another.
LEMMA Joins ==
  ASSUME NEW x, NEW y, NEW sd, Follows(x, END, sd), Opens(y, sd)
  PROVE  Follows(x, y, sd)
<1>1. \A m, k, len : Text(m, k, len) # END
  BY TextIsNot
<1>. QED
  BY <1>1, Zenon DEF Follows

\* All is written: the log goes on to the new END.
LEMMA WriteEnds ==
  ASSUME TypeOK, BufferHolds, NEW sp, NEW j, Writing(beg, end, buf, said, mem, << >>, sp, j)
  PROVE  LogAt(mem, BEG, beg, AddOffset(end, Len(buf)), said, sp)
<1>. DEFINE S == Size(beg, end)
            all == Append(buf, END)
            L == Len(buf)
            e == AddOffset(end, L)
            T == S + L
<1>1. /\ beg \in Cells /\ end \in PB .. PE /\ S \in Nat /\ S >= 1 /\ S <= SIZE - 1 /\ SIZE \in Nat
      /\ L \in Nat /\ S + (L + 1) <= SIZE /\ j \in 0 .. L + 1
      /\ mem[beg] = BEG
      /\ \A i \in 1 .. SIZE - 1 :
           /\ i < S => IsByte(mem[At(beg, i)], said)
           /\ i < S - 1 => Follows(mem[At(beg, i)], mem[At(beg, i + 1)], said)
           /\ i = S - 1 => Follows(mem[At(beg, i)], END, said)
           /\ S <= i /\ i < S + j => mem[At(beg, i)] = all[(i - S) + 1]
           /\ i >= S + j /\ mem[At(beg, i)] \in {BEG, END} =>
                (i = S /\ j = 0) \/ ("reset" \in sp /\ i > S /\ beg + i < PE)
      /\ "exact" \notin sp => (S > 1 => Opens(mem[At(beg, 1)], said))
  BY WrittenIs, Zenon
<1>2. j = L + 1
  <2>1. Todo(beg, end, buf, << >>, j)
    BY Zenon DEF Writing
  <2>2. \A p, q : << >> # << p >> /\ << >> # << p, q >>
    OBVIOUS
  <2>. QED
    BY <2>1, <2>2, Zenon DEF Todo
<1>3. e \in PB .. PE /\ Size(beg, e) = T /\ T < SIZE /\ T \in Nat /\ T >= 1
  <2>1. S < SIZE /\ T < SIZE /\ T \in Nat /\ T >= 1
    BY <1>1
  <2>. HIDE DEF L
  <2>. QED
    BY <1>1, <2>1, EndMoves, Zenon
<1>4. all[L + 1] = END
  <2>1. buf \in Seq(Byte) /\ Len(buf) <= PAGE
    BY DEF TypeOK
  <2>. QED
    BY <2>1, AllIs, Zenon
<1>5. Opens(all[1], said) /\ \A k \in 1 .. L : IsByte(all[k], said) /\ Follows(all[k], all[k + 1], said)
  BY Zenon DEF BufferHolds
<1>6. \A k \in 1 .. L : all[k] \notin {BEG, END}
  BY BufferBytes, Zenon
<1>. HIDE DEF S, all, L, e, T
<1>7. \A i \in 1 .. SIZE - 1 : S <= i /\ i <= T => mem[At(beg, i)] = all[(i - S) + 1]
  <2>1. \A i \in 1 .. SIZE - 1 : i <= T => i < S + j
    BY <1>1, <1>2 DEF T
  <2>. QED
    BY <1>1, <2>1, Zenon
<1>8. mem[At(beg, T)] = END
  <2>1. T \in 1 .. SIZE - 1 /\ S <= T /\ T <= T /\ (T - S) + 1 = L + 1
    BY <1>1, <1>3 DEF T
  <2>. QED
    BY <1>4, <1>7, <2>1, Zenon
<1>9. OnlyTags(mem, beg, e, sp)
  <2>. SUFFICES ASSUME NEW i \in 1 .. SIZE - 1, mem[At(beg, i)] \in {BEG, END}
                PROVE  i = T \/ ("reset" \in sp /\ i > T /\ beg + i < PE)
    BY <1>3, Zenon DEF OnlyTags
  <2>1. CASE i < S
    <3>1. IsByte(mem[At(beg, i)], said) /\ said \in Seq(1 .. PAGE)
      BY <1>1, <2>1 DEF TypeOK
    <3>. DEFINE y == mem[At(beg, i)]
    <3>. HIDE DEF y
    <3>2. y \notin {BEG, END, DEL}
      BY <3>1, ByteIs, Zenon DEF y
    <3>. QED
      BY <3>2, Zenon DEF y
  <2>2. CASE S <= i /\ i <= T
    <3>1. mem[At(beg, i)] = all[(i - S) + 1]
      BY <1>7, <2>2, Zenon
    <3>2. (i - S) + 1 \notin 1 .. L
      BY <1>6, <3>1, Zenon
    <3>3. S \in Nat /\ L \in Nat /\ i \in Int
      BY <1>1
    <3>4. i = S + L
      BY <2>2, <3>2, <3>3 DEF T
    <3>. QED
      BY <3>4 DEF T
  <2>3. CASE i > T
    <3>1. i >= S + j /\ i # S
      BY <1>1, <1>2, <2>3 DEF T
    <3>2. "reset" \in sp /\ beg + i < PE
      BY <1>1, <3>1, Zenon
    <3>. QED
      BY <2>3, <3>2, Zenon
  <2>. QED
    BY <1>1, <1>3, <2>1, <2>2, <2>3
<1>10. Body(mem, beg, e, said)
  <2>. SUFFICES ASSUME NEW i \in 1 .. T - 1
                PROVE  IsByte(mem[At(beg, i)], said) /\ Follows(mem[At(beg, i)], mem[At(beg, i + 1)], said)
    BY <1>3, Zenon DEF Body
  <2>0. i \in 1 .. SIZE - 1 /\ i + 1 \in 1 .. SIZE - 1
    BY <1>1, <1>3
  <2>1. CASE i < S - 1
    <3>1. i < S
      BY <1>1, <2>1
    <3>. QED
      BY <1>1, <2>0, <2>1, <3>1, Zenon
  <2>2. CASE i = S - 1
    <3>1. i < S /\ S <= i + 1 /\ i + 1 <= T /\ ((i + 1) - S) + 1 = 1
      BY <1>1, <2>2 DEF T
    <3>2. mem[At(beg, i + 1)] = all[1]
      BY <1>7, <2>0, <3>1, Zenon
    <3>3. IsByte(mem[At(beg, i)], said) /\ Follows(mem[At(beg, i)], END, said)
      BY <1>1, <2>0, <2>2, <3>1, Zenon
    <3>. QED
      BY <1>5, <3>2, <3>3, Joins, Zenon
  <2>3. CASE i >= S
    <3>1. /\ S <= i /\ i <= T /\ S <= i + 1 /\ i + 1 <= T
          /\ (i - S) + 1 \in 1 .. L /\ ((i + 1) - S) + 1 = ((i - S) + 1) + 1
      BY <1>1, <1>3, <2>3 DEF T
    <3>2. mem[At(beg, i)] = all[(i - S) + 1]
      BY <1>7, <2>0, <3>1, Zenon
    <3>3. mem[At(beg, i + 1)] = all[((i - S) + 1) + 1]
      BY <1>7, <2>0, <3>1, Zenon
    <3>. QED
      BY <1>5, <3>1, <3>2, <3>3, Zenon
  <2>. QED
    BY <1>1, <1>3, <2>1, <2>2, <2>3
<1>11. ASSUME "exact" \notin sp PROVE Opens(mem[At(beg, 1)], said)
  <2>1. CASE S > 1
    BY <1>1, <1>11, <2>1, Zenon
  <2>2. CASE ~ (S > 1)
    <3>1. 1 \in 1 .. SIZE - 1 /\ S <= 1 /\ 1 <= T /\ (1 - S) + 1 = 1
      BY <1>1, <1>3, <2>2
    <3>. QED
      BY <1>5, <1>7, <3>1, Zenon
  <2>. QED
    BY <2>1, <2>2
<1>. QED
  BY <1>1, <1>3, <1>8, <1>9, <1>10, <1>11, Zenon DEF LogAt, e, L

(***************************************************************************)
(* Cut off in the middle of the flush: the old log is there, or the new    *)
(* one, or no END is, and a restart resets the log.                        *)
(***************************************************************************)
LEMMA WriteIsCut ==
  ASSUME TypeOK, BufferHolds, NEW sp, NEW j, Writing(beg, end, buf, said, mem, todo, sp, j), "reset" \notin sp
  PROVE  (\E e \in PB .. PE : LogAt(mem, BEG, beg, e, said, sp)) \/ Find(mem, END) = PE
<1>. DEFINE S == Size(beg, end)
            all == Append(buf, END)
            L == Len(buf)
<1>1. /\ beg \in Cells /\ end \in PB .. PE /\ S \in Nat /\ S >= 1 /\ S <= SIZE - 1 /\ SIZE \in Nat
      /\ L \in Nat /\ S + (L + 1) <= SIZE /\ j \in 0 .. L + 1
      /\ mem[beg] = BEG
      /\ \A i \in 1 .. SIZE - 1 :
           /\ i < S => IsByte(mem[At(beg, i)], said)
           /\ i < S - 1 => Follows(mem[At(beg, i)], mem[At(beg, i + 1)], said)
           /\ i = S - 1 => Follows(mem[At(beg, i)], END, said)
           /\ S <= i /\ i < S + j => mem[At(beg, i)] = all[(i - S) + 1]
           /\ i >= S + j /\ mem[At(beg, i)] \in {BEG, END} =>
                (i = S /\ j = 0) \/ ("reset" \in sp /\ i > S /\ beg + i < PE)
      /\ "exact" \notin sp => (S > 1 => Opens(mem[At(beg, 1)], said))
  BY WrittenIs, Zenon
<1>2. CASE j = 0
  <2>1. LogAt(Before(beg, end, mem, 0), BEG, beg, end, said, sp)
    BY <1>2, Zenon DEF Writing
  <2>2. \A i \in 0 .. SIZE - 1 : mem[At(beg, i)] = Before(beg, end, mem, 0)[At(beg, i)]
    <3>1. S < SIZE
      BY <1>1
    <3>. TAKE i \in 0 .. SIZE - 1
    <3>. HIDE DEF S
    <3>2. ~ (0 > 0) /\ ~ (S < i /\ i < S + 0)
      BY <1>1
    <3>. QED
      BY <1>1, <3>1, <3>2, BeforeIs, Zenon DEF S
  <2>3. LogAt(mem, BEG, beg, end, said, sp)
    BY <2>1, <2>2, LogBehind, Zenon
  <2>. QED
    BY <1>1, <2>3, Zenon
<1>3. CASE j = L + 1
  <2>1. Todo(beg, end, buf, << >>, j)
    BY <1>3, Zenon DEF Todo
  <2>2. Writing(beg, end, buf, said, mem, << >>, sp, j)
    BY <2>1, Zenon DEF Writing
  <2>3. LogAt(mem, BEG, beg, AddOffset(end, Len(buf)), said, sp)
    BY <2>2, WriteEnds, Zenon
  <2>4. AddOffset(end, Len(buf)) \in PB .. PE
    BY <2>3, Zenon DEF LogAt
  <2>. QED
    BY <2>3, <2>4, Zenon
<1>4. CASE j # 0 /\ j # L + 1
  <2>. SUFFICES ASSUME NEW a \in Cells, mem[a] = END PROVE FALSE
    <3>1. mem \in [Cells -> Byte]
      BY DEF TypeOK, Cells
    <3>. QED
      BY <3>1, FindIs, Zenon
  <2>. DEFINE i == Off(beg, a)
  <2>1. i \in 0 .. SIZE - 1 /\ At(beg, i) = a
    BY <1>1, Offsets, Zenon
  <2>. HIDE DEF i, S, L, all
  <2>2. i # 0
    <3>1. At(beg, 0) = beg
      BY <1>1, LogSizes DEF S
    <3>. QED
      BY <1>1, <2>1, <3>1, Tags
  <2>3. i \in 1 .. SIZE - 1 /\ mem[At(beg, i)] = END
    BY <1>1, <2>1, <2>2
  <2>4. CASE i < S
    <3>1. IsByte(END, said) /\ said \in Seq(1 .. PAGE)
      BY <1>1, <2>3, <2>4 DEF TypeOK
    <3>. QED
      BY <3>1, ByteIs, Zenon
  <2>5. CASE S <= i /\ i < S + j
    <3>1. (i - S) + 1 \in 1 .. L /\ all[(i - S) + 1] = END
      BY <1>1, <1>4, <2>3, <2>5
    <3>. QED
      BY <3>1, BufferBytes, Zenon DEF all, L
  <2>6. CASE i >= S + j
    BY <1>1, <1>4, <2>3, <2>6
  <2>. QED
    BY <1>1, <2>3, <2>4, <2>5, <2>6
<1>. QED
  BY <1>2, <1>3, <1>4

-----------------------------------------------------------------------------
(* The buffer. *)

LEMMA SaidLonger ==
  ASSUME TypeOK, NEW len \in Lengths, LOG_say(len)
  PROVE  Longer(said, said')
<1>1. /\ Len(said') = Len(said) + 1
      /\ \A m \in 1 .. Len(said) : said'[m] = said[m]
  BY SayIs, Zenon
<1>2. Len(said) \in Nat
  BY DEF TypeOK
<1>3. Len(said') \in Nat /\ Len(said) <= Len(said')
  BY <1>1, <1>2
<1>. QED
  BY <1>1, <1>2, <1>3, Zenon DEF Longer

LEMMA SayBuffers ==
  ASSUME TypeOK, BufferHolds, NEW len \in Lengths, LOG_say(len)
  PROVE  BufferHolds'
<1>. DEFINE l == Least(len, PAGE - Len(buf))
            n == Len(said) + 1
            L == Len(buf)
            all == Append(buf, END)
            new == Append(buf', END)
<1>1. /\ l \in 1 .. PAGE - 2 /\ n \in 1 .. MaxSaid /\ l + L <= PAGE
      /\ said' \in Seq(1 .. PAGE) /\ Len(said') = n
      /\ said'[n] = l
      /\ buf' \in Seq(Byte) /\ Len(buf') = L + l
      /\ \A k \in 1 .. L : buf'[k] = buf[k]
      /\ \A k \in 1 .. l : buf'[L + k] = Text(n, k, l)
  BY SayIs, Zenon
<1>2. /\ said \in Seq(1 .. PAGE) /\ buf \in Seq(Byte) /\ L <= PAGE /\ L \in Nat /\ n \in Nat /\ PAGE \in Nat
      /\ n \in 1 .. n
  BY Sizes DEF TypeOK
<1>3. Longer(said, said')
  BY SaidLonger
<1>4. /\ \A k \in 1 .. L : all[k] = buf[k]
      /\ all[L + 1] = END
  BY <1>2, AllIs, Zenon
<1>. HIDE DEF l, n
<1>5. /\ \A k \in 1 .. L + l : new[k] = buf'[k]
      /\ new[(L + l) + 1] = END /\ l \in Nat /\ l >= 1
  <2>. HIDE DEF L
  <2>1. L + l \in Nat /\ l \in Nat /\ l >= 1
    BY <1>1, <1>2
  <2>. QED
    BY <1>1, <2>1, Tags
<1>6. /\ Opens(all[1], said)
      /\ \A k \in 1 .. L : IsByte(all[k], said) /\ Follows(all[k], all[k + 1], said)
  BY Zenon DEF BufferHolds
<1>. HIDE DEF L, all, new
<1>7. \A k \in 1 .. L : new[k] = all[k]
  <2>. TAKE k \in 1 .. L
  <2>1. k \in 1 .. L + l
    BY <1>2, <1>5
  <2>. QED
    BY <1>1, <1>4, <1>5, <2>1, Zenon
<1>8. \A i \in 1 .. l : new[L + i] = Text(n, i, l)
  <2>. TAKE i \in 1 .. l
  <2>1. L + i \in 1 .. L + l
    BY <1>2, <1>5
  <2>. QED
    BY <1>1, <1>5, <2>1, Zenon
<1>9. Opens(Text(n, 1, l), said')
  BY <1>1, <1>2, Zenon DEF Opens
<1>10. Opens(new[1], said')
  <2>1. CASE L = 0
    <3>1. L + 1 = 1 /\ 1 \in 1 .. l
      BY <1>5, <2>1
    <3>. QED
      BY <1>8, <1>9, <3>1, Zenon
  <2>2. CASE L # 0
    <3>1. 1 \in 1 .. L
      BY <1>2, <2>2
    <3>. QED
      BY <1>3, <1>6, <1>7, <3>1, ByteKept, Zenon
  <2>. QED
    BY <2>1, <2>2
<1>11. ASSUME NEW k \in 1 .. L
       PROVE  IsByte(new[k], said') /\ Follows(new[k], new[k + 1], said')
  <2>1. new[k] = all[k] /\ IsByte(all[k], said) /\ Follows(all[k], all[k + 1], said)
    BY <1>6, <1>7, Zenon
  <2>2. IsByte(all[k], said') /\ Follows(all[k], all[k + 1], said')
    BY <1>2, <1>3, <2>1, ByteKept, FollowsKept, Zenon
  <2>3. CASE k = L
    <3>1. 1 \in 1 .. l
      BY <1>5
    <3>2. new[k + 1] = Text(n, 1, l)
      BY <1>8, <2>3, <3>1, Zenon
    <3>3. Follows(all[k], END, said')
      BY <1>4, <2>2, <2>3, Zenon
    <3>. QED
      BY <1>9, <2>1, <2>2, <3>2, <3>3, Joins, Zenon
  <2>4. CASE k # L
    <3>1. k + 1 \in 1 .. L
      BY <1>2, <2>4
    <3>. QED
      BY <1>7, <2>1, <2>2, <3>1, Zenon
  <2>. QED
    BY <2>3, <2>4
<1>12. ASSUME NEW i \in 1 .. l
       PROVE  IsByte(new[L + i], said') /\ Follows(new[L + i], new[(L + i) + 1], said')
  <2>1. new[L + i] = Text(n, i, l) /\ IsByte(Text(n, i, l), said')
    BY <1>1, <1>2, <1>8, Zenon DEF IsByte
  <2>2. Text(n, i, l).m = n /\ Text(n, i, l).k = i
    BY TextIsNot
  <2>3. CASE i = l
    <3>1. (L + i) + 1 = (L + l) + 1 /\ ~ (i < l)
      BY <1>5, <2>3
    <3>2. new[(L + i) + 1] = END
      BY <1>5, <3>1, Zenon
    <3>3. Opens(END, said')
      BY Zenon DEF Opens
    <3>4. Follows(Text(n, i, l), END, said')
      BY <1>1, <2>2, <3>1, <3>3, Zenon DEF Follows
    <3>. QED
      BY <2>1, <3>2, <3>4, Zenon
  <2>4. CASE i # l
    <3>1. i + 1 \in 1 .. l /\ (L + i) + 1 = L + (i + 1) /\ i < l
      BY <1>2, <1>5, <2>4
    <3>2. new[(L + i) + 1] = Text(n, i + 1, l)
      BY <1>8, <3>1, Zenon
    <3>3. Follows(Text(n, i, l), Text(n, i + 1, l), said')
      BY <1>1, <2>2, <3>1, Zenon DEF Follows
    <3>. QED
      BY <2>1, <3>2, <3>3, Zenon
  <2>. QED
    BY <2>3, <2>4
<1>13. ASSUME NEW k \in 1 .. Len(buf')
       PROVE  IsByte(new[k], said') /\ Follows(new[k], new[k + 1], said')
  <2>1. k \in 1 .. L + l
    BY <1>1, Zenon
  <2>2. CASE k <= L
    <3>1. k \in 1 .. L
      BY <1>2, <1>5, <2>1, <2>2
    <3>. QED
      BY <1>11, <3>1, Zenon
  <2>3. CASE ~ (k <= L)
    <3>1. k - L \in 1 .. l /\ L + (k - L) = k
      BY <1>2, <1>5, <2>1, <2>3
    <3>. QED
      BY <1>12, <3>1, Zenon
  <2>. QED
    BY <2>2, <2>3
<1>. QED
  BY <1>10, <1>13, Zenon DEF BufferHolds, new

\* An empty buffer holds END alone.
LEMMA EmptyBuffer ==
  ASSUME NEW sd
  PROVE  Opens(Append(<< >>, END)[1], sd) /\ ~ \E k \in 1 .. Len(<< >>) : TRUE
<1>1. Append(<< >>, END)[1] = END /\ Len(<< >>) = 0
  OBVIOUS
<1>2. ~ \E k \in 1 .. Len(<< >>) : TRUE
  BY <1>1
<1>. QED
  BY <1>1, <1>2, Zenon DEF Opens

-----------------------------------------------------------------------------
(* The reader. *)

LEMMA DistanceIs ==
  ASSUME NEW b \in Cells, NEW e \in PB .. PE, Size(b, e) < SIZE, NEW x \in Cells, Off(b, x) < Size(b, e)
  PROVE  Distance(x, e) = (Size(b, e) - Off(b, x)) - 1
<1>1. b \in PB .. PE - 1 /\ x \in PB .. PE - 1 /\ PB \in Nat /\ PE \in Nat /\ SIZE = PE - PB /\ SIZE <= 65536
  BY Sizes DEF Cells, SIZE
<1>2. /\ Size(b, e) = IF e > b THEN e - b ELSE (e - b) + SIZE
      /\ Off(b, x) = IF x >= b THEN x - b ELSE (x - b) + SIZE
  BY DEF Size, Off
<1>. DEFINE D == IF e < x THEN (e - x) + (PE - (PB + 1)) ELSE (e - x) - 1
<1>3. D = (Size(b, e) - Off(b, x)) - 1 /\ D \in 0 .. SIZE - 1
  <2>1. CASE e < x
    <3>1. D = (e - x) + (SIZE - 1)
      BY <1>1, <2>1
    <3>2. D = (Size(b, e) - Off(b, x)) - 1
      BY <1>1, <1>2, <2>1, <3>1
    <3>3. D \in 0 .. SIZE - 1
      BY <1>1, <2>1, <3>1
    <3>. QED
      BY <3>2, <3>3
  <2>2. CASE ~ (e < x)
    <3>1. D = (e - x) - 1 /\ e # x
      BY <1>1, <1>2, <2>2
    <3>2. D = (Size(b, e) - Off(b, x)) - 1
      BY <1>1, <1>2, <2>2, <3>1
    <3>3. D \in 0 .. SIZE - 1
      BY <1>1, <2>2, <3>1
    <3>. QED
      BY <3>2, <3>3
  <2>. QED
    BY <2>1, <2>2
<1>4. Distance(x, e) = D % 65536
  BY DEF Distance
<1>. HIDE DEF D
<1>5. D % 65536 = D
  BY <1>1, <1>3
<1>. QED
  BY <1>3, <1>4, <1>5

\* The place n bytes on from x, as the reader keeps it: the page, and the
\* lowest byte in it.
Turned(x, n) == IF (x % PAGE) + n < PAGE THEN x ELSE NextPage(x)
Low(x, n) == IF (x % PAGE) + n < PAGE THEN (x % PAGE) + n ELSE ((x % PAGE) + n) - PAGE

LEMMA PageAgain ==
  ASSUME NEW m, NEW x \in Nat, NEW k \in 0 .. PAGE - 1
  PROVE  PageOf(m, (x \div PAGE) * PAGE + k) = PageOf(m, x)
<1>1. ((x \div PAGE) * PAGE + k) \div PAGE = x \div PAGE
  BY PageStart, Zenon
<1>. QED
  BY <1>1, Zenon DEF PageOf

LEMMA ByteOfPage ==
  ASSUME NEW m \in [Cells -> Byte], NEW x, NEW k \in 0 .. PAGE - 1, (x \div PAGE) * PAGE + k \in Cells
  PROVE  PageOf(m, x)[k] = m[(x \div PAGE) * PAGE + k]
<1>1. DOMAIN m = Cells
  OBVIOUS
<1>. QED
  BY <1>1, Zenon DEF PageOf

LEMMA PlaceIs ==
  ASSUME NEW x \in Cells, NEW n \in 0 .. PAGE - 1
  PROVE  LET t == Turned(x, n)
             l == Low(x, n)
         IN /\ t \in Cells /\ l \in 0 .. PAGE - 1 /\ At(x, n) \in Cells
            /\ (t \div PAGE) * PAGE + l = At(x, n)
<1>. DEFINE r == x % PAGE
            p == (x \div PAGE) * PAGE
            t == Turned(x, n)
            l == Low(x, n)
<1>1. /\ x \in Nat /\ PB <= x /\ x < PE /\ x < PE + PAGE /\ n < SIZE /\ n \in 0 .. SIZE - 1
      /\ PAGE \in Nat /\ PAGE >= 2 /\ PB \in Nat /\ PE \in Nat /\ SIZE = PE - PB
      /\ PB % PAGE = 0 /\ PE % PAGE = 0
  BY Sizes DEF Cells, SIZE
<1>2. /\ p \in Nat /\ p % PAGE = 0 /\ p = x - r /\ p <= x /\ x < p + PAGE
      /\ PB <= p /\ p + PAGE <= PE
  BY <1>1, PageStart, Zenon
<1>3. r \in 0 .. PAGE - 1
  BY <1>1, DivMod, Zenon
<1>4. /\ t = IF r + n < PAGE THEN x ELSE NextPage(x)
      /\ l = IF r + n < PAGE THEN r + n ELSE (r + n) - PAGE
  BY Zenon DEF Turned, Low
<1>5. At(x, n) = IF x + n < PE THEN x + n ELSE (x + n) - SIZE
  BY DEF At
<1>6. p + PAGE \in Nat /\ (p + PAGE) % PAGE = 0
  <2>. DEFINE k == x \div PAGE
  <2>1. k \in Nat
    BY <1>1, DivMod, Zenon
  <2>2. p + PAGE = PAGE * (k + 1) + 0 /\ k + 1 \in Int /\ 0 \in 0 .. PAGE - 1
    <3>. HIDE DEF k
    <3>. QED
      BY <1>1, <2>1 DEF k
  <2>3. (PAGE * (k + 1) + 0) % PAGE = 0
    BY <2>2, DivModUnique, Zenon
  <2>. HIDE DEF p
  <2>. QED
    BY <1>1, <1>2, <2>2, <2>3
<1>7. At(x, n) \in Cells
  BY <1>1, Places, Zenon
<1>8. NextPage(x) = IF x + PAGE > PE THEN PB ELSE x + PAGE
  BY DEF NextPage
<1>. HIDE DEF r, t, l
<1>9. CASE r + n < PAGE
  <2>1. t = x /\ l = r + n /\ l \in 0 .. PAGE - 1
    BY <1>1, <1>3, <1>4, <1>9
  <2>2. p + l = At(x, n)
    <3>. HIDE DEF p
    <3>. QED
      BY <1>1, <1>2, <1>3, <1>5, <1>9, <2>1
  <2>. QED
    BY <1>7, <2>1, <2>2, Zenon DEF t, l
<1>10. CASE ~ (r + n < PAGE) /\ p + PAGE < PE
  <2>1. (p + PAGE) + PAGE <= PE
    <3>. HIDE DEF p
    <3>. QED
      BY <1>1, <1>6, <1>10, MultiplesApart, Zenon
  <2>2. t = x + PAGE /\ l = (r + n) - PAGE /\ l \in 0 .. PAGE - 1 /\ t \in Cells
    <3>. HIDE DEF p
    <3>. QED
      BY <1>1, <1>2, <1>3, <1>4, <1>8, <1>10, <2>1 DEF Cells
  <2>3. (t \div PAGE) * PAGE = p + PAGE
    <3>. DEFINE k == x \div PAGE
    <3>1. k \in Nat
      BY <1>1, DivMod, Zenon
    <3>2. t = PAGE * (k + 1) + r /\ k + 1 \in Int
      <4>1. p = PAGE * k
        <5>. HIDE DEF k
        <5>. QED
          BY <1>1, <3>1 DEF k
      <4>. HIDE DEF k, p
      <4>2. PAGE * (k + 1) = PAGE * k + PAGE
        BY <1>1, <3>1
      <4>. QED
        BY <1>1, <1>2, <1>3, <2>2, <3>1, <4>1, <4>2
    <3>3. t \div PAGE = k + 1
      BY <1>3, <3>2, DivModUnique, Zenon
    <3>4. (k + 1) * PAGE = p + PAGE
      <4>. HIDE DEF k
      <4>. QED
        BY <1>1, <3>1 DEF k
    <3>. QED
      BY <3>3, <3>4, Zenon
  <2>4. (p + PAGE) + l = At(x, n)
    <3>. HIDE DEF p
    <3>. QED
      BY <1>1, <1>2, <1>3, <1>5, <1>10, <2>1, <2>2
  <2>. QED
    BY <1>7, <2>2, <2>3, <2>4, Zenon DEF t, l
<1>11. CASE ~ (r + n < PAGE) /\ ~ (p + PAGE < PE)
  <2>1. p + PAGE = PE
    <3>. HIDE DEF p
    <3>. QED
      BY <1>1, <1>2, <1>11
  <2>2. t = PB /\ l = (r + n) - PAGE /\ l \in 0 .. PAGE - 1 /\ t \in Cells
    <3>. HIDE DEF p
    <3>. QED
      BY <1>1, <1>2, <1>3, <1>4, <1>8, <1>11, <2>1 DEF Cells
  <2>3. (t \div PAGE) * PAGE = PB
    <3>. DEFINE b == (PB \div PAGE) * PAGE
    <3>1. b = PB - (PB % PAGE)
      BY <1>1, PageStart, Zenon
    <3>2. b = PB
      <4>. HIDE DEF b
      <4>. QED
        BY <1>1, <3>1
    <3>. QED
      BY <2>2, <3>2, Zenon
  <2>4. PB + l = At(x, n)
    <3>. HIDE DEF p
    <3>. QED
      BY <1>1, <1>2, <1>3, <1>5, <1>11, <2>1, <2>2
  <2>. QED
    BY <1>7, <2>2, <2>3, <2>4, Zenon DEF t, l
<1>. QED
  BY <1>9, <1>10, <1>11, Zenon

\* The reader n bytes on from its place.
ReadAt(r, n) == r.it = Turned(it, n) /\ r.lsb = Low(it, n) /\ r.page = PageOf(mem, Turned(it, n))

LEMMA TakeIs ==
  ASSUME TypeOK, it \in Cells, NEW n \in 0 .. PAGE - 2, NEW r, ReadAt(r, n)
  PROVE  LET c == mem[At(it, n)]
             s == IF c = BEG THEN r.s ELSE Append(r.s, c)
         IN /\ ReadAt(TakeByte(r), n + 1)
            /\ TakeByte(r).s = s
            /\ TakeByte(r).done <=> c # BEG /\ (c.is = "zero" \/ Len(s) = ToRead)
<1>. DEFINE c == r.page[r.lsb]
            s == IF c = BEG THEN r.s ELSE Append(r.s, c)
            l == (r.lsb + 1) % PAGE
            a == IF l = 0 THEN NextPage(r.it) ELSE r.it
            p == IF l = 0 THEN PageOf(mem, a) ELSE r.page
            d == c # BEG /\ (c.is = "zero" \/ Len(s) = ToRead)
            u == it % PAGE
<1>1. TakeByte(r) = [it |-> a, page |-> p, lsb |-> l, s |-> s, done |-> d]
  BY Zenon DEF TakeByte
<1>2. TakeByte(r).it = a /\ TakeByte(r).page = p /\ TakeByte(r).lsb = l /\ TakeByte(r).s = s /\ (TakeByte(r).done <=> d)
  <2>. HIDE DEF a, p, l, s, d
  <2>1. /\ TakeByte(r).it = a /\ TakeByte(r).page = p /\ TakeByte(r).lsb = l /\ TakeByte(r).s = s
        /\ TakeByte(r).done = d
    BY <1>1
  <2>. QED
    BY <2>1, Zenon
<1>3. /\ mem \in [Cells -> Byte] /\ it \in Nat /\ PAGE \in Nat /\ PAGE >= 2
      /\ n \in 0 .. PAGE - 1 /\ n + 1 \in 0 .. PAGE - 1
  BY Sizes DEF TypeOK, Cells
<1>4. u \in 0 .. PAGE - 1
  BY <1>3, DivMod, Zenon
<1>5. r.it = Turned(it, n) /\ r.lsb = Low(it, n) /\ r.page = PageOf(mem, Turned(it, n))
  BY Zenon DEF ReadAt
<1>6. c = mem[At(it, n)]
  <2>1. /\ Low(it, n) \in 0 .. PAGE - 1 /\ At(it, n) \in Cells
        /\ (Turned(it, n) \div PAGE) * PAGE + Low(it, n) = At(it, n)
    BY <1>3, PlaceIs, Zenon
  <2>2. PageOf(mem, Turned(it, n))[Low(it, n)] = mem[(Turned(it, n) \div PAGE) * PAGE + Low(it, n)]
    BY <1>3, <2>1, ByteOfPage, Zenon
  <2>. QED
    BY <1>5, <2>1, <2>2, Zenon
<1>7. /\ Low(it, n) = IF u + n < PAGE THEN u + n ELSE (u + n) - PAGE
      /\ Low(it, n + 1) = IF u + (n + 1) < PAGE THEN u + (n + 1) ELSE (u + (n + 1)) - PAGE
      /\ Turned(it, n) = IF u + n < PAGE THEN it ELSE NextPage(it)
      /\ Turned(it, n + 1) = IF u + (n + 1) < PAGE THEN it ELSE NextPage(it)
  BY Zenon DEF Low, Turned
<1>8. Low(it, n) \in 0 .. PAGE - 1
  BY <1>3, PlaceIs, Zenon
<1>9. l = IF Low(it, n) = PAGE - 1 THEN 0 ELSE Low(it, n) + 1
  <2>. DEFINE w == Low(it, n)
  <2>1. w \in 0 .. PAGE - 1 /\ l = (w + 1) % PAGE
    BY <1>5, <1>8, Zenon
  <2>. HIDE DEF w, l
  <2>2. CASE w = PAGE - 1
    <3>1. w + 1 = PAGE * 1 + 0 /\ 0 \in 0 .. PAGE - 1 /\ 1 \in Int
      BY <1>3, <2>2
    <3>2. (PAGE * 1 + 0) % PAGE = 0
      BY <3>1, DivModUnique, Zenon
    <3>3. l = 0
      BY <2>1, <3>1, <3>2, Zenon
    <3>. QED
      BY <2>2, <3>3, Zenon DEF w
  <2>3. CASE w # PAGE - 1
    <3>1. w + 1 = PAGE * 0 + (w + 1) /\ w + 1 \in 0 .. PAGE - 1 /\ 0 \in Int
      BY <1>3, <2>1, <2>3
    <3>2. (PAGE * 0 + (w + 1)) % PAGE = w + 1
      BY <3>1, DivModUnique, Zenon
    <3>3. l = w + 1
      BY <2>1, <3>1, <3>2, Zenon
    <3>. QED
      BY <2>3, <3>3, Zenon DEF w
  <2>. QED
    BY <2>2, <2>3
<1>. HIDE DEF u, l
<1>10. l = Low(it, n + 1) /\ a = Turned(it, n + 1)
  <2>1. CASE u + n < PAGE /\ u + n # PAGE - 1
    <3>1. /\ u + (n + 1) < PAGE /\ u + n + 1 = u + (n + 1) /\ Low(it, n) = u + n /\ Low(it, n) # PAGE - 1
          /\ l # 0 /\ l = u + (n + 1)
      BY <1>3, <1>4, <1>7, <1>9, <2>1
    <3>. QED
      BY <1>5, <1>7, <2>1, <3>1, Zenon
  <2>2. CASE u + n = PAGE - 1
    <3>1. ~ (u + (n + 1) < PAGE) /\ Low(it, n) = PAGE - 1 /\ l = 0 /\ Low(it, n + 1) = 0 /\ u + n < PAGE
      BY <1>3, <1>4, <1>7, <1>9, <2>2
    <3>. QED
      BY <1>5, <1>7, <3>1, Zenon
  <2>3. CASE ~ (u + n < PAGE)
    <3>1. /\ ~ (u + (n + 1) < PAGE) /\ Low(it, n) = (u + n) - PAGE /\ Low(it, n) # PAGE - 1
          /\ l # 0 /\ l = (u + (n + 1)) - PAGE
      BY <1>3, <1>4, <1>7, <1>9, <2>3
    <3>. QED
      BY <1>5, <1>7, <2>3, <3>1, Zenon
  <2>. QED
    BY <1>3, <1>4, <2>1, <2>2, <2>3
<1>11. p = PageOf(mem, Turned(it, n + 1))
  <2>1. CASE l = 0
    BY <1>10, <2>1, Zenon
  <2>2. CASE l # 0
    <3>1. a = r.it
      BY <2>2, Zenon
    <3>. QED
      BY <1>5, <1>10, <2>2, <3>1, Zenon
  <2>. QED
    BY <2>1, <2>2
<1>. HIDE DEF a, p
<1>12. ReadAt(TakeByte(r), n + 1)
  BY <1>2, <1>10, <1>11, Zenon DEF ReadAt
<1>. QED
  BY <1>2, <1>6, <1>12, Zenon

(***************************************************************************)
(* What one call of LOG_get_next_string takes: N bytes, of which the first *)
(* q (0 or 1) are BEG, up to a 0 or to as many as there are to read.       *)
(***************************************************************************)
Run(q, N) ==
  /\ q \in 0 .. 1 /\ N \in Nat /\ q + 1 <= N /\ N <= PAGE - 1 /\ ToRead \in Nat
  /\ q = 1 => mem[it] = BEG
  /\ \A i \in q .. N - 1 : mem[At(it, i)] # BEG
  /\ \A i \in q .. N - 2 : mem[At(it, i)].is # "zero"
  /\ mem[At(it, N - 1)].is = "zero" \/ N - q = ToRead
  /\ N - q <= ToRead

Got(q, n) == [k \in 1 .. n - q |-> mem[At(it, q + (k - 1))]]

LEMMA GotIs ==
  ASSUME TypeOK, it \in Cells, NEW q \in Nat, NEW n \in Nat, n <= PAGE
  PROVE  /\ n <= q => Got(q, n) = << >>
         /\ q <= n => /\ Got(q, n) \in Seq(Byte) /\ Len(Got(q, n)) = n - q
                      /\ \A k \in 1 .. n - q : Got(q, n)[k] = mem[At(it, q + (k - 1))]
<1>1. /\ mem \in [Cells -> Byte] /\ PAGE \in Nat /\ SIZE \in Nat /\ PAGE <= SIZE
  BY Sizes DEF TypeOK, Cells
<1>2. ASSUME NEW k \in 1 .. n - q
      PROVE  mem[At(it, q + (k - 1))] \in Byte
  <2>1. q + (k - 1) \in 0 .. SIZE - 1
    BY <1>1
  <2>2. At(it, q + (k - 1)) \in Cells
    BY <2>1, Places, Zenon
  <2>. HIDE DEF Byte
  <2>. DEFINE a == At(it, q + (k - 1))
  <2>. HIDE DEF a
  <2>3. a \in Cells
    BY <2>2, Zenon DEF a
  <2>4. mem[a] \in Byte
    BY <1>1, <2>3
  <2>. QED
    BY <2>4, Zenon DEF a
<1>3. CASE q <= n
  <2>1. n - q \in Nat
    BY <1>3
  <2>. DEFINE f(k) == mem[At(it, q + (k - 1))]
  <2>2. \A k \in 1 .. n - q : f(k) \in Byte
    BY <1>2
  <2>. DEFINE d == n - q
              g == [k \in 1 .. d |-> f(k)]
  <2>3. d \in Nat /\ \A k \in 1 .. d : f(k) \in Byte
    BY <2>1, <2>2
  <2>. HIDE DEF d, f
  <2>4. g \in Seq(Byte) /\ Len(g) = d /\ \A k \in 1 .. d : g[k] = f(k)
    <3>1. g \in [1 .. d -> Byte]
      BY <2>3, Zenon
    <3>. QED
      BY <2>3, <3>1
  <2>5. Got(q, n) = g
    BY Zenon DEF Got, f, d
  <2>6. n <= q => g = << >>
    <3>1. n <= q => d = 0
      BY <1>3 DEF d
    <3>. HIDE DEF g
    <3>. QED
      BY <2>3, <2>4, <3>1
  <2>. HIDE DEF g
  <2>. QED
    BY <2>4, <2>5, <2>6, Zenon DEF f, d
<1>4. CASE ~ (q <= n)
  <2>1. ~ \E k \in 1 .. n - q : TRUE
    BY <1>4
  <2>2. Got(q, n) = << >>
    <3>. DEFINE e == [k \in 1 .. n - q |-> mem[At(it, q + (k - 1))]]
    <3>1. 1 .. n - q = 1 .. 0
      BY <2>1
    <3>2. e = [k \in 1 .. 0 |-> mem[At(it, q + (k - 1))]]
      BY <3>1
    <3>3. [k \in 1 .. 0 |-> mem[At(it, q + (k - 1))]] = << >>
      BY EmptySeq
    <3>. QED
      BY <3>2, <3>3, Zenon DEF Got
  <2>. QED
    BY <1>4, <2>2
<1>. QED
  BY <1>3, <1>4

LEMMA GotMore ==
  ASSUME TypeOK, it \in Cells, NEW q \in Nat, NEW n \in Nat, q <= n, n + 1 <= PAGE
  PROVE  Append(Got(q, n), mem[At(it, n)]) = Got(q, n + 1) /\ Len(Got(q, n + 1)) = (n + 1) - q
<1>1. /\ Got(q, n) \in Seq(Byte) /\ Len(Got(q, n)) = n - q
      /\ \A k \in 1 .. n - q : Got(q, n)[k] = mem[At(it, q + (k - 1))]
  <2>1. n <= PAGE
    BY Sizes
  <2>. QED
    BY <2>1, GotIs, Zenon
<1>2. /\ Got(q, n + 1) \in Seq(Byte) /\ Len(Got(q, n + 1)) = (n + 1) - q
      /\ \A k \in 1 .. (n + 1) - q : Got(q, n + 1)[k] = mem[At(it, q + (k - 1))]
  <2>1. n + 1 \in Nat /\ q <= n + 1
    OBVIOUS
  <2>. QED
    BY <2>1, GotIs, Zenon
<1>. DEFINE c == mem[At(it, n)]
            g == Got(q, n)
            h == Got(q, n + 1)
<1>3. c \in Byte
  <2>1. n \in 0 .. SIZE - 1 /\ mem \in [Cells -> Byte]
    BY Sizes DEF TypeOK, Cells
  <2>. DEFINE a == At(it, n)
  <2>2. a \in Cells
    BY <2>1, Places, Zenon
  <2>. HIDE DEF a
  <2>. QED
    BY <2>1, <2>2 DEF a
<1>. HIDE DEF c, g, h
<1>4. g \in Seq(Byte) /\ h \in Seq(Byte) /\ Len(g) = n - q /\ Len(h) = (n + 1) - q
  BY <1>1, <1>2, Zenon DEF g, h
<1>5. \A k \in 1 .. n - q : h[k] = g[k]
  <2>. TAKE k \in 1 .. n - q
  <2>1. k \in 1 .. (n + 1) - q
    OBVIOUS
  <2>. QED
    BY <1>1, <1>2, <2>1, Zenon DEF g, h
<1>6. h[(n + 1) - q] = c
  <2>1. (n + 1) - q \in 1 .. (n + 1) - q /\ q + (((n + 1) - q) - 1) = n
    OBVIOUS
  <2>. QED
    BY <1>2, <2>1, Zenon DEF h, c
<1>7. /\ Append(g, c) \in Seq(Byte) /\ Len(Append(g, c)) = (n + 1) - q
      /\ \A k \in 1 .. n - q : Append(g, c)[k] = g[k]
      /\ Append(g, c)[(n + 1) - q] = c
  <2>1. (n + 1) - q = (n - q) + 1
    OBVIOUS
  <2>. QED
    BY <1>3, <1>4, <2>1
<1>. DEFINE f == Append(g, c)
<1>8. \A k \in 1 .. Len(f) : f[k] = h[k]
  <2>. SUFFICES ASSUME NEW k \in 1 .. (n + 1) - q PROVE f[k] = h[k]
    BY <1>7
  <2>1. k \in 1 .. n - q \/ k = (n + 1) - q
    OBVIOUS
  <2>. HIDE DEF f
  <2>. QED
    BY <1>5, <1>6, <1>7, <2>1, Zenon DEF f
<1>9. f = h
  <2>1. f \in Seq(Byte) /\ Len(f) = Len(h)
    BY <1>4, <1>7, Zenon
  <2>. HIDE DEF f
  <2>. QED
    BY <1>4, <1>8, <2>1, SeqEqual
<1>. QED
  BY <1>4, <1>9, Zenon DEF f, g, h, c

LEMMA Running ==
  ASSUME TypeOK, it \in Cells, page = PageOf(mem, it), NEW q, NEW N, Run(q, N)
  PROVE  \A n \in 0 .. N : /\ ReadAt(Reading[n], n)
                           /\ Reading[n].s = Got(q, n)
                           /\ Reading[n].done <=> n = N
<1>. DEFINE Good(n) == /\ ReadAt(Reading[n], n)
                       /\ Reading[n].s = Got(q, n)
                       /\ Reading[n].done <=> n = N
            Bad == {n \in 0 .. N : ~ Good(n)}
<1>. SUFFICES ASSUME Bad # {} PROVE FALSE
  BY Zenon
<1>1. /\ q \in 0 .. 1 /\ q \in Nat /\ N \in Nat /\ q + 1 <= N /\ N <= PAGE - 1 /\ ToRead \in Nat
      /\ PAGE \in Nat /\ PAGE >= 2 /\ PAGE <= SIZE
  BY Sizes DEF Run
<1>2. PICK k \in Bad : \A j \in Bad : k <= j
  <2>1. Bad \in SUBSET Nat
    BY <1>1
  <2>. HIDE DEF Bad
  <2>. QED
    BY <2>1, LeastOf
<1>3. k \in 0 .. N /\ ~ Good(k)
  BY Zenon
<1>4. CASE k = 0
  <2>1. Reading[0] = ReadStart
    BY ReadingIs
  <2>2. /\ ReadStart.it = it /\ ReadStart.page = page /\ ReadStart.lsb = it % PAGE
        /\ ReadStart.s = << >> /\ ReadStart.done = FALSE
    BY DEF ReadStart
  <2>3. it % PAGE \in 0 .. PAGE - 1
    <3>1. it \in Nat
      BY Sizes DEF Cells
    <3>. QED
      BY <3>1, DivMod, Zenon
  <2>4. Turned(it, 0) = it /\ Low(it, 0) = it % PAGE
    <3>. DEFINE u == it % PAGE
    <3>1. u + 0 < PAGE /\ u + 0 = u
      <4>1. u \in 0 .. PAGE - 1
        BY <2>3, Zenon
      <4>. HIDE DEF u
      <4>. QED
        BY <1>1, <4>1
    <3>. QED
      BY <3>1, Zenon DEF Turned, Low
  <2>5. Got(q, 0) = << >>
    <3>1. 0 \in Nat /\ 0 <= PAGE /\ 0 <= q
      BY <1>1
    <3>. QED
      BY <1>1, <3>1, GotIs, Zenon
  <2>6. 0 # N
    BY <1>1
  <2>7. ReadAt(ReadStart, 0)
    BY <2>2, <2>4, Zenon DEF ReadAt
  <2>8. Good(0)
    BY <2>1, <2>2, <2>5, <2>6, <2>7, Zenon
  <2>. QED
    BY <1>3, <1>4, <2>8, Zenon
<1>5. CASE k # 0
  <2>. DEFINE n == k - 1
  <2>1. /\ n \in Nat /\ n \in 0 .. N /\ n \in 0 .. PAGE - 2 /\ n # N /\ ~ (k <= n) /\ n + 1 = k /\ k \in Nat
        /\ k \in 1 .. 2 * PAGE /\ n <= N - 1 /\ n + 1 <= PAGE
    BY <1>1, <1>3, <1>5
  <2>2. Good(n)
    BY <1>2, <2>1, Zenon
  <2>3. Reading[k] = TakeByte(Reading[n])
    BY <2>1, <2>2, ReadingIs, Zenon DEF ReadStep
  <2>. DEFINE c == mem[At(it, n)]
              s == IF c = BEG THEN Reading[n].s ELSE Append(Reading[n].s, c)
  <2>4. /\ ReadAt(Reading[k], k)
        /\ Reading[k].s = s
        /\ Reading[k].done <=> c # BEG /\ (c.is = "zero" \/ Len(s) = ToRead)
    <3>1. ReadAt(Reading[n], n)
      BY <2>2, Zenon
    <3>2. /\ ReadAt(TakeByte(Reading[n]), n + 1)
          /\ TakeByte(Reading[n]).s = s
          /\ TakeByte(Reading[n]).done <=> c # BEG /\ (c.is = "zero" \/ Len(s) = ToRead)
      BY <2>1, <3>1, TakeIs, Zenon
    <3>. QED
      BY <2>1, <2>3, <3>2, Zenon
  <2>5. CASE n < q
    <3>1. n = 0 /\ q = 1 /\ k # N /\ k <= q /\ n <= q /\ k <= PAGE /\ n <= PAGE
      BY <1>1, <2>1, <2>5
    <3>2. c = BEG
      <4>1. At(it, 0) = it
        <5>1. 0 \in 0 .. SIZE - 1
          BY Sizes
        <5>. QED
          BY <5>1, Places, Zenon
      <4>. QED
        BY <3>1, <4>1, Zenon DEF Run
    <3>3. Got(q, n) = << >> /\ Got(q, k) = << >>
      BY <1>1, <2>1, <3>1, GotIs, Zenon
    <3>. HIDE DEF n
    <3>4. Good(k)
      BY <2>2, <2>4, <3>1, <3>2, <3>3, Zenon
    <3>. QED
      BY <1>3, <3>4, Zenon
  <2>6. CASE ~ (n < q)
    <3>1. q <= n /\ n \in q .. N - 1 /\ (k # N => n \in q .. N - 2) /\ (k = N => n = N - 1)
      BY <1>1, <2>1, <2>6
    <3>2. c # BEG
      BY <3>1, Zenon DEF Run
    <3>3. Append(Got(q, n), c) = Got(q, k) /\ Len(Got(q, k)) = k - q
      <4>1. Append(Got(q, n), c) = Got(q, n + 1) /\ Len(Got(q, n + 1)) = (n + 1) - q
        BY <1>1, <2>1, <3>1, GotMore, Zenon
      <4>. QED
        BY <2>1, <4>1, Zenon
    <3>4. s = Got(q, k)
      BY <2>2, <3>2, <3>3, Zenon
    <3>5. CASE k = N
      <4>1. c.is = "zero" \/ k - q = ToRead
        BY <3>1, <3>5, Zenon DEF Run
      <4>. HIDE DEF n, s
      <4>2. Good(k)
        BY <2>4, <3>2, <3>3, <3>4, <3>5, <4>1, Zenon
      <4>. QED
        BY <1>3, <4>2, Zenon
    <3>6. CASE k # N
      <4>1. c.is # "zero"
        BY <3>1, <3>6, Zenon DEF Run
      <4>2. k - q # ToRead
        <5>1. N - q <= ToRead
          BY Zenon DEF Run
        <5>. QED
          BY <1>1, <1>3, <3>6, <5>1
      <4>. HIDE DEF n, s
      <4>3. Good(k)
        BY <2>4, <3>2, <3>3, <3>4, <3>6, <4>1, <4>2, Zenon
      <4>. QED
        BY <1>3, <4>3, Zenon
    <3>. QED
      BY <3>5, <3>6
  <2>. QED
    BY <2>5, <2>6
<1>. QED
  BY <1>4, <1>5

LEMMA NextStringIs ==
  ASSUME TypeOK, it \in Cells, page = PageOf(mem, it), NEW q, NEW N, Run(q, N)
  PROVE  LET a == At(it, N)
         IN /\ NextString.s = Got(q, N)
            /\ NextString.it = IF mem[a] = END THEN Dec(a) ELSE a
            /\ NextString.page = PageOf(mem, a)
            /\ a \in Cells
<1>1. /\ N \in Nat /\ q + 1 <= N /\ N <= PAGE - 1 /\ N \in 0 .. PAGE - 1 /\ PAGE \in Nat
      /\ mem \in [Cells -> Byte]
  BY Sizes DEF Run, TypeOK, Cells
<1>2. ReadAt(Reading[N], N) /\ Reading[N].s = Got(q, N) /\ Reading[N].done
  <2>1. N \in 0 .. N
    BY <1>1
  <2>. QED
    BY <2>1, Running, Zenon
<1>. DEFINE Bad == {n \in N .. 2 * PAGE : Reading[n] # Reading[N]}
<1>3. Bad = {}
  <2>. SUFFICES ASSUME Bad # {} PROVE FALSE
    OBVIOUS
  <2>1. PICK k \in Bad : \A j \in Bad : k <= j
    <3>1. Bad \in SUBSET Nat
      BY <1>1
    <3>. HIDE DEF Bad
    <3>. QED
      BY <3>1, LeastOf
  <2>2. k \in N .. 2 * PAGE /\ Reading[k] # Reading[N]
    BY Zenon
  <2>3. k # N
    BY <2>2, Zenon
  <2>4. k \in 1 .. 2 * PAGE /\ k - 1 \in N .. 2 * PAGE /\ ~ (k <= k - 1)
    BY <1>1, <2>2, <2>3
  <2>5. Reading[k - 1] = Reading[N]
    BY <2>1, <2>4, Zenon
  <2>6. Reading[k] = ReadStep(Reading[k - 1])
    BY <2>4, ReadingIs, Zenon
  <2>7. Reading[k] = Reading[N]
    BY <1>2, <2>5, <2>6, Zenon DEF ReadStep
  <2>. QED
    BY <2>2, <2>7, Zenon
<1>. DEFINE z == Reading[2 * PAGE]
            b == (z.it \div PAGE) * PAGE + z.lsb
            t == Turned(it, N)
            l == Low(it, N)
            a == At(it, N)
<1>4. z = Reading[N]
  <2>1. 2 * PAGE \in N .. 2 * PAGE
    BY <1>1
  <2>. QED
    BY <1>3, <2>1, Zenon
<1>5. z.it = t /\ z.lsb = l /\ z.page = PageOf(mem, t) /\ z.s = Got(q, N)
  BY <1>2, <1>4, Zenon DEF ReadAt
<1>6. /\ t \in Cells /\ l \in 0 .. PAGE - 1 /\ a \in Cells
      /\ (t \div PAGE) * PAGE + l = a
  BY <1>1, PlaceIs, Zenon
<1>7. b = a
  BY <1>5, <1>6, Zenon
<1>8. z.page[z.lsb] = mem[a]
  <2>1. PageOf(mem, t)[l] = mem[(t \div PAGE) * PAGE + l]
    BY <1>1, <1>6, ByteOfPage, Zenon
  <2>. QED
    BY <1>5, <1>6, <2>1, Zenon
<1>9. PageOf(mem, a) = PageOf(mem, t)
  <2>1. t \in Nat
    BY <1>6, Sizes DEF Cells
  <2>2. PageOf(mem, (t \div PAGE) * PAGE + l) = PageOf(mem, t)
    BY <1>6, <2>1, PageAgain, Zenon
  <2>. QED
    BY <1>6, <2>2, Zenon
<1>10. NextString = [empty |-> ToRead = 0, s |-> z.s, page |-> z.page,
                     it |-> IF z.page[z.lsb] = END THEN Dec(b) ELSE b]
  BY Zenon DEF NextString
<1>. DEFINE i == IF z.page[z.lsb] = END THEN Dec(b) ELSE b
            e == ToRead = 0
<1>11. NextString.s = z.s /\ NextString.page = z.page /\ NextString.it = i
  <2>1. NextString = [empty |-> e, s |-> z.s, page |-> z.page, it |-> i]
    BY <1>10, Zenon
  <2>. HIDE DEF z, b, i, e
  <2>. QED
    BY <2>1
<1>12. i = IF mem[a] = END THEN Dec(a) ELSE a
  BY <1>7, <1>8, Zenon
<1>. HIDE DEF z, b, i, a, t
<1>. QED
  BY <1>5, <1>6, <1>9, <1>11, <1>12, Zenon DEF a, t

LEMMA TextParts ==
  \A m, k, len : Text(m, k, len) # END /\ Text(m, k, len).m = m /\ Text(m, k, len).k = k
BY TextIsNot

\* From a byte of a string on, the string lies byte after byte in the ring.
LEMMA StringAt ==
  ASSUME NEW m, NEW tag, NEW b, NEW e, NEW sd \in Seq(1 .. PAGE), NEW sp, LogAt(m, tag, b, e, sd, sp),
         NEW f \in 1 .. Size(b, e) - 1
  PROVE  LET y == m[At(b, f)]
             len == sd[y.m]
         IN /\ y.m \in 1 .. Len(sd) /\ y.k \in 1 .. len /\ len \in 1 .. PAGE
            /\ \A i \in 0 .. len - y.k : f + i <= Size(b, e) - 1 /\ m[At(b, f + i)] = Text(y.m, y.k + i, len)
            /\ Opens(m[At(b, (f + (len - y.k)) + 1)], sd)
<1>. DEFINE y == m[At(b, f)]
            len == sd[y.m]
            S == Size(b, e)
<1>1. b \in Cells /\ e \in PB .. PE /\ S < SIZE /\ m[At(b, S)] = END
  BY DEF LogAt
<1>2. S \in Nat /\ S >= 1 /\ S <= SIZE - 1 /\ SIZE \in Nat
  BY <1>1, LogSizes, Zenon
<1>3. \A i \in 1 .. S - 1 : IsByte(m[At(b, i)], sd) /\ Follows(m[At(b, i)], m[At(b, i + 1)], sd)
  BY Zenon DEF LogAt, Body
<1>4. IsByte(y, sd)
  BY <1>3, Zenon
<1>. HIDE DEF S
<1>5. /\ y.m \in 1 .. Len(sd) /\ y.k \in 1 .. len /\ len \in 1 .. PAGE
      /\ y = Text(y.m, y.k, len)
  <2>. HIDE DEF y
  <2>. QED
    BY <1>4, ByteIs, Zenon
<1>6. PAGE \in Nat /\ f \in 1 .. S - 1 /\ f \in Nat
  BY <1>2, Sizes DEF S
<1>. DEFINE M == y.m
            K == y.k
            Good(i) == f + i <= S - 1 /\ m[At(b, f + i)] = Text(M, K + i, len)
            Bad == {i \in 0 .. len - K : ~ Good(i)}
<1>. HIDE DEF len, M, K
<1>7. M \in 1 .. Len(sd) /\ K \in 1 .. len /\ len \in 1 .. PAGE /\ y = Text(M, K, len) /\ len = sd[M]
  BY <1>5, Zenon DEF M, K, len
<1>8. K \in Nat /\ len \in Nat /\ K >= 1 /\ K <= len
  BY <1>6, <1>7
<1>9. \A i \in 0 .. len - K : Good(i)
  <2>. SUFFICES ASSUME Bad # {} PROVE FALSE
    BY Zenon
  <2>1. PICK k \in Bad : \A j \in Bad : k <= j
    <3>1. Bad \in SUBSET Nat
      BY <1>8
    <3>. HIDE DEF Bad
    <3>. QED
      BY <3>1, LeastOf
  <2>2. k \in 0 .. len - K /\ ~ Good(k)
    BY Zenon
  <2>3. CASE k = 0
    <3>1. f + 0 = f /\ f <= S - 1 /\ K + 0 = K
      BY <1>2, <1>6, <1>8
    <3>2. Good(0)
      BY <1>7, <3>1, Zenon
    <3>. QED
      BY <2>2, <2>3, <3>2, Zenon
  <2>4. CASE k # 0
    <3>. DEFINE n == k - 1
    <3>1. /\ n \in 0 .. len - K /\ ~ (k <= n) /\ K + n < len /\ (K + n) + 1 = K + k /\ n \in Nat
          /\ (f + n) + 1 = f + k
      BY <1>6, <1>8, <2>2, <2>4
    <3>2. Good(n)
      BY <2>1, <3>1, Zenon
    <3>. HIDE DEF n
    <3>. DEFINE x == m[At(b, f + n)]
    <3>3. f + n \in 1 .. S - 1 /\ f + k \in Nat
      BY <1>2, <1>6, <3>1, <3>2
    <3>4. Follows(x, m[At(b, f + k)], sd)
      BY <1>3, <3>1, <3>3, Zenon
    <3>5. x = Text(M, K + n, len) /\ x.m = M /\ x.k = K + n
      BY <3>2, TextParts
    <3>. HIDE DEF x
    <3>6. m[At(b, f + k)] = Text(M, (K + n) + 1, len)
      BY <1>7, <3>1, <3>4, <3>5, Zenon DEF Follows
    <3>7. m[At(b, f + k)] = Text(M, K + k, len)
      BY <3>1, <3>6, Zenon
    <3>8. f + k # S
      <4>1. m[At(b, f + k)] # END
        BY <3>7, TextParts
      <4>. QED
        BY <1>1, <4>1, Zenon DEF S
    <3>9. f + k <= S - 1
      BY <1>2, <3>1, <3>3, <3>8
    <3>10. Good(k)
      BY <3>7, <3>9, Zenon
    <3>. QED
      BY <2>2, <3>10, Zenon
  <2>. QED
    BY <2>3, <2>4
<1>10. Opens(m[At(b, (f + (len - K)) + 1)], sd)
  <2>. DEFINE t == len - K
              x == m[At(b, f + t)]
  <2>1. t \in 0 .. len - K /\ t \in Nat /\ K + t = len
    BY <1>8
  <2>2. f + t <= S - 1 /\ x = Text(M, K + t, len)
    BY <1>9, <2>1, Zenon
  <2>. HIDE DEF t
  <2>3. f + t \in 1 .. S - 1
    BY <1>2, <1>6, <2>1, <2>2
  <2>4. Follows(x, m[At(b, (f + t) + 1)], sd)
    BY <1>3, <2>3, Zenon
  <2>5. x.m = M /\ x.k = K + t
    BY <2>2, TextParts
  <2>. HIDE DEF x
  <2>6. ~ (x.k < sd[x.m])
    <3>1. ~ (len < len)
      BY <1>8
    <3>. QED
      BY <1>7, <2>1, <2>5, <3>1, Zenon
  <2>. QED
    BY <2>4, <2>6, Zenon DEF Follows, t
<1>. QED
  BY <1>7, <1>9, <1>10, Zenon DEF M, K, len, S

LEMMA DecIs ==
  ASSUME NEW b \in Cells, NEW i \in 1 .. SIZE - 1
  PROVE  Dec(At(b, i)) = At(b, i - 1)
<1>1. b \in PB .. PE - 1 /\ PB \in Nat /\ PE \in Nat /\ SIZE = PE - PB
  BY Sizes DEF Cells, SIZE
<1>. QED
  BY <1>1 DEF Dec, At

LEMMA EmptyIs ==
  ASSUME beg \in Cells, end \in PB .. PE, Size(beg, end) < SIZE, it \in Cells, Off(beg, it) < Size(beg, end)
  PROVE  LET left == (Size(beg, end) - Off(beg, it)) - 1
         IN /\ ToRead = Least(PAGE, left) /\ left \in Nat /\ ToRead \in Nat
            /\ ToRead = 0 <=> Off(beg, it) = Size(beg, end) - 1
            /\ NextString.empty <=> ToRead = 0
<1>1. Distance(it, end) = (Size(beg, end) - Off(beg, it)) - 1
  BY DistanceIs, Zenon
<1>2. Size(beg, end) \in Nat /\ Off(beg, it) \in Nat /\ PAGE \in Nat /\ PAGE >= 2
  <2>1. Size(beg, end) \in 1 .. SIZE - 1 /\ Off(beg, it) \in 0 .. SIZE - 1
    BY SizeIs, Offsets, Zenon
  <2>. QED
    BY <2>1, Sizes
<1>3. ToRead = Least(PAGE, (Size(beg, end) - Off(beg, it)) - 1)
  BY <1>1, Zenon DEF ToRead
<1>4. ToRead \in Nat /\ (ToRead = 0 <=> Off(beg, it) = Size(beg, end) - 1)
      /\ (Size(beg, end) - Off(beg, it)) - 1 \in Nat
  BY <1>2, <1>3 DEF Least
<1>5. NextString.empty <=> ToRead = 0
  <2>. DEFINE z == Reading[2 * PAGE]
              a == (z.it \div PAGE) * PAGE + z.lsb
              x == IF z.page[z.lsb] = END THEN Dec(a) ELSE a
              v == ToRead = 0
  <2>1. NextString = [empty |-> v, s |-> z.s, page |-> z.page, it |-> x]
    BY Zenon DEF NextString
  <2>. HIDE DEF z, x, v
  <2>2. NextString.empty = v
    BY <2>1
  <2>. QED
    BY <2>2, Zenon DEF v
<1>. QED
  BY <1>3, <1>4, <1>5, Zenon

(***************************************************************************)
(* The reader's place: it is in the log, at the first byte of a string     *)
(* unless BEG is there, or the last 0, or BEG has fallen within a string;  *)
(* the page it has copied is the one it is in, until all is read.          *)
(***************************************************************************)
InLog == it \in Cells /\ Off(beg, it) < Size(beg, end)
AtString(m, x, sd, sp) ==
  "exact" \in sp \/ Off(beg, x) = 0 \/ Off(beg, x) = Size(beg, end) - 1 \/ Opens(m[x], sd)

\* A byte of string m is among the bytes of s.
Has(s, m) == \E k \in 1 .. Len(s) : s[k].m = m /\ s[k].is \in {"char", "zero"}

\* String by string the reader moves through the log, and no string is passed over.
LEMMA ReadsOn ==
  ASSUME Types, NEW sp, LogAt(mem, BEG, beg, end, said, sp), InLog, AtString(mem, it, said, sp),
         page = PageOf(mem, it), Off(beg, it) # Size(beg, end) - 1
  PROVE  LET x == NextString.it
             S == Size(beg, end)
         IN /\ x \in Cells /\ Off(beg, x) < S
            /\ Off(beg, x) # S - 1 => NextString.page = PageOf(mem, x)
            /\ Off(beg, x) = S - 1 \/ Opens(mem[x], said)
            /\ "exact" \notin sp => Whole(NextString.s)
            /\ \A i \in 1 .. Off(beg, x) - 1 : Off(beg, it) <= i => Has(NextString.s, mem[At(beg, i)].m)
<1>. DEFINE S == Size(beg, end)
            o == Off(beg, it)
            q == IF o = 0 THEN 1 ELSE 0
            f == o + q
            y == mem[At(beg, f)]
            len == said[y.m]
            t == len - y.k
            z == f + t
            N == IF q = 0 /\ z = S - 1 THEN z - o ELSE (z - o) + 1
<1>1. /\ TypeOK /\ said \in Seq(1 .. PAGE) /\ mem \in [Cells -> Byte]
      /\ beg \in Cells /\ end \in PB .. PE /\ it \in Cells /\ S < SIZE /\ o < S
      /\ mem[beg] = BEG /\ mem[At(beg, S)] = END
  BY Zenon DEF Types, TypeOK, LogAt, InLog, Cells
<1>2. /\ S \in Nat /\ S >= 1 /\ S <= SIZE - 1 /\ SIZE \in Nat /\ SIZE >= 2
      /\ \A i \in 0 .. SIZE - 1 : At(beg, i) \in Cells /\ Off(beg, At(beg, i)) = i
      /\ \A a \in Cells : Off(beg, a) \in 0 .. SIZE - 1 /\ At(beg, Off(beg, a)) = a
      /\ At(beg, 0) = beg
  BY <1>1, LogSizes, Zenon
<1>3. /\ o \in 0 .. S - 1
      /\ \A i \in 0 .. (SIZE - 1) - o : At(it, i) = At(beg, o + i)
  BY <1>1, Shift, ZenonT(60)
<1>4. o # S - 1 /\ PAGE \in Nat /\ PAGE >= 2 /\ PAGE <= SIZE
  BY Sizes
<1>5. At(beg, o) = it
  BY <1>1, <1>2, Zenon
<1>. HIDE DEF S, o
<1>6. o \in Nat /\ o <= S - 2 /\ q \in 0 .. 1 /\ q \in Nat /\ f \in 1 .. S - 1 /\ f \in Nat
  BY <1>2, <1>3, <1>4
<1>. HIDE DEF q, f
<1>7. /\ y.m \in 1 .. Len(said) /\ y.k \in 1 .. len /\ len \in 1 .. PAGE
      /\ \A i \in 0 .. len - y.k : f + i <= S - 1 /\ mem[At(beg, f + i)] = Text(y.m, y.k + i, len)
      /\ Opens(mem[At(beg, (f + (len - y.k)) + 1)], said)
  BY <1>1, <1>6, StringAt, Zenon DEF S
<1>8. len <= PAGE - 2
  BY <1>7, Zenon DEF Types
<1>. DEFINE M == y.m
            K == y.k
<1>9. M \in 1 .. Len(said) /\ K \in 1 .. len /\ len = said[M] /\ len \in 1 .. PAGE /\ t = len - K
  BY <1>7, Zenon
<1>10. /\ \A i \in 0 .. t : f + i <= S - 1 /\ mem[At(beg, f + i)] = Text(M, K + i, len)
       /\ Opens(mem[At(beg, z + 1)], said)
  BY <1>7, Zenon
<1>11. IsByte(y, said)
  BY <1>6, Zenon DEF LogAt, Body, S
<1>. HIDE DEF y, len, M, K, t, z
<1>12. K \in Nat /\ K >= 1 /\ len \in Nat /\ t \in Nat /\ K + t = len /\ z \in Nat /\ z = f + t /\ f <= z
  BY <1>4, <1>6, <1>9, SMTT(20) DEF z
<1>13. z <= S - 1
  <2>1. t \in 0 .. t
    BY <1>12
  <2>. QED
    BY <1>10, <1>12, <2>1, Zenon
<1>14. f = o + q
  BY Zenon DEF f
<1>15. /\ N \in Nat /\ q + 1 <= N /\ N <= PAGE - 1 /\ o + N <= S
       /\ N = (z - o) + 1 \/ (N = z - o /\ q = 0 /\ z = S - 1)
       /\ o + N = S => q = 1 /\ z = S - 1 /\ N = (z - o) + 1
       /\ o + N # S => (o + N = z + 1 \/ o + N = S - 1) /\ o + N \in 1 .. S - 1
  <2>1. q = 0 \/ q = 1
    BY <1>6
  <2>2. CASE q = 0 /\ z = S - 1
    <3>1. N = z - o
      BY <2>2, Zenon
    <3>. QED
      BY <1>2, <1>4, <1>6, <1>8, <1>12, <1>13, <1>14, <2>2, <3>1
  <2>3. CASE ~ (q = 0 /\ z = S - 1)
    <3>1. N = (z - o) + 1
      BY <2>3, Zenon
    <3>. QED
      BY <1>2, <1>4, <1>6, <1>8, <1>12, <1>13, <1>14, <2>1, <2>3, <3>1
  <2>. QED
    BY <2>2, <2>3
<1>. HIDE DEF N
<1>16. \A i \in q .. N : i \in 0 .. PAGE - 1 /\ i \in 0 .. (SIZE - 1) - o /\ At(it, i) = At(beg, o + i)
  <2>1. \A i \in q .. N : i \in 0 .. PAGE - 1 /\ i \in 0 .. (SIZE - 1) - o
    BY <1>2, <1>4, <1>6, <1>15
  <2>. QED
    BY <1>3, <2>1, Zenon
<1>17. \A i \in q .. N - 1 : mem[At(it, i)] = Text(M, K + (i - q), len) /\ K + (i - q) <= len
  <2>. TAKE i \in q .. N - 1
  <2>1. i \in q .. N /\ i - q \in 0 .. t /\ f + (i - q) = o + i /\ K + (i - q) <= len
    BY <1>6, <1>12, <1>14, <1>15
  <2>. QED
    BY <1>10, <1>16, <2>1, Zenon
<1>18. ToRead = Least(PAGE, (S - o) - 1) /\ ToRead \in Nat
  BY <1>1, EmptyIs, Zenon DEF S, o
<1>19. Run(q, N)
  <2>1. q = 1 => mem[it] = BEG
    <3>1. q = 1 => o = 0
      BY DEF q
    <3>. QED
      BY <1>1, <1>2, <1>5, <3>1, Zenon
  <2>2. \A i \in q .. N - 1 : mem[At(it, i)] # BEG
    <3>1. \A m, k, l : Text(m, k, l) # BEG
      BY TextIsNot
    <3>. QED
      BY <1>17, <3>1, Zenon
  <2>3. \A i \in q .. N - 2 : mem[At(it, i)].is # "zero"
    <3>. TAKE i \in q .. N - 2
    <3>1. i \in q .. N - 1 /\ K + (i - q) # len
      BY <1>6, <1>12, <1>14, <1>15
    <3>2. mem[At(it, i)] = Text(M, K + (i - q), len)
      BY <1>17, <3>1, Zenon
    <3>3. \A m, k, l : k # l => Text(m, k, l).is = "char"
      BY DEF Text
    <3>4. mem[At(it, i)].is = "char"
      BY <3>1, <3>2, <3>3
    <3>. QED
      BY <3>4
  <2>4. mem[At(it, N - 1)].is = "zero" \/ N - q = ToRead
    <3>1. CASE N = (z - o) + 1
      <4>1. N - 1 \in q .. N - 1 /\ K + ((N - 1) - q) = len
        BY <1>6, <1>12, <1>14, <1>15, <3>1
      <4>2. mem[At(it, N - 1)] = Text(M, len, len)
        BY <1>17, <4>1, Zenon
      <4>3. \A m, k : Text(m, k, k).is = "zero"
        BY DEF Text
      <4>. QED
        BY <4>2, <4>3, Zenon
    <3>2. CASE N = z - o /\ q = 0 /\ z = S - 1
      BY <1>2, <1>4, <1>6, <1>15, <1>18, <3>2 DEF Least
    <3>. QED
      BY <1>15, <3>1, <3>2
  <2>5. N - q <= ToRead
    BY <1>2, <1>4, <1>6, <1>13, <1>14, <1>15, <1>18 DEF Least
  <2>. QED
    BY <1>6, <1>15, <1>18, <2>1, <2>2, <2>3, <2>4, <2>5, Zenon DEF Run
<1>. DEFINE a == At(it, N)
            x == NextString.it
<1>20. /\ NextString.s = Got(q, N)
       /\ x = IF mem[a] = END THEN Dec(a) ELSE a
       /\ NextString.page = PageOf(mem, a)
       /\ a \in Cells
  BY <1>1, <1>19, NextStringIs, Zenon
<1>21. a = At(beg, o + N)
  <2>1. N \in q .. N
    BY <1>6, <1>15
  <2>. QED
    BY <1>16, <2>1, Zenon
<1>. HIDE DEF a, x
<1>22. "exact" \notin sp => Whole(NextString.s)
  <2>. SUFFICES ASSUME "exact" \notin sp PROVE Whole(Got(q, N))
    BY <1>20, Zenon
  <2>1. K = 1
    <3>1. Opens(y, said)
      <4>1. CASE o = 0
        <5>1. f = 1
          BY <1>14, <4>1 DEF q
        <5>. QED
          BY <5>1, Zenon DEF LogAt, y
      <4>2. CASE o # 0
        <5>1. f = o
          BY <1>6, <1>14, <4>2 DEF q
        <5>2. Opens(mem[it], said)
          BY <1>4, <4>2, Zenon DEF AtString, o, S
        <5>. QED
          BY <1>5, <5>1, <5>2, Zenon DEF y
      <4>. QED
        BY <4>1, <4>2
    <3>2. y # END
      <4>. HIDE DEF y
      <4>1. y \notin {BEG, END, DEL}
        BY <1>1, <1>11, ByteIs, Zenon
      <4>. QED
        BY <4>1, Zenon
    <3>3. y.k = 1
      BY <1>1, <3>1, <3>2, OpensByte, Zenon
    <3>. QED
      BY <3>3, Zenon DEF K
  <2>2. N <= PAGE /\ q <= N /\ N - q \in Nat /\ N - q >= 1 /\ (N - q = len \/ N - q = len - 1)
    BY <1>4, <1>6, <1>12, <1>14, <1>15, <2>1
  <2>3. /\ Got(q, N) \in Seq(Byte) /\ Len(Got(q, N)) = N - q
        /\ \A k \in 1 .. N - q : Got(q, N)[k] = mem[At(it, q + (k - 1))]
    BY <1>1, <1>6, <1>15, <2>2, GotIs, Zenon
  <2>4. \A k \in 1 .. N - q : Got(q, N)[k] = Text(M, k, len)
    <3>. TAKE k \in 1 .. N - q
    <3>1. q + (k - 1) \in q .. N - 1 /\ K + ((q + (k - 1)) - q) = k
      BY <1>6, <1>15, <2>1
    <3>2. mem[At(it, q + (k - 1))] = Text(M, K + ((q + (k - 1)) - q), len)
      BY <1>17, <3>1, Zenon
    <3>. QED
      BY <2>3, <3>1, <3>2, Zenon
  <2>. DEFINE s == Got(q, N)
  <2>5. DOMAIN s = 1 .. N - q /\ s # << >> /\ DOMAIN said = 1 .. Len(said)
    <3>. HIDE DEF s
    <3>1. s \in Seq(Byte) /\ Len(s) = N - q
      BY <2>3, Zenon DEF s
    <3>. QED
      BY <1>1, <2>2, <3>1
  <2>6. Len(s) \in {said[M], said[M] - 1}
    BY <1>9, <2>2, <2>3, Zenon
  <2>. QED
    BY <1>9, <2>4, <2>5, <2>6, Zenon DEF Whole
<1>23. \A i \in 1 .. (o + N) - 1 : o <= i => Has(NextString.s, mem[At(beg, i)].m)
  <2>1. q <= N /\ N <= PAGE /\ N - q \in Nat /\ 1 \in 1 .. N - q /\ q \in q .. N - 1 /\ q + (1 - 1) = q
    BY <1>4, <1>6, <1>15
  <2>2. /\ Len(Got(q, N)) = N - q
        /\ \A k \in 1 .. N - q : Got(q, N)[k] = mem[At(it, q + (k - 1))]
    BY <1>1, <1>6, <1>15, <2>1, GotIs, Zenon
  <2>3. Has(Got(q, N), M)
    <3>1. Got(q, N)[1] = Text(M, K + (q - q), len)
      BY <1>17, <2>1, <2>2, Zenon
    <3>2. Got(q, N)[1].m = M /\ Got(q, N)[1].is \in {"char", "zero"}
      BY <3>1 DEF Text
    <3>3. 1 \in 1 .. Len(Got(q, N))
      BY <2>1, <2>2, Zenon
    <3>. QED
      BY <3>2, <3>3, Zenon DEF Has
  <2>4. ASSUME NEW i \in 1 .. (o + N) - 1, o <= i PROVE mem[At(beg, i)].m = M
    <3>1. i - o \in q .. N - 1 /\ i - o \in q .. N /\ o + (i - o) = i
      <4>1. q = 1 => o = 0
        BY DEF q
      <4>2. o # 0 => q = 0
        BY DEF q
      <4>. QED
        BY <1>6, <1>15, <2>4, <4>1, <4>2
    <3>2. mem[At(it, i - o)] = Text(M, K + ((i - o) - q), len)
      BY <1>17, <3>1, Zenon
    <3>3. At(it, i - o) = At(beg, o + (i - o))
      BY <1>16, <3>1, Zenon
    <3>4. mem[At(beg, i)] = Text(M, K + ((i - o) - q), len)
      BY <3>1, <3>2, <3>3, Zenon
    <3>. QED
      BY <3>4, TextParts
  <2>. QED
    BY <1>20, <2>3, <2>4, Zenon
<1>24. CASE o + N = S
  <2>1. mem[a] = END
    BY <1>1, <1>21, <1>24, Zenon DEF S
  <2>2. S \in 1 .. SIZE - 1 /\ S - 1 \in 0 .. SIZE - 1 /\ S - 1 < S
    BY <1>2
  <2>3. x = At(beg, S - 1)
    <3>1. x = Dec(At(beg, S))
      BY <1>20, <1>21, <1>24, <2>1, Zenon
    <3>2. Dec(At(beg, S)) = At(beg, S - 1)
      BY <1>1, <2>2, DecIs, Zenon
    <3>. QED
      BY <3>1, <3>2, Zenon
  <2>4. x \in Cells /\ Off(beg, x) = S - 1
    BY <1>2, <2>2, <2>3, Zenon
  <2>5. Off(beg, x) < S
    BY <2>2, <2>4
  <2>6. \A i \in 1 .. Off(beg, x) - 1 : i \in 1 .. (o + N) - 1
    BY <1>2, <1>24, <2>4
  <2>. QED
    BY <1>22, <1>23, <2>4, <2>5, <2>6, Zenon DEF x, S, o
<1>25. CASE o + N # S
  <2>1. o + N \in 1 .. S - 1 /\ o + N \in 0 .. SIZE - 1 /\ o + N < S
    BY <1>2, <1>6, <1>15, <1>25
  <2>2. mem[a] # END
    <3>1. IsByte(mem[a], said)
      BY <1>21, <2>1, Zenon DEF LogAt, Body, S
    <3>. DEFINE w == mem[a]
    <3>. HIDE DEF w
    <3>2. w \notin {BEG, END, DEL}
      BY <1>1, <3>1, ByteIs, Zenon DEF w
    <3>. QED
      BY <3>2, Zenon DEF w
  <2>3. x = a /\ Off(beg, x) = o + N
    BY <1>2, <1>20, <1>21, <2>1, <2>2, Zenon
  <2>4. o + N = z + 1 \/ o + N = S - 1
    BY <1>15, <1>25, Zenon
  <2>5. Off(beg, x) = S - 1 \/ Opens(mem[x], said)
    BY <1>10, <1>21, <2>3, <2>4, Zenon
  <2>6. Off(beg, x) < S
    BY <2>1, <2>3, Zenon
  <2>. QED
    BY <1>20, <1>22, <1>23, <2>3, <2>5, <2>6, Zenon DEF x, S, o
<1>. QED
  BY <1>24, <1>25

-----------------------------------------------------------------------------
(***************************************************************************)
(* The inductive invariant.  It is about a log nothing has spoilt (Sound): *)
(* a failed transmission, a full TCP buffer and a reset do not.  The log   *)
(* is in its place between BEG and END; in the middle of a flush it is the *)
(* old log with the buffer after it; while BEG is moved, a DEL stands for  *)
(* it; and when the program is off, a restart finds it or sees that a tag  *)
(* is missing.                                                             *)
(***************************************************************************)
Sound(sp) == sp \subseteq {"unsent", "exact", "reset"}
Clean(sp) == sp \subseteq {"unsent", "reset"}

WholeIn(s, sd) ==
  /\ s # << >>
  /\ \E m \in DOMAIN sd :
       /\ Len(s) \in {sd[m], sd[m] - 1}
       /\ \A k \in DOMAIN s : s[k] = Text(m, k, sd[m])

Found(m, sd, sp) ==
  \/ \E b \in Cells, e \in PB .. PE : LogAt(m, BEG, b, e, sd, sp)
  \/ Find(m, BEG) = PE \/ Find(m, END) = PE

StoreHolds ==
  /\ pc \in {"run", "read", "chunk", "last"} => LogAt(mem, BEG, beg, end, said, spoilt)
  /\ pc = "write" => \E j : Writing(beg, end, buf, said, mem, todo, spoilt, j)
  /\ pc = "mark" => LogAt(mem, DEL, beg, end, said, spoilt)
  /\ pc = "off" => Found(mem, said, spoilt)

ReaderHolds ==
  /\ pc \in {"read", "chunk", "mark"} => InLog
  /\ pc \in {"read", "chunk"} =>
       /\ AtString(mem, it, said, spoilt)
       /\ Off(beg, it) # Size(beg, end) - 1 => page = PageOf(mem, it)
  /\ pc = "mark" => "exact" \in spoilt \/ Off(beg, it) = Size(beg, end) - 1

AllWhole ==
  /\ \A n \in 1 .. Len(chunk) : WholeIn(chunk[n], said)
  /\ \A s \in delivered : WholeIn(s, said)

LogHolds ==
  /\ BufferHolds
  /\ Sound(spoilt) => StoreHolds /\ ReaderHolds
  /\ Clean(spoilt) => AllWhole

LEMMA WholeKept ==
  ASSUME NEW s, NEW sd \in Seq(1 .. PAGE), NEW sd2 \in Seq(1 .. PAGE), Longer(sd, sd2), WholeIn(s, sd)
  PROVE  WholeIn(s, sd2)
<1>1. PICK m \in DOMAIN sd : /\ Len(s) \in {sd[m], sd[m] - 1}
                             /\ \A k \in DOMAIN s : s[k] = Text(m, k, sd[m])
  BY Zenon DEF WholeIn
<1>2. m \in 1 .. Len(sd) /\ m \in DOMAIN sd2
  BY DEF Longer
<1>3. sd2[m] = sd[m]
  BY <1>2, Zenon DEF Longer
<1>. QED
  BY <1>1, <1>2, <1>3, Zenon DEF WholeIn

LEMMA WholeIs == \A s : Whole(s) <=> WholeIn(s, said)
BY Zenon DEF Whole, WholeIn

\* END at the end of the partition is END at its beginning.
LEMMA LogWraps ==
  ASSUME NEW m, NEW tag, NEW b, NEW sd, NEW sp, LogAt(m, tag, b, PE, sd, sp)
  PROVE  LogAt(m, tag, b, PB, sd, sp)
<1>1. b \in PB .. PE - 1 /\ PB \in Nat /\ PE \in Nat /\ SIZE = PE - PB /\ Size(b, PE) < SIZE /\ PB \in PB .. PE
  BY Sizes DEF LogAt, Cells, SIZE
<1>2. Size(b, PE) = Size(b, PB)
  BY <1>1 DEF Size
<1>. QED
  BY <1>1, <1>2, Zenon DEF LogAt, OnlyTags, Body

LEMMA HoldsAtStart == Init => LogHolds
<1>. SUFFICES ASSUME Init PROVE LogHolds
  OBVIOUS
<1>1. /\ mem = Reset([a \in Cells |-> Blank]) /\ beg = PB /\ end = PB + 1 /\ spoilt = {} /\ pc = "run"
      /\ buf = << >> /\ chunk = << >> /\ delivered = {}
  BY Zenon DEF Init, Cells
<1>2. BufferHolds
  BY <1>1, EmptyBuffer, Zenon DEF BufferHolds
<1>3. LogAt(mem, BEG, beg, end, said, spoilt)
  BY <1>1, LogStart, Zenon
<1>4. AllWhole
  <2>1. ~ \E n \in 1 .. Len(<< >>) : TRUE
    BY EmptyBuffer, Zenon
  <2>. QED
    BY <1>1, <2>1, Zenon DEF AllWhole
<1>5. pc \notin {"write", "mark", "off", "read", "chunk"}
  BY <1>1
<1>. QED
  BY <1>2, <1>3, <1>4, <1>5, Zenon DEF LogHolds, StoreHolds, ReaderHolds

LEMMA SayHolds ==
  ASSUME Types, LogHolds, NEW len \in Lengths, LOG_say(len)
  PROVE  LogHolds'
<1>1. TypeOK /\ said \in Seq(1 .. PAGE) /\ BufferHolds
  BY DEF Types, TypeOK, LogHolds
<1>2. Longer(said, said') /\ BufferHolds' /\ said' \in Seq(1 .. PAGE)
  BY <1>1, SaidLonger, SayBuffers, SayIs, Zenon
<1>3. /\ pc \in {"run", "read", "chunk", "last"} /\ mem' = mem /\ beg' = beg /\ end' = end /\ pc' = pc
      /\ it' = it /\ page' = page /\ chunk' = chunk /\ delivered' = delivered /\ spoilt' = spoilt
  BY DEF LOG_say, store, reader
<1>4. pc' \notin {"write", "mark", "off"}
  BY <1>3
<1>5. ASSUME Sound(spoilt') PROVE StoreHolds' /\ ReaderHolds'
  <2>1. StoreHolds /\ ReaderHolds /\ spoilt \subseteq spoilt'
    BY <1>3, <1>5, Zenon DEF LogHolds
  <2>2. LogAt(mem, BEG, beg, end, said, spoilt)
    BY <1>3, <2>1, Zenon DEF StoreHolds
  <2>3. LogAt(mem, BEG, beg, end, said', spoilt)
    BY <1>1, <1>2, <2>2, LogKept, Zenon
  <2>4. StoreHolds'
    BY <1>3, <1>4, <2>3, Zenon DEF StoreHolds
  <2>5. pc' \in {"read", "chunk"} => InLog' /\ AtString(mem, it, said, spoilt)'
    <3>. SUFFICES ASSUME pc \in {"read", "chunk"} PROVE InLog' /\ AtString(mem, it, said, spoilt)'
      BY <1>3, Zenon
    <3>1. InLog /\ AtString(mem, it, said, spoilt)
      <4>1. pc \in {"read", "chunk", "mark"}
        OBVIOUS
      <4>. QED
        BY <2>1, <4>1, Zenon DEF ReaderHolds
    <3>2. Opens(mem[it], said) => Opens(mem[it], said')
      BY <1>2, ByteKept, Zenon
    <3>. QED
      BY <1>3, <3>1, <3>2, Zenon DEF InLog, AtString
  <2>6. pc' \in {"read", "chunk"} => (Off(beg, it) # Size(beg, end) - 1 => page = PageOf(mem, it))'
    BY <1>3, <2>1, Zenon DEF ReaderHolds
  <2>7. pc' \in {"read", "chunk", "mark"} => pc' \in {"read", "chunk"}
    BY <1>4
  <2>. QED
    BY <1>4, <2>4, <2>5, <2>6, <2>7, Zenon DEF ReaderHolds
<1>6. ASSUME Clean(spoilt') PROVE AllWhole'
  <2>1. AllWhole
    BY <1>3, <1>6, Zenon DEF LogHolds
  <2>. QED
    BY <1>1, <1>2, <1>3, <2>1, WholeKept, Zenon DEF AllWhole
<1>. QED
  BY <1>2, <1>5, <1>6, Zenon DEF LogHolds

\* The flush begins.
LEMMA ProcessHolds ==
  ASSUME Types, LogHolds, LOG_process_buffer
  PROVE  LogHolds'
<1>1. TypeOK /\ said \in Seq(1 .. PAGE) /\ BufferHolds
  BY DEF Types, TypeOK, LogHolds
<1>2. /\ pc = "run" /\ mem' = mem /\ beg' = beg /\ end' = end /\ pc' = "write" /\ todo' = ProcessBlocks
      /\ buf' = buf /\ said' = said
      /\ it' = it /\ page' = page /\ chunk' = chunk /\ delivered' = delivered
      /\ spoilt' = spoilt
           \cup (IF Len(buf) + 1 > FreeBehind + FreeBefore THEN {"overrun"} ELSE {})
           \cup (IF Len(buf) + 1 > PAGE /\ end % PAGE = PAGE - 1 THEN {"long"} ELSE {})
  BY DEF LOG_process_buffer, store, reader
<1>3. spoilt \subseteq spoilt'
  BY <1>2
<1>4. pc' \notin {"run", "read", "chunk", "last", "mark", "off"} /\ pc \in {"run", "read", "chunk", "last"}
  BY <1>2
<1>5. ASSUME Sound(spoilt') PROVE StoreHolds' /\ ReaderHolds'
  <2>1. Sound(spoilt)
    BY <1>3, <1>5 DEF Sound
  <2>2. LogAt(mem, BEG, beg, end, said, spoilt)
    BY <1>4, <2>1, Zenon DEF LogHolds, StoreHolds
  <2>3. LogAt(mem, BEG, beg, end, said, spoilt')
    <3>1. Longer(said, said)
      BY <1>1 DEF Longer
    <3>. QED
      BY <1>1, <1>3, <2>2, <3>1, LogKept, Zenon
  <2>4. ~ (Len(buf) + 1 > FreeBehind + FreeBefore) /\ ~ (Len(buf) + 1 > PAGE /\ end % PAGE = PAGE - 1)
    <3>1. "overrun" \notin spoilt' /\ "long" \notin spoilt'
      BY <1>5 DEF Sound
    <3>. QED
      BY <1>2, <3>1, Zenon
  <2>5. Len(buf) + 1 <= FreeBehind + FreeBefore
    <3>1. Len(buf) \in Nat /\ FreeBehind \in Int /\ FreeBefore \in Int
      BY <1>1, Sizes DEF TypeOK, FreeBehind, FreeBefore
    <3>. QED
      BY <2>4, <3>1
  <2>6. Writing(beg, end, buf, said, mem, ProcessBlocks, spoilt', 0)
    BY <1>1, <2>3, <2>4, <2>5, WriteStarts, Zenon
  <2>7. (\E j : Writing(beg, end, buf, said, mem, todo, spoilt, j))'
    <3>1. \E j : Writing(beg', end', buf', said', mem', todo', spoilt', j)
      BY <1>2, <2>6, Zenon
    <3>. QED
      BY <3>1, Zenon
  <2>. QED
    BY <1>4, <2>7, Zenon DEF StoreHolds, ReaderHolds
<1>6. ASSUME Clean(spoilt') PROVE AllWhole'
  <2>1. Clean(spoilt)
    BY <1>3, <1>6 DEF Clean
  <2>. QED
    BY <1>2, <2>1, Zenon DEF LogHolds, AllWhole
<1>7. BufferHolds'
  BY <1>1, <1>2, Zenon DEF BufferHolds
<1>. QED
  BY <1>5, <1>6, <1>7, Zenon DEF LogHolds

LEMMA WriteHolds ==
  ASSUME Types, LogHolds, WritePiece
  PROVE  LogHolds'
<1>1. /\ pc = "write" /\ todo # << >> /\ mem' = WriteBlock(mem, Head(todo)) /\ todo' = Tail(todo)
      /\ beg' = beg /\ end' = end /\ pc' = pc /\ buf' = buf /\ said' = said /\ spoilt' = spoilt
      /\ chunk' = chunk /\ delivered' = delivered
  BY DEF WritePiece, reader
<1>2. TypeOK /\ BufferHolds
  BY DEF Types, LogHolds
<1>3. pc' \notin {"run", "read", "chunk", "last", "mark", "off"}
  BY <1>1
<1>4. ASSUME Sound(spoilt') PROVE StoreHolds' /\ ReaderHolds'
  <2>1. PICK j : Writing(beg, end, buf, said, mem, todo, spoilt, j)
    BY <1>1, <1>4, Zenon DEF LogHolds, StoreHolds
  <2>2. \E n : Writing(beg, end, buf, said, mem', todo', spoilt, n)
    BY <1>1, <1>2, <2>1, WriteGoesOn, Zenon
  <2>3. \E n : Writing(beg', end', buf', said', mem', todo', spoilt', n)
    BY <1>1, <2>2, Zenon
  <2>. QED
    BY <1>3, <2>3, Zenon DEF StoreHolds, ReaderHolds
<1>5. Clean(spoilt') => AllWhole'
  BY <1>1, Zenon DEF LogHolds, AllWhole
<1>6. BufferHolds'
  BY <1>1, <1>2, Zenon DEF BufferHolds
<1>. QED
  BY <1>4, <1>5, <1>6, Zenon DEF LogHolds

LEMMA EndsHolds ==
  ASSUME Types, LogHolds, ProcessEnds
  PROVE  LogHolds'
<1>1. /\ pc = "write" /\ todo = << >> /\ end' = AddOffset(end, Len(buf)) /\ buf' = << >> /\ pc' = "run"
      /\ mem' = mem /\ beg' = beg /\ said' = said /\ spoilt' = spoilt
      /\ chunk' = chunk /\ delivered' = delivered
  BY DEF ProcessEnds, reader
<1>2. TypeOK /\ BufferHolds
  BY DEF Types, LogHolds
<1>3. pc' \notin {"write", "mark", "off", "read", "chunk"}
  BY <1>1
<1>4. ASSUME Sound(spoilt') PROVE StoreHolds' /\ ReaderHolds'
  <2>1. PICK j : Writing(beg, end, buf, said, mem, << >>, spoilt, j)
    BY <1>1, <1>4, Zenon DEF LogHolds, StoreHolds
  <2>2. LogAt(mem, BEG, beg, AddOffset(end, Len(buf)), said, spoilt)
    BY <1>2, <2>1, WriteEnds, Zenon
  <2>3. LogAt(mem', BEG, beg', end', said', spoilt')
    BY <1>1, <2>2, Zenon
  <2>. QED
    BY <1>3, <2>3, Zenon DEF StoreHolds, ReaderHolds
<1>5. Clean(spoilt') => AllWhole'
  BY <1>1, Zenon DEF LogHolds, AllWhole
<1>6. BufferHolds'
  BY <1>1, EmptyBuffer, Zenon DEF BufferHolds
<1>. QED
  BY <1>4, <1>5, <1>6, Zenon DEF LogHolds

LEMMA LockHolds ==
  ASSUME Types, LogHolds, LOG_lock
  PROVE  LogHolds'
<1>1. /\ pc = "run" /\ it' = beg /\ page' = PageOf(mem, beg) /\ chunk' = << >> /\ pc' = "read"
      /\ mem' = mem /\ beg' = beg /\ end' = end /\ buf' = buf /\ said' = said /\ spoilt' = spoilt
      /\ delivered' = delivered
  BY Zenon DEF LOG_lock, store
<1>2. BufferHolds
  BY DEF LogHolds
<1>3. pc' \notin {"write", "mark", "off"} /\ pc \in {"run", "read", "chunk", "last"}
  BY <1>1
<1>4. ASSUME Sound(spoilt') PROVE StoreHolds' /\ ReaderHolds'
  <2>1. LogAt(mem, BEG, beg, end, said, spoilt)
    BY <1>1, <1>3, <1>4, Zenon DEF LogHolds, StoreHolds
  <2>2. LogAt(mem', BEG, beg', end', said', spoilt')
    BY <1>1, <2>1, Zenon
  <2>3. beg \in Cells /\ Off(beg, beg) = 0 /\ 0 < Size(beg, end)
    <3>1. beg \in Cells /\ end \in PB .. PE /\ Size(beg, end) < SIZE
      BY <2>1, Zenon DEF LogAt
    <3>2. Off(beg, beg) = 0
      BY <3>1, Offsets, Zenon
    <3>3. Size(beg, end) \in 1 .. SIZE - 1
      BY <3>1, SizeIs, Zenon
    <3>. QED
      BY <3>1, <3>2, <3>3
  <2>4. InLog' /\ AtString(mem, it, said, spoilt)' /\ page' = PageOf(mem', it')
    BY <1>1, <2>3, Zenon DEF InLog, AtString
  <2>. QED
    BY <1>3, <2>2, <2>4, Zenon DEF StoreHolds, ReaderHolds
<1>5. Clean(spoilt') => AllWhole'
  <2>1. ~ \E n \in 1 .. Len(<< >>) : TRUE
    BY EmptyBuffer, Zenon
  <2>. QED
    BY <1>1, <2>1, Zenon DEF LogHolds, AllWhole
<1>6. BufferHolds'
  BY <1>1, <1>2, Zenon DEF BufferHolds
<1>. QED
  BY <1>4, <1>5, <1>6, Zenon DEF LogHolds

LEMMA NextHolds ==
  ASSUME Types, LogHolds, LOG_get_next_string
  PROVE  LogHolds'
<1>1. /\ pc = "read" /\ ~ NextString.empty /\ page' = NextString.page
      /\ mem' = mem /\ beg' = beg /\ end' = end /\ buf' = buf /\ said' = said
      /\ delivered' = delivered
      /\ \/ /\ chunk' = Append(chunk, NextString.s) /\ it' = NextString.it
            /\ pc' = pc /\ spoilt' = spoilt
         \/ /\ pc' = "chunk" /\ chunk' = chunk /\ it' = it
            /\ spoilt' = spoilt \cup (IF page' # page THEN {"stale"} ELSE {})
  BY Zenon DEF LOG_get_next_string, store
<1>2. BufferHolds /\ TypeOK
  BY DEF LogHolds, Types
<1>3. spoilt \subseteq spoilt' /\ pc' \in {"read", "chunk"} /\ pc \in {"read", "chunk"}
  BY <1>1
<1>4. /\ pc' \notin {"write", "mark", "off"} /\ pc \in {"run", "read", "chunk", "last"}
      /\ pc \in {"read", "chunk", "mark"}
  BY <1>1, <1>3
<1>5. Sound(spoilt') => Sound(spoilt)
  BY <1>3 DEF Sound
<1>6. ASSUME Sound(spoilt)
      PROVE  LET x == NextString.it
                 S == Size(beg, end)
             IN /\ LogAt(mem, BEG, beg, end, said, spoilt) /\ InLog /\ AtString(mem, it, said, spoilt)
                /\ page = PageOf(mem, it)
                /\ x \in Cells /\ Off(beg, x) < S
                /\ Off(beg, x) # S - 1 => NextString.page = PageOf(mem, x)
                /\ Off(beg, x) = S - 1 \/ Opens(mem[x], said)
                /\ "exact" \notin spoilt => Whole(NextString.s)
  <2>1. /\ LogAt(mem, BEG, beg, end, said, spoilt) /\ InLog /\ AtString(mem, it, said, spoilt)
        /\ Off(beg, it) # Size(beg, end) - 1 => page = PageOf(mem, it)
    BY <1>3, <1>4, <1>6, Zenon DEF LogHolds, StoreHolds, ReaderHolds
  <2>2. Off(beg, it) # Size(beg, end) - 1
    <3>1. beg \in Cells /\ end \in PB .. PE /\ Size(beg, end) < SIZE /\ it \in Cells /\ Off(beg, it) < Size(beg, end)
      BY <2>1, Zenon DEF LogAt, InLog
    <3>. QED
      BY <1>1, <3>1, EmptyIs, Zenon
  <2>. QED
    BY <2>1, <2>2, ReadsOn, Zenon
<1>7. ASSUME Sound(spoilt') PROVE StoreHolds' /\ ReaderHolds'
  <2>1. LogAt(mem, BEG, beg, end, said, spoilt)
    BY <1>5, <1>6, <1>7, Zenon
  <2>2. LogAt(mem', BEG, beg', end', said', spoilt')
    <3>1. LogAt(mem, BEG, beg, end, said, spoilt')
      <4>1. Longer(said, said) /\ said \in Seq(1 .. PAGE)
        BY <1>2 DEF Longer, TypeOK
      <4>. QED
        BY <1>3, <2>1, <4>1, LogKept, Zenon
    <3>. QED
      BY <1>1, <3>1, Zenon
  <2>3. InLog' /\ AtString(mem, it, said, spoilt)' /\ (Off(beg', it') # Size(beg', end') - 1 => page' = PageOf(mem', it'))
    <3>1. CASE it' = NextString.it
      BY <1>1, <1>5, <1>6, <1>7, <3>1, Zenon DEF InLog, AtString
    <3>2. CASE it' = it /\ spoilt' = spoilt \cup (IF page' # page THEN {"stale"} ELSE {})
      <4>1. page' = page
        <5>1. "stale" \notin spoilt'
          BY <1>7 DEF Sound
        <5>. QED
          BY <3>2, <5>1, Zenon
      <4>2. spoilt' = spoilt
        BY <3>2, <4>1
      <4>. QED
        BY <1>1, <1>5, <1>6, <1>7, <3>2, <4>1, <4>2, Zenon DEF InLog, AtString
    <3>. QED
      BY <1>1, <3>1, <3>2, Zenon
  <2>. QED
    BY <1>4, <2>2, <2>3, Zenon DEF StoreHolds, ReaderHolds
<1>8. ASSUME Clean(spoilt') PROVE AllWhole'
  <2>1. Clean(spoilt) /\ Sound(spoilt) /\ "exact" \notin spoilt
    BY <1>3, <1>8 DEF Clean, Sound
  <2>2. AllWhole /\ Whole(NextString.s)
    BY <1>6, <2>1, Zenon DEF LogHolds
  <2>3. WholeIn(NextString.s, said)
    BY <2>2, WholeIs, Zenon
  <2>4. \A n \in 1 .. Len(chunk) : WholeIn(chunk[n], said)
    BY <2>2, Zenon DEF AllWhole
  <2>5. \A n \in 1 .. Len(chunk') : WholeIn(chunk'[n], said')
    <3>1. CASE chunk' = chunk
      BY <1>1, <2>4, <3>1, Zenon
    <3>2. CASE chunk' = Append(chunk, NextString.s)
      <4>1. chunk \in Seq(Seq(Byte)) /\ Len(chunk) \in Nat
        BY DEF Types
      <4>2. NextString.s \in Seq(Byte)
        BY <1>2, NextStringType, Zenon
      <4>. DEFINE v == NextString.s
                  w == Append(chunk, v)
      <4>. HIDE DEF v
      <4>3. /\ Len(w) = Len(chunk) + 1
            /\ \A n \in 1 .. Len(chunk) : w[n] = chunk[n]
            /\ w[Len(chunk) + 1] = v
        BY <4>1, <4>2 DEF v
      <4>. HIDE DEF w
      <4>4. \A n \in 1 .. Len(w) : n \in 1 .. Len(chunk) \/ n = Len(chunk) + 1
        BY <4>1, <4>3
      <4>. QED
        BY <1>1, <2>3, <2>4, <3>2, <4>3, <4>4, Zenon DEF w, v
    <3>. QED
      BY <1>1, <3>1, <3>2, Zenon
  <2>. QED
    BY <1>1, <2>2, <2>5, Zenon DEF AllWhole
<1>9. BufferHolds'
  BY <1>1, <1>2, Zenon DEF BufferHolds
<1>. QED
  BY <1>7, <1>8, <1>9, Zenon DEF LogHolds

LEMMA ChunkHolds ==
  ASSUME Types, LogHolds, SendChunk
  PROVE  LogHolds'
<1>1. /\ pc = "chunk" /\ chunk' = << >>
      /\ mem' = mem /\ beg' = beg /\ end' = end /\ buf' = buf /\ said' = said /\ spoilt' = spoilt
      /\ \/ /\ delivered' = delivered \cup {chunk[n] : n \in DOMAIN chunk}
            /\ pc' = "read" /\ it' = it /\ page' = page
         \/ pc' = "run" /\ delivered' = delivered
  BY Zenon DEF SendChunk, store
<1>2. BufferHolds
  BY DEF LogHolds
<1>3. /\ pc' \notin {"write", "mark", "off", "chunk"} /\ pc \in {"run", "read", "chunk", "last"}
      /\ pc \in {"read", "chunk"} /\ pc \in {"read", "chunk", "mark"}
  BY <1>1
<1>4. ASSUME Sound(spoilt') PROVE StoreHolds' /\ ReaderHolds'
  <2>1. StoreHolds /\ ReaderHolds
    BY <1>1, <1>4, Zenon DEF LogHolds
  <2>2. LogAt(mem', BEG, beg', end', said', spoilt')
    BY <1>1, <1>3, <2>1, Zenon DEF StoreHolds
  <2>3. ASSUME pc' = "read"
        PROVE  InLog' /\ AtString(mem, it, said, spoilt)'
               /\ (Off(beg', it') # Size(beg', end') - 1 => page' = PageOf(mem', it'))
    <3>1. it' = it /\ page' = page
      BY <1>1, <2>3
    <3>. QED
      BY <1>1, <1>3, <2>1, <3>1, Zenon DEF ReaderHolds, InLog, AtString
  <2>4. pc' \in {"read", "chunk", "mark"} => pc' = "read"
    BY <1>1
  <2>5. pc' \in {"read", "chunk"} => pc' = "read"
    BY <1>1
  <2>. QED
    BY <1>3, <2>2, <2>3, <2>4, <2>5, Zenon DEF StoreHolds, ReaderHolds
<1>5. ASSUME Clean(spoilt') PROVE AllWhole'
  <2>1. AllWhole
    BY <1>1, <1>5, Zenon DEF LogHolds
  <2>2. DOMAIN chunk = 1 .. Len(chunk)
    BY DEF Types
  <2>3. \A s \in delivered' : WholeIn(s, said)
    BY <1>1, <2>1, <2>2, Zenon DEF AllWhole
  <2>4. ~ \E n \in 1 .. Len(<< >>) : TRUE
    BY EmptyBuffer, Zenon
  <2>. QED
    BY <1>1, <2>3, <2>4, Zenon DEF AllWhole
<1>6. BufferHolds'
  BY <1>1, <1>2, Zenon DEF BufferHolds
<1>. QED
  BY <1>4, <1>5, <1>6, Zenon DEF LogHolds

\* DEL takes the place of BEG.
LEMMA UnlockHolds ==
  ASSUME Types, LogHolds, LOG_unlock
  PROVE  LogHolds'
<1>1. /\ pc = "read" /\ mem' = Write1(mem, beg, DEL) /\ pc' = "mark"
      /\ spoilt' = spoilt \cup (IF NextString.empty THEN {} ELSE {"exact"})
      /\ beg' = beg /\ end' = end /\ buf' = buf /\ it' = it /\ chunk' = chunk
      /\ said' = said /\ delivered' = delivered
  BY DEF LOG_unlock, reader
<1>2. TypeOK /\ BufferHolds /\ said \in Seq(1 .. PAGE) /\ mem \in [Cells -> Byte] /\ DEL \in Byte
  BY Tags DEF Types, LogHolds, TypeOK, Cells
<1>3. /\ spoilt \subseteq spoilt' /\ pc \in {"run", "read", "chunk", "last"}
      /\ pc \in {"read", "chunk", "mark"} /\ pc \in {"read", "chunk"}
      /\ pc' \notin {"run", "read", "chunk", "last", "write", "off"} /\ pc' = "mark"
  BY <1>1
<1>4. ASSUME Sound(spoilt') PROVE StoreHolds' /\ ReaderHolds'
  <2>1. Sound(spoilt)
    BY <1>3, <1>4 DEF Sound
  <2>2. LogAt(mem, BEG, beg, end, said, spoilt) /\ InLog
    BY <1>3, <2>1, Zenon DEF LogHolds, StoreHolds, ReaderHolds
  <2>3. LogAt(mem', DEL, beg', end', said', spoilt')
    <3>1. LogAt(Write1(mem, beg, DEL), DEL, beg, end, said, spoilt)
      BY <1>2, <2>2, LogFirst, Zenon
    <3>2. Longer(said, said)
      BY <1>2 DEF Longer
    <3>3. LogAt(Write1(mem, beg, DEL), DEL, beg, end, said, spoilt')
      BY <1>2, <1>3, <3>1, <3>2, LogKept, Zenon
    <3>. QED
      BY <1>1, <3>3, Zenon
  <2>4. InLog'
    BY <1>1, <2>2, Zenon DEF InLog
  <2>5. "exact" \in spoilt' \/ Off(beg', it') = Size(beg', end') - 1
    <3>1. CASE NextString.empty
      <4>1. beg \in Cells /\ end \in PB .. PE /\ Size(beg, end) < SIZE /\ it \in Cells /\ Off(beg, it) < Size(beg, end)
        BY <2>2, Zenon DEF LogAt, InLog
      <4>2. Off(beg, it) = Size(beg, end) - 1
        BY <3>1, <4>1, EmptyIs, Zenon
      <4>. QED
        BY <1>1, <4>2, Zenon
    <3>2. CASE ~ NextString.empty
      <4>1. spoilt' = spoilt \cup {"exact"}
        BY <1>1, <3>2, Zenon
      <4>. QED
        BY <4>1
    <3>. QED
      BY <3>1, <3>2, Zenon
  <2>. QED
    BY <1>3, <2>3, <2>4, <2>5, Zenon DEF StoreHolds, ReaderHolds
<1>5. ASSUME Clean(spoilt') PROVE AllWhole'
  <2>1. Clean(spoilt)
    BY <1>3, <1>5 DEF Clean
  <2>. QED
    BY <1>1, <2>1, Zenon DEF LogHolds, AllWhole
<1>6. BufferHolds'
  BY <1>1, <1>2, Zenon DEF BufferHolds
<1>. QED
  BY <1>4, <1>5, <1>6, Zenon DEF LogHolds

\* Without DEL the log stays as it is.
LEMMA UnlockFailsHolds ==
  ASSUME Types, LogHolds, LOG_unlock_fails
  PROVE  LogHolds'
<1>1. /\ pc = "read" /\ pc' = "last" /\ mem' = mem /\ beg' = beg /\ end' = end /\ buf' = buf
      /\ chunk' = chunk /\ said' = said /\ delivered' = delivered /\ spoilt' = spoilt
  BY DEF LOG_unlock_fails, store, reader
<1>2. /\ pc \in {"run", "read", "chunk", "last"} /\ pc' \in {"run", "read", "chunk", "last"}
      /\ pc' \notin {"write", "mark", "off", "read", "chunk"}
  BY <1>1
<1>3. ASSUME Sound(spoilt') PROVE StoreHolds' /\ ReaderHolds'
  <2>1. LogAt(mem', BEG, beg', end', said', spoilt')
    BY <1>1, <1>2, <1>3, Zenon DEF LogHolds, StoreHolds
  <2>2. pc' # "mark" /\ pc' # "write" /\ pc' # "off" /\ pc' \notin {"read", "chunk", "mark"}
    BY <1>1
  <2>. QED
    BY <1>2, <2>1, <2>2, Zenon DEF StoreHolds, ReaderHolds
<1>4. ASSUME Clean(spoilt') PROVE AllWhole'
  BY <1>1, <1>4, Zenon DEF LogHolds, AllWhole
<1>5. BufferHolds'
  BY <1>1, Zenon DEF LogHolds, BufferHolds
<1>. QED
  BY <1>3, <1>4, <1>5, Zenon DEF LogHolds

\* The log begins where the reader is.
LEMMA MarkHolds ==
  ASSUME Types, LogHolds, LOG_unlock_mark
  PROVE  LogHolds'
<1>1. /\ pc = "mark" /\ beg' = it /\ mem' = Write1(mem, it, BEG) /\ pc' = "last"
      /\ end' = end /\ buf' = buf /\ chunk' = chunk /\ said' = said /\ delivered' = delivered /\ spoilt' = spoilt
  BY DEF LOG_unlock_mark, reader
<1>2. BufferHolds /\ said \in Seq(1 .. PAGE) /\ mem \in [Cells -> Byte]
  BY DEF Types, LogHolds, TypeOK, Cells
<1>3. /\ pc \in {"read", "chunk", "mark"}
      /\ pc' \notin {"write", "mark", "off", "read", "chunk"}
  BY <1>1
<1>4. ASSUME Sound(spoilt') PROVE StoreHolds' /\ ReaderHolds'
  <2>1. /\ LogAt(mem, DEL, beg, end, said, spoilt) /\ InLog
        /\ "exact" \in spoilt \/ Off(beg, it) = Size(beg, end) - 1
    BY <1>1, <1>3, <1>4, Zenon DEF LogHolds, StoreHolds, ReaderHolds
  <2>2. LogAt(Write1(mem, it, BEG), BEG, it, end, said, spoilt)
    BY <1>2, <2>1, LogMarked, Zenon DEF InLog
  <2>3. LogAt(mem', BEG, beg', end', said', spoilt')
    BY <1>1, <2>2, Zenon
  <2>. QED
    BY <1>3, <2>3, Zenon DEF StoreHolds, ReaderHolds
<1>5. Clean(spoilt') => AllWhole'
  BY <1>1, Zenon DEF LogHolds, AllWhole
<1>6. BufferHolds'
  BY <1>1, <1>2, Zenon DEF BufferHolds
<1>. QED
  BY <1>4, <1>5, <1>6, Zenon DEF LogHolds

LEMMA LastHolds ==
  ASSUME Types, LogHolds, SendLast
  PROVE  LogHolds'
<1>1. /\ pc = "last" /\ chunk' = << >> /\ pc' = "run"
      /\ mem' = mem /\ beg' = beg /\ end' = end /\ buf' = buf /\ said' = said
      /\ \/ /\ delivered' = delivered \cup {chunk[n] : n \in DOMAIN chunk}
            /\ spoilt' = spoilt
         \/ spoilt' = spoilt \cup {"unsent"} /\ delivered' = delivered
  BY DEF SendLast, store
<1>2. BufferHolds /\ said \in Seq(1 .. PAGE) /\ DOMAIN chunk = 1 .. Len(chunk)
  BY DEF LogHolds, Types, TypeOK
<1>3. /\ pc' \notin {"write", "mark", "off", "read", "chunk"} /\ pc \in {"run", "read", "chunk", "last"}
      /\ spoilt \subseteq spoilt'
  BY <1>1
<1>4. ASSUME Sound(spoilt') PROVE StoreHolds' /\ ReaderHolds'
  <2>1. Sound(spoilt)
    BY <1>3, <1>4 DEF Sound
  <2>2. LogAt(mem, BEG, beg, end, said, spoilt)
    BY <1>3, <2>1, Zenon DEF LogHolds, StoreHolds
  <2>3. Longer(said, said)
    BY <1>2 DEF Longer
  <2>4. LogAt(mem, BEG, beg, end, said, spoilt')
    BY <1>2, <1>3, <2>2, <2>3, LogKept, Zenon
  <2>5. LogAt(mem', BEG, beg', end', said', spoilt')
    BY <1>1, <2>4, Zenon
  <2>. QED
    BY <1>3, <2>5, Zenon DEF StoreHolds, ReaderHolds
<1>5. ASSUME Clean(spoilt') PROVE AllWhole'
  <2>1. Clean(spoilt)
    BY <1>3, <1>5 DEF Clean
  <2>2. AllWhole
    BY <2>1, Zenon DEF LogHolds
  <2>3. \A s \in delivered' : WholeIn(s, said)
    BY <1>1, <1>2, <2>2, Zenon DEF AllWhole
  <2>4. ~ \E n \in 1 .. Len(<< >>) : TRUE
    BY EmptyBuffer, Zenon
  <2>. QED
    BY <1>1, <2>3, <2>4, Zenon DEF AllWhole
<1>6. BufferHolds'
  BY <1>1, <1>2, Zenon DEF BufferHolds
<1>. QED
  BY <1>4, <1>5, <1>6, Zenon DEF LogHolds

\* Between DEL and BEG there is no BEG in the partition.
LEMMA NoBegin ==
  ASSUME NEW m \in [Cells -> Byte], NEW b, NEW e, NEW sd, NEW sp, LogAt(m, DEL, b, e, sd, sp), "reset" \notin sp
  PROVE  Find(m, BEG) = PE
<1>1. b \in Cells /\ e \in PB .. PE /\ Size(b, e) < SIZE /\ m[b] = DEL /\ m[At(b, Size(b, e))] = END
  BY Zenon DEF LogAt
<1>2. ASSUME NEW a \in Cells PROVE m[a] # BEG
  <2>1. Off(b, a) \in 0 .. SIZE - 1 /\ At(b, Off(b, a)) = a /\ At(b, 0) = b
    BY <1>1, LogSizes, Zenon
  <2>2. CASE Off(b, a) = 0
    BY <1>1, <2>1, <2>2, Tags, Zenon
  <2>3. CASE Off(b, a) # 0
    <3>1. Off(b, a) \in 1 .. SIZE - 1
      BY <2>1, <2>3, Sizes
    <3>2. m[a] \in {BEG, END} => Off(b, a) = Size(b, e)
      BY <2>1, <3>1, Zenon DEF LogAt, OnlyTags
    <3>. QED
      BY <1>1, <2>1, <3>2, Tags, Zenon
  <2>. QED
    BY <2>2, <2>3
<1>. QED
  BY <1>2, FindIs, Zenon

LEMMA CrashHolds ==
  ASSUME Types, LogHolds, Crash
  PROVE  LogHolds'
<1>1. /\ pc # "off" /\ pc' = "off" /\ buf' = << >> /\ chunk' = << >>
      /\ mem' = mem /\ said' = said /\ delivered' = delivered
      /\ spoilt' = spoilt
           \cup (IF pc \in {"write", "mark"} /\ "reset" \in spoilt THEN {"stray"} ELSE {})
  BY DEF Crash, store
<1>2. /\ TypeOK /\ BufferHolds /\ mem \in [Cells -> Byte]
      /\ pc \in {"run", "write", "read", "chunk", "mark", "last", "off"}
  BY DEF LogHolds, Types, TypeOK, Cells
<1>3. pc' \notin {"run", "read", "chunk", "last", "write", "mark"} /\ spoilt \subseteq spoilt'
  BY <1>1
<1>4. ASSUME Sound(spoilt') PROVE StoreHolds' /\ ReaderHolds'
  <2>1. Sound(spoilt)
    BY <1>3, <1>4 DEF Sound
  <2>2. ~ (pc \in {"write", "mark"} /\ "reset" \in spoilt)
    <3>1. "stray" \notin spoilt'
      BY <1>4 DEF Sound
    <3>. QED
      BY <1>1, <3>1, Zenon
  <2>3. spoilt' = spoilt
    BY <1>1, <2>2
  <2>4. StoreHolds
    BY <2>1, Zenon DEF LogHolds
  <2>5. Found(mem, said, spoilt)
    <3>1. CASE pc \in {"run", "read", "chunk", "last"}
      <4>1. LogAt(mem, BEG, beg, end, said, spoilt)
        BY <2>4, <3>1, Zenon DEF StoreHolds
      <4>2. beg \in Cells /\ end \in PB .. PE
        BY <4>1, Zenon DEF LogAt
      <4>. QED
        BY <4>1, <4>2, Zenon DEF Found
    <3>2. CASE pc = "write"
      <4>1. "reset" \notin spoilt
        BY <2>2, <3>2
      <4>2. PICK j : Writing(beg, end, buf, said, mem, todo, spoilt, j)
        BY <2>4, <3>2, Zenon DEF StoreHolds
      <4>3. beg \in Cells
        BY <4>2, Zenon DEF Writing, LogAt
      <4>4. (\E e \in PB .. PE : LogAt(mem, BEG, beg, e, said, spoilt)) \/ Find(mem, END) = PE
        BY <1>2, <4>1, <4>2, WriteIsCut, Zenon
      <4>. QED
        BY <4>3, <4>4, Zenon DEF Found
    <3>3. CASE pc = "mark"
      <4>1. "reset" \notin spoilt
        BY <2>2, <3>3
      <4>2. LogAt(mem, DEL, beg, end, said, spoilt)
        BY <2>4, <3>3, Zenon DEF StoreHolds
      <4>. QED
        BY <1>2, <4>1, <4>2, NoBegin, Zenon DEF Found
    <3>. QED
      BY <1>1, <1>2, <3>1, <3>2, <3>3
  <2>6. Found(mem', said', spoilt')
    BY <1>1, <2>3, <2>5, Zenon
  <2>7. pc' \notin {"read", "chunk", "mark"} /\ pc' \notin {"read", "chunk"}
    BY <1>1
  <2>. QED
    BY <1>3, <2>6, <2>7, Zenon DEF StoreHolds, ReaderHolds
<1>5. ASSUME Clean(spoilt') PROVE AllWhole'
  <2>1. Clean(spoilt)
    BY <1>3, <1>5 DEF Clean
  <2>2. ~ \E n \in 1 .. Len(<< >>) : TRUE
    BY EmptyBuffer, Zenon
  <2>. QED
    BY <1>1, <2>1, <2>2, Zenon DEF LogHolds, AllWhole
<1>6. BufferHolds'
  BY <1>1, EmptyBuffer, Zenon DEF BufferHolds
<1>. QED
  BY <1>4, <1>5, <1>6, Zenon DEF LogHolds

LEMMA InitHolds ==
  ASSUME Types, LogHolds, LOG_init
  PROVE  LogHolds'
<1>1. /\ pc = "off" /\ pc' = "run"
      /\ buf' = buf /\ chunk' = chunk /\ said' = said /\ delivered' = delivered
      /\ \/ /\ mem' = Reset(mem) /\ beg' = PB /\ end' = PB + 1
            /\ spoilt' = spoilt \cup {"reset"}
         \/ /\ PE \notin {Find(mem, BEG), Find(mem, END)}
            /\ beg' = Find(mem, BEG) /\ end' = Find(mem, END)
            /\ mem' = mem /\ spoilt' = spoilt
  BY DEF LOG_init, reader
<1>2. BufferHolds /\ mem \in [Cells -> Byte]
  BY DEF LogHolds, Types, TypeOK, Cells
<1>3. pc' \notin {"write", "mark", "off", "read", "chunk"} /\ spoilt \subseteq spoilt'
  BY <1>1
<1>4. ASSUME Sound(spoilt') PROVE StoreHolds' /\ ReaderHolds'
  <2>1. Sound(spoilt)
    BY <1>3, <1>4 DEF Sound
  <2>2. Found(mem, said, spoilt)
    BY <1>1, <2>1, Zenon DEF LogHolds, StoreHolds
  <2>3. LogAt(mem', BEG, beg', end', said', spoilt')
    <3>1. CASE mem' = Reset(mem) /\ beg' = PB /\ end' = PB + 1 /\ spoilt' = spoilt \cup {"reset"}
      <4>1. LogAt(Reset(mem), BEG, PB, PB + 1, said, spoilt \cup {"reset"})
        BY <1>2, LogReset, Zenon
      <4>. QED
        BY <1>1, <3>1, <4>1, Zenon
    <3>2. CASE /\ PE \notin {Find(mem, BEG), Find(mem, END)}
               /\ beg' = Find(mem, BEG) /\ end' = Find(mem, END)
               /\ mem' = mem /\ spoilt' = spoilt
      <4>1. Find(mem, BEG) # PE /\ Find(mem, END) # PE
        BY <3>2
      <4>2. PICK b \in Cells, e \in PB .. PE : LogAt(mem, BEG, b, e, said, spoilt)
        BY <2>2, <4>1, Zenon DEF Found
      <4>3. Find(mem, BEG) = b /\ Find(mem, END) = IF e = PE THEN PB ELSE e
        BY <1>2, <4>2, LogIsFound, Zenon
      <4>4. LogAt(mem, BEG, b, Find(mem, END), said, spoilt)
        BY <4>2, <4>3, LogWraps, Zenon
      <4>. QED
        BY <1>1, <3>2, <4>3, <4>4, Zenon
    <3>. QED
      BY <1>1, <3>1, <3>2, Zenon
  <2>. QED
    BY <1>3, <2>3, Zenon DEF StoreHolds, ReaderHolds
<1>5. ASSUME Clean(spoilt') PROVE AllWhole'
  <2>1. Clean(spoilt)
    BY <1>3, <1>5 DEF Clean
  <2>. QED
    BY <1>1, <2>1, Zenon DEF LogHolds, AllWhole
<1>6. BufferHolds'
  BY <1>1, <1>2, Zenon DEF BufferHolds
<1>. QED
  BY <1>4, <1>5, <1>6, Zenon DEF LogHolds

LEMMA LogHoldsNext == Types /\ LogHolds /\ [Next]_vars => LogHolds'
<1>. SUFFICES ASSUME Types, LogHolds, [Next]_vars PROVE LogHolds'
  OBVIOUS
<1>1. ASSUME UNCHANGED vars PROVE LogHolds'
  <2>1. /\ mem' = mem /\ beg' = beg /\ end' = end /\ buf' = buf /\ pc' = pc /\ todo' = todo
        /\ it' = it /\ page' = page /\ chunk' = chunk /\ said' = said /\ delivered' = delivered
        /\ spoilt' = spoilt
    BY <1>1 DEF vars
  <2>2. BufferHolds'
    BY <2>1, Zenon DEF LogHolds, BufferHolds
  <2>3. StoreHolds => StoreHolds'
    BY <2>1, Zenon DEF StoreHolds
  <2>4. ReaderHolds => ReaderHolds'
    BY <2>1, Zenon DEF ReaderHolds, InLog, AtString
  <2>5. AllWhole => AllWhole'
    BY <2>1, Zenon DEF AllWhole
  <2>. QED
    BY <2>1, <2>2, <2>3, <2>4, <2>5, Zenon DEF LogHolds
<1>. QED
  BY <1>1, SayHolds, ProcessHolds, WriteHolds, EndsHolds, LockHolds, NextHolds, ChunkHolds, UnlockHolds,
     UnlockFailsHolds, MarkHolds, LastHolds, CrashHolds, InitHolds, Zenon DEF Next

LEMMA LogHoldsAlways == Spec => [](Types /\ LogHolds)
<1>1. Init => Types /\ LogHolds
  BY TypesStart, HoldsAtStart
<1>2. Types /\ LogHolds /\ [Next]_vars => (Types /\ LogHolds)'
  BY TypesKept, LogHoldsNext
<1>. QED
  BY <1>1, <1>2, PTL DEF Spec

-----------------------------------------------------------------------------
(***************************************************************************)
(* Whatever is said and sent, whichever transmissions fail and wherever    *)
(* the processor stops, a restart (LOG_init, find_TAG) finds the log the   *)
(* program had between two operations, after a reset and a full TCP buffer *)
(* too.  It need not once a flush has not fitted in the log or has begun   *)
(* at the last byte of a page with a full buffer, the reader has gone back *)
(* with another page in hand, or the processor has stopped, after a reset, *)
(* in a flush or a move of BEG.                                            *)
(***************************************************************************)
THEOREM LogFound == Spec => []RestartFindsTheLog
<1>1. Types /\ LogHolds => RestartFindsTheLog
  <2>. SUFFICES ASSUME Types, LogHolds, pc = "run", spoilt \subseteq {"unsent", "exact", "reset"}
                PROVE  Find(mem, BEG) = beg /\ Find(mem, END) = IF end = PE THEN PB ELSE end
    BY DEF RestartFindsTheLog
  <2>1. Sound(spoilt) /\ pc \in {"run", "read", "chunk", "last"}
    BY DEF Sound
  <2>2. LogAt(mem, BEG, beg, end, said, spoilt)
    BY <2>1, Zenon DEF LogHolds, StoreHolds
  <2>3. mem \in [Cells -> Byte]
    BY DEF Types, TypeOK, Cells
  <2>. QED
    BY <2>2, <2>3, LogIsFound, Zenon
<1>. QED
  BY <1>1, LogHoldsAlways, PTL

(***************************************************************************)
(* The server receives whole strings only (send_log_with_MQTT,             *)
(* LOG_get_next_string), whatever page boundaries, wraps and tags they lie *)
(* across and whatever a restart has found.  Excepted are the cases of     *)
(* LogFound, and a TCP buffer exactly full, after which BEG has taken the  *)
(* place of a byte.                                                        *)
(***************************************************************************)
THEOREM WholeDelivered == Spec => []DeliversWholeStrings
<1>1. Types /\ LogHolds => DeliversWholeStrings
  BY WholeIs, Zenon DEF LogHolds, Clean, AllWhole, DeliversWholeStrings
<1>. QED
  BY <1>1, LogHoldsAlways, PTL

-----------------------------------------------------------------------------
(***************************************************************************)
(* Where a string is: received, in the TCP buffer, in the log, or still in *)
(* the RAM buffer.  Without a crash each string is in one of these places, *)
(* and what the reader has passed is received or in the TCP buffer.  The   *)
(* TCP buffer counts only between the move of BEG and the last             *)
(* transmission: before it, what is sent is in the log as well.            *)
(***************************************************************************)
Sent(m)   == \E s \in delivered : Has(s, m)
Waits(m)  == \E n \in 1 .. Len(chunk) : Has(chunk[n], m)
Logged(m) == \E i \in 1 .. Size(beg, end) - 1 : mem[At(beg, i)].m = m
Safe(m)   == Sent(m) \/ Logged(m) \/ Has(buf, m) \/ (pc = "last" /\ Waits(m))
ReadSoFar == \A i \in 1 .. Off(beg, it) - 1 : Sent(mem[At(beg, i)].m) \/ Waits(mem[At(beg, i)].m)

NoneLost ==
  crashes = 0 /\ spoilt = {} =>
    /\ pc # "off"
    /\ \A m \in 1 .. Len(said) : said[m] > 1 => Safe(m)
    /\ pc \in {"read", "chunk", "mark"} => ReadSoFar

LEMMA WhenClean ==
  ASSUME LogHolds, spoilt = {}
  PROVE  StoreHolds /\ ReaderHolds
<1>1. Sound(spoilt)
  BY DEF Sound
<1>. QED
  BY <1>1, Zenon DEF LogHolds

LEMMA NoneLostStart == Init => NoneLost
<1>. SUFFICES ASSUME Init PROVE NoneLost
  OBVIOUS
<1>1. said = << >> /\ pc = "run"
  BY DEF Init
<1>. QED
  BY <1>1 DEF NoneLost

LEMMA SayLoses ==
  ASSUME Types, NoneLost, NEW len \in Lengths, LOG_say(len)
  PROVE  NoneLost'
<1>. DEFINE l == Least(len, PAGE - Len(buf))
<1>0. PICK n : n = Len(said) + 1
  OBVIOUS
<1>1. /\ mem' = mem /\ beg' = beg /\ end' = end /\ pc' = pc /\ it' = it /\ chunk' = chunk
      /\ delivered' = delivered /\ spoilt' = spoilt /\ crashes' = crashes
  BY DEF LOG_say, store, reader, counts
<1>2. /\ l \in 1 .. PAGE - 2 /\ n \in 1 .. MaxSaid /\ Len(said') = n
      /\ \A m \in 1 .. Len(said) : said'[m] = said[m]
      /\ Len(buf') = Len(buf) + l
      /\ \A k \in 1 .. Len(buf) : buf'[k] = buf[k]
      /\ \A k \in 1 .. l : buf'[Len(buf) + k] = Text(n, k, l)
  BY <1>0, SayIs, Zenon DEF Types
<1>3. Len(buf) \in Nat /\ Len(said) \in Nat
  BY DEF Types, TypeOK
<1>. HIDE DEF l
<1>4. \A m : Has(buf, m) => Has(buf', m)
  <2>1. \A k \in 1 .. Len(buf) : k \in 1 .. Len(buf')
    BY <1>2, <1>3
  <2>. QED
    BY <1>2, <2>1, Zenon DEF Has
<1>5. Has(buf', n)
  <2>1. Len(buf) + 1 \in 1 .. Len(buf') /\ 1 \in 1 .. l
    BY <1>2, <1>3
  <2>2. buf'[Len(buf) + 1] = Text(n, 1, l)
    BY <1>2, <2>1, Zenon
  <2>3. buf'[Len(buf) + 1].m = n /\ buf'[Len(buf) + 1].is \in {"char", "zero"}
    BY <2>2 DEF Text
  <2>. QED
    BY <2>1, <2>3, Zenon DEF Has
<1>6. \A m \in 1 .. Len(said') : m \in 1 .. Len(said) \/ m = n
  BY <1>0, <1>2, <1>3
<1>7. \A m : Safe(m) => Safe(m)'
  BY <1>1, <1>4, Zenon DEF Safe, Sent, Waits, Logged
<1>8. Safe(n)'
  BY <1>5, Zenon DEF Safe
<1>9. ReadSoFar => ReadSoFar'
  BY <1>1, Zenon DEF ReadSoFar, Sent, Waits
<1>10. ASSUME crashes' = 0, spoilt' = {} PROVE \A m \in 1 .. Len(said') : said'[m] > 1 => Safe(m)'
  <2>. TAKE m \in 1 .. Len(said')
  <2>1. CASE m = n
    BY <1>8, <2>1, Zenon
  <2>2. CASE m \in 1 .. Len(said)
    BY <1>1, <1>2, <1>7, <1>10, <2>2, Zenon DEF NoneLost
  <2>. QED
    BY <1>6, <2>1, <2>2, Zenon
<1>. QED
  BY <1>1, <1>9, <1>10, Zenon DEF NoneLost

\* The flush begins.
LEMMA ProcessLoses ==
  ASSUME Types, NoneLost, LOG_process_buffer
  PROVE  NoneLost'
<1>1. /\ mem' = mem /\ beg' = beg /\ end' = end /\ pc = "run" /\ pc' = "write" /\ buf' = buf /\ said' = said
      /\ delivered' = delivered /\ crashes' = crashes /\ spoilt \subseteq spoilt'
  BY DEF LOG_process_buffer, store, reader, counts
<1>2. spoilt' = {} => spoilt = {}
  BY <1>1
<1>3. \A m : Safe(m) => Safe(m)'
  <2>1. pc # "last"
    BY <1>1
  <2>. QED
    BY <1>1, <2>1, Zenon DEF Safe, Sent, Logged
<1>4. pc' \notin {"off", "read", "chunk", "mark"} /\ pc' # "off"
  BY <1>1
<1>. QED
  BY <1>1, <1>2, <1>3, <1>4, Zenon DEF NoneLost

LEMMA WriteLoses ==
  ASSUME Types, LogHolds, NoneLost, WritePiece
  PROVE  NoneLost'
<1>1. /\ pc = "write" /\ todo # << >> /\ mem' = WriteBlock(mem, Head(todo))
      /\ beg' = beg /\ end' = end /\ pc' = pc /\ buf' = buf /\ said' = said
      /\ delivered' = delivered /\ crashes' = crashes /\ spoilt' = spoilt
  BY DEF WritePiece, reader, counts
<1>2. ASSUME spoilt = {} PROVE \A m : Safe(m) => Safe(m)'
  <2>1. PICK j : Writing(beg, end, buf, said, mem, todo, spoilt, j)
    BY <1>1, <1>2, WhenClean, Zenon DEF StoreHolds
  <2>2. \A i \in 1 .. Size(beg, end) - 1 : mem'[At(beg, i)] = mem[At(beg, i)]
    BY <1>1, <2>1, WriteGoesOn, Zenon DEF Types
  <2>3. pc # "last"
    BY <1>1
  <2>. QED
    BY <1>1, <2>2, <2>3, Zenon DEF Safe, Sent, Logged
<1>3. pc' \notin {"read", "chunk", "mark"} /\ pc' # "off"
  BY <1>1
<1>. QED
  BY <1>1, <1>2, <1>3, Zenon DEF NoneLost

\* What was in the buffer is in the log now.
LEMMA EndsLoses ==
  ASSUME Types, LogHolds, NoneLost, ProcessEnds
  PROVE  NoneLost'
<1>1. /\ pc = "write" /\ todo = << >> /\ end' = AddOffset(end, Len(buf)) /\ pc' = "run"
      /\ mem' = mem /\ beg' = beg /\ said' = said
      /\ delivered' = delivered /\ crashes' = crashes /\ spoilt' = spoilt
  BY DEF ProcessEnds, reader, counts
<1>2. ASSUME spoilt = {} PROVE \A m : Safe(m) => Safe(m)'
  <2>. DEFINE S == Size(beg, end)
  <2>1. PICK j : Writing(beg, end, buf, said, mem, << >>, spoilt, j)
    BY <1>1, <1>2, WhenClean, Zenon DEF StoreHolds
  <2>2. /\ beg \in Cells /\ end \in PB .. PE /\ S \in Nat /\ S >= 1 /\ S <= SIZE - 1 /\ SIZE \in Nat
        /\ Len(buf) \in Nat /\ S + (Len(buf) + 1) <= SIZE /\ j \in 0 .. Len(buf) + 1
        /\ \A i \in 1 .. SIZE - 1 : S <= i /\ i < S + j => mem[At(beg, i)] = Append(buf, END)[(i - S) + 1]
    BY <2>1, WrittenIs, Zenon DEF Types, LogHolds
  <2>3. j = Len(buf) + 1
    <3>1. Todo(beg, end, buf, << >>, j)
      BY <2>1, Zenon DEF Writing
    <3>2. \A p, q : << >> # << p >> /\ << >> # << p, q >>
      OBVIOUS
    <3>. QED
      BY <3>1, <3>2, Zenon DEF Todo
  <2>. HIDE DEF S
  <2>4. Size(beg', end') = S + Len(buf)
    <3>1. S < SIZE /\ S + Len(buf) < SIZE
      BY <2>2
    <3>. QED
      BY <1>1, <2>2, <3>1, EndMoves, Zenon DEF S
  <2>5. \A i \in 1 .. S - 1 : i \in 1 .. Size(beg', end') - 1
    BY <2>2, <2>4
  <2>6. \A m : Logged(m) => Logged(m)'
    BY <1>1, <2>5, Zenon DEF Logged, S
  <2>7. ASSUME NEW m, Has(buf, m) PROVE Logged(m)'
    <3>1. PICK k \in 1 .. Len(buf) : buf[k].m = m
      BY <2>7, Zenon DEF Has
    <3>. DEFINE i == S + (k - 1)
    <3>2. /\ i \in 1 .. SIZE - 1 /\ S <= i /\ i < S + j /\ (i - S) + 1 = k
          /\ i \in 1 .. Size(beg', end') - 1
      BY <2>2, <2>3, <2>4
    <3>. HIDE DEF i
    <3>3. mem[At(beg, i)] = Append(buf, END)[k]
      BY <2>2, <3>2, Zenon
    <3>4. Append(buf, END)[k] = buf[k]
      BY AllIs, Zenon DEF Types, TypeOK
    <3>. QED
      BY <1>1, <3>1, <3>2, <3>3, <3>4, Zenon DEF Logged
  <2>8. pc # "last"
    BY <1>1
  <2>. QED
    BY <1>1, <2>6, <2>7, <2>8, Zenon DEF Safe, Sent
<1>3. pc' \notin {"read", "chunk", "mark"} /\ pc' # "off"
  BY <1>1
<1>. QED
  BY <1>1, <1>2, <1>3, Zenon DEF NoneLost

LEMMA LockLoses ==
  ASSUME Types, LogHolds, NoneLost, LOG_lock
  PROVE  NoneLost'
<1>1. /\ pc = "run" /\ it' = beg /\ pc' = "read"
      /\ mem' = mem /\ beg' = beg /\ end' = end /\ buf' = buf /\ said' = said /\ spoilt' = spoilt
      /\ delivered' = delivered /\ crashes' = crashes
  BY DEF LOG_lock, store, counts
<1>2. pc # "last" /\ pc' # "last" /\ pc' # "off" /\ pc \in {"run", "read", "chunk", "last"}
  BY <1>1
<1>3. \A m : Safe(m) => Safe(m)'
  BY <1>1, <1>2, Zenon DEF Safe, Sent, Logged
<1>4. ASSUME spoilt = {} PROVE ReadSoFar'
  <2>1. beg \in Cells
    BY <1>2, <1>4, WhenClean, Zenon DEF StoreHolds, LogAt
  <2>2. Off(beg', it') = 0
    BY <1>1, <2>1, Offsets, Zenon
  <2>3. ~ \E i \in 1 .. 0 - 1 : TRUE
    OBVIOUS
  <2>. QED
    BY <2>2, <2>3, Zenon DEF ReadSoFar
<1>. QED
  BY <1>1, <1>2, <1>3, <1>4, Zenon DEF NoneLost

\* The string taken is in the TCP buffer, and with it all the reader passes.
LEMMA NextLoses ==
  ASSUME Types, LogHolds, NoneLost, LOG_get_next_string
  PROVE  NoneLost'
<1>1. /\ pc = "read" /\ ~ NextString.empty
      /\ mem' = mem /\ beg' = beg /\ end' = end /\ buf' = buf /\ said' = said
      /\ delivered' = delivered /\ crashes' = crashes
      /\ \/ /\ chunk' = Append(chunk, NextString.s) /\ it' = NextString.it
            /\ pc' = pc
         \/ pc' = "chunk" /\ chunk' = chunk /\ it' = it
      /\ spoilt \subseteq spoilt'
  BY DEF LOG_get_next_string, store, counts
<1>2. /\ spoilt' = {} => spoilt = {}
      /\ pc # "last" /\ pc' # "off" /\ pc \in {"run", "read", "chunk", "last"} /\ pc \in {"read", "chunk", "mark"}
      /\ pc \in {"read", "chunk"}
  BY <1>1
<1>3. \A m : Safe(m) => Safe(m)'
  BY <1>1, <1>2, Zenon DEF Safe, Sent, Logged
<1>4. ASSUME spoilt = {}, ReadSoFar PROVE ReadSoFar'
  <2>1. CASE it' = it /\ chunk' = chunk
    BY <1>1, <1>4, <2>1, Zenon DEF ReadSoFar, Sent, Waits
  <2>2. CASE chunk' = Append(chunk, NextString.s) /\ it' = NextString.it
    <3>. DEFINE v == NextString.s
                x == NextString.it
                w == Append(chunk, v)
    <3>1. /\ LogAt(mem, BEG, beg, end, said, spoilt) /\ InLog /\ AtString(mem, it, said, spoilt)
          /\ Off(beg, it) # Size(beg, end) - 1 => page = PageOf(mem, it)
      BY <1>2, <1>4, WhenClean, Zenon DEF StoreHolds, ReaderHolds
    <3>2. beg \in Cells /\ end \in PB .. PE /\ Size(beg, end) < SIZE /\ it \in Cells /\ Off(beg, it) < Size(beg, end)
      BY <3>1, Zenon DEF LogAt, InLog
    <3>3. Off(beg, it) # Size(beg, end) - 1
      BY <1>1, <3>2, EmptyIs, Zenon
    <3>4. /\ x \in Cells
          /\ \A i \in 1 .. Off(beg, x) - 1 : Off(beg, it) <= i => Has(v, mem[At(beg, i)].m)
      BY <3>1, <3>3, ReadsOn, Zenon
    <3>5. chunk \in Seq(Seq(Byte)) /\ Len(chunk) \in Nat
      BY DEF Types
    <3>6. v \in Seq(Byte)
      BY NextStringType, Zenon DEF Types
    <3>. HIDE DEF v, x
    <3>7. /\ Len(w) = Len(chunk) + 1
          /\ \A n \in 1 .. Len(chunk) : w[n] = chunk[n]
          /\ w[Len(chunk) + 1] = v
      BY <3>5, <3>6
    <3>8. (\A n \in 1 .. Len(chunk) : n \in 1 .. Len(w)) /\ Len(chunk) + 1 \in 1 .. Len(w)
      BY <3>5, <3>7
    <3>9. chunk' = w /\ it' = x
      BY <2>2, Zenon DEF v, x
    <3>. HIDE DEF w
    <3>10. \A m : Waits(m) => Waits(m)'
      BY <3>7, <3>8, <3>9, Zenon DEF Waits
    <3>11. \A m : Has(v, m) => Waits(m)'
      BY <3>7, <3>8, <3>9, Zenon DEF Waits
    <3>12. \A i \in 1 .. Off(beg, x) - 1 : Off(beg, it) <= i \/ i \in 1 .. Off(beg, it) - 1
      <4>1. Off(beg, it) \in 0 .. SIZE - 1 /\ Off(beg, x) \in 0 .. SIZE - 1 /\ SIZE \in Nat
        <5>1. Off(beg, it) \in 0 .. SIZE - 1
          BY <3>2, Offsets, Zenon
        <5>2. Off(beg, x) \in 0 .. SIZE - 1
          BY <3>2, <3>4, Offsets, Zenon
        <5>3. SIZE \in Nat
          BY Sizes
        <5>. QED
          BY <5>1, <5>2, <5>3
      <4>. QED
        BY <4>1
    <3>. QED
      BY <1>1, <1>4, <3>4, <3>9, <3>10, <3>11, <3>12, Zenon DEF ReadSoFar, Sent
  <2>. QED
    BY <1>1, <2>1, <2>2, Zenon
<1>. QED
  BY <1>1, <1>2, <1>3, <1>4, Zenon DEF NoneLost

\* What the TCP buffer held has been received.
LEMMA AllReceived ==
  ASSUME Types, delivered' = delivered \cup {chunk[n] : n \in DOMAIN chunk}, NEW m
  PROVE  Sent(m) \/ Waits(m) => Sent(m)'
<1>1. DOMAIN chunk = 1 .. Len(chunk)
  BY DEF Types
<1>. QED
  BY <1>1, Zenon DEF Sent, Waits

LEMMA ChunkLoses ==
  ASSUME Types, NoneLost, SendChunk
  PROVE  NoneLost'
<1>1. /\ pc = "chunk"
      /\ mem' = mem /\ beg' = beg /\ end' = end /\ buf' = buf /\ said' = said /\ spoilt' = spoilt
      /\ crashes' = crashes
      /\ \/ /\ delivered' = delivered \cup {chunk[n] : n \in DOMAIN chunk}
            /\ pc' = "read" /\ it' = it
         \/ pc' = "run" /\ delivered' = delivered
  BY DEF SendChunk, store
<1>2. pc # "last" /\ pc' # "off" /\ pc \in {"read", "chunk", "mark"} /\ pc' # "last"
  BY <1>1
<1>3. \A m : Sent(m) => Sent(m)'
  BY <1>1, AllReceived, Zenon DEF Sent
<1>4. \A m : Safe(m) => Safe(m)'
  BY <1>1, <1>2, <1>3, Zenon DEF Safe, Logged
<1>5. CASE pc' = "run"
  <2>1. pc' \notin {"read", "chunk", "mark"}
    BY <1>5
  <2>. QED
    BY <1>1, <1>2, <1>4, <2>1, Zenon DEF NoneLost
<1>6. CASE delivered' = delivered \cup {chunk[n] : n \in DOMAIN chunk} /\ it' = it
  <2>1. \A m : Sent(m) \/ Waits(m) => Sent(m)'
    BY <1>6, AllReceived, Zenon
  <2>2. ReadSoFar => ReadSoFar'
    BY <1>1, <1>6, <2>1, Zenon DEF ReadSoFar
  <2>. QED
    BY <1>1, <1>2, <1>4, <2>2, Zenon DEF NoneLost
<1>. QED
  BY <1>1, <1>5, <1>6, Zenon

LEMMA UnlockLoses ==
  ASSUME Types, LogHolds, NoneLost, LOG_unlock
  PROVE  NoneLost'
<1>1. /\ pc = "read" /\ mem' = Write1(mem, beg, DEL) /\ pc' = "mark" /\ spoilt \subseteq spoilt'
      /\ beg' = beg /\ end' = end /\ buf' = buf /\ it' = it /\ chunk' = chunk
      /\ said' = said /\ delivered' = delivered /\ crashes' = crashes
  BY DEF LOG_unlock, reader, counts
<1>2. /\ spoilt' = {} => spoilt = {}
      /\ pc # "last" /\ pc' # "off" /\ pc \in {"run", "read", "chunk", "last"} /\ pc \in {"read", "chunk", "mark"}
  BY <1>1
<1>3. ASSUME spoilt = {} PROVE (\A m : Safe(m) => Safe(m)') /\ (ReadSoFar => ReadSoFar')
  <2>. DEFINE S == Size(beg, end)
              o == Off(beg, it)
  <2>1. LogAt(mem, BEG, beg, end, said, spoilt) /\ InLog
    BY <1>2, <1>3, WhenClean, Zenon DEF StoreHolds, ReaderHolds
  <2>2. /\ beg \in Cells /\ end \in PB .. PE /\ S < SIZE /\ it \in Cells /\ o < S
        /\ mem \in [Cells -> Byte] /\ DEL \in Byte /\ beg \in Nat
    <3>1. \A a \in Cells : a \in Nat
      BY Sizes DEF Cells
    <3>. QED
      BY <2>1, <3>1, Tags, Zenon DEF LogAt, InLog, Types, TypeOK, Cells
  <2>3. /\ S \in Nat /\ S <= SIZE - 1 /\ SIZE \in Nat /\ At(beg, 0) = beg
        /\ \A i \in 0 .. SIZE - 1 : At(beg, i) \in Cells /\ Off(beg, At(beg, i)) = i
        /\ o \in 0 .. SIZE - 1
    BY <2>2, LogSizes, Zenon
  <2>. HIDE DEF S, o
  <2>4. \A i \in 1 .. S - 1 : mem'[At(beg, i)] = mem[At(beg, i)]
    <3>. TAKE i \in 1 .. S - 1
    <3>1. i \in 0 .. SIZE - 1 /\ 0 \in 0 .. SIZE - 1 /\ i # 0
      BY <2>3
    <3>2. At(beg, i) \in Cells /\ At(beg, i) # beg
      BY <2>3, <3>1, Zenon
    <3>3. Write1(mem, beg, DEL)[At(beg, i)] = mem[At(beg, i)]
      <4>1. Wrote(Write1(mem, beg, DEL), mem, beg, DEL)
        BY <2>2, WroteOne, Zenon
      <4>. QED
        BY <3>2, <4>1, Zenon DEF Wrote
    <3>. QED
      BY <1>1, <3>3, Zenon
  <2>5. \A i \in 1 .. o - 1 : i \in 1 .. S - 1
    BY <2>2, <2>3
  <2>. QED
    BY <1>1, <1>2, <2>4, <2>5, Zenon DEF Safe, Sent, Waits, Logged, ReadSoFar, S, o
<1>. QED
  BY <1>1, <1>2, <1>3, Zenon DEF NoneLost

\* The last byte of the log is of the string before it, unless it is one of its own.
SameString(m, b, e, i) ==
  i - 1 \in 1 .. Size(b, e) - 1 /\ m[At(b, i - 1)].m = m[At(b, i)].m

LEMMA LastByte ==
  ASSUME NEW m, NEW tag, NEW b, NEW e, NEW sd \in Seq(1 .. PAGE), NEW sp, LogAt(m, tag, b, e, sd, sp),
         "exact" \notin sp, NEW i \in 1 .. Size(b, e) - 1, i + 1 = Size(b, e), sd[m[At(b, i)].m] # 1
  PROVE  SameString(m, b, e, i)
<1>. DEFINE S == Size(b, e)
            y == m[At(b, i)]
            x == m[At(b, i - 1)]
<1>1. b \in Cells /\ e \in PB .. PE /\ S < SIZE /\ m[At(b, S)] = END
  BY Zenon DEF LogAt
<1>2. S \in Nat /\ S >= 1 /\ i + 1 = S /\ i \in 1 .. S - 1
  <2>1. S \in Nat /\ S >= 1
    BY <1>1, LogSizes, Zenon
  <2>. QED
    BY <2>1
<1>3. IsByte(y, sd) /\ Follows(y, END, sd)
  BY <1>1, <1>2, Zenon DEF LogAt, Body
<1>. HIDE DEF y, S
<1>4. /\ y.m \in 1 .. Len(sd) /\ y.k \in 1 .. sd[y.m] /\ sd[y.m] \in 1 .. PAGE
      /\ y \notin {BEG, END, DEL}
  BY <1>3, ByteIs, Zenon
<1>5. y.k = sd[y.m]
  <2>1. ~ (y.k < sd[y.m])
    BY <1>3, TextIsNot DEF Follows
  <2>. QED
    BY <1>4, <2>1
<1>6. y.k # 1
  BY <1>4, <1>5 DEF y
<1>7. ~ Opens(y, sd)
  <2>1. y # END
    BY <1>4
  <2>. QED
    BY <1>6, <2>1, OpensByte, Zenon
<1>8. i # 1
  BY <1>7, Zenon DEF LogAt, y
<1>9. i - 1 \in 1 .. S - 1 /\ (i - 1) + 1 = i
  <2>. HIDE DEF x
  <2>1. i \in Nat /\ i >= 2
    BY <1>2, <1>8
  <2>. QED
    BY <1>2, <2>1
<1>10. Follows(x, y, sd)
  BY <1>9, Zenon DEF LogAt, Body, S, y
<1>. HIDE DEF x
<1>11. y = Text(x.m, x.k + 1, sd[x.m])
  BY <1>7, <1>10, Zenon DEF Follows
<1>12. y.m = x.m
  BY <1>11, TextParts
<1>. QED
  BY <1>9, <1>12, Zenon DEF S, x, y, SameString

\* The log is given up: every string of it is received or in the TCP buffer.
LEMMA MarkLoses ==
  ASSUME Types, LogHolds, NoneLost, LOG_unlock_mark
  PROVE  NoneLost'
<1>1. /\ pc = "mark" /\ pc' = "last" /\ buf' = buf /\ chunk' = chunk
      /\ said' = said /\ delivered' = delivered /\ crashes' = crashes /\ spoilt' = spoilt
  BY DEF LOG_unlock_mark, reader, counts
<1>2. /\ pc \in {"read", "chunk", "mark"} /\ pc # "last"
      /\ pc' \notin {"read", "chunk", "mark"} /\ pc' # "off"
  BY <1>1
<1>3. ASSUME spoilt = {}, ReadSoFar, NEW m, said[m] > 1, Safe(m) PROVE Safe(m)'
  <2>. DEFINE S == Size(beg, end)
  <2>1. LogAt(mem, DEL, beg, end, said, spoilt) /\ ("exact" \in spoilt \/ Off(beg, it) = S - 1)
    BY <1>1, <1>3, WhenClean, Zenon DEF StoreHolds, ReaderHolds
  <2>2. "exact" \notin spoilt /\ said \in Seq(1 .. PAGE)
    BY <1>3 DEF Types, TypeOK
  <2>3. beg \in Cells /\ end \in PB .. PE /\ S < SIZE
    BY <2>1, Zenon DEF LogAt
  <2>4. S \in Nat /\ S >= 1
    BY <2>3, LogSizes, Zenon
  <2>5. CASE Logged(m)
    <3>1. PICK i \in 1 .. S - 1 : mem[At(beg, i)].m = m
      BY <2>5, Zenon DEF Logged
    <3>. HIDE DEF S
    <3>2. CASE i = S - 1
      <4>1. i - 1 \in 1 .. S - 1 /\ mem[At(beg, i - 1)].m = m
        <5>1. said[m] # 1
          BY <1>3
        <5>2. i + 1 = S /\ i \in 1 .. S - 1
          BY <2>4, <3>1, <3>2
        <5>3. said[mem[At(beg, i)].m] # 1
          BY <3>1, <5>1, Zenon
        <5>4. SameString(mem, beg, end, i)
          BY <2>1, <2>2, <5>2, <5>3, LastByte, Zenon DEF S
        <5>. QED
          BY <3>1, <5>4, Zenon DEF SameString, S
      <4>2. i - 1 \in 1 .. Off(beg, it) - 1
        BY <2>1, <2>2, <2>4, <3>2, <4>1
      <4>. QED
        BY <1>1, <1>3, <4>1, <4>2, Zenon DEF ReadSoFar, Safe, Sent, Waits
    <3>3. CASE i # S - 1
      <4>1. i \in 1 .. Off(beg, it) - 1
        BY <2>1, <2>2, <2>4, <3>3
      <4>. QED
        BY <1>1, <1>3, <3>1, <4>1, Zenon DEF ReadSoFar, Safe, Sent, Waits
    <3>. QED
      BY <3>2, <3>3
  <2>6. CASE Sent(m) \/ Has(buf, m)
    BY <1>1, <2>6, Zenon DEF Safe, Sent
  <2>. QED
    BY <1>2, <1>3, <2>5, <2>6, Zenon DEF Safe
<1>. QED
  BY <1>1, <1>2, <1>3, Zenon DEF NoneLost

LEMMA LastLoses ==
  ASSUME Types, NoneLost, SendLast
  PROVE  NoneLost'
<1>1. /\ pc = "last" /\ pc' = "run" /\ crashes' = crashes
      /\ mem' = mem /\ beg' = beg /\ end' = end /\ buf' = buf /\ said' = said
      /\ \/ /\ delivered' = delivered \cup {chunk[n] : n \in DOMAIN chunk}
            /\ spoilt' = spoilt
         \/ spoilt' = spoilt \cup {"unsent"}
  BY DEF SendLast, store
<1>2. pc' \notin {"read", "chunk", "mark"} /\ pc' # "off" /\ spoilt \cup {"unsent"} # {}
  BY <1>1
<1>3. ASSUME spoilt' = {} PROVE spoilt = {} /\ \A m : Safe(m) => Safe(m)'
  <2>1. delivered' = delivered \cup {chunk[n] : n \in DOMAIN chunk} /\ spoilt' = spoilt
    BY <1>1, <1>2, <1>3, Zenon
  <2>2. \A m : Sent(m) \/ Waits(m) => Sent(m)'
    BY <2>1, AllReceived, Zenon
  <2>. QED
    BY <1>1, <1>3, <2>1, <2>2, Zenon DEF Safe, Logged
<1>. QED
  BY <1>1, <1>2, <1>3, Zenon DEF NoneLost

LEMMA NoneLostNext == Types /\ LogHolds /\ NoneLost /\ [Next]_vars => NoneLost'
<1>. SUFFICES ASSUME Types, LogHolds, NoneLost, [Next]_vars PROVE NoneLost'
  OBVIOUS
<1>1. ASSUME Crash PROVE NoneLost'
  <2>1. crashes' # 0
    BY <1>1 DEF Crash, Types, TypeOK
  <2>. QED
    BY <2>1, Zenon DEF NoneLost
<1>2. ASSUME LOG_init PROVE NoneLost'
  <2>1. pc = "off" /\ crashes' = crashes /\ spoilt \subseteq spoilt'
    BY <1>2 DEF LOG_init, counts
  <2>2. spoilt' = {} => spoilt = {}
    BY <2>1
  <2>. QED
    BY <2>1, <2>2, Zenon DEF NoneLost
<1>4. ASSUME LOG_unlock_fails PROVE NoneLost'
  <2>1. /\ pc = "read" /\ pc' = "last" /\ mem' = mem /\ beg' = beg /\ end' = end /\ buf' = buf
        /\ chunk' = chunk /\ said' = said /\ delivered' = delivered /\ spoilt' = spoilt
        /\ crashes' = crashes
    BY <1>4 DEF LOG_unlock_fails, store, reader
  <2>2. pc # "last" /\ pc' # "off" /\ pc' \notin {"read", "chunk", "mark"}
    BY <2>1
  <2>3. \A m : Safe(m) => Safe(m)'
    BY <2>1, <2>2, Zenon DEF Safe, Sent, Logged
  <2>. QED
    BY <2>1, <2>2, <2>3, Zenon DEF NoneLost
<1>3. ASSUME UNCHANGED vars PROVE NoneLost'
  <2>1. /\ mem' = mem /\ beg' = beg /\ end' = end /\ buf' = buf /\ pc' = pc
        /\ it' = it /\ chunk' = chunk /\ said' = said /\ delivered' = delivered
        /\ spoilt' = spoilt /\ crashes' = crashes
    BY <1>3 DEF vars
  <2>2. \A m : Safe(m) => Safe(m)'
    BY <2>1, Zenon DEF Safe, Sent, Waits, Logged
  <2>3. ReadSoFar => ReadSoFar'
    BY <2>1, Zenon DEF ReadSoFar, Sent, Waits
  <2>. QED
    BY <2>1, <2>2, <2>3, Zenon DEF NoneLost
<1>. QED
  BY <1>1, <1>2, <1>3, <1>4, SayLoses, ProcessLoses, WriteLoses, EndsLoses, LockLoses, NextLoses, ChunkLoses,
     UnlockLoses, MarkLoses, LastLoses, Zenon DEF Next

\* Offsets as remainders by the size of the partition.
LEMMA Remainder ==
  ASSUME NEW d \in Int, -SIZE < d, d < SIZE
  PROVE  d % SIZE = IF d >= 0 THEN d ELSE d + SIZE
<1>1. SIZE \in Nat /\ SIZE > 0
  BY Sizes
<1>. HIDE DEF SIZE
<1>2. CASE d >= 0
  BY <1>1, <1>2
<1>3. CASE d < 0
  <2>1. d + SIZE \in 0 .. SIZE - 1 /\ d = SIZE * (-1) + (d + SIZE)
    BY <1>1, <1>3
  <2>2. \A r \in 0 .. SIZE - 1 : (SIZE * (-1) + r) % SIZE = r
    BY <1>1
  <2>3. (SIZE * (-1) + (d + SIZE)) % SIZE = d + SIZE
    BY <2>1, <2>2
  <2>. QED
    BY <1>3, <2>1, <2>3
<1>. QED
  BY <1>2, <1>3

(***************************************************************************)
(* No string is lost without a crash, an overrun or a last transmission    *)
(* that fails: each one said (LOG_say) has been received, or is in the log *)
(* or the buffer (LOG_process_buffer, LOG_unlock).                         *)
(***************************************************************************)
THEOREM NoStringIsLost == Spec => []NothingIsLost
<1>1. Types /\ LogHolds /\ NoneLost => NothingIsLost
  <2>. SUFFICES ASSUME Types, LogHolds, NoneLost, pc = "run", crashes = 0, spoilt = {},
                       NEW m \in DOMAIN said, said[m] > 1
                PROVE  m \in Received \cup Stored \cup Buffered
    BY DEF NothingIsLost
  <2>1. m \in 1 .. Len(said) /\ pc # "last" /\ pc \in {"run", "read", "chunk", "last"}
    BY DEF Types, TypeOK
  <2>2. Sent(m) \/ Logged(m) \/ Has(buf, m)
    BY <2>1, Zenon DEF NoneLost, Safe
  <2>3. CASE Sent(m)
    <3>1. PICK s \in delivered : Has(s, m)
      BY <2>3, Zenon DEF Sent
    <3>2. PICK k \in 1 .. Len(s) : s[k].m = m /\ s[k].is \in {"char", "zero"}
      BY <3>1, Zenon DEF Has
    <3>3. k \in DOMAIN s
      BY <3>2 DEF Types
    <3>4. s[k] \in UNION {{r[j] : j \in DOMAIN r} : r \in delivered}
      <4>1. s[k] \in {s[j] : j \in DOMAIN s}
        BY <3>3
      <4>2. {s[j] : j \in DOMAIN s} \in {{r[j] : j \in DOMAIN r} : r \in delivered}
        OBVIOUS
      <4>. QED
        BY <4>1, <4>2, Zenon
    <3>. QED
      BY <3>2, <3>4 DEF Received, Strings
  <2>4. CASE Has(buf, m)
    <3>1. PICK k \in 1 .. Len(buf) : buf[k].m = m /\ buf[k].is \in {"char", "zero"}
      BY <2>4, Zenon DEF Has
    <3>2. k \in DOMAIN buf
      BY <3>1 DEF Types, TypeOK
    <3>. QED
      BY <3>1, <3>2 DEF Buffered, Strings
  <2>5. CASE Logged(m)
    <3>. DEFINE S == Size(beg, end)
    <3>1. PICK i \in 1 .. S - 1 : mem[At(beg, i)].m = m
      BY <2>5, Zenon DEF Logged
    <3>. DEFINE x == At(beg, i)
    <3>2. LogAt(mem, BEG, beg, end, said, spoilt)
      BY <2>1, WhenClean, Zenon DEF StoreHolds
    <3>3. beg \in Cells /\ end \in PB .. PE /\ S < SIZE
      BY <3>2, Zenon DEF LogAt
    <3>4. S \in 1 .. SIZE - 1 /\ SIZE \in Nat
      <4>1. S \in 1 .. SIZE - 1
        BY <3>3, SizeIs, Zenon
      <4>. QED
        BY <4>1, Sizes
    <3>5. mem[x].is \in {"char", "zero"}
      <4>1. IsByte(mem[x], said)
        BY <3>2, Zenon DEF LogAt, Body
      <4>. QED
        BY <4>1, ByteIs DEF Types, TypeOK
    <3>6. i \in 0 .. SIZE - 1 /\ i \in Nat
      BY <3>4
    <3>7. x \in Cells /\ Off(beg, x) = i
      BY <3>3, <3>6, Places, Zenon
    <3>8. (x - beg) % SIZE = i
      <4>. HIDE DEF x, S
      <4>1. x - beg \in Int /\ -SIZE < x - beg /\ x - beg < SIZE
        BY <3>3, <3>7, Sizes DEF Cells, SIZE
      <4>2. x - beg = i \/ (x - beg = i - SIZE /\ x - beg < 0)
        BY <3>3, <3>6, <3>7, Sizes DEF Cells, Off
      <4>. QED
        BY <3>6, <4>1, <4>2, Remainder, Sizes
    <3>9. (end - beg) % SIZE = S
      <4>1. end - beg \in Int /\ -SIZE < end - beg /\ end - beg < SIZE
        BY <3>3, <3>4, Sizes DEF Cells, SIZE, Size
      <4>2. end - beg = S \/ (end - beg = S - SIZE /\ end - beg < 0)
        BY <3>3, <3>4, Sizes DEF Cells, Size
      <4>. HIDE DEF S
      <4>. QED
        BY <3>4, <4>1, <4>2, Remainder, Sizes
    <3>10. (x - beg) % (PE - PB) < (end - beg) % (PE - PB)
      <4>. HIDE DEF x
      <4>1. i < S
        BY <3>4
      <4>. QED
        BY <3>8, <3>9, <4>1, Zenon DEF SIZE
    <3>11. mem[x] \in {mem[a] : a \in {z \in PB .. PE - 1 : (z - beg) % (PE - PB) < (end - beg) % (PE - PB)}}
      BY <3>7, <3>10, Zenon DEF Cells
    <3>. HIDE DEF x
    <3>12. mem[x].m = m
      BY <3>1, Zenon DEF x
    <3>. QED
      BY <3>5, <3>11, <3>12, Zenon DEF Stored, Strings
  <2>. QED
    BY <2>2, <2>3, <2>4, <2>5
<1>2. Types /\ LogHolds /\ NoneLost /\ [Next]_vars => NoneLost'
  BY NoneLostNext
<1>. QED
  BY <1>1, <1>2, NoneLostStart, LogHoldsAlways, PTL DEF Spec
=============================================================================
