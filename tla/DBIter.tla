------------------------------ MODULE DBIter ------------------------------
(***************************************************************************)
(* Iterator arithmetic of the record database (services/DB/DB.c) and the   *)
(* external EEPROM it is stored in.                                        *)
(*                                                                         *)
(* An iterator is a byte address.  The partition is [PB, PE), PE is also   *)
(* the first address past the chip, records are S bytes long and the chip  *)
(* is written in pages of PAGE bytes: a block write that runs over the end *)
(* of its page continues at the beginning of the SAME page.                *)
(***************************************************************************)
EXTENDS Integers, Sequences

CONSTANTS PB,    \* DB_EEPROM_PARTITION_BEGIN
          PE,    \* DB_EEPROM_PARTITION_END
          S,     \* SIZE_OF_DB_RECORD, sizeof(DB_RECORD)
          PAGE   \* page size of the AT24CXX chip

ASSUME PartitionAssumption ==
  /\ PAGE \in Nat \ {0}
  /\ S \in 1 .. PAGE
  /\ PB \in Nat /\ PE \in Nat
  /\ PB % PAGE = 0 /\ PE % PAGE = 0   \* "Partitions must respect the page size"
  /\ PB + S <= PE
  /\ S < 65536

Extent == PE - PB

\* range*SIZE_OF_DB_RECORD is a product of two uint16_t, 16 bits wide on AVR.
Stride(range) == (range * S) % 65536

\* Mutant: the wrap is forgotten.
MoveForwardNoWrap(z, range) == z + Stride(range)

\* The comparison is strict: an iterator that lands on PE stays there.
MoveForward(z, range) ==
  LET n == Stride(range)
      x == PE - n
  IN IF z > x THEN PB + (z - x) ELSE z + n

MoveBack(z, range) ==
  LET n == Stride(range)
      x == PB + n
  IN IF z < x THEN PE - (x - z) ELSE z - n

Distance(zb, ze) ==
  IF ze > zb THEN ze - zb ELSE (PE - zb) + (ze - PB)

\* Mutant: the record is always written as one block.
PiecesOne(z) == << [at |-> z, from |-> 0, len |-> S] >>

(***************************************************************************)
(* The block writes of DB_put_record at z, in order: one when the record   *)
(* ends inside the page it begins in, or exactly at its end, else two.     *)
(***************************************************************************)
Pieces(z) ==
  LET zn == MoveForward(z, 1)
      v  == zn % PAGE
  IN IF v >= S \/ v = 0
     THEN << [at |-> z, from |-> 0, len |-> S] >>
     ELSE << [at |-> z, from |-> 0, len |-> S - v],
             [at |-> zn - v, from |-> S - v, len |-> v] >>

(***************************************************************************)
(* Where DB_get_record reads byte k of the record at z: the same pieces,   *)
(* but a sequential read runs on over page boundaries.                     *)
(***************************************************************************)
ReadAddr(z, k) ==
  LET zn == MoveForward(z, 1)
      v  == zn % PAGE
  IN IF v >= S \/ v = 0 \/ k < S - v THEN z + k ELSE (zn - v) + (k - (S - v))

-----------------------------------------------------------------------------
(***************************************************************************)
(* The content of the partition: for each byte the record it belongs to,   *)
(* its offset in the record, and the flags for the first byte.             *)
(***************************************************************************)
Blank == [rec |-> 0, off |-> 0, flag |-> 0]
ByteOf(r, k) == [rec |-> r, off |-> k, flag |-> 0]

(***************************************************************************)
(* One block write, of a piece of record r.  Byte k of a block at p.at is  *)
(* stored in the page of p.at, k bytes on, modulo the page.  Past the end  *)
(* of the chip no device acknowledges and nothing is written;              *)
(* DB_put_record ignores the error.                                        *)
(***************************************************************************)
WritePiece(mem, p, r) ==
  [a \in DOMAIN mem |->
     LET k == (a - p.at) % PAGE
     IN IF a \div PAGE = p.at \div PAGE /\ k < p.len THEN ByteOf(r, p.from + k) ELSE mem[a]]

\* Mutant: trims when the gap is exactly one record.
TrimBeginEarly(b, e) == IF (e - b) \in 0 .. S THEN MoveForward(b, 1) ELSE b

(***************************************************************************)
(* The second half of DB_append_record.  The difference is a uint32_t:     *)
(* when END has wrapped and BEGIN has not it is a huge number and BEGIN    *)
(* stays where it is.                                                      *)
(***************************************************************************)
TrimBegin(b, e) == IF (e - b) \in 0 .. S - 1 THEN MoveForward(b, 1) ELSE b

\* An append left BEGIN behind END, or an iterator on PE.
Slips(b, e, newb, newe) ==
  \/ PE \in {newb, newe}
  \/ b > e /\ newe < e /\ newb = b

\* DB_get_record: rec is 0 when the bytes at z are not those of one record.
RecordAt(mem, z) ==
  LET first == mem[z]
      whole == \A k \in 0 .. S - 1 :
                 LET c == mem[ReadAddr(z, k)] IN c.rec = first.rec /\ c.off = k
  IN [rec |-> IF whole THEN first.rec ELSE 0, flag |-> first.flag]

(***************************************************************************)
(* The records between two iterators, oldest first, as the readers find    *)
(* them: from the second iterator they move back one record at a time and  *)
(* stop when they are on the first.  k moves are DB_iterator_moveback(1)   *)
(* k times, over the beginning of the partition as often as need be.  A    *)
(* walk that misses the first iterator goes round for ever: it has taken   *)
(* Extent moves and is back where it began.                                *)
(***************************************************************************)
WalkBack(z, k) == IF k = 0 THEN z ELSE PB + (((z - PB) - k * S) % Extent)
Count(b, e) ==
  CHOOSE n \in 0 .. Extent :
    /\ n = Extent \/ WalkBack(e, n) = b
    /\ \A k \in 0 .. n - 1 : WalkBack(e, k) # b
Slot(b, e, i) == WalkBack(e, Count(b, e) - i + 1)
Window(mem, b, e) == [i \in 1 .. Count(b, e) |-> RecordAt(mem, Slot(b, e, i))]

=============================================================================
