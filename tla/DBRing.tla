------------------------------ MODULE DBRing ------------------------------
(***************************************************************************)
(* The record database of services/DB/DB.c between two restarts: records   *)
(* are appended at END, BEGIN is moved past what an append overwrites, and *)
(* a record can be flagged by writing its first byte.  Everything runs in  *)
(* the main loop, so one call is one step.                                 *)
(***************************************************************************)
EXTENDS DBIter

CONSTANTS Flags,    \* values DB_mark_record is called with
          MaxRec    \* bound: records appended

ASSUME BoundsAssumption == MaxRec \in Nat /\ Flags \subseteq Nat

VARIABLES mem,      \* the DB partition of the EEPROM
          begin,    \* g_eeprom_iter[ITERATOR_DB_BEGIN]
          end,      \* g_eeprom_iter[ITERATOR_DB_END]
          nrec,     \* records appended so far; a record is its number
          slipped   \* history: an append left BEGIN behind, or an iterator on PE

vars == <<mem, begin, end, nrec, slipped>>

Init ==
  /\ mem = [a \in PB .. PE - 1 |-> Blank]
  /\ begin = PB
  /\ end = PB
  /\ nrec = 0
  /\ slipped = FALSE

\* DB_put_record: all the pieces, in order.
Written(m, z, r) ==
  LET ps == Pieces(z)
      m1 == WritePiece(m, ps[1], r)
  IN IF Len(ps) = 1 THEN m1 ELSE WritePiece(m1, ps[2], r)

DB_append_record ==
  /\ nrec < MaxRec
  /\ nrec' = nrec + 1
  /\ mem' = Written(mem, end, nrec')
  /\ end' = MoveForward(end, 1)
  /\ begin' = TrimBegin(begin, end')
  /\ slipped' = (slipped \/ Slips(begin, end, begin', end'))

\* Mutant: the flags are written one byte too far.
DB_mark_record_Off(i, f) ==
  /\ mem' = [mem EXCEPT ![ReadAddr(Slot(begin, end, i), 1)] = [Blank EXCEPT !.flag = f]]
  /\ UNCHANGED <<begin, end, nrec, slipped>>

(***************************************************************************)
(* The senders flag a record they have found between the iterators.  The   *)
(* first byte of a record is its flags; a byte that is not the first of a  *)
(* record is simply overwritten.                                           *)
(***************************************************************************)
DB_mark_record(i, f) ==
  /\ mem' = [mem EXCEPT ![Slot(begin, end, i)] =
               IF @.off = 0 THEN [@ EXCEPT !.flag = f] ELSE [Blank EXCEPT !.flag = f]]
  /\ UNCHANGED <<begin, end, nrec, slipped>>

Next ==
  \/ DB_append_record
  \/ \E i \in 1 .. Count(begin, end), f \in Flags : DB_mark_record(i, f)

Spec == Init /\ [][Next]_vars

-----------------------------------------------------------------------------
TypeOK ==
  /\ mem \in [PB .. PE - 1 -> [rec : 0 .. MaxRec, off : 0 .. S - 1, flag : Flags \cup {0}]]
  /\ begin \in PB .. PE
  /\ end \in PB .. PE
  /\ nrec \in 0 .. MaxRec
  /\ slipped \in BOOLEAN

(***************************************************************************)
(* The readers walk from END back to BEGIN with DB_iterator_moveback and   *)
(* stop when the two iterators are equal: BEGIN must be a whole number of  *)
(* records away, and the records on the way are the newest ones, none      *)
(* missing, damaged or out of order.                                       *)
(***************************************************************************)
WalkBackFindsTheNewest ==
  ~slipped =>
    /\ begin # end => Distance(begin, end) % S = 0
    /\ LET w == Window(mem, begin, end)
       IN \A i \in DOMAIN w : w[i].rec = nrec - Len(w) + i

(***************************************************************************)
(* The database keeps as many records as fit in the partition: a record is *)
(* given up only when its bytes are needed for a new one.                  *)
(***************************************************************************)
KeepsWhatFits ==
  ~slipped => Count(begin, end) = IF nrec < Extent \div S THEN nrec ELSE Extent \div S

(***************************************************************************)
(* Until an iterator slips, the database is a bounded log that loses its   *)
(* oldest record only when full, and a flag touches the record it is put   *)
(* on and no other.                                                        *)
(***************************************************************************)
Log == INSTANCE RecordLog WITH
         Capacity <- Extent \div S,
         log <- Window(mem, begin, end), count <- nrec, void <- slipped

ImplementsRecordLog == Log!Spec

(***************************************************************************)
(* DB.c:460 says of DB_append_record that it "modifies DB_ITERATOR in      *)
(* order to trim the BEGIN position": what an append overwrites it trims,  *)
(* so that each record the readers find on their walk back to BEGIN is     *)
(* whole.                                                                  *)
(***************************************************************************)
AppendTrimsWhatItOverwrites ==
  [][nrec' = nrec + 1 =>
       \A i \in 1 .. Count(begin', end') : RecordAt(mem', Slot(begin', end', i)).rec # 0]_vars
=============================================================================
