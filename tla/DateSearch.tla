---------------------------- MODULE DateSearch ----------------------------
(***************************************************************************)
(* The search for a record by date (dl_search_record_by_date), with which  *)
(* the server's GET_BY_DATE_RANGE begins: the senders then walk back from  *)
(* the record it ends at.  It runs in the main loop between two appends    *)
(* and leaves the database as it is.                                       *)
(***************************************************************************)
EXTENDS DBRing

CONSTANT SkipCaps   \* the longest skip, 128 in the code

\* The lengths a step can have.
Skips == {1, 2, 4, 8, 16, 32, 64, 128}

\* The longest skip, in bytes, is a 16-bit number as every stride: a record fits in a page.
ASSUME SkipAssumption ==
  /\ SkipCaps \subseteq Skips
  /\ \A cap \in SkipCaps : cap * S < 65536

\* Bound: iterations of the loop that are looked at, more than a search needs.
Fuel == LET n == Extent \div S IN (n + 1) * (n + 2)

\* Records are stored in the order of their dates, with other dates between.
Date(rec) == 2 * rec

Least(a, b) == IF a < b THEN a ELSE b

\* The highest power of two that is no longer than r records, or the cap; 1 at least.
Power(r, cap) ==
  CHOOSE p \in Skips : p <= cap /\ (p = 1 \/ p <= r) /\ 2 * p > Least(r, cap)

\* dl_compute_skip_length
SkipLength(zb, ze, cap) == Power(Distance(zb, ze) \div S, cap)

\* What is read at z: at END there may be what is left of an old record.
DateAt(z, torn) == LET r == RecordAt(mem, z).rec IN IF r = 0 THEN torn ELSE Date(r)

(***************************************************************************)
(* One iteration of the loop: the date at the iterator is read; when the   *)
(* one sought has been passed the direction turns and the step is halved;  *)
(* at an end of the ring the direction turns and the date is read again.   *)
(***************************************************************************)
Iteration(q, cap, p) ==
  LET d       == DateAt(p.at, q.torn)
      past    == IF p.forward THEN d > q.date ELSE d < q.date
      skip    == IF past THEN p.skip \div 2 ELSE p.skip
      forward == p.forward # past
      to(z)   == [at |-> z, skip |-> skip, forward |-> forward, done |-> FALSE]
  IN IF d = q.date \/ skip = 0 THEN [p EXCEPT !.done = TRUE]
     ELSE IF forward
     THEN IF p.at = end THEN [to(end) EXCEPT !.forward = FALSE]
          ELSE to(MoveForward(p.at, Least(skip, SkipLength(p.at, end, cap))))
     ELSE IF p.at = begin THEN [to(begin) EXCEPT !.forward = TRUE]
          ELSE to(MoveBack(p.at, Least(skip, SkipLength(begin, p.at, cap))))

\* The loop from z on, until it breaks.
SearchFrom(z, q, cap) ==
  LET Loop[n \in 0 .. Fuel] ==
        IF n = 0
        THEN [at |-> z, skip |-> SkipLength(begin, end, cap), forward |-> FALSE, done |-> FALSE]
        ELSE LET p == Loop[n - 1] IN IF p.done THEN p ELSE Iteration(q, cap, p)
  IN Loop[Fuel]

\* Mutant: END is taken for the last record.
dl_search_from_END(q, cap) == SearchFrom(end, q, cap)

\* dl_search_record_by_date, on a database that is not empty.
dl_search_record_by_date(q, cap) == SearchFrom(MoveBack(end, 1), q, cap)

-----------------------------------------------------------------------------
(***************************************************************************)
(* On every ring the database can be in, however it lies in the partition, *)
(* the search ends, and next to the date: at its record, or, if there is   *)
(* none, at the last before or the first after it, END if there is no      *)
(* later one.  The bytes at END may show any date but the one sought: the  *)
(* first and the last stand for all that are out of range.  The senders,   *)
(* who begin with the record before, then leave out one record of the      *)
(* range at most and send none that is newer.                              *)
(***************************************************************************)
SearchEndsAtTheDate ==
  ~slipped /\ begin # end =>
    LET n      == Count(begin, end)
        at     == [i \in 1 .. n + 1 |-> IF i > n THEN end ELSE Slot(begin, end, i)]
        date   == [i \in 0 .. n + 1 |-> Date(nrec - n + i)]
    IN \A t \in date[0] + 1 .. date[n + 1] - 1, cap \in SkipCaps :
       \A torn \in (date[0] .. date[n + 1]) \ {t} :
         LET found == dl_search_record_by_date([date |-> t, torn |-> torn], cap)
         IN /\ found.done
            /\ \E i \in DOMAIN at :
                 /\ found.at = at[i]
                 /\ \/ date[i] = t
                    \/ date[i - 1] < t /\ t < date[i]
                    \/ i < n + 1 /\ date[i] < t /\ t < date[i + 1]
=============================================================================
