----------------------------- MODULE RecordLog -----------------------------
(***************************************************************************)
(* What the record database promises: a bounded log of the newest records, *)
(* oldest first, in which a record can be flagged in place.  Appending to  *)
(* a full log discards the oldest record and nothing else.  Records are    *)
(* numbered in the order they are put.                                     *)
(*                                                                         *)
(* "void" says that the promise has ended: from then on the log is         *)
(* unconstrained.                                                          *)
(***************************************************************************)
EXTENDS Naturals, Sequences

CONSTANTS Flags, Capacity

VARIABLES log, count, void

Init == log = << >> /\ count = 0 /\ void = FALSE

Put ==
  /\ ~void
  /\ count' = count + 1
  /\ log' = Append(IF Len(log) = Capacity THEN Tail(log) ELSE log,
                   [rec |-> count', flag |-> 0])
  /\ void' = FALSE

Flag(i, f) ==
  /\ ~void
  /\ log' = [log EXCEPT ![i].flag = f]
  /\ UNCHANGED <<count, void>>

GiveUp == void' = TRUE

Next ==
  \/ Put
  \/ \E i \in DOMAIN log, f \in Flags : Flag(i, f)
  \/ GiveUp

vars == <<log, count, void>>

Spec == Init /\ [][Next]_vars
=============================================================================
