----------------------------- MODULE IterPair -----------------------------
(***************************************************************************)
(* What the stored iterators promise: BEGIN and END survive a restart, a   *)
(* save replaces BEGIN before END, and a restart finds what the last save  *)
(* had replaced so far.  "void" ends the promise.                          *)
(***************************************************************************)
CONSTANT Iterators

VARIABLES ram,     \* the iterators in use, [b |-> BEGIN, e |-> END]
          saved,   \* the iterators a restart will find
          void

Init == void = TRUE   \* nothing is promised before the first start

\* The database moves its iterators, or a restart has forgotten them.
Move  == /\ ~void /\ void' = FALSE
         /\ ram' \in [b : Iterators, e : Iterators]
         /\ saved' = saved

SaveBegin == /\ ~void /\ void' = FALSE
             /\ saved' = [saved EXCEPT !.b = ram.b]
             /\ ram' = ram

SaveEnd == /\ ~void /\ void' = FALSE
           /\ saved.b = ram.b
           /\ saved' = ram
           /\ ram' = ram

Restart == /\ ~void /\ void' = FALSE
           /\ ram' = saved
           /\ saved' = saved

\* A reset of the store begins or ends: the promise is made afresh.
Renew == void' = TRUE \/ void = TRUE

Next == Move \/ SaveBegin \/ SaveEnd \/ Restart \/ Renew

vars == <<ram, saved, void>>

Spec == Init /\ [][Next]_vars
=============================================================================
