---------------------------- MODULE MCScheduler ----------------------------
(* Small instances of Scheduler. *)
EXTENDS Scheduler

MCPeriod == [store |-> 1, sync |-> 2, send |-> 2]
MCJumps  == {-2, 2}
=============================================================================
