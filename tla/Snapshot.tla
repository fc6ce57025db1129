----------------------------- MODULE Snapshot -----------------------------
(***************************************************************************)
(* The snapshot ring of datalogger.c: the timer interrupt fills it         *)
(* (dl_snapshot_make), the store task in the main loop empties it          *)
(* (dl_task_store_data).  The interrupt runs between any two steps of the  *)
(* task: its two reads of the ring's ends, the start of the EEPROM driver, *)
(* and, for every record, the copy of the header (timestamp and flags) and *)
(* of the measurements, which leave for the EEPROM byte by byte.           *)
(*                                                                         *)
(* Snapshots are numbered as they are taken.                               *)
(***************************************************************************)
EXTENDS Integers, Sequences, FiniteSets

CONSTANTS SIZE,        \* SNAPSHOT_SIZE, a power of 2
          MaxDuring,   \* snapshots taken at most while one store task runs
          MaxSnap,     \* bound: snapshots taken
          MaxFail      \* bound: failures of AT24CXX_Init

ASSUME SizeAssumption == SIZE \in Nat /\ SIZE > 1
ASSUME BoundsAssumption == MaxDuring \in Nat /\ MaxSnap \in Nat /\ MaxFail \in Nat

VARIABLES slot,      \* g_data_snapshot: [stamp, data]
          beg,       \* g_data_snapshot_beg
          end,       \* g_data_snapshot_end
          status,    \* task_status_store_data
          due,       \* the store period has elapsed while the time was being synchronised
          pc,        \* where the store task is
          idx,       \* its index
          snEnd,     \* its sn_end
          head,      \* the timestamp it has copied
          taken,     \* snapshots taken
          during,    \* snapshots taken since the store task began
          archive,   \* history: what was appended to the database
          full,      \* history: times "Snapshot memory is full" was reported
          failed     \* history: times AT24CXX_Init failed

vars == <<slot, beg, end, status, due, pc, idx, snEnd, head, taken, during, archive, full, failed>>
task == <<pc, idx, snEnd, head>>
ring == <<slot, beg, end>>

IncNoMask(k) == k + 1        \* mutant: the index is not masked
Inc(k) == (k + 1) % SIZE     \* dl_snapshot_iter_inc
Slots == 0 .. SIZE - 1
Empty == [stamp |-> 0, data |-> 0]

Init ==
  /\ slot = [k \in Slots |-> Empty]
  /\ beg = 0 /\ end = 0
  /\ status = "STOP" /\ due = FALSE
  /\ pc = "idle" /\ idx = 0 /\ snEnd = 0 /\ head = 0
  /\ taken = 0 /\ during = 0
  /\ archive = << >> /\ full = 0 /\ failed = 0

(***************************************************************************)
(* dl_tick makes the store task ready, even while it runs, unless the time *)
(* is being synchronised: then the first tick after that does.             *)
(***************************************************************************)
MakeReady == status' = "READY" /\ due' = FALSE

\* Mutant: the elapsed period is forgotten after the synchronisation.
LateReadyForgets ==
  /\ due
  /\ due' = FALSE /\ status' = status
  /\ UNCHANGED <<ring, task, taken, during, archive, full, failed>>

LateReady ==
  /\ due
  /\ MakeReady
  /\ UNCHANGED <<ring, task, taken, during, archive, full, failed>>

\* Mutant: the slot is cleared before the index moves on.
TickClearsFilled ==
  /\ taken < MaxSnap
  /\ pc # "idle" => during < MaxDuring
  /\ taken' = taken + 1
  /\ during' = IF pc = "idle" THEN 0 ELSE during + 1
  /\ end' = Inc(end)
  /\ IF end' = beg
     THEN beg' = Inc(beg) /\ full' = full + 1
     ELSE UNCHANGED <<beg, full>>
  /\ slot' = [slot EXCEPT ![end] = [stamp |-> 0, data |-> taken']]
  /\ MakeReady \/ (due' = TRUE /\ status' = status)
  /\ UNCHANGED <<task, archive, failed>>

\* dl_tick, when the store period has elapsed: take the snapshot.
Tick ==
  /\ taken < MaxSnap
  /\ pc # "idle" => during < MaxDuring
  /\ taken' = taken + 1
  /\ during' = IF pc = "idle" THEN 0 ELSE during + 1
  /\ end' = Inc(end)
  /\ IF end' = beg
     THEN beg' = Inc(beg) /\ full' = full + 1
     ELSE UNCHANGED <<beg, full>>
  /\ slot' = [slot EXCEPT ![end] = [stamp |-> taken', data |-> taken'],
                          ![end'] = [@ EXCEPT !.stamp = 0]]
  /\ MakeReady \/ (due' = TRUE /\ status' = status)
  /\ UNCHANGED <<task, archive, failed>>

-----------------------------------------------------------------------------
\* The store task begins: dl_run has found it ready.  It reads beg ...
ReadBeg ==
  /\ pc = "idle" /\ status = "READY"
  /\ status' = "RUNNING"
  /\ idx' = beg
  /\ pc' = "end" /\ during' = 0
  /\ UNCHANGED <<ring, due, snEnd, head, taken, archive, full, failed>>

\* ... then end ...
ReadEnd ==
  /\ pc = "end"
  /\ snEnd' = end
  /\ pc' = "init"
  /\ UNCHANGED <<ring, status, due, idx, head, taken, during, archive, full, failed>>

\* ... then starts the EEPROM driver, and gives up if that fails.
DriverInit ==
  /\ pc = "init"
  /\ \/ pc' = "loop" /\ UNCHANGED failed
     \/ pc' = "quit" /\ failed < MaxFail /\ failed' = failed + 1
  /\ UNCHANGED <<ring, status, due, idx, snEnd, head, taken, during, archive, full>>

CopyHead ==
  /\ pc = "loop" /\ idx # snEnd
  /\ head' = slot[idx].stamp
  /\ pc' = "data"
  /\ UNCHANGED <<ring, status, due, idx, snEnd, taken, during, archive, full, failed>>

CopyData ==
  /\ pc = "data"
  /\ archive' = Append(archive, [stamp |-> head, data |-> slot[idx].data])
  /\ idx' = Inc(idx) /\ head' = 0
  /\ pc' = "loop"
  /\ UNCHANGED <<ring, status, due, snEnd, taken, during, full, failed>>

LoopEnds ==
  /\ pc = "loop" /\ idx = snEnd
  /\ pc' = "quit"
  /\ UNCHANGED <<ring, status, due, idx, snEnd, head, taken, during, archive, full, failed>>

\* Mutant: the ring is not emptied.
SetBegNot ==
  /\ pc = "quit"
  /\ pc' = "stop"
  /\ UNCHANGED <<ring, status, due, idx, snEnd, head, taken, during, archive, full, failed>>

\* Mutant: g_data_snapshot_beg = g_data_snapshot_end, read again.
SetBegToEnd ==
  /\ pc = "quit"
  /\ beg' = end
  /\ pc' = "stop"
  /\ UNCHANGED <<slot, end, status, due, idx, snEnd, head, taken, during, archive, full, failed>>

SetBeg ==
  /\ pc = "quit"
  /\ beg' = snEnd
  /\ pc' = "stop"
  /\ UNCHANGED <<slot, end, status, due, idx, snEnd, head, taken, during, archive, full, failed>>

SetStop ==
  /\ pc = "stop"
  /\ status' = "STOP"
  /\ pc' = "idle" /\ idx' = 0 /\ snEnd' = 0 /\ during' = 0
  /\ UNCHANGED <<ring, due, head, taken, archive, full, failed>>

Store ==
  \/ ReadBeg \/ ReadEnd \/ DriverInit
  \/ CopyHead \/ CopyData \/ LoopEnds
  \/ SetBeg \/ SetStop

Next == Tick \/ LateReady \/ Store

Spec == Init /\ [][Next]_vars

\* The main loop always comes round to the task, and the ticks go on.
FairSpec == Spec /\ WF_vars(Store) /\ WF_vars(LateReady)

-----------------------------------------------------------------------------
TypeOK ==
  /\ slot \in [Slots -> [stamp : 0 .. MaxSnap, data : 0 .. MaxSnap]]
  /\ beg \in Slots /\ end \in Slots /\ idx \in Slots /\ snEnd \in Slots
  /\ status \in {"STOP", "READY", "RUNNING"} /\ due \in BOOLEAN
  /\ pc \in {"idle", "end", "init", "loop", "data", "quit", "stop"}
  /\ head \in 0 .. MaxSnap /\ taken \in 0 .. MaxSnap
  /\ during \in 0 .. MaxDuring
  /\ archive \in Seq([stamp : 0 .. MaxSnap, data : 0 .. MaxSnap])
  /\ full \in 0 .. MaxSnap /\ failed \in 0 .. MaxFail

\* The slots of the ring that hold a snapshot, from index b on.
Held(b) == {k \in Slots : (k - b) % SIZE < (end - b) % SIZE}
Archived == {archive[n].data : n \in DOMAIN archive}

\* Snapshots the store task may still reach, now or when it runs again.
Pending ==
  LET from == IF pc \in {"loop", "data"} THEN idx ELSE beg
  IN {slot[k].data : k \in Held(from)}

Lost == (1 .. taken) \ (Archived \cup Pending)

(***************************************************************************)
(* Every record is archived once, in the order the snapshots were taken,   *)
(* whatever the interrupt does to the ring during the copy.                *)
(***************************************************************************)
ArchivedOnceInOrder ==
  \A m, n \in DOMAIN archive : m < n => archive[m].data < archive[n].data

(***************************************************************************)
(* A record with the timestamp of another snapshot, or with none, is       *)
(* archived only after the ring has overflowed.                            *)
(***************************************************************************)
WholeUnlessFull ==
  full = 0 => \A n \in DOMAIN archive : archive[n].stamp = archive[n].data

(***************************************************************************)
(* No snapshot is lost unless the ring has overflowed or the EEPROM driver *)
(* has failed: those taken while the store task runs stay for its next run.*)
(***************************************************************************)
NoSilentLoss == full = 0 /\ failed = 0 => Lost = {}

(***************************************************************************)
(* A store task made ready while it runs is forgotten when it stops, and   *)
(* one due while the time is synchronised comes late: still, once a later  *)
(* snapshot has been taken, the earlier ones reach the archive.            *)
(***************************************************************************)
ArchivedBeforeLong ==
  \A n \in 1 .. MaxSnap - 1 :
    taken > n ~> (n \in Archived \/ full > 0 \/ failed > 0)
=============================================================================
