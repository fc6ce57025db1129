---------------------------- MODULE Datastore ----------------------------
(***************************************************************************)
(* The store task (dl_task_store_data) on the record database, block write *)
(* by block write, with crashes: a batch of records is appended, then the  *)
(* iterators are saved, BEGIN before END (IterStore shows that the stored  *)
(* iterators behave as the pair "saved").  A restart works on with the     *)
(* saved iterators (DB_init).                                              *)
(***************************************************************************)
EXTENDS DBIter

CONSTANTS Batch,       \* records one store task appends at most
          MaxRec,      \* bound: records appended
          MaxCrashes   \* bound: crashes

ASSUME BoundsAssumption ==
  /\ {Batch, MaxRec, MaxCrashes} \subseteq Nat
  /\ Batch < Extent \div S    \* a batch, a snapshot ring, is less than the partition

VARIABLES mem,
          iter,      \* g_eeprom_iter, in RAM: [b |-> BEGIN, e |-> END]
          saved,     \* the iterators in the EEPROM
          pc,        \* "run", "put" (second piece due), "saveB", "saveE", "down"
          due,       \* the second piece of the record being put
          batch,     \* records appended since the store task began
          nrec,      \* records taken so far; a record is its number
          crashes,
          kept,      \* history: the last record when the iterators were saved
          slipped    \* history: as in DBRing

vars == <<mem, iter, saved, pc, due, batch, nrec, crashes, kept, slipped>>

NoPiece == [at |-> PE, from |-> 0, len |-> 0]

Init ==
  /\ mem = [a \in PB .. PE - 1 |-> Blank]
  /\ iter = [b |-> PB, e |-> PB] /\ saved = iter
  /\ pc = "run" /\ due = NoPiece
  /\ batch = 0 /\ nrec = 0 /\ crashes = 0 /\ kept = 0 /\ slipped = FALSE

\* The end of DB_append_record, END having moved already.
Trim(b, oldEnd, newEnd) ==
  /\ iter' = [b |-> TrimBegin(b, newEnd), e |-> newEnd]
  /\ slipped' = (slipped \/ Slips(b, oldEnd, iter'.b, newEnd))

\* DB_put_record moves END, then writes the first piece.
PutFirst ==
  /\ pc = "run" /\ batch < Batch /\ nrec < MaxRec
  /\ nrec' = nrec + 1
  /\ batch' = batch + 1
  /\ LET ps == Pieces(iter.e)
         newEnd == MoveForward(iter.e, 1)
     IN /\ mem' = WritePiece(mem, ps[1], nrec')
        /\ IF Len(ps) = 1
           THEN Trim(iter.b, iter.e, newEnd) /\ UNCHANGED <<pc, due>>
           ELSE /\ iter' = [iter EXCEPT !.e = newEnd]
                /\ due' = ps[2] /\ pc' = "put"
                /\ UNCHANGED slipped
  /\ UNCHANGED <<saved, crashes, kept>>

PutSecond ==
  /\ pc = "put"
  /\ mem' = WritePiece(mem, due, nrec)
  /\ Trim(iter.b, MoveBack(iter.e, 1), iter.e)
  /\ pc' = "run" /\ due' = NoPiece
  /\ UNCHANGED <<saved, batch, nrec, crashes, kept>>

\* DB_iterator_write_to_eeprom, once the snapshots of the batch are stored.
StartSave ==
  /\ pc = "run" /\ batch > 0
  /\ pc' = "saveB"
  /\ UNCHANGED <<mem, iter, saved, due, batch, nrec, crashes, kept, slipped>>

SaveBegin ==
  /\ pc = "saveB"
  /\ saved' = [saved EXCEPT !.b = iter.b]
  /\ pc' = "saveE"
  /\ UNCHANGED <<mem, iter, due, batch, nrec, crashes, kept, slipped>>

\* Mutant: the loop over the iterators stops before the last.
SaveEndMissing ==
  /\ pc = "saveE"
  /\ kept' = nrec
  /\ pc' = "run" /\ batch' = 0
  /\ UNCHANGED <<mem, iter, saved, due, nrec, crashes, slipped>>

SaveEnd ==
  /\ pc = "saveE"
  /\ saved' = [saved EXCEPT !.e = iter.e]
  /\ kept' = nrec
  /\ pc' = "run" /\ batch' = 0
  /\ UNCHANGED <<mem, iter, due, nrec, crashes, slipped>>

\* Power loss or watchdog reset between two block writes.
Crash ==
  /\ pc # "down" /\ crashes < MaxCrashes
  /\ crashes' = crashes + 1
  /\ pc' = "down" /\ due' = NoPiece /\ batch' = 0
  /\ UNCHANGED <<mem, iter, saved, nrec, kept, slipped>>

\* DB_init after a restart on AC01.
DB_init ==
  /\ pc = "down"
  /\ iter' = saved
  /\ pc' = "run"
  /\ UNCHANGED <<mem, saved, due, batch, nrec, crashes, kept, slipped>>

Next ==
  \/ PutFirst \/ PutSecond
  \/ StartSave \/ SaveBegin \/ SaveEnd
  \/ Crash \/ DB_init

Spec == Init /\ [][Next]_vars

-----------------------------------------------------------------------------
TypeOK ==
  /\ mem \in [PB .. PE - 1 -> [rec : 0 .. MaxRec, off : 0 .. S - 1, flag : {0}]]
  /\ iter \in [b : PB .. PE, e : PB .. PE]
  /\ saved \in [b : PB .. PE, e : PB .. PE]
  /\ pc \in {"run", "put", "saveB", "saveE", "down"}
  /\ due \in [at : PB .. PE, from : 0 .. S, len : 0 .. S]
  /\ batch \in 0 .. Batch
  /\ {nrec, kept} \subseteq 0 .. MaxRec
  /\ crashes \in 0 .. MaxCrashes
  /\ slipped \in BOOLEAN

\* What a restart would find.
Recovered == Window(mem, saved.b, saved.e)

(***************************************************************************)
(* Wherever the program stops, the restart finds a window whose records,   *)
(* but for the oldest Batch of them, are whole and in the order they were  *)
(* taken.  (The oldest may have been overwritten by records of a store     *)
(* task whose iterators were never saved.)                                 *)
(***************************************************************************)
CrashSpoilsAtMostABatch ==
  ~slipped =>
    \A n \in Batch + 1 .. Len(Recovered) :
      /\ Recovered[n].rec # 0
      /\ n > Batch + 1 => Recovered[n - 1].rec < Recovered[n].rec

(***************************************************************************)
(* A record is durable once the iterators are saved: the newest record a   *)
(* restart finds is the last one stored before the last completed save.    *)
(***************************************************************************)
SavedRecordsAreDurable ==
  ~slipped /\ kept > 0 => Recovered # << >> /\ Recovered[Len(Recovered)].rec = kept

=============================================================================
