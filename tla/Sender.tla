------------------------------- MODULE Sender -------------------------------
(***************************************************************************)
(* The transmission of records by the main loop of datalogger.c: the real- *)
(* time sender (HTTP POST) and the RMAP sender (MQTT), both walking back   *)
(* from the end of the database.  The store task, the preparation and the  *)
(* two senders take turns in dl_run, so the ring moves under a walk that   *)
(* takes several turns.  Each sender has a bit of its own in the flags of  *)
(* a record.                                                               *)
(*                                                                         *)
(* An iterator is the number of a slot; records fill the partition exactly *)
(* (DBRing treats the others).  Records are numbered in time order, so a   *)
(* record older than the time limit is one with a smaller number.          *)
(***************************************************************************)
EXTENDS Integers, Sequences, FiniteSets

CONSTANTS N,           \* slots in the partition
          QUEUE_LEN,   \* records one POST looks at
          Fit,         \* records whose text fits in its buffer
          Horizon,     \* records taken in the 24 hours that are sent
          Window,      \* records appended while a transmission is on
          MaxRec,      \* bound: records appended
          MaxFail,     \* bound: failed transmissions
          MaxCrashes   \* bound: restarts

ASSUME SizesAssumption ==
  /\ N \in Nat /\ N > 1 /\ QUEUE_LEN \in Nat \ {0} /\ Fit \in 1 .. QUEUE_LEN
  /\ Horizon \in Nat \ {0} /\ Window \in Nat
ASSUME BoundsAssumption == MaxRec \in Nat /\ MaxFail \in Nat /\ MaxCrashes \in Nat

VARIABLES slot,         \* the database: [id, sent, rmap], the bits 0x01 and 0x02
          beg, end,     \* its iterators
          nrec,         \* records appended
          turn,         \* the place in the loop of dl_run; "iterate" is inside "rmap"
          rt,           \* task_status_send_data_RT: "STOP" or "READY"
          rtIter,       \* dl_send_params_RT.iter_send, None between transmissions
          queue,        \* records of a POST that has succeeded, still to be flagged
          rmapStatus,   \* task_status_send_data_RMAP
          rmIter,       \* dl_send_params_RMAP.iter_send
          rmFlags,      \* its send_flags
          rmDs,         \* its ds, the record selected
          oldest,       \* dt_end of both: the first record that is recent enough
          got, gotTwice,    \* history: records the server has, and has again
          rmGot,            \* history: records the RMAP server has acknowledged
          fails, crashes

db    == <<slot, beg, end, nrec>>
post  == <<rt, rtIter, queue>>
rmap  == <<rmapStatus, rmIter, rmFlags, rmDs>>
hist  == <<got, gotTwice, rmGot>>
vars  == <<db, turn, post, rmap, oldest, hist, fails, crashes>>

None  == -1     \* .plain = 0 is no address of the partition
Slots == 0 .. N - 1
Turns == {"store", "prepare", "post", "rmap", "iterate"}

Forward(k) == (k + 1) % N

Back(k, n) == (k - n) % N
Blank == [id |-> 0, sent |-> FALSE, rmap |-> FALSE]
Old(k) == slot[k].id < oldest

Init ==
  /\ slot = [k \in Slots |-> Blank]
  /\ beg = 0 /\ end = 0 /\ nrec = 0
  /\ turn = "store"
  /\ rt = "STOP" /\ rtIter = None /\ queue = << >>
  /\ rmapStatus = "STOP" /\ rmIter = None /\ rmFlags = {} /\ rmDs = Blank
  /\ oldest = 0
  /\ got = {} /\ gotTwice = {} /\ rmGot = {}
  /\ fails = 0 /\ crashes = 0

\* The turn of a task that is not ready.
Pass(this, next) ==
  /\ turn = this /\ turn' = next
  /\ UNCHANGED <<db, post, rmap, oldest, hist, fails, crashes>>

-----------------------------------------------------------------------------
(***************************************************************************)
(* The store task appends the snapshots that wait for it, none or several. *)
(* A transmission does not last: dl_tick resets the board when none has    *)
(* been asked for during three periods, and each one starts afresh.        *)
(***************************************************************************)
Store ==
  /\ turn = "store"
  /\ nrec < MaxRec
  /\ "READY" \in {rt, rmapStatus} => nrec < oldest + Horizon - 1 + Window
  /\ nrec' = nrec + 1
  /\ slot' = [slot EXCEPT ![end] = [id |-> nrec', sent |-> FALSE, rmap |-> FALSE]]
  /\ end' = Forward(end)
  /\ beg' = IF end' = beg THEN Forward(beg) ELSE beg
  /\ UNCHANGED <<turn, post, rmap, oldest, hist, fails, crashes>>

\* Mutant: the iterator of the RMAP sender is forgotten.
PreparePostOnly ==
  /\ turn = "prepare" /\ turn' = "post"
  /\ rt' = "READY" /\ rtIter' = end
  /\ rmFlags' = {"once"}
  /\ oldest' = nrec - Horizon + 1
  /\ UNCHANGED <<db, queue, rmapStatus, rmIter, rmDs, hist, fails, crashes>>

(***************************************************************************)
(* When the tick has asked for a transmission and the modem is ready for   *)
(* it.  The tick asks only while the last one has stopped, but the loop    *)
(* does not test that: what is asked for as a preparation ends is prepared *)
(* in the next turn, and the transmission under way starts afresh.         *)
(***************************************************************************)
Prepare ==
  /\ turn = "prepare" /\ turn' = "post"
  /\ rt' = "READY" /\ rtIter' = end
  /\ rmIter' = end /\ rmFlags' = {"once"}
  /\ oldest' = nrec - Horizon + 1
  /\ UNCHANGED <<db, queue, rmapStatus, rmDs, hist, fails, crashes>>

\* The number of records a walk back looks at: the first n that halts it.
Looked(Halts(_)) ==
  CHOOSE n \in 0 .. N : Halts(n) /\ \A m \in 0 .. n - 1 : ~Halts(m)

\* Of the first n records back from the iterator of the POST: those that are
\* not flagged, those to be sent, and their slots in the order of the walk.
Unsent(n) == {m \in 1 .. n : ~slot[Back(rtIter, m)].sent}
ToSend(n) == {m \in Unsent(n) : ~Old(Back(rtIter, m))}
Queued(n) ==
  [i \in 1 .. Cardinality(ToSend(n)) |->
     Back(rtIter, CHOOSE m \in ToSend(n) : Cardinality(ToSend(m)) = i)]

\* Mutant: the walk ends at a record that is already flagged.
WalkStops ==
  LET last == Looked(LAMBDA n : \/ Back(rtIter, n) = beg
                                \/ Cardinality(Unsent(n)) = QUEUE_LEN
                                \/ n > 0 /\ (\/ Old(Back(rtIter, n))
                                             \/ slot[Back(rtIter, n)].sent))
  IN [it |-> Back(rtIter, last), q |-> Queued(last)]

(***************************************************************************)
(* The loop of send_data_with_post: walk back, leave out what is flagged,  *)
(* until the beginning is reached, the queue is full or a record is too    *)
(* old.                                                                    *)
(***************************************************************************)
Walk ==
  LET last == Looked(LAMBDA n : \/ Back(rtIter, n) = beg
                                \/ Cardinality(Unsent(n)) = QUEUE_LEN
                                \/ n > 0 /\ Old(Back(rtIter, n)))
  IN [it |-> Back(rtIter, last), q |-> Queued(last)]

PostTurn == turn = "post" /\ rt = "READY" /\ queue = << >>

\* The end of the transmission, complete or not: RMAP may begin.
StopPost == rt' = "STOP" /\ rtIter' = None /\ queue' = << >> /\ rmapStatus' = "READY"

PostNothing ==
  /\ PostTurn
  /\ Walk.q = << >>
  /\ StopPost /\ turn' = "rmap"
  /\ UNCHANGED <<db, rmIter, rmFlags, rmDs, oldest, hist, fails, crashes>>

\* What the server gets: a record that does not fit in the buffer is left out.
Receive(q) ==
  LET payload == {slot[q[n]].id : n \in 1 .. (IF Len(q) < Fit THEN Len(q) ELSE Fit)}
  IN got' = got \cup payload /\ gotTwice' = gotTwice \cup (got \cap payload)

Post ==
  /\ PostTurn
  /\ LET w == Walk IN
       /\ w.q # << >>
       /\ Receive(w.q)
       /\ rtIter' = w.it /\ queue' = w.q
  /\ UNCHANGED <<db, turn, rt, rmap, oldest, rmGot, fails, crashes>>

\* Mutant: the records of a POST that failed are flagged.
PostFailsFlags ==
  /\ PostTurn
  /\ LET w == Walk IN
       /\ w.q # << >>
       /\ Receive(w.q) \/ UNCHANGED <<got, gotTwice>>
       /\ rtIter' = w.it /\ queue' = w.q
  /\ fails < MaxFail /\ fails' = fails + 1
  /\ UNCHANGED <<db, turn, rt, rmap, oldest, rmGot, crashes>>

\* A POST fails before or after the server has received it.
PostFails ==
  /\ PostTurn
  /\ LET w == Walk IN
       /\ w.q # << >>
       /\ Receive(w.q) \/ UNCHANGED <<got, gotTwice>>
  /\ fails < MaxFail /\ fails' = fails + 1
  /\ StopPost /\ turn' = "rmap"
  /\ UNCHANGED <<db, rmIter, rmFlags, rmDs, oldest, rmGot, crashes>>

\* Mutant: the last record of the queue is not flagged.
MarkSentButOne ==
  /\ queue # << >>
  /\ slot' = IF Len(queue) = 1 THEN slot ELSE [slot EXCEPT ![Head(queue)].sent = TRUE]
  /\ IF Len(queue) > 1 THEN queue' = Tail(queue) /\ UNCHANGED <<turn, rt, rtIter, rmapStatus>>
     ELSE /\ turn' = "rmap"
          /\ IF rtIter = beg \/ Old(rtIter) THEN StopPost
             ELSE queue' = << >> /\ UNCHANGED <<rt, rtIter, rmapStatus>>
  /\ UNCHANGED <<beg, end, nrec, rmIter, rmFlags, rmDs, oldest, hist, fails, crashes>>

(***************************************************************************)
(* Flag the records of the queue, one write each; with the last one the    *)
(* turn ends, and the task stays ready unless the walk was complete.       *)
(***************************************************************************)
MarkSent ==
  /\ queue # << >>
  /\ slot' = [slot EXCEPT ![Head(queue)].sent = TRUE]
  /\ IF Len(queue) > 1 THEN queue' = Tail(queue) /\ UNCHANGED <<turn, rt, rtIter, rmapStatus>>
     ELSE /\ turn' = "rmap"
          /\ IF rtIter = beg \/ Old(rtIter) THEN StopPost
             ELSE queue' = << >> /\ UNCHANGED <<rt, rtIter, rmapStatus>>
  /\ UNCHANGED <<beg, end, nrec, rmIter, rmFlags, rmDs, oldest, hist, fails, crashes>>

-----------------------------------------------------------------------------
(***************************************************************************)
(* send_data_with_RMAP_browse_queue: the next record back from the         *)
(* iterator that is not flagged.  The iterator stays where the search      *)
(* ends, on a record that is too old too.                                  *)
(***************************************************************************)
Browse ==
  LET At(n) == Back(rmIter, n)
      Wanted(k) == ~Old(k) /\ ~("once" \in rmFlags /\ slot[k].rmap)
      last == Looked(LAMBDA n : \/ At(n) = beg
                                \/ n > 0 /\ (Old(At(n)) \/ Wanted(At(n))))
  IN [it |-> At(last),
      ds |-> IF last = 0 THEN rmDs ELSE slot[At(last)],
      found |-> last > 0 /\ Wanted(At(last))]

RmapTurn == turn = "rmap" /\ rmapStatus = "READY"

\* The connection cannot be opened, or is lost.
RmapNoLink ==
  /\ RmapTurn
  /\ fails < MaxFail /\ fails' = fails + 1
  /\ rmapStatus' = "STOP" /\ turn' = "store"
  /\ UNCHANGED <<db, post, rmIter, rmFlags, rmDs, oldest, hist, crashes>>

\* A connection begins with the choice of a record.
RmapSelect ==
  /\ RmapTurn
  /\ "connected" \notin rmFlags
  /\ LET b == Browse IN
       /\ rmDs' = b.ds
       /\ IF b.found
          THEN /\ rmFlags' = rmFlags \cup {"connected"} /\ rmIter' = b.it
               /\ turn' = "iterate" /\ UNCHANGED rmapStatus
          ELSE /\ rmFlags' = {} /\ rmIter' = None
               /\ turn' = "store" /\ rmapStatus' = "STOP"
  /\ UNCHANGED <<db, post, oldest, hist, fails, crashes>>

\* send_data_with_RMAP_iterate, right after the choice or in a later turn.
Iterating ==
  \/ turn = "iterate"
  \/ RmapTurn /\ "connected" \in rmFlags

\* Nothing is sent from the beginning of the partition.
RmapNothing ==
  /\ Iterating
  /\ rmIter = beg
  /\ rmapStatus' = "STOP" /\ turn' = "store"
  /\ UNCHANGED <<db, post, rmIter, rmFlags, rmDs, oldest, hist, fails, crashes>>

(***************************************************************************)
(* Else: serialise the record selected, select the next one, send, and     *)
(* flag the record under the iterator if all is acknowledged.              *)
(***************************************************************************)
RmapSend ==
  /\ Iterating
  /\ rmIter # beg
  /\ turn' = "store"
  /\ LET b == Browse IN
       /\ rmIter' = b.it /\ rmDs' = b.ds
       /\ IF b.found THEN UNCHANGED <<rmFlags, rmapStatus>>
          ELSE rmFlags' = {} /\ rmapStatus' = "STOP"
       /\ \/ /\ rmGot' = rmGot \cup {rmDs.id}
             /\ slot' = [slot EXCEPT ![b.it].rmap = TRUE]
             /\ UNCHANGED fails
          \/ /\ fails < MaxFail /\ fails' = fails + 1
             /\ UNCHANGED <<slot, rmGot>>
  /\ UNCHANGED <<beg, end, nrec, post, oldest, got, gotTwice, crashes>>

-----------------------------------------------------------------------------
\* The database survives a restart (Datastore), the senders' state does not.
Restart ==
  /\ crashes < MaxCrashes /\ crashes' = crashes + 1
  /\ turn' = "store"
  /\ rt' = "STOP" /\ rtIter' = None /\ queue' = << >>
  /\ rmapStatus' = "STOP" /\ rmIter' = None /\ rmFlags' = {} /\ rmDs' = Blank
  /\ oldest' = 0
  /\ UNCHANGED <<db, hist, fails>>

\* What the loop does next when no snapshot waits and no transmission is due.
Loop ==
  \/ Pass("store", "prepare")
  \/ Pass("prepare", "post")
  \/ rt = "STOP" /\ Pass("post", "rmap")
  \/ rmapStatus = "STOP" /\ Pass("rmap", "store")
  \/ PostNothing \/ Post \/ PostFails \/ MarkSent
  \/ RmapNoLink \/ RmapSelect \/ RmapNothing \/ RmapSend

Next == Store \/ Prepare \/ Loop \/ Restart

Spec == Init /\ [][Next]_vars

\* The loop goes round, and the ticks ask for one transmission after another.
FairSpec == Spec /\ WF_vars(Loop) /\ SF_vars(Prepare)

-----------------------------------------------------------------------------
TypeOK ==
  /\ slot \in [Slots -> [id : 0 .. MaxRec, sent : BOOLEAN, rmap : BOOLEAN]]
  /\ beg \in Slots /\ end \in Slots /\ nrec \in 0 .. MaxRec
  /\ turn \in Turns
  /\ rt \in {"STOP", "READY"} /\ rmapStatus \in {"STOP", "READY"}
  /\ rtIter \in Slots \cup {None} /\ rmIter \in Slots \cup {None}
  /\ queue \in Seq(Slots) /\ Len(queue) <= QUEUE_LEN
  /\ rmFlags \subseteq {"once", "connected"}
  /\ rmDs \in [id : 0 .. MaxRec, sent : BOOLEAN, rmap : BOOLEAN]
  /\ oldest \in Int
  /\ gotTwice \subseteq got /\ got \subseteq 1 .. MaxRec /\ rmGot \subseteq 1 .. MaxRec
  /\ fails \in 0 .. MaxFail /\ crashes \in 0 .. MaxCrashes

(***************************************************************************)
(* A record flagged as sent has reached the server: the flag is the only   *)
(* thing that keeps it from being sent, and it is never taken back.        *)
(***************************************************************************)
SentMeansReceived == \A k \in Slots : slot[k].sent => slot[k].id \in got

(***************************************************************************)
(* No sender walks back from the null iterator (from .plain = 0 moveback   *)
(* yields an address between two records), although the two are stopped    *)
(* and started by different tasks and each nulls its own iterator.  The    *)
(* partition has room for the records of a day and of a transmission.      *)
(***************************************************************************)
WalksFromTheRing ==
  Horizon + Window < N =>
  /\ rt = "READY" => rtIter # None
  /\ rmapStatus = "READY" => rmIter # None

(***************************************************************************)
(* The server gets a record again only after a transmission that failed on *)
(* the way back, or a restart before the record was flagged: neither new   *)
(* records nor the turns of the loop make the sender repeat itself.        *)
(***************************************************************************)
NoNeedlessRepeats == fails = 0 /\ crashes = 0 => gotTwice = {}

(***************************************************************************)
(* Every record reaches the server in the end, unless it becomes too old   *)
(* or is overwritten first, however the walk back is cut up into turns and *)
(* whatever the store task appends in between.                             *)
(***************************************************************************)
Kept(i) == \E k \in Slots : slot[k].id = i /\ (k - beg) % N < (end - beg) % N

EveryRecordArrives ==
  \A i \in 1 .. MaxRec : nrec >= i ~> (i \in got \/ i < oldest \/ ~Kept(i))

(***************************************************************************)
(* datalogger.c:2637-2638: "Flag the record as sent only if all the        *)
(* messages sent with QOS==1 are covered by an ACK message".               *)
(***************************************************************************)
FlaggedOnlyIfAcknowledged == \A k \in Slots : slot[k].rmap => slot[k].id \in rmGot

=============================================================================
