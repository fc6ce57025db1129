--------------------------- MODULE Scheduler_proofs ---------------------------
(***************************************************************************)
(* Proofs about Scheduler: for all periods, retries and jumps of the clock *)
(* a transmission finds the bearer open, the bearer is released before     *)
(* sleep, and the tick resets no board that is healthy.                    *)
(***************************************************************************)
EXTENDS Scheduler, TLAPS

P        == Period["send"]
Statuses == {"STOP", "READY", "RUNNING"}
Sending  == status["send"] = "READY"
Another  == status["prepare"] = "READY"
Syncing  == at \in Setting \cup {"synced"}
Settled  == at \in {"rest", "lock", "awake", "drowsy", "asleep"}
Storing  == at \in {"retry", "storedLow", "storedHigh"}

\* The users the bearer should have.
Users == (IF Sending \/ at = "prepared" THEN 1 ELSE 0) + (IF Syncing THEN 1 ELSE 0)

\* A transmission has its bearer; a preparation beside it has just had the
\* guard's count cleared, and so does not start the modem anew.
Open ==
  /\ at = "prepared" \/ Sending => up
  /\ Sending /\ Another => guard = 0
  /\ Settled => ~Sending

\* Unless a preparation was asked for while one ended, there is none beside a
\* transmission, and no more users are counted than there are.
Counted ==
  ~twice =>
    /\ Sending => ~Another /\ at \notin {"preparing", "prepared"}
    /\ at = "prepared" => ~Another
    /\ ref <= Users

\* The accumulator is not negative; nor is what the next tick adds to it, before
\* and after the clock is set, unless a tick came while that was done.
Moved(h, l) == Mixed(h, l) = late
Forward ==
  /\ acc["send"] >= 0
  /\ ~shaken =>
       /\ at \notin {"movedHigh", "movedLow"} => lag >= 0
       /\ at \in {"reading", "act"} => old = prev
       /\ at \in {"move", "movedHigh", "movedLow"} => diff = late /\ late < 0
       /\ at = "movedHigh" => Moved(prev, late)
       /\ at = "movedLow" => Moved(late, prev)
       /\ at = "set" => lag + late >= 0

\* How far the accumulator is ahead of the transmission's time, as far as that is
\* counted: less than a period, or less than Base more once a store of it has been torn.  It is torn
\* once at most in a transmission, which has one preparation beside it at most.
Below(n) == busy + gained >= 2 * P \/ acc["send"] <= busy + gained + n
High(n)  == (n \div Base) * Base
Low(n)   == n % Base
Torn     == P + Base - 2

Bounded ==
  /\ status["send"] \in {"STOP", "READY"}
  /\ Storing => store \in 0 .. P - 1
  /\ Storing /\ Sending => ~Another
  /\ Sending /\ (Another \/ at \in {"preparing", "retry"}) => Below(P - 1)
  /\ at = "prepared" /\ Another => Below(P - 1)
  /\ Below(IF at = "storedLow" /\ ~Sending THEN Torn + Base - 1 ELSE Torn)
  /\ at = "storedHigh" => Below(P - 1) \/ Below(High(store) + Base - 1)

Inv == TypeOK /\ Open /\ Counted /\ Forward /\ Bounded
-----------------------------------------------------------------------------
LEMMA Constants ==
  /\ {"sync", "send"} \subseteq Jobs /\ Jobs \subseteq {"store", "sync", "send"}
  /\ Period \in [Jobs -> Nat \ {0}] /\ P \in Nat \ {0}
  /\ Base \in Nat \ {0, 1} /\ GuardLimit \in Nat \ {0} /\ MaxRef \in Nat \ {0} /\ Back \in Nat
  /\ Early \in 1 .. P /\ Retry \in 1 .. P /\ RetryLong \in 1 .. P /\ Jumps \subseteq Int
BY PeriodAssumption, RetryAssumption, JumpsAssumption DEF P

LEMMA HighLow ==
  ASSUME NEW n \in Nat
  PROVE  /\ High(n) \in 0 .. n /\ n = High(n) + Low(n)
         /\ Low(n) \in 0 .. Base - 1
BY Constants DEF High, Low

\* The torn values of the accumulator while it is being stored.
LEMMA PartsOfSend ==
  ASSUME TypeOK, acc["send"] >= 0
  PROVE  LET a == acc["send"] IN
         /\ a \in Nat /\ store \in Nat
         /\ Part(a, store) \in Nat /\ Part(store, a) \in Nat
         /\ Part(a, store) = High(a) + Low(store) /\ Part(store, a) = High(store) + Low(a)
         /\ High(a) \in 0 .. a /\ Low(a) \in 0 .. Base - 1
         /\ High(store) \in 0 .. store /\ Low(store) \in 0 .. Base - 1
         /\ store = High(store) + Low(store)
<1>1. acc["send"] \in Nat /\ store \in Nat
  BY Constants DEF TypeOK, P
<1>2. \A m, n : Part(m, n) = High(m) + Low(n)
  BY DEF Part, High, Low
<1>. QED BY <1>1, <1>2, HighLow, Constants, SMTT(20)

LEMMA AfterIs ==
  /\ DOMAIN After = Tasks
  /\ \A t \in Tasks : After[t] \in Places \ (Setting \cup {"prepared", "synced"})
BY DEF After, Tasks, Places, Setting

\* A number and its remainder.
LEMMA Remainder ==
  ASSUME NEW m \in Int, NEW n \in Int
  PROVE  /\ m % Base \in 0 .. Base - 1
         /\ (m - (m % Base) + (n % Base)) % Base = n % Base
<1>. DEFINE q == m \div Base
            r == m % Base
            k == n % Base
            bq == Base * q
<1>1. q \in Int /\ r \in 0 .. Base - 1 /\ m = bq + r /\ k \in 0 .. Base - 1 /\ bq \in Int
  BY Constants
<1>2. \A j \in Int, i \in 0 .. Base - 1 : (Base * j + i) % Base = i
  BY Constants
<1>3. m - r + k = bq + k
  <2>. HIDE DEF q, r, k, bq
  <2>. QED BY <1>1, Constants
<1>. QED BY Zenon, <1>1, <1>2, <1>3

LEMMA MixedIsInt ==
  ASSUME low \in 0 .. Base - 1
  PROVE  \A h, l \in Int : Mixed(h, l) \in Int
<1>1. \A m \in Int : m % Base \in Int
  BY Constants
<1>. QED BY <1>1, Constants DEF Mixed

Flags     == lock \in BOOLEAN /\ up \in BOOLEAN /\ twice \in BOOLEAN /\ shaken \in BOOLEAN
Unflagged ==
  /\ acc \in [Jobs -> Int] /\ lag \in Int
  /\ late \in Int /\ old \in Int /\ diff \in Int /\ low \in 0 .. Base - 1
  /\ status \in [Tasks -> Statuses]
  /\ at \in Places /\ store \in 0 .. P
  /\ guard \in 0 .. GuardLimit /\ ref \in -1 .. MaxRef
  /\ busy \in Nat /\ gained \in Nat

LEMMA TypeIs == TypeOK <=> Flags /\ Unflagged
BY DEF TypeOK, Flags, Unflagged, Statuses, P

LEMMA InitType == Init => TypeOK
<1>1. Init => Flags
  BY Zenon DEF Init, Flags
<1>2. Init => Unflagged
  BY Constants, AfterIs DEF Init, Unflagged, StartAcc, Places, Tasks, Statuses, After, P
<1>. QED BY <1>1, <1>2, TypeIs

LEMMA TickedIs == ASSUME Unflagged PROVE Ticked \in [Jobs -> Int]
BY Constants DEF Unflagged, Ticked, Cut, Sum

LEMMA NextFlags == Flags /\ [Next]_vars => Flags'
<1>. SUFFICES ASSUME Flags, [Next]_vars PROVE Flags'
  OBVIOUS
<1>. USE DEF Flags
<1>1. CASE Tick
  <2>1. lock' \in BOOLEAN /\ up' \in BOOLEAN
    BY Zenon, <1>1 DEF Tick, bearer
  <2>2. twice' \in BOOLEAN
    BY <1>1 DEF Tick
  <2>3. shaken' \in BOOLEAN
    BY <1>1 DEF Tick
  <2>. QED BY <2>1, <2>2, <2>3
<1>2. CASE Reset
  BY Zenon, <1>2 DEF Reset
<1>3. CASE \E t \in Tasks : Skip(t)
  BY Zenon, <1>3 DEF Skip, bearer, ghosts
<1>4. CASE \E t \in {"send", "range"} : MoreToSend(t)
  BY Zenon, <1>4 DEF MoreToSend, bearer, ghosts
<1>5. CASE StoreBegins
  BY Zenon, <1>5 DEF StoreBegins, bearer, ghosts
<1>6. CASE StoreEnds
  BY Zenon, <1>6 DEF StoreEnds, bearer, ghosts
<1>7. CASE Prepare
  BY Zenon, <1>7 DEF Prepare, bearer, ghosts
<1>8. CASE PrepareSucceeds
  BY Zenon, <1>8 DEF PrepareSucceeds, bearer, ghosts
<1>9. CASE Prepared
  BY Zenon, <1>9 DEF Prepared, bearer, ghosts
<1>10. CASE PrepareFails
  BY Zenon, <1>10 DEF PrepareFails, bearer, ghosts
<1>11. CASE StorePart
  BY Zenon, <1>11 DEF StorePart, bearer, ghosts
<1>12. CASE StoreRest
  BY Zenon, <1>12 DEF StoreRest, bearer, ghosts
<1>13. CASE \E place \in {"retry", "cmd"} : SendEnds(place)
  BY Zenon, <1>13 DEF SendEnds, bearer, ghosts
<1>14. CASE CmdEnds
  BY Zenon, <1>14 DEF CmdEnds, bearer, ghosts
<1>15. CASE RangeEnds
  BY Zenon, <1>15 DEF RangeEnds, bearer, ghosts
<1>16. CASE SyncAnswers
  BY Zenon, <1>16 DEF SyncAnswers, bearer, ghosts
<1>17. CASE SyncFails
  BY Zenon, <1>17 DEF SyncFails, bearer, ghosts
<1>18. CASE ReadPrev
  BY Zenon, <1>18 DEF ReadPrev, bearer, ghosts
<1>19. CASE SetClock
  BY Zenon, <1>19 DEF SetClock, bearer, ghosts
<1>20. CASE SyncEnds
  BY Zenon, <1>20 DEF SyncEnds, bearer, ghosts
<1>21. CASE Pending
  BY Zenon, <1>21 DEF Pending, bearer, ghosts
<1>22. CASE Close
  BY Zenon, <1>22 DEF Close, bearer, ghosts
<1>23. CASE Rest
  BY Zenon, <1>23 DEF Rest, bearer, ghosts
<1>24. CASE Lock
  BY Zenon, <1>24 DEF Lock, bearer, ghosts
<1>25. CASE Look
  BY Zenon, <1>25 DEF Look, bearer, ghosts
<1>26. CASE Sleep
  BY Zenon, <1>26 DEF Sleep, bearer, ghosts
<1>27. CASE Wake
  BY Zenon, <1>27 DEF Wake, bearer, ghosts
<1>28. CASE UNCHANGED vars
  BY Zenon, <1>28 DEF vars, server, bearer, ghosts, clock
<1>29. CASE ReadClock
  BY Zenon, <1>29 DEF ReadClock, bearer, ghosts
<1>30. CASE MovePart
  BY Zenon, <1>30 DEF MovePart, bearer, ghosts
<1>31. CASE MoveRest
  BY Zenon, <1>31 DEF MoveRest, bearer, ghosts
<1>. QED BY <1>1, <1>2, <1>3, <1>4, <1>5, <1>6, <1>7, <1>8, <1>9, <1>10, <1>11, <1>12,
            <1>13, <1>14, <1>15, <1>16, <1>17, <1>18, <1>19, <1>20, <1>21, <1>22, <1>23,
            <1>24, <1>25, <1>26, <1>27, <1>28, <1>29, <1>30, <1>31 DEF Next, Loop

LEMMA NextUnflagged == Unflagged /\ [Next]_vars => Unflagged'
<1>. SUFFICES ASSUME Unflagged, [Next]_vars PROVE Unflagged'
  OBVIOUS
<1>. USE Constants, AfterIs DEF Unflagged, Statuses
<1>1. CASE Tick
  <2>1. acc' \in [Jobs -> Int] /\ lag' \in Int /\ late' \in Int
    BY <1>1, TickedIs DEF Tick
  <2>5. old' \in Int /\ diff' \in Int
    BY <1>1 DEF Tick
  <2>6. low' \in 0 .. Base - 1
    <3>1. low + 1 \in Int
      OBVIOUS
    <3>2. (low + 1) % Base \in 0 .. Base - 1
      BY Zenon, <3>1, Remainder
    <3>. QED BY <1>1, <3>2 DEF Tick
  <2>2. status' \in [Tasks -> Statuses] /\ at' \in Places
    BY <1>1 DEF Tick, Places, Tasks, Setting
  <2>3. busy' \in Nat /\ gained' \in Nat
    BY <1>1 DEF Tick, Counting, Gain, Long, P
  <2>4. store' \in 0 .. P /\ guard' \in 0 .. GuardLimit /\ ref' \in -1 .. MaxRef
    BY <1>1 DEF Tick, bearer
  <2>. QED BY <2>1, <2>2, <2>3, <2>4, <2>5, <2>6
<1>2. CASE Reset
  BY <1>2 DEF Reset, StartAcc, Places, Tasks, P, Setting
<1>3. CASE \E t \in Tasks : Skip(t)
  BY <1>3 DEF Skip, Goes, clock, server, bearer, ghosts
<1>4. CASE \E t \in {"send", "range"} : MoreToSend(t)
  BY <1>4 DEF MoreToSend, Goes, Turns, Ready, clock, server, bearer, ghosts, Opened, Released,
       Places, Tasks, After, P, Setting
<1>5. CASE StoreBegins
  BY <1>5 DEF StoreBegins, Goes, Turns, Ready, clock, server, bearer, ghosts, Opened, Released,
       Places, Tasks, After, P, Setting
<1>6. CASE StoreEnds
  BY <1>6 DEF StoreEnds, Goes, Turns, Ready, clock, server, bearer, ghosts, Opened, Released,
       Places, Tasks, After, P, Setting
<1>7. CASE Prepare
  BY <1>7 DEF Prepare, Goes, Turns, Ready, clock, server, bearer, ghosts, Opened, Released,
       Places, Tasks, After, P, Setting
<1>8. CASE PrepareSucceeds
  BY <1>8 DEF PrepareSucceeds, Goes, Turns, Ready, clock, server, bearer, ghosts, Opened,
       Released, Places, Tasks, After, P, Setting
<1>9. CASE Prepared
  BY <1>9 DEF Prepared, Goes, Turns, Ready, clock, server, bearer, ghosts, Opened, Released,
       Places, Tasks, After, P, Setting
<1>10. CASE PrepareFails
  BY <1>10 DEF PrepareFails, Goes, Turns, Ready, clock, server, bearer, ghosts, Opened,
       Released, Places, Tasks, After, P, Setting
<1>11. CASE StorePart
  BY <1>11 DEF StorePart, Goes, clock, server, bearer, ghosts, Places, Part
<1>12. CASE StoreRest
  BY <1>12 DEF StoreRest, Goes, clock, server, bearer, ghosts, Places, Part, After, Tasks
<1>13. CASE \E place \in {"retry", "cmd"} : SendEnds(place)
  BY <1>13 DEF SendEnds, Goes, Turns, Ready, clock, server, bearer, ghosts, Opened, Released,
       Places, Tasks, After, P, Setting
<1>14. CASE CmdEnds
  BY <1>14 DEF CmdEnds, Goes, Turns, Ready, clock, server, bearer, ghosts, Opened, Released,
       Places, Tasks, After, P, Setting
<1>15. CASE RangeEnds
  BY <1>15 DEF RangeEnds, Goes, Turns, Ready, clock, server, bearer, ghosts, Opened, Released,
       Places, Tasks, After, P, Setting
<1>16. CASE SyncAnswers
  BY <1>16 DEF SyncAnswers, Goes, Turns, Ready, clock, ghosts, prev, Opened, Places,
       Tasks, Setting
<1>17. CASE SyncFails
  BY <1>17 DEF SyncFails, Goes, Turns, Ready, clock, server, bearer, ghosts, Opened, Released,
       Places, Tasks, After, P, Setting
<1>18. CASE ReadPrev
  <2>1. prev \in Int
    BY DEF prev
  <2>2. old' \in Int
    BY Zenon, <1>18, <2>1, MixedIsInt DEF ReadPrev
  <2>. QED BY <1>18, <2>2 DEF ReadPrev, Goes, clock, bearer, ghosts, Places, Setting
<1>19. CASE SetClock
  BY <1>19 DEF SetClock, Goes, Turns, Ready, clock, server, bearer, ghosts, Opened, Released,
       Places, Tasks, After, P, Setting
<1>20. CASE SyncEnds
  BY <1>20 DEF SyncEnds, Goes, Turns, Ready, clock, server, bearer, ghosts, Opened, Released,
       Places, Tasks, After, P, Setting
<1>21. CASE Pending
  BY <1>21 DEF Pending, Goes, Turns, Ready, clock, server, bearer, ghosts, Opened, Released,
       Places, Tasks, After, P, Setting
<1>22. CASE Close
  BY <1>22 DEF Close, Goes, Turns, Ready, clock, server, bearer, ghosts, Opened, Released,
       Places, Tasks, After, P, Setting
<1>23. CASE Rest
  BY <1>23 DEF Rest, Goes, Turns, Ready, clock, server, bearer, ghosts, Opened, Released,
       Places, Tasks, After, P, Setting
<1>24. CASE Lock
  BY <1>24 DEF Lock, Goes, Turns, Ready, clock, server, bearer, ghosts, Opened, Released,
       Places, Tasks, After, P, Setting
<1>25. CASE Look
  BY <1>25 DEF Look, Goes, Turns, Ready, clock, server, bearer, ghosts, Opened, Released,
       Places, Tasks, After, P, Setting
<1>26. CASE Sleep
  BY <1>26 DEF Sleep, Goes, Turns, Ready, clock, server, bearer, ghosts, Opened, Released,
       Places, Tasks, After, P, Setting
<1>27. CASE Wake
  BY <1>27 DEF Wake, Goes, Turns, Ready, clock, server, bearer, ghosts, Opened, Released,
       Places, Tasks, After, P, Setting
<1>28. CASE UNCHANGED vars
  BY <1>28 DEF vars, clock, server, bearer, ghosts
<1>29. CASE ReadClock
  <2>1. at' \in Places
    BY <1>29 DEF ReadClock, Adjust, Goes, Places, Setting
  <2>2. old' \in Int /\ diff' \in Int /\ late' \in Int /\ low' \in 0 .. Base - 1
    BY <1>29 DEF ReadClock, Adjust
  <2>. QED BY <1>29, <2>1, <2>2 DEF ReadClock, clock, bearer, ghosts
<1>30. CASE MovePart
  <2>1. prev \in Int
    BY DEF prev
  <2>2. Mixed(late, prev) \in Int /\ Mixed(prev, late) \in Int
    BY Zenon, <2>1, MixedIsInt
  <2>3. lag' \in Int
    BY <1>30, <2>2 DEF MovePart
  <2>. QED BY <1>30, <2>3 DEF MovePart, Goes, server, bearer, ghosts, Places, Setting
<1>31. CASE MoveRest
  <2>1. prev \in Int
    BY DEF prev
  <2>2. Mixed(late, prev) \in Int /\ Mixed(prev, late) \in Int
    BY Zenon, <2>1, MixedIsInt
  <2>3. lag' \in Int /\ diff' \in Int
    BY <1>31, <2>2 DEF MoveRest
  <2>4. at' \in Places /\ late' \in Int /\ low' \in 0 .. Base - 1
    BY <1>31 DEF MoveRest, Adjust, Goes, Places, Setting
  <2>. QED BY <1>31, <2>3, <2>4 DEF MoveRest, bearer, ghosts
<1>. QED BY <1>1, <1>2, <1>3, <1>4, <1>5, <1>6, <1>7, <1>8, <1>9, <1>10, <1>11, <1>12,
            <1>13, <1>14, <1>15, <1>16, <1>17, <1>18, <1>19, <1>20, <1>21, <1>22, <1>23,
            <1>24, <1>25, <1>26, <1>27, <1>28, <1>29, <1>30, <1>31 DEF Next, Loop

LEMMA NextType == TypeOK /\ [Next]_vars => TypeOK'
BY NextFlags, NextUnflagged DEF TypeOK, Flags, Unflagged, Statuses, P

\* What a tick does to the transmission.
LEMMA TickOfSend ==
  ASSUME TypeOK, Tick
  PROVE  LET sum == acc["send"] + lag + 1
             due == status["send"] = "STOP" /\ (sum < 0 \/ sum >= P)
         IN /\ due <=> Due("send")
            /\ acc'["send"] = IF due THEN 0 ELSE sum
            /\ acc'["send"] \in 0 .. 3 * P
            /\ status'["send"] = status["send"]
            /\ status'["prepare"] = IF due THEN "READY" ELSE status["prepare"]
<1>. DEFINE sum == acc["send"] + lag + 1
            due == status["send"] = "STOP" /\ (sum < 0 \/ sum >= P)
<1>. USE Constants DEF TypeOK
<1>1. due <=> Due("send")
  BY DEF Due, Gate, AtLeast, Sum, P
<1>2. Ticked["send"] = IF due THEN 0 ELSE sum
  BY <1>1 DEF Ticked, Cut, Sum
<1>3. Ticked["send"] \in 0 .. 3 * P
  BY <1>2 DEF Tick, Hangs, AtLeast, P
<1>4. status'["send"] = status["send"]
  BY DEF Tick, Makes, Tasks
<1>5. status'["prepare"] = IF due THEN "READY" ELSE status["prepare"]
  BY <1>1 DEF Tick, Makes, Tasks
<1>. QED BY <1>1, <1>2, <1>3, <1>4, <1>5 DEF Tick

LEMMA NextOpen == ASSUME TypeOK, Open, [Next]_vars PROVE Open'
<1>. USE Constants DEF TypeOK, Open, Sending, Another, Settled
<1>1. CASE Tick
  BY <1>1 DEF Tick, Makes, Tasks, clock, server, bearer, ghosts, Due, Gate
<1>2. CASE Reset
  BY <1>2 DEF Reset, clock, server, bearer, ghosts
<1>3. CASE \E t \in Tasks : Skip(t)
  BY <1>3 DEF Skip, Goes, Tasks, After, clock, server, bearer, ghosts
<1>4. CASE \E t \in {"send", "range"} : MoreToSend(t)
  BY <1>4 DEF MoreToSend, Goes, Ready, After, clock, server, bearer, ghosts
<1>5. CASE StoreBegins
  BY <1>5 DEF StoreBegins, Goes, Ready, Turns, clock, server, bearer, ghosts
<1>6. CASE StoreEnds
  BY <1>6 DEF StoreEnds, Goes, Turns, After, clock, server, bearer, ghosts
<1>7. CASE Prepare
  BY <1>7 DEF Prepare, Goes, Ready, Turns, clock, server, bearer, ghosts, Tasks
<1>8. CASE PrepareSucceeds
  BY <1>8 DEF PrepareSucceeds, Goes, Turns, Opened, clock, server, bearer, ghosts
<1>9. CASE Prepared
  BY <1>9 DEF Prepared, Goes, Turns, clock, server, bearer, ghosts
<1>10. CASE PrepareFails
  BY <1>10 DEF PrepareFails, Goes, Turns, clock, server, bearer, ghosts
<1>11. CASE StorePart
  BY <1>11 DEF StorePart, Goes, clock, server, bearer, ghosts
<1>12. CASE StoreRest
  BY <1>12 DEF StoreRest, Goes, clock, server, bearer, ghosts
<1>13. CASE \E place \in {"retry", "cmd"} : SendEnds(place)
  BY <1>13 DEF SendEnds, Goes, Ready, Released, clock, server, bearer, ghosts, Tasks
<1>14. CASE CmdEnds
  BY <1>14 DEF CmdEnds, Goes, Ready, After, Turns, Opened, Released, clock, server, bearer,
       ghosts, Tasks
<1>15. CASE RangeEnds
  BY <1>15 DEF RangeEnds, Goes, Ready, Turns, Released, After, clock, server, bearer, ghosts
<1>16. CASE SyncAnswers
  BY <1>16 DEF SyncAnswers, Goes, Ready, Turns, Opened, clock, server, bearer, ghosts
<1>17. CASE SyncFails
  BY <1>17 DEF SyncFails, Goes, Ready, Turns, Opened, clock, server, bearer, ghosts
<1>18. CASE ReadPrev
  BY <1>18 DEF ReadPrev, Goes, prev, Mixed, clock, server, bearer, ghosts
<1>19. CASE SetClock
  BY <1>19 DEF SetClock, Goes, clock, server, bearer, ghosts
<1>20. CASE SyncEnds
  BY <1>20 DEF SyncEnds, Goes, Turns, Released, After, clock, server, bearer, ghosts
<1>21. CASE Pending
  BY <1>21 DEF Pending, Goes, clock, server, bearer, ghosts
<1>22. CASE Close
  BY <1>22 DEF Close, Goes, clock, server, bearer, ghosts, InTurn
<1>23. CASE Rest
  BY <1>23 DEF Rest, Goes, clock, server, bearer, ghosts
<1>24. CASE Lock
  BY <1>24 DEF Lock, Goes, clock, server, bearer, ghosts
<1>25. CASE Look
  BY <1>25 DEF Look, Goes, clock, server, bearer, ghosts
<1>26. CASE Sleep
  BY <1>26 DEF Sleep, Goes, clock, server, bearer, ghosts
<1>27. CASE Wake
  BY <1>27 DEF Wake, Goes, clock, server, bearer, ghosts
<1>28. CASE UNCHANGED vars
  BY <1>28 DEF vars, clock, server, bearer, ghosts
<1>29. CASE ReadClock
  BY <1>29 DEF ReadClock, Goes, Adjust, clock, server, bearer, ghosts
<1>30. CASE MovePart
  BY <1>30 DEF MovePart, Goes, prev, Mixed, clock, server, bearer, ghosts
<1>31. CASE MoveRest
  BY <1>31 DEF MoveRest, Goes, prev, Mixed, Adjust, clock, server, bearer, ghosts
<1>. QED BY <1>1, <1>2, <1>3, <1>4, <1>5, <1>6, <1>7, <1>8, <1>9, <1>10, <1>11, <1>12,
            <1>13, <1>14, <1>15, <1>16, <1>17, <1>18, <1>19, <1>20, <1>21, <1>22, <1>23,
            <1>24, <1>25, <1>26, <1>27, <1>28, <1>29, <1>30, <1>31 DEF Next, Loop

LEMMA NextCounted == ASSUME TypeOK, Open, Counted, [Next]_vars PROVE Counted'
<1>. USE Constants DEF TypeOK, Open, Counted, Users, Sending, Another, Settled, Syncing, Setting
<1>1. CASE Tick
  BY <1>1 DEF Tick, Makes, Tasks, clock, server, bearer, ghosts, Due, Gate
<1>2. CASE Reset
  BY <1>2 DEF Reset, clock, server, bearer, ghosts, Tasks, StartAcc
<1>3. CASE \E t \in Tasks : Skip(t)
  BY <1>3 DEF Skip, Goes, Tasks, After, clock, server, bearer, ghosts
<1>4. CASE \E t \in {"send", "range"} : MoreToSend(t)
  BY <1>4 DEF MoreToSend, Goes, Ready, After, clock, server, bearer, ghosts
<1>5. CASE StoreBegins
  BY <1>5 DEF StoreBegins, Goes, Ready, Turns, clock, server, bearer, ghosts
<1>6. CASE StoreEnds
  BY <1>6 DEF StoreEnds, Goes, Turns, After, clock, server, bearer, ghosts
<1>7. CASE Prepare
  BY <1>7 DEF Prepare, Goes, Ready, Turns, clock, server, bearer, ghosts
<1>8. CASE PrepareSucceeds
  BY <1>8 DEF PrepareSucceeds, Goes, Turns, Opened, clock, server, bearer, ghosts, Tasks
<1>9. CASE Prepared
  BY <1>9 DEF Prepared, Goes, Turns, clock, server, bearer, ghosts, Tasks
<1>10. CASE PrepareFails
  BY <1>10 DEF PrepareFails, Goes, Turns, clock, server, bearer, ghosts
<1>11. CASE StorePart
  BY <1>11 DEF StorePart, Goes, clock, server, bearer, ghosts
<1>12. CASE StoreRest
  BY <1>12 DEF StoreRest, Goes, clock, server, bearer, ghosts
<1>13. CASE \E place \in {"retry", "cmd"} : SendEnds(place)
  BY <1>13 DEF SendEnds, Goes, Ready, Released, clock, server, bearer, ghosts, Tasks
<1>14. CASE CmdEnds
  BY <1>14 DEF CmdEnds, Goes, Ready, After, Turns, Opened, Released, clock, server, bearer,
       ghosts, Tasks
<1>15. CASE RangeEnds
  BY <1>15 DEF RangeEnds, Goes, Ready, Turns, Released, After, clock, server, bearer, ghosts
<1>16. CASE SyncAnswers
  BY <1>16 DEF SyncAnswers, Goes, Ready, Turns, Opened, clock, server, bearer, ghosts
<1>17. CASE SyncFails
  BY <1>17 DEF SyncFails, Goes, Ready, Turns, Opened, clock, server, bearer, ghosts
<1>18. CASE ReadPrev
  BY <1>18 DEF ReadPrev, Goes, prev, Mixed, clock, server, bearer, ghosts
<1>19. CASE SetClock
  BY <1>19 DEF SetClock, Goes, clock, server, bearer, ghosts
<1>20. CASE SyncEnds
  BY <1>20 DEF SyncEnds, Goes, Turns, Released, After, clock, server, bearer, ghosts
<1>21. CASE Pending
  BY <1>21 DEF Pending, Goes, clock, server, bearer, ghosts
<1>22. CASE Close
  BY <1>22 DEF Close, Goes, clock, server, bearer, ghosts, InTurn
<1>23. CASE Rest
  BY <1>23 DEF Rest, Goes, clock, server, bearer, ghosts
<1>24. CASE Lock
  BY <1>24 DEF Lock, Goes, clock, server, bearer, ghosts
<1>25. CASE Look
  BY <1>25 DEF Look, Goes, clock, server, bearer, ghosts
<1>26. CASE Sleep
  BY <1>26 DEF Sleep, Goes, clock, server, bearer, ghosts
<1>27. CASE Wake
  BY <1>27 DEF Wake, Goes, clock, server, bearer, ghosts
<1>28. CASE UNCHANGED vars
  BY <1>28 DEF vars, clock, server, bearer, ghosts
<1>29. CASE ReadClock
  BY <1>29 DEF ReadClock, Goes, Adjust, clock, server, bearer, ghosts
<1>30. CASE MovePart
  BY <1>30 DEF MovePart, Goes, prev, Mixed, clock, server, bearer, ghosts
<1>31. CASE MoveRest
  BY <1>31 DEF MoveRest, Goes, prev, Mixed, Adjust, clock, server, bearer, ghosts
<1>. QED BY <1>1, <1>2, <1>3, <1>4, <1>5, <1>6, <1>7, <1>8, <1>9, <1>10, <1>11, <1>12,
            <1>13, <1>14, <1>15, <1>16, <1>17, <1>18, <1>19, <1>20, <1>21, <1>22, <1>23,
            <1>24, <1>25, <1>26, <1>27, <1>28, <1>29, <1>30, <1>31 DEF Next, Loop

\* The two parts of a time, whichever is written first, make the time.
LEMMA MixedTwice ==
  ASSUME TypeOK, NEW n \in Int, NEW p \in Int
  PROVE  /\ Mixed(n, p) \in Int /\ Mixed(n, n) = n
         /\ Mixed(Mixed(n, p), n) = n /\ Mixed(n, Mixed(p, n)) = n
<1>. DEFINE m == low + n
            l == low + p
<1>1. low \in Int /\ m \in Int /\ l \in Int
  BY Constants DEF TypeOK
<1>0. 0 .. Base - 1 \subseteq Int
  BY Constants
<1>2. /\ Low(m) \in Int /\ Low(l) \in Int
      /\ Low(m - Low(m) + Low(l)) = Low(l) /\ Low(l - Low(l) + Low(m)) = Low(m)
  BY Zenon, <1>0, <1>1, Remainder DEF Low
<1>3. /\ Mixed(n, p) = n - Low(m) + Low(l) /\ Mixed(p, n) = p - Low(l) + Low(m)
      /\ Mixed(n, n) = n - Low(m) + Low(m)
  BY DEF Mixed, Low
<1>4. low + Mixed(n, p) = m - Low(m) + Low(l) /\ low + Mixed(p, n) = l - Low(l) + Low(m)
  BY <1>1, <1>2, <1>3
<1>5. /\ Mixed(Mixed(n, p), n) = Mixed(n, p) - Low(low + Mixed(n, p)) + Low(m)
      /\ Mixed(n, Mixed(p, n)) = n - Low(m) + Low(low + Mixed(p, n))
  BY DEF Mixed, Low
<1>. QED BY <1>1, <1>2, <1>3, <1>4, <1>5

LEMMA NextForward == ASSUME TypeOK, Forward, [Next]_vars PROVE Forward'
<1>. USE Constants DEF TypeOK, Forward, P
<1>0. prev \in Int
  BY DEF prev
<1>1. CASE Tick
  <2>1. acc'["send"] >= 0
    BY <1>1, TickOfSend
  <2>2. CASE at \in Setting
    BY <1>1, <2>1, <2>2 DEF Tick
  <2>3. CASE at \notin Setting
    <3>1. lag' = 0 /\ at' \notin Setting
      BY <1>1, <2>3 DEF Tick, Setting
    <3>. QED BY <2>1, <3>1 DEF Setting
  <2>. QED BY <2>2, <2>3
<1>2. CASE Reset
  BY <1>2 DEF Reset, clock, server, bearer, ghosts, StartAcc
<1>3. CASE \E t \in Tasks : Skip(t)
  BY <1>3 DEF Skip, Goes, Tasks, After, clock, server, bearer, ghosts
<1>4. CASE \E t \in {"send", "range"} : MoreToSend(t)
  BY <1>4 DEF MoreToSend, Goes, Ready, After, clock, server, bearer, ghosts
<1>5. CASE StoreBegins
  BY <1>5 DEF StoreBegins, Goes, Ready, Turns, clock, server, bearer, ghosts
<1>6. CASE StoreEnds
  BY <1>6 DEF StoreEnds, Goes, Turns, After, clock, server, bearer, ghosts
<1>7. CASE Prepare
  BY <1>7 DEF Prepare, Goes, Ready, Turns, clock, server, bearer, ghosts
<1>8. CASE PrepareSucceeds
  BY <1>8 DEF PrepareSucceeds, Goes, Turns, Opened, clock, server, bearer, ghosts
<1>9. CASE Prepared
  BY <1>9 DEF Prepared, Goes, Turns, clock, server, bearer, ghosts
<1>10. CASE PrepareFails
  BY <1>10 DEF PrepareFails, Goes, Turns, clock, server, bearer, ghosts
<1>11. CASE StorePart
  <2>1. acc'["send"] \in {Part(acc["send"], store), Part(store, acc["send"])}
    BY <1>11 DEF StorePart
  <2>2. acc'["send"] >= 0
    BY <2>1, PartsOfSend
  <2>. QED BY <1>11, <2>2 DEF StorePart, Goes, ghosts
<1>12. CASE StoreRest
  <2>1. acc'["send"] \in {Part(acc["send"], store), Part(store, acc["send"])}
    BY <1>12 DEF StoreRest
  <2>2. acc'["send"] >= 0
    BY <2>1, PartsOfSend
  <2>. QED BY <1>12, <2>2 DEF StoreRest, Goes, ghosts
<1>13. CASE \E place \in {"retry", "cmd"} : SendEnds(place)
  BY <1>13 DEF SendEnds, Goes, Ready, Released, clock, server, bearer, ghosts
<1>14. CASE CmdEnds
  BY <1>14 DEF CmdEnds, Goes, Ready, After, Turns, Opened, Released, clock, server, bearer, ghosts
<1>15. CASE RangeEnds
  BY <1>15 DEF RangeEnds, Goes, Ready, Turns, Released, After, clock, server, bearer, ghosts
<1>16. CASE SyncAnswers
  <2>1. /\ at' = "reading" /\ at = "sync" /\ old' = prev' /\ lag' = lag
        /\ acc' = acc /\ shaken' = shaken
    BY <1>16 DEF SyncAnswers, Goes, Ready, clock, ghosts, prev
  <2>. QED BY Zenon, <2>1
<1>17. CASE SyncFails
  BY <1>17 DEF SyncFails, Goes, Ready, Turns, Opened, clock, server, bearer, ghosts
<1>18. CASE ReadPrev
  <2>1. /\ at = "reading" /\ at' = "act" /\ lag' = lag /\ prev' = prev
        /\ acc' = acc /\ shaken' = shaken
        /\ old' \in {Mixed(old, prev), Mixed(prev, old)}
    BY <1>18 DEF ReadPrev, Goes, clock, ghosts, prev
  <2>2. Mixed(prev, prev) = prev
    BY Zenon, <1>0, MixedTwice
  <2>. QED BY Zenon, <2>1, <2>2
<1>19. CASE SetClock
  BY <1>19 DEF SetClock, Goes, ghosts
<1>20. CASE SyncEnds
  BY <1>20 DEF SyncEnds, Goes, Turns, Released, After, clock, server, bearer, ghosts
<1>21. CASE Pending
  BY <1>21 DEF Pending, Goes, clock, server, bearer, ghosts
<1>22. CASE Close
  BY <1>22 DEF Close, Goes, clock, server, bearer, ghosts
<1>23. CASE Rest
  BY <1>23 DEF Rest, Goes, clock, server, bearer, ghosts
<1>24. CASE Lock
  BY <1>24 DEF Lock, Goes, clock, server, bearer, ghosts
<1>25. CASE Look
  BY <1>25 DEF Look, Goes, clock, server, bearer, ghosts
<1>26. CASE Sleep
  BY <1>26 DEF Sleep, Goes, clock, server, bearer, ghosts
<1>27. CASE Wake
  BY <1>27 DEF Wake, Goes, clock, server, bearer, ghosts
<1>28. CASE UNCHANGED vars
  BY <1>28 DEF vars, clock, server, ghosts, prev, Moved, Mixed
<1>29. CASE ReadClock
  <2>1. /\ at = "act" /\ lag' = lag /\ acc' = acc /\ shaken' = shaken
        /\ IF old > late THEN at' = "move" /\ diff' = late /\ late' = late
           ELSE at' = "synced" \/ (at' = "set" /\ late' = late)
    BY <1>29 DEF ReadClock, PrevIsAhead, Adjust, Goes, clock, ghosts
  <2>. QED BY <2>1 DEF prev
<1>30. CASE MovePart
  <2>1. /\ at = "move" /\ late' = late /\ diff' = diff /\ low' = low
        /\ acc' = acc /\ shaken' = shaken
        /\ \/ lag' = -Mixed(late, prev) /\ at' = "movedHigh"
           \/ lag' = -Mixed(prev, late) /\ at' = "movedLow"
    BY <1>30 DEF MovePart, Goes, server, ghosts
  <2>2. /\ Mixed(late, prev) \in Int /\ Mixed(Mixed(late, prev), late) = late
        /\ Mixed(prev, late) \in Int /\ Mixed(late, Mixed(prev, late)) = late
    BY Zenon, <1>0, MixedTwice
  <2>3. \A m \in Int : -(-m) = m
    OBVIOUS
  <2>4. CASE at' = "movedHigh"
    <3>1. prev' = Mixed(late, prev)
      BY Zenon, <2>1, <2>2, <2>3, <2>4 DEF prev
    <3>2. Moved(prev, late)' <=> Mixed(prev', late) = late
      BY <2>1 DEF Moved, Mixed
    <3>. QED BY Zenon, <2>1, <2>2, <2>4, <3>1, <3>2
  <2>5. CASE at' = "movedLow"
    <3>1. prev' = Mixed(prev, late)
      BY Zenon, <2>1, <2>2, <2>3, <2>5 DEF prev
    <3>2. Moved(late, prev)' <=> Mixed(late, prev') = late
      BY <2>1 DEF Moved, Mixed
    <3>. QED BY Zenon, <2>1, <2>2, <2>5, <3>1, <3>2
  <2>. QED BY <2>1, <2>4, <2>5
<1>31. CASE MoveRest
  <2>1. /\ at \in {"movedHigh", "movedLow"} /\ acc' = acc /\ shaken' = shaken
        /\ at' = "synced" \/ (at' = "set" /\ late' = late)
    BY <1>31 DEF MoveRest, Adjust, Goes, ghosts
  <2>2. ~shaken => lag' = -late /\ late < 0
    BY <1>31 DEF MoveRest, Moved
  <2>. QED BY <2>1, <2>2
<1>. QED BY <1>1, <1>2, <1>3, <1>4, <1>5, <1>6, <1>7, <1>8, <1>9, <1>10, <1>11, <1>12,
            <1>13, <1>14, <1>15, <1>16, <1>17, <1>18, <1>19, <1>20, <1>21, <1>22, <1>23,
            <1>24, <1>25, <1>26, <1>27, <1>28, <1>29, <1>30, <1>31 DEF Next, Loop

LEMMA Keeps ==
  \A a, b, c, l, n \in Int : a <= b + n /\ c >= b + l + 1 => a + l + 1 <= c + n
OBVIOUS

LEMMA NextBounded == ASSUME TypeOK, Forward, Bounded, [Next]_vars PROVE Bounded'
<1>. USE Constants DEF TypeOK, Forward, Bounded, Storing, Sending, Another, Below, Torn, P
<1>1. CASE Tick
  <2>. DEFINE sum == acc["send"] + lag + 1
              due == status["send"] = "STOP" /\ (sum < 0 \/ sum >= P)
  <2>1. /\ acc'["send"] = IF due THEN 0 ELSE sum
        /\ acc'["send"] \in 0 .. 3 * P
        /\ status'["send"] = status["send"]
        /\ status'["prepare"] = IF due THEN "READY" ELSE status["prepare"]
    BY <1>1, TickOfSend
  <2>2. at' = (IF at = "asleep" THEN "awake" ELSE at) /\ store' = store
    BY <1>1 DEF Tick
  <2>3. CASE ~Sending
    <3>1. busy' = 0 /\ gained' = 0 /\ acc'["send"] <= P - 1
      BY <1>1, <2>1, <2>3 DEF Tick
    <3>. QED BY <2>1, <2>2, <2>3, <3>1
  <2>4. CASE Sending
    <3>1. ~due /\ acc'["send"] = sum /\ status'["prepare"] = status["prepare"]
      BY <2>1, <2>4
    <3>2. /\ busy' \in Nat /\ gained' \in Nat
          /\ busy' + gained' >= busy + gained + lag + 1 \/ busy' + gained' >= 2 * P
          /\ busy + gained >= 2 * P => busy' + gained' >= 2 * P
      BY <1>1, <2>4 DEF Tick, Counting, Long, Gain
    <3>0. /\ acc["send"] \in Int /\ lag \in Int /\ busy + gained \in Int
          /\ busy' + gained' \in Int /\ P - 1 \in Int /\ Torn \in Int
      BY <3>2
    <3>3. ASSUME NEW n \in Int, Below(n)
          PROVE  busy' + gained' >= 2 * P \/ acc'["send"] <= busy' + gained' + n
      <4>1. CASE busy + gained >= 2 * P \/ busy' + gained' >= 2 * P
        BY <3>2, <4>1
      <4>2. CASE /\ acc["send"] <= busy + gained + n
                 /\ busy' + gained' >= busy + gained + lag + 1
        <5>1. sum <= busy' + gained' + n
          BY Zenon, <3>0, <3>3, <4>2, Keeps
        <5>. HIDE DEF sum
        <5>. QED BY <3>1, <5>1
      <4>. QED BY <3>2, <3>3, <4>1, <4>2
    <3>4. ASSUME at = "storedHigh"
          PROVE  Below(P - 1)' \/ Below(High(store) + Base - 1)'
      <4>1. High(store) \in Int /\ High(store) + Base - 1 \in Int /\ store' = store
        BY <2>2, <3>4, PartsOfSend
      <4>2. Below(P - 1) \/ Below(High(store) + Base - 1)
        BY <3>4
      <4>3. CASE Below(P - 1)
        BY <3>0, <3>3, <4>3
      <4>4. CASE Below(High(store) + Base - 1)
        <5>1. \/ busy' + gained' >= 2 * P
              \/ acc'["send"] <= busy' + gained' + (High(store) + Base - 1)
          BY Zenon, <3>3, <4>1, <4>4
        <5>. QED BY <4>1, <5>1 DEF High
      <4>. QED BY <4>2, <4>3, <4>4
    <3>5. at' = "storedHigh" => Below(P - 1)' \/ Below(High(store) + Base - 1)'
      BY <2>2, <3>4
    <3>6. /\ Below(IF at = "storedLow" /\ ~Sending THEN Torn + Base - 1 ELSE Torn)'
          /\ at' = "prepared" /\ Another' => Below(P - 1)'
          /\ Another' \/ at' \in {"preparing", "retry"} => Below(P - 1)'
      BY <2>1, <2>2, <2>4, <3>0, <3>1, <3>3
    <3>. QED BY <2>1, <2>2, <2>4, <3>1, <3>5, <3>6
  <2>. QED BY <2>3, <2>4
<1>2. CASE Reset
  BY <1>2 DEF Reset, clock, server, bearer, ghosts, StartAcc, Tasks
<1>3. CASE \E t \in Tasks : Skip(t)
  BY <1>3 DEF Skip, Goes, Tasks, After, clock, server, bearer, ghosts
<1>4. CASE \E t \in {"send", "range"} : MoreToSend(t)
  BY <1>4 DEF MoreToSend, Goes, Ready, After, clock, server, bearer, ghosts
<1>5. CASE StoreBegins
  BY <1>5 DEF StoreBegins, Goes, Ready, Turns, clock, server, bearer, ghosts
<1>6. CASE StoreEnds
  BY <1>6 DEF StoreEnds, Goes, Turns, After, clock, server, bearer, ghosts
<1>7. CASE Prepare
  BY <1>7 DEF Prepare, Goes, Ready, Turns, clock, server, bearer, ghosts
<1>8. CASE PrepareSucceeds
  BY <1>8 DEF PrepareSucceeds, Goes, Turns, Opened, clock, server, bearer, ghosts, Tasks
<1>9. CASE Prepared
  BY <1>9 DEF Prepared, Goes, Turns, clock, server, bearer, ghosts
<1>10. CASE PrepareFails
  BY <1>10 DEF PrepareFails, Goes, Turns, clock, server, bearer, ghosts, Tasks
<1>11. CASE StorePart
  <2>. DEFINE a == acc["send"]
  <2>1. /\ at = "retry" /\ status' = status /\ store' = store /\ busy' = busy /\ gained' = gained
        /\ \/ at' = "storedLow" /\ acc'["send"] = Part(a, store)
           \/ at' = "storedHigh" /\ acc'["send"] = Part(store, a)
    BY <1>11 DEF StorePart, Goes, ghosts
  <2>2. /\ a \in Nat /\ Part(a, store) \in Nat /\ Part(store, a) \in Nat
        /\ Part(a, store) <= a + Base - 1
        /\ Part(store, a) <= High(store) + Base - 1 /\ Part(store, a) <= store + Base - 1
        /\ High(store) \in Nat
    BY PartsOfSend
  <2>3. CASE at' = "storedLow"
    BY <2>1, <2>2, <2>3
  <2>4. CASE at' = "storedHigh"
    BY <2>1, <2>2, <2>4
  <2>. QED BY <2>1, <2>3, <2>4
<1>12. CASE StoreRest
  <2>. DEFINE a == acc["send"]
  <2>1. /\ at' \in {"send", "cmd"} /\ status' = status /\ busy' = busy /\ gained' = gained
        /\ \/ at = "storedLow" /\ acc'["send"] = Part(store, a)
           \/ at = "storedHigh" /\ acc'["send"] = Part(a, store)
    BY <1>12 DEF StoreRest, Goes, ghosts
  <2>2. Below(Torn)'
    <3>1. /\ a \in Nat /\ store \in Nat /\ High(store) \in Nat
          /\ Part(a, store) \in Nat /\ Part(store, a) \in Nat
          /\ Part(store, a) <= store + Base - 1
          /\ Part(a, store) <= a + store /\ Part(a, store) <= a + Low(store)
          /\ Low(store) \in Nat /\ Part(a, store) <= a + Base - 1
          /\ store = High(store) + Low(store)
      BY PartsOfSend
    <3>2. CASE at = "storedLow"
      BY <2>1, <3>1, <3>2
    <3>3. CASE at = "storedHigh" /\ Below(P - 1)
      BY <2>1, <3>1, <3>3
    <3>4. CASE at = "storedHigh" /\ Below(High(store) + Base - 1)
      BY <2>1, <3>1, <3>4
    <3>. QED BY <2>1, <3>2, <3>3, <3>4
  <2>. QED BY <1>12, <2>1, <2>2 DEF StoreRest
<1>13. CASE \E place \in {"retry", "cmd"} : SendEnds(place)
  BY <1>13 DEF SendEnds, Goes, Ready, Released, clock, server, bearer, ghosts, Tasks
<1>14. CASE CmdEnds
  BY <1>14 DEF CmdEnds, Goes, Ready, After, Turns, Opened, Released, clock, server, bearer,
       ghosts, Tasks
<1>15. CASE RangeEnds
  BY <1>15 DEF RangeEnds, Goes, Ready, Turns, Released, After, clock, server, bearer, ghosts
<1>16. CASE SyncAnswers
  BY <1>16 DEF SyncAnswers, Goes, Ready, Turns, Opened, clock, server, bearer, ghosts
<1>17. CASE SyncFails
  BY <1>17 DEF SyncFails, Goes, Ready, Turns, Opened, clock, server, bearer, ghosts
<1>18. CASE ReadPrev
  BY <1>18 DEF ReadPrev, Goes, prev, Mixed, clock, server, bearer, ghosts
<1>19. CASE SetClock
  BY <1>19 DEF SetClock, Goes, clock, server, bearer, ghosts
<1>20. CASE SyncEnds
  BY <1>20 DEF SyncEnds, Goes, Turns, Released, After, clock, server, bearer, ghosts
<1>21. CASE Pending
  BY <1>21 DEF Pending, Goes, clock, server, bearer, ghosts
<1>22. CASE Close
  BY <1>22 DEF Close, Goes, clock, server, bearer, ghosts
<1>23. CASE Rest
  BY <1>23 DEF Rest, Goes, clock, server, bearer, ghosts
<1>24. CASE Lock
  BY <1>24 DEF Lock, Goes, clock, server, bearer, ghosts
<1>25. CASE Look
  BY <1>25 DEF Look, Goes, clock, server, bearer, ghosts
<1>26. CASE Sleep
  BY <1>26 DEF Sleep, Goes, clock, server, bearer, ghosts
<1>27. CASE Wake
  BY <1>27 DEF Wake, Goes, clock, server, bearer, ghosts
<1>28. CASE UNCHANGED vars
  BY <1>28 DEF vars, clock, server, bearer, ghosts
<1>29. CASE ReadClock
  BY <1>29 DEF ReadClock, Goes, Adjust, clock, server, bearer, ghosts
<1>30. CASE MovePart
  BY <1>30 DEF MovePart, Goes, prev, Mixed, clock, server, bearer, ghosts
<1>31. CASE MoveRest
  BY <1>31 DEF MoveRest, Goes, prev, Mixed, Adjust, clock, server, bearer, ghosts
<1>. QED BY <1>1, <1>2, <1>3, <1>4, <1>5, <1>6, <1>7, <1>8, <1>9, <1>10, <1>11, <1>12,
            <1>13, <1>14, <1>15, <1>16, <1>17, <1>18, <1>19, <1>20, <1>21, <1>22, <1>23,
            <1>24, <1>25, <1>26, <1>27, <1>28, <1>29, <1>30, <1>31 DEF Next, Loop

-----------------------------------------------------------------------------
LEMMA InitInv == Init => Inv
<1>. SUFFICES ASSUME Init PROVE Inv
  OBVIOUS
<1>. USE Constants DEF Init
<1>1. TypeOK
  BY InitType
<1>2. status["send"] = "STOP" /\ status["prepare"] = "STOP" /\ acc["send"] = P - Early
  BY DEF Tasks, StartAcc, P
<1>3. Open /\ Counted
  BY <1>2 DEF Open, Counted, Users, Sending, Another, Settled, Syncing, Setting
<1>4. Forward
  BY <1>2 DEF Forward
<1>5. Bounded
  BY <1>2 DEF Bounded, Storing, Sending, Another, Below, Torn
<1>. QED BY <1>1, <1>3, <1>4, <1>5 DEF Inv

LEMMA NextInv == Inv /\ [Next]_vars => Inv'
BY NextType, NextOpen, NextCounted, NextForward, NextBounded DEF Inv

LEMMA Invariance == Spec => []Inv
BY InitInv, NextInv, PTL DEF Spec

-----------------------------------------------------------------------------
\* Every variable of the scheduler keeps its range, whatever the periods.
THEOREM TypeCorrect == Spec => []TypeOK
<1>1. Inv => TypeOK
  BY DEF Inv
<1>. QED BY <1>1, Invariance, PTL

\* A transmission over HTTP finds the bearer open, whatever else uses it
\* (dl_sim900_guard_set starts the modem anew only beside none).
THEOREM BearerIsUp == Spec => []BearerUpWhileSending
<1>1. Inv => BearerUpWhileSending
  BY DEF Inv, Open, Sending, BearerUpWhileSending, Ready
<1>. QED BY <1>1, Invariance, PTL

\* The loop sleeps only when no user of the bearer is counted, unless a
\* preparation was asked for while one ended.
THEOREM BearerIsReleased == Spec => []BearerReleased
<1>1. Inv => BearerReleased
  <2>1. SUFFICES ASSUME Inv, at = "asleep", ~twice PROVE ref <= 0
    BY DEF BearerReleased
  <2>2. Users = 0
    BY <2>1 DEF Inv, Open, Settled, Users, Syncing, Setting
  <2>. QED BY <2>1, <2>2 DEF Inv, Counted, TypeOK
<1>. QED BY <1>1, Invariance, PTL

\* The tick resets the board only when a transmission has lasted for two of its
\* periods, counted in ticks, less the seconds by which the clock was set forward
\* meanwhile, or around a tick that came while the clock was being set.
THEOREM HealthyIsNotReset == Spec => ResetOnlyIfHung
<1>1. ASSUME Inv, Reset PROVE LongTransmission \/ shaken \/ at \in Setting
  <2>. USE Constants DEF Inv, TypeOK
  <2>. DEFINE sum == acc["send"] + lag + 1
  <2>1. /\ status["send"] = "READY" /\ (sum < 0 \/ sum >= 3 * P + 1)
    BY <1>1 DEF Reset, Hangs, AtLeast, Ticked, Due, Gate, Cut, Sum, Bounded, P
  <2>2. CASE shaken \/ at \in Setting
    BY <2>2
  <2>3. CASE ~shaken /\ at \notin Setting
    <3>1. busy + gained >= 2 * P \/ acc["send"] <= busy + gained + P + Base - 2
      BY <1>1, <2>1 DEF Bounded, Sending, Below, Torn
    <3>2. lag >= 0 /\ acc["send"] >= 0
      BY <1>1, <2>3 DEF Forward, Setting
    <3>3. Gain = lag
      BY <1>1, <3>2 DEF Gain
    <3>. QED BY <1>1, <2>1, <3>1, <3>2, <3>3 DEF LongTransmission, Long, P
  <2>. QED BY <2>1, <2>2, <2>3
<1>2. Inv /\ [Next]_vars => [Reset => LongTransmission \/ shaken \/ at \in Setting]_vars
  BY <1>1
<1>. QED BY <1>2, Invariance, PTL DEF Spec, ResetOnlyIfHung
=============================================================================
