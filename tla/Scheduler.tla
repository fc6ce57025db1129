------------------------------ MODULE Scheduler ------------------------------
(***************************************************************************)
(* The tick interrupt (dl_tick) against the main loop (dl_run) of          *)
(* datalogger.c, built for HTTP and without RMAP_SERVICES: time            *)
(* accumulators, task statuses, the cycle lock and sleep, the retry of a   *)
(* transmission, the reset of a station that hangs, the change of the      *)
(* clock by the time synchronisation, and the count of the users of the    *)
(* modem's bearer.  What the tasks do to the records is in Snapshot and    *)
(* Sender; a tick here falls between any two of their steps that matter to *)
(* the scheduler.  A tick is a second of the clock.                        *)
(***************************************************************************)
EXTENDS Integers

CONSTANTS Period,      \* seconds, of the jobs "store", "sync", "send"
          Early,       \* seconds to the first transmission after a start
          Retry,       \* ... to the next attempt after a failed preparation
          RetryLong,   \* ... and after a failed transmission
          Base,        \* 32 bits are read and written in two parts, the lower below Base
          GuardLimit,  \* failed preparations before the modem is started anew
          MaxRef,      \* uses of the bearer counted at most
          Back,        \* by how much an accumulator goes back at most
          Jumps        \* by how much the server's time differs from the clock

Jobs == DOMAIN Period
ASSUME PeriodAssumption ==
  /\ Jobs \subseteq {"store", "sync", "send"} /\ {"sync", "send"} \subseteq Jobs
  /\ Period \in [Jobs -> Nat \ {0}]
ASSUME RetryAssumption ==
  /\ {Early, Retry, RetryLong} \subseteq 1 .. Period["send"]
  /\ Retry # RetryLong /\ {GuardLimit, MaxRef} \subseteq Nat \ {0} /\ Base \in Nat \ {0, 1}
ASSUME JumpsAssumption == Jumps \subseteq Int /\ Back \in Nat /\ \A n \in Jumps : -n <= Back

VARIABLES acc,         \* g_acc_task_*
          lag,         \* the clock minus g_timePrev
          status,      \* task_status_*
          lock,        \* dl_cycle_lock
          at,          \* where the loop is
          late,        \* tNEW minus the clock, while that is being set,
          old,         \* tOLD minus the clock,
          diff,        \* tdiff, which is tNEW minus tAct,
          low,         \* and the lower part of the clock
          store,       \* the value being stored in g_acc_task_send_RT
          guard,       \* sim900_guard_retries
          ref,         \* g_gprs_ref
          up,          \* the bearer is open
          busy,        \* ticks since the transmission under way was prepared
          gained,      \* by how much the clock was set forward meanwhile
          twice,       \* a transmission was prepared while another was ready
          shaken       \* the last tick came while the clock was being set

clock  == <<acc, lag>>
server == <<late, old, diff, low>>
bearer == <<ref, up>>
ghosts == <<busy, gained, twice, shaken>>
vars   == <<clock, status, lock, at, server, store, guard, bearer, ghosts>>

Tasks == {"store", "prepare", "send", "cmd", "range", "sync"}

\* The turn after each turn of the loop.
After == [store |-> "prepare", prepare |-> "send",
          send |-> "cmd", cmd |-> "range", range |-> "sync",
          sync |-> "pending"]

\* What a start leaves: the transmission is brought forward, the first
\* synchronisation has opened the bearer.
StartAcc == [j \in Jobs |-> IF j = "send" THEN Period[j] - Early ELSE 0]

Init ==
  /\ acc = StartAcc /\ lag = 0
  /\ status = [t \in Tasks |-> "STOP"] /\ lock = FALSE
  /\ at = "store" /\ late = 0 /\ old = 0 /\ diff = 0 /\ low = 0 /\ store = 0
  /\ guard = 0 /\ ref = 0 /\ up = TRUE
  /\ busy = 0 /\ gained = 0 /\ twice = FALSE /\ shaken = FALSE

-----------------------------------------------------------------------------
\* An int32_t compared with an uint32_t: a negative one is greater than any.
AtLeast(a, p) == a < 0 \/ a >= p

\* The task that must be idle for a job to come due, and the task it makes ready.
Gate  == [store |-> "sync", sync |-> "sync", send |-> "send"]
Makes == [store |-> "store", sync |-> "sync", send |-> "prepare"]

Sum(j) == acc[j] + lag + 1

SyncDue == status["sync"] = "STOP" /\ AtLeast(Sum("sync"), Period["sync"])

\* "sync" is looked at before "store", which then finds it ready.
Due(j) ==
  /\ IF j = "store" THEN status["sync"] = "STOP" /\ ~SyncDue ELSE status[Gate[j]] = "STOP"
  /\ AtLeast(Sum(j), Period[j])

\* Bound: what exceeds a period by more than the clock goes back is not counted,
\* except where the tick compares with three periods.
Cut(j, n) == IF j # "send" /\ n > Period[j] + Back THEN Period[j] + Back ELSE n

Ticked == [j \in Jobs |-> IF Due(j) THEN 0 ELSE Cut(j, Sum(j))]

Hangs == AtLeast(Ticked["send"], 3 * Period["send"] + 1)

\* Bound: the ticks of a transmission and the seconds the clock was set forward are
\* not counted beyond Long in all.
Long == 2 * Period["send"]
Counting(n, m) == IF n + m > Long THEN Long - m ELSE n

\* By how much the clock has been set forward since the last tick.
Gain == IF lag > 0 THEN lag ELSE 0

\* Where the time synchronisation has read g_timePrev and not yet set the clock.
Setting == {"reading", "act", "move", "movedHigh", "movedLow", "set"}

\* dl_tick.  It wakes the loop.
Tick ==
  /\ ~Hangs
  /\ at \in Setting => ~shaken                    \* bound: one tick in these few steps
  /\ acc' = Ticked /\ lag' = 0
  /\ status' = [t \in Tasks |-> IF \E j \in Jobs : Makes[j] = t /\ Due(j) THEN "READY"
                                ELSE status[t]]
  /\ lock' = FALSE
  /\ IF at \in Setting THEN late' = late - 1 /\ low' = (low + 1) % Base
     ELSE UNCHANGED <<late, low>>
  /\ old' = IF at \in {"reading", "act"} THEN old - 1 ELSE old
  /\ at' = IF at = "asleep" THEN "awake" ELSE at
  /\ IF status["send"] = "STOP" THEN busy' = 0 /\ gained' = 0
     ELSE busy' = Counting(busy + 1, 0) /\ gained' = Counting(gained + Gain, busy')
  /\ twice' = (twice \/ (at = "prepared" /\ Due("send")))
  /\ shaken' = (at \in Setting)
  /\ UNCHANGED <<diff, store, guard, bearer>>

\* The tick of a station that seems to hang: wdt_reset_mcu.
Reset ==
  /\ Hangs
  /\ acc' = StartAcc /\ lag' = 0
  /\ status' = [t \in Tasks |-> "STOP"] /\ lock' = FALSE
  /\ at' = "store" /\ late' = 0 /\ old' = 0 /\ diff' = 0 /\ low' = 0 /\ store' = 0
  /\ guard' = 0 /\ ref' = 0 /\ up' = TRUE
  /\ busy' = 0 /\ gained' = 0 /\ twice' = FALSE /\ shaken' = FALSE

-----------------------------------------------------------------------------
\* sim900_bearer_simple_open, when the bearer could be opened (bound: MaxRef uses),
\* and _release.
\* Mutant: the count of the bearer's users goes below zero.
ReleasedBelow(n) == n - 1

Opened == IF ref > 0 THEN (IF ref < MaxRef THEN ref + 1 ELSE ref) ELSE 1
Released(n) == IF n > 0 THEN n - 1 ELSE n

Turns(t, s) == status' = [status EXCEPT ![t] = s]
Goes(place) == at' = place

\* A task that is not ready is passed over.
Skip(t) ==
  /\ at = t /\ status[t] # "READY"
  /\ Goes(After[t])
  /\ UNCHANGED <<clock, status, lock, server, store, guard, bearer, ghosts>>

(***************************************************************************)
(* A task is one step when the tick neither reads nor writes what it       *)
(* changes before its end: a tick inside it is a tick before it.  The      *)
(* statuses the tick may set while the task runs, which sets them to STOP  *)
(* at its end, need two.                                                   *)
(***************************************************************************)
Ready(t) == at = t /\ status[t] = "READY"

StoreBegins ==
  /\ Ready("store")
  /\ Turns("store", "RUNNING") /\ Goes("storing")
  /\ UNCHANGED <<clock, lock, server, store, guard, bearer, ghosts>>

StoreEnds ==
  /\ at = "storing"
  /\ Turns("store", "STOP") /\ Goes(After["store"])
  /\ UNCHANGED <<clock, lock, server, store, guard, bearer, ghosts>>

\* dl_sim900_guard_set may start the modem anew, which closes the bearer.
Prepare ==
  /\ Ready("prepare")
  /\ Turns("prepare", "RUNNING") /\ Goes("preparing")
  /\ IF guard + 1 > GuardLimit THEN guard' = 0 /\ ref' = 0 /\ up' = FALSE /\ twice' = FALSE
     ELSE guard' = guard + 1 /\ UNCHANGED <<bearer, twice>>
  /\ UNCHANGED <<clock, lock, server, store, busy, gained, shaken>>

\* Mutant: that the bearer was not opened is overlooked.
PrepareOverlooks ==
  /\ at = "preparing"
  /\ Turns("prepare", "STOP") /\ Goes("prepared")
  /\ UNCHANGED <<clock, lock, server, store, guard, bearer, ghosts>>

\* dl_task_send_data_prepare_RT ends before the loop makes the transmission ready.
PrepareSucceeds ==
  /\ at = "preparing"
  /\ Turns("prepare", "STOP") /\ Goes("prepared")
  /\ ref' = Opened /\ up' = TRUE
  /\ UNCHANGED <<clock, lock, server, store, guard, ghosts>>

Prepared ==
  /\ at = "prepared"
  /\ guard' = 0
  /\ Turns("send", "READY") /\ Goes("send")
  /\ UNCHANGED <<clock, lock, server, store, bearer, ghosts>>

PrepareFails ==
  /\ at = "preparing"
  /\ Turns("prepare", "STOP") /\ Goes("retry")
  /\ store' = Period["send"] - Retry
  /\ UNCHANGED <<clock, lock, server, guard, bearer, ghosts>>

(***************************************************************************)
(* The loop stores an accumulator of 32 bits a byte at a time, and the tick*)
(* may come in between; which part is first is the compiler's choice.      *)
(***************************************************************************)
Part(u, l) == (u \div Base) * Base + (l % Base)
StorePart ==
  /\ at = "retry"
  /\ \/ acc' = [acc EXCEPT !["send"] = Part(@, store)] /\ Goes("storedLow")
     \/ acc' = [acc EXCEPT !["send"] = Part(store, @)] /\ Goes("storedHigh")
  /\ UNCHANGED <<lag, status, lock, server, store, guard, bearer, ghosts>>

StoreRest ==
  /\ \/ at = "storedLow" /\ acc' = [acc EXCEPT !["send"] = Part(store, @)]
     \/ at = "storedHigh" /\ acc' = [acc EXCEPT !["send"] = Part(@, store)]
  /\ Goes(IF store = Period["send"] - Retry THEN "send" ELSE "cmd") /\ store' = 0
  /\ UNCHANGED <<lag, status, lock, server, guard, bearer, ghosts>>

\* A transmission has more to send.
MoreToSend(t) ==
  /\ Ready(t) /\ Goes(After[t])
  /\ UNCHANGED <<clock, status, lock, server, store, guard, bearer, ghosts>>

\* Mutant: a failed transmission keeps the bearer.
SendEndsKeeping(place) ==
  /\ Ready("send")
  /\ ref' = IF place = "retry" THEN ref ELSE Released(ref)
  /\ status' = [status EXCEPT !["send"] = "STOP", !["cmd"] = "READY"]
  /\ Goes(place) /\ store' = IF place = "retry" THEN Period["send"] - RetryLong ELSE 0
  /\ UNCHANGED <<clock, lock, server, guard, up, ghosts>>

\* Mutant: a failed transmission stays ready.
SendEndsReady(place) ==
  /\ Ready("send")
  /\ ref' = Released(ref)
  /\ status' = [status EXCEPT !["send"] = IF place = "retry" THEN "READY" ELSE "STOP",
                              !["cmd"] = "READY"]
  /\ Goes(place) /\ store' = IF place = "retry" THEN Period["send"] - RetryLong ELSE 0
  /\ UNCHANGED <<clock, lock, server, guard, up, ghosts>>

\* dl_task_send_data_RT ends; if it failed, the loop brings the next forward.
SendEnds(place) ==
  /\ Ready("send")
  /\ ref' = Released(ref)
  /\ status' = [status EXCEPT !["send"] = "STOP", !["cmd"] = "READY"]
  /\ Goes(place) /\ store' = IF place = "retry" THEN Period["send"] - RetryLong ELSE 0
  /\ UNCHANGED <<clock, lock, server, guard, up, ghosts>>

\* dl_task_cmd_check: the bearer is opened and released, and the server may ask
\* for a range of dates.
CmdEnds ==
  /\ Ready("cmd") /\ Goes(After[at])
  /\ \/ Turns("cmd", "STOP") /\ UNCHANGED bearer
     \/ /\ ref' = Released(Opened) /\ up' = TRUE
        /\ \E s \in {status["range"], "READY"} :
             status' = [status EXCEPT !["cmd"] = "STOP", !["range"] = s]
  /\ UNCHANGED <<clock, lock, server, store, guard, ghosts>>

RangeEnds ==
  /\ Ready("range")
  /\ ref' = Released(ref)
  /\ Turns("range", "STOP") /\ Goes(After[at])
  /\ UNCHANGED <<clock, lock, server, store, guard, up, ghosts>>

-----------------------------------------------------------------------------
(***************************************************************************)
(* dl_task_sync_time: the server answers; g_timePrev is read; the clock is *)
(* read; if the former is ahead of the server's time it is moved back to   *)
(* that; the clock is set if it was wrong by more than a second; the bearer*)
(* is released, whether it was opened or not.  g_timePrev has 32 bits too, *)
(* which are read and written a byte at a time.                            *)
(***************************************************************************)
\* Of two times that are h and l after the clock, the upper part of the first with
\* the lower part of the second.
Mixed(h, l) == h - ((low + h) % Base) + ((low + l) % Base)
prev == -lag

\* The answer comes and the first part of g_timePrev is read.
SyncAnswers ==
  /\ Ready("sync")
  /\ late' \in Jumps /\ low' \in 0 .. Base - 1 /\ old' = prev
  /\ Turns("sync", "RUNNING") /\ Goes("reading")
  /\ ref' = Opened /\ up' = TRUE
  /\ UNCHANGED <<clock, lock, diff, store, guard, ghosts>>

SyncFails ==
  /\ Ready("sync")
  /\ Turns("sync", "RUNNING") /\ Goes("synced")
  /\ \/ ref' = Opened /\ up' = TRUE
     \/ UNCHANGED bearer
  /\ UNCHANGED <<clock, lock, server, store, guard, ghosts>>

ReadPrev ==
  /\ at = "reading" /\ Goes("act")
  /\ old' \in {Mixed(old, prev), Mixed(prev, old)}
  /\ UNCHANGED <<clock, status, lock, late, diff, low, store, guard, bearer, ghosts>>

\* A time that differs by a second is left.
Adjust(off) ==
  IF off \in -1 .. 1 THEN Goes("synced") /\ late' = 0 /\ low' = 0
  ELSE Goes("set") /\ UNCHANGED <<late, low>>

\* Mutant: g_timePrev stays when the clock goes back.
PrevStays == FALSE

PrevIsAhead == old > late

ReadClock ==
  /\ at = "act" /\ old' = 0
  /\ IF PrevIsAhead THEN Goes("move") /\ diff' = late /\ UNCHANGED <<late, low>>
     ELSE Adjust(late) /\ diff' = 0
  /\ UNCHANGED <<clock, status, lock, store, guard, bearer, ghosts>>

MovePart ==
  /\ at = "move"
  /\ \/ lag' = -Mixed(late, prev) /\ Goes("movedHigh")
     \/ lag' = -Mixed(prev, late) /\ Goes("movedLow")
  /\ UNCHANGED <<acc, status, lock, server, store, guard, bearer, ghosts>>

MoveRest ==
  /\ \/ at = "movedHigh" /\ lag' = -Mixed(prev, late)
     \/ at = "movedLow" /\ lag' = -Mixed(late, prev)
  /\ Adjust(diff) /\ diff' = 0
  /\ UNCHANGED <<acc, status, lock, old, store, guard, bearer, ghosts>>

SetClock ==
  /\ at = "set" /\ Goes("synced")
  /\ lag' = lag + late /\ late' = 0 /\ low' = 0
  /\ UNCHANGED <<acc, status, lock, old, diff, store, guard, bearer, ghosts>>

SyncEnds ==
  /\ at = "synced"
  /\ ref' = Released(ref)
  /\ Turns("sync", "STOP") /\ Goes(After["sync"])
  /\ UNCHANGED <<clock, lock, server, store, guard, up, ghosts>>

-----------------------------------------------------------------------------
InTurn == {"send", "range", "cmd", "sync"}

\* The end of a pass: another, if a task uses the bearer ...
Pending ==
  /\ at = "pending" /\ \E t \in InTurn : status[t] = "READY"
  /\ Goes("store")
  /\ UNCHANGED <<clock, status, lock, server, store, guard, bearer, ghosts>>

\* ... or sim900_bearer_simple_close, and ...
Close ==
  /\ at = "pending" /\ \A t \in InTurn : status[t] # "READY"
  /\ Goes("rest")
  /\ IF ref = 0 THEN ref' = -1 /\ up' = FALSE ELSE UNCHANGED bearer
  /\ UNCHANGED <<clock, status, lock, server, store, guard, ghosts>>

\* ... another, if one of the others is ready, or sleep.
Rest ==
  /\ at = "rest"
  /\ Goes(IF status["store"] = "READY" THEN "store" ELSE "lock")
  /\ UNCHANGED <<clock, status, lock, server, store, guard, bearer, ghosts>>

Lock ==
  /\ at = "lock" /\ Goes("awake")
  /\ lock' = TRUE
  /\ UNCHANGED <<clock, status, server, store, guard, bearer, ghosts>>

\* Mutant: the loop sleeps whatever the tick did.
LookAway ==
  /\ at = "awake" /\ Goes("drowsy")
  /\ UNCHANGED <<clock, status, lock, server, store, guard, bearer, ghosts>>

Look ==
  /\ at = "awake" /\ Goes(IF lock THEN "drowsy" ELSE "store")
  /\ UNCHANGED <<clock, status, lock, server, store, guard, bearer, ghosts>>

Sleep ==
  /\ at = "drowsy" /\ Goes("asleep")
  /\ UNCHANGED <<clock, status, lock, server, store, guard, bearer, ghosts>>

\* Any interrupt wakes the processor.
Wake ==
  /\ at = "asleep" /\ Goes("awake")
  /\ UNCHANGED <<clock, status, lock, server, store, guard, bearer, ghosts>>

-----------------------------------------------------------------------------
Loop ==
  \/ \E t \in Tasks : Skip(t)
  \/ \E t \in {"send", "range"} : MoreToSend(t)
  \/ StoreBegins \/ StoreEnds
  \/ Prepare \/ PrepareSucceeds \/ Prepared \/ PrepareFails
  \/ StorePart \/ StoreRest
  \/ \E place \in {"retry", "cmd"} : SendEnds(place)
  \/ CmdEnds \/ RangeEnds
  \/ SyncAnswers \/ SyncFails \/ ReadPrev \/ ReadClock \/ MovePart \/ MoveRest
  \/ SetClock \/ SyncEnds
  \/ Pending \/ Close \/ Rest \/ Lock \/ Look \/ Sleep

Next == Tick \/ Reset \/ Loop \/ Wake

Spec == Init /\ [][Next]_vars

\* The clock goes on, and no task waits for ever (all of them have time-outs).
FairSpec == Spec /\ WF_vars(Tick \/ Reset) /\ WF_vars(Loop)

-----------------------------------------------------------------------------
Places == DOMAIN After \cup Setting \cup
          {"storing", "preparing", "prepared", "retry", "storedLow", "storedHigh",
           "synced", "pending", "rest", "lock", "awake", "drowsy", "asleep"}

TypeOK ==
  /\ acc \in [Jobs -> Int] /\ lag \in Int
  /\ late \in Int /\ old \in Int /\ diff \in Int /\ low \in 0 .. Base - 1
  /\ status \in [Tasks -> {"STOP", "READY", "RUNNING"}]
  /\ lock \in BOOLEAN /\ at \in Places /\ store \in 0 .. Period["send"]
  /\ guard \in 0 .. GuardLimit /\ ref \in -1 .. MaxRef /\ up \in BOOLEAN
  /\ busy \in Nat /\ gained \in Nat /\ twice \in BOOLEAN /\ shaken \in BOOLEAN

(***************************************************************************)
(* The tick resets the board only when a transmission has lasted for two   *)
(* of its periods, counted in ticks, less the seconds by which the clock   *)
(* was set forward meanwhile: dl_tick takes those for time that has passed,*)
(* so that one great step forward resets a board that has just begun to    *)
(* transmit.  If the clock is not set forward no healthy board is reset,   *)
(* whatever the other tasks and the retries do, although the clock is set  *)
(* back, the accumulators are compared as unsigned numbers and a tick may  *)
(* fall between any two of these steps.  Two things are excepted: the value*)
(* a tick sees between the two parts of a store may be too great by almost *)
(* Base; and a tick while dl_task_sync_time reads and moves g_timePrev and *)
(* sets the clock may find, or leave, a g_timePrev ahead of the clock, with*)
(* which that tick, or the next, makes a negative accumulator.             *)
(***************************************************************************)
LongTransmission == busy + 1 + gained + Gain > Long - (Base - 2)

ResetOnlyIfHung == [][Reset => LongTransmission \/ shaken \/ at \in Setting]_vars

(***************************************************************************)
(* A task that is ready gets its turn: no tick between the tests of the    *)
(* loop and its sleep is lost for good, so that no task stays ready for    *)
(* ever without one.                                                       *)
(***************************************************************************)
EveryRequestIsServed == \A t \in Tasks : []<>(Ready(t) \/ status[t] # "READY")

(***************************************************************************)
(* The station tries to send again and again, or resets: neither failures  *)
(* nor the clock being set back and forth keep it from it.                 *)
(***************************************************************************)
KeepsSending == []<><<Prepare \/ Reset>>_vars

(***************************************************************************)
(* Transmissions over HTTP find the bearer open.                           *)
(***************************************************************************)
BearerUpWhileSending == Ready("send") => up

(***************************************************************************)
(* The loop sleeps only when no user of the bearer is counted.             *)
(***************************************************************************)
BearerReleased == at = "asleep" /\ ~twice => ref <= 0
=============================================================================
