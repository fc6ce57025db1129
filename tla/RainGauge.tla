------------------------------ MODULE RainGauge ------------------------------
(***************************************************************************)
(* The pulse channels (pulse.c) with the rain gauges on them               *)
(* (pulse_raingauge.c).  The pin interrupts have the low level, the tick   *)
(* the middle or the high one (hal_rtc_impl.h): the tick takes the counts  *)
(* in the middle of a pin interrupt.  The two channels keep their flags in *)
(* one byte, sync, which is loaded, changed and stored again.              *)
(***************************************************************************)
EXTENDS Integers, FiniteSets

CONSTANTS Chans,    \* the pulse channels in use
          Second,   \* milliseconds of a second
          Bounce,   \* a pulse this close to the last one is a bounce
          Width,    \* numOfPulses wraps round here
          MaxNow    \* milliseconds of a behaviour

ASSUME ChansAssumption == IsFiniteSet(Chans)
ASSUME TimesAssumption == Second \in Nat \ {0, 1} /\ Bounce \in 1 .. Second /\ MaxNow \in Nat
ASSUME WidthAssumption == Width \in Nat \ {0, 1}

VARIABLES now,       \* the time, in milliseconds
          dirt,      \* the channels whose SYNCFLAG_DATAISDIRT is set
          num,       \* numOfPulses
          last,      \* lastPulseEpoch and lastPulseMillis, in milliseconds
          isr,       \* the pin interrupt: its channel, its place, what it has read
          reported,  \* the tips in the snapshots
          pulses,    \* the pulses that were no bounces,
          before,    \* and the time of the last of them
          struck,    \* ticks that came during a pin interrupt
          again,     \* tips reported by such ticks
          wrapped    \* channels whose count has wrapped round

ghosts == <<pulses, before, struck, again, wrapped>>
vars   == <<now, dirt, num, last, isr, reported, ghosts>>

Idle == [pc |-> "idle"]

Init ==
  /\ now = 0 /\ dirt = {} /\ isr = Idle
  /\ num = [c \in Chans |-> 0] /\ last = [c \in Chans |-> -Second]
  /\ reported = [c \in Chans |-> 0]
  /\ pulses = [c \in Chans |-> 0] /\ before = [c \in Chans |-> -Second]
  /\ struck = 0 /\ again = [c \in Chans |-> 0] /\ wrapped = {}

-----------------------------------------------------------------------------
(***************************************************************************)
(* A pin interrupt.  It waits for another one to end; of sync it changes   *)
(* its own flags, of which only DATAISDIRT is ever tested with effect.     *)
(***************************************************************************)
Raise(c) ==
  /\ isr = Idle
  /\ isr' = [pc |-> "flag", chan |-> c, sync |-> {}, at |-> 0, count |-> 0]
  /\ UNCHANGED <<now, dirt, num, last, reported, ghosts>>

At(pc) == isr # Idle /\ isr.pc = pc
Goes(pc) == isr' = [isr EXCEPT !.pc = pc]

\* sync |= flag, sync &= ~flag: the places before and after the load, and after the store.
AfterLoad  == [flag |-> "flagged", lock |-> "locked", dirty |-> "dirtied",
               unlock |-> "unlocked", leave |-> "left"]
AfterStore == [flagged |-> "clock", locked |-> "count", dirtied |-> "one",
               unlocked |-> "leave", left |-> "idle"]

Load ==
  /\ isr # Idle /\ isr.pc \in DOMAIN AfterLoad
  /\ isr' = [isr EXCEPT !.pc = AfterLoad[isr.pc], !.sync = dirt]
  /\ UNCHANGED <<now, dirt, num, last, reported, ghosts>>

\* What the store of sync leaves of the flags.
Stored(pc) == IF pc = "dirtied" THEN isr.sync \cup {isr.chan} ELSE isr.sync

Store ==
  /\ isr # Idle /\ isr.pc \in DOMAIN AfterStore
  /\ dirt' = Stored(isr.pc)
  /\ IF isr.pc = "left" THEN isr' = Idle ELSE Goes(AfterStore[isr.pc])
  /\ UNCHANGED <<now, num, last, reported, ghosts>>

Millis ==
  /\ At("clock")
  /\ isr' = [isr EXCEPT !.pc = "epoch", !.at = now % Second]
  /\ IF now - before[isr.chan] >= Bounce
     THEN /\ pulses' = [pulses EXCEPT ![isr.chan] = @ + 1]
          /\ before' = [before EXCEPT ![isr.chan] = now]
     ELSE UNCHANGED <<pulses, before>>
  /\ UNCHANGED <<now, dirt, num, last, reported, struck, again, wrapped>>

\* Mutant: the limit is off by one.
IsBounceOff(t) == t - last[isr.chan] \in 0 .. Bounce

\* tbounce is unsigned: a negative distance is a long one.
IsBounce(t) == t - last[isr.chan] \in 0 .. Bounce - 1

\* The second read after the millisecond of before.
Epoch ==
  /\ At("epoch")
  /\ LET t == (now - (now % Second)) + isr.at IN
     isr' = [isr EXCEPT !.at = t, !.pc = IF IsBounce(t) THEN "leave" ELSE "lock"]
  /\ UNCHANGED <<now, dirt, num, last, reported, ghosts>>

Count ==
  /\ At("count")
  /\ last' = [last EXCEPT ![isr.chan] = isr.at]
  /\ Goes(IF isr.chan \in dirt THEN "more" ELSE "dirty")
  /\ UNCHANGED <<now, dirt, num, reported, ghosts>>

One ==
  /\ At("one")
  /\ num' = [num EXCEPT ![isr.chan] = 1] /\ Goes("unlock")
  /\ UNCHANGED <<now, dirt, last, reported, ghosts>>

\* ++numOfPulses
More ==
  /\ At("more")
  /\ isr' = [isr EXCEPT !.pc = "add", !.count = num[isr.chan]]
  /\ UNCHANGED <<now, dirt, num, last, reported, ghosts>>

\* Mutant: the count does not wrap round.
AddWide ==
  /\ At("add")
  /\ num' = [num EXCEPT ![isr.chan] = isr.count + 1] /\ Goes("unlock")
  /\ UNCHANGED <<now, dirt, last, reported, ghosts>>

Add ==
  /\ At("add")
  /\ num' = [num EXCEPT ![isr.chan] = (isr.count + 1) % Width] /\ Goes("unlock")
  /\ wrapped' = IF isr.count + 1 = Width THEN wrapped \cup {isr.chan} ELSE wrapped
  /\ UNCHANGED <<now, dirt, last, reported, pulses, before, struck, again>>

-----------------------------------------------------------------------------
\* Mutant: the count is taken, and the flag stays.
TakeKeepsFlag ==
  /\ reported' = [c \in Chans |-> IF c \in dirt THEN reported[c] + num[c] ELSE reported[c]]
  /\ dirt' = dirt

\* dl_snapshot_make: of each rain gauge that is not empty the count is taken.
Take ==
  /\ reported' = [c \in Chans |-> IF c \in dirt THEN reported[c] + num[c] ELSE reported[c]]
  /\ dirt' = {}

\* Time goes on; with a new second comes the tick, which may take a snapshot.
\* A pin interrupt lasts microseconds: no other time passes in it.
Elapse(snapshot) ==
  /\ now < MaxNow
  /\ now' = now + 1
  /\ LET tick == now' % Second = 0
         hits == tick /\ isr # Idle IN
     /\ isr = Idle \/ tick
     /\ IF tick /\ snapshot THEN Take ELSE UNCHANGED <<reported, dirt>>
     /\ struck' = IF hits THEN struck + 1 ELSE struck
     /\ again' = [c \in Chans |-> IF hits /\ snapshot /\ c \in dirt THEN again[c] + num[c]
                                  ELSE again[c]]
  /\ UNCHANGED <<num, last, isr, pulses, before, wrapped>>

Interrupt == Load \/ Store \/ Millis \/ Epoch \/ Count \/ One \/ More \/ Add

Next ==
  \/ \E c \in Chans : Raise(c)
  \/ Interrupt
  \/ \E snapshot \in BOOLEAN : Elapse(snapshot)

Spec == Init /\ [][Next]_vars

-----------------------------------------------------------------------------
Places == DOMAIN AfterLoad \cup DOMAIN AfterStore
            \cup {"clock", "epoch", "count", "one", "more", "add"}

TypeOK ==
  /\ \/ isr = Idle
     \/ isr \in [pc : Places, chan : Chans, sync : SUBSET Chans, at : Int, count : 0 .. Width - 1]
  /\ now \in 0 .. MaxNow /\ dirt \subseteq Chans /\ wrapped \subseteq Chans
  /\ num \in [Chans -> 0 .. Width - 1] /\ struck \in Nat
  /\ {reported, pulses, again} \subseteq [Chans -> Nat]
  /\ {last, before} \subseteq [Chans -> Int]

Pending(c) == IF c \in dirt THEN num[c] ELSE 0
Error(c) == reported[c] + Pending(c) - pulses[c]

(***************************************************************************)
(* Each pulse that is no bounce is reported once, whichever snapshot takes *)
(* it, unless a tick comes during a pin interrupt or more pulses come      *)
(* between two snapshots than numOfPulses can count.                       *)
(***************************************************************************)
CountedOnce ==
  isr = Idle /\ struck = 0 => \A c \in Chans : c \in wrapped \/ Error(c) = 0

(***************************************************************************)
(* A tick during a pin interrupt of either channel may have a pulse lost,  *)
(* a bounce counted, or what it reports reported again, and no more: the   *)
(* error does not grow afterwards.                                         *)
(***************************************************************************)
DamageIsBounded ==
  isr = Idle => \A c \in Chans \ wrapped : Error(c) \in -struck .. 2 * struck + again[c]
=============================================================================
